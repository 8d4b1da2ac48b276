--------------------------- MODULE ElectionProofs ---------------------------
(***************************************************************************)
(* Proof that a node of a Redis Cluster votes at most once in an epoch,    *)
(* for any nodes, slots, links, failures and administrator's orders.       *)
(*                                                                         *)
(* Everything a node does to its table either leaves lastVote alone and    *)
(* does not lower cur, or casts a vote in the epoch cur, above lastVote.   *)
(* A node's votes are therefore in epochs up to its lastVote, which is     *)
(* never above cur, and the next one is in a later epoch.                  *)
(***************************************************************************)
EXTENDS ClusterConfig, WellFoundedInduction, TLAPS

\* Most leaves are first-order reasoning; those that compute ask for SMT.
USE Zenon

-----------------------------------------------------------------------------
(* The tables.                                                             *)

Fields == {"cur", "lastVote", "epoch", "slaveof", "owner", "importing", "migrating",
           "keys", "mf"}

\* A table has its fields, and its last vote was not in an epoch to come.
IsTable(x) ==
  /\ x = [f \in Fields |-> x[f]]
  /\ x.cur \in Nat /\ x.lastVote \in Nat /\ x.lastVote <= x.cur

\* The table y is x after a step that is no vote.
Follows(x, y) == IsTable(y) /\ x.cur <= y.cur /\ y.lastVote = x.lastVote

\* A step that changes another field than the epoch and the last vote.
LEMMA OtherField == ASSUME NEW x, IsTable(x), NEW f \in Fields \ {"cur", "lastVote"}, NEW v
                    PROVE  Follows(x, [x EXCEPT ![f] = v])
<1> DEFINE y == [x EXCEPT ![f] = v]
<1>1. y = [g \in Fields |-> y[g]] BY SMT DEF IsTable, Fields
<1>2. y.cur = x.cur /\ y.lastVote = x.lastVote BY SMT DEF IsTable, Fields
<1> QED BY <1>1, <1>2, SMT DEF IsTable, Follows

\* A step that takes a later epoch.
LEMMA LaterEpoch == ASSUME NEW x, IsTable(x), NEW c \in Nat, x.cur <= c
                    PROVE  Follows(x, [x EXCEPT !.cur = c])
<1> DEFINE y == [x EXCEPT !.cur = c]
<1>1. y = [g \in Fields |-> y[g]] BY SMT DEF IsTable, Fields
<1>2. y.cur = c /\ y.lastVote = x.lastVote BY SMT DEF IsTable, Fields
<1> QED BY <1>1, <1>2, SMT DEF IsTable, Follows

LEMMA FollowsItself == ASSUME NEW x, IsTable(x) PROVE Follows(x, x)
BY SMT DEF IsTable, Follows

LEMMA FollowsTable == ASSUME NEW x, NEW y, Follows(x, y) PROVE IsTable(y)
BY DEF Follows

LEMMA FollowsOn == ASSUME NEW x, NEW y, NEW z, IsTable(x), Follows(x, y), Follows(y, z)
                   PROVE  Follows(x, z)
BY SMT DEF IsTable, Follows

\* The greater one of two numbers.
LEMMA MaxOfTwo == ASSUME NEW a \in Nat, NEW b \in Nat
                  PROVE  Max({a, b}) \in Nat /\ a <= Max({a, b})
<1> DEFINE m == IF a >= b THEN a ELSE b
<1>1. m \in {a, b} /\ \A c \in {a, b} : m >= c BY SMT
<1>2. Max({a, b}) \in {a, b} /\ \A c \in {a, b} : Max({a, b}) >= c
  BY <1>1 DEF Max
<1> QED BY <1>2, SMT

LEMMA OtherNames ==
  /\ "epoch" \in Fields \ {"cur", "lastVote"} /\ "slaveof" \in Fields \ {"cur", "lastVote"}
  /\ "owner" \in Fields \ {"cur", "lastVote"} /\ "importing" \in Fields \ {"cur", "lastVote"}
  /\ "migrating" \in Fields \ {"cur", "lastVote"} /\ "keys" \in Fields \ {"cur", "lastVote"}
  /\ "mf" \in Fields \ {"cur", "lastVote"}
BY SMT DEF Fields

-----------------------------------------------------------------------------
(* What the functions of ClusterTable do to a table.                       *)

LEMMA SeeFollows == ASSUME NEW x, IsTable(x), NEW h, h.cur \in Nat
                    PROVE  Follows(x, SeeEpochs(x, h))
<1> DEFINE y == [x EXCEPT !.cur = Max({x.cur, h.cur})]
<1>1. Follows(x, y) BY LaterEpoch, MaxOfTwo DEF IsTable
<1>2. Follows(y, SeeEpochs(x, h)) BY <1>1, OtherField, OtherNames DEF Follows, SeeEpochs
<1> QED BY <1>1, <1>2, FollowsOn

\* A new epoch that no election gave.
LEMMA NewEpochFollows == ASSUME NEW x, IsTable(x), NEW n
  PROVE  Follows(x, [x EXCEPT !.cur = @ + 1, !.epoch[n] = x.cur + 1])
<1> DEFINE y == [x EXCEPT !.cur = x.cur + 1]
<1>1. x.cur + 1 \in Nat /\ x.cur <= x.cur + 1 BY SMT DEF IsTable
<1>2. Follows(x, y) BY <1>1, LaterEpoch
<1>3. Follows(y, [x EXCEPT !.cur = @ + 1, !.epoch[n] = x.cur + 1])
  BY <1>2, OtherField, OtherNames DEF Follows
<1> QED BY <1>2, <1>3, FollowsOn

LEMMA BumpFollows == ASSUME NEW x, IsTable(x), NEW n
  PROVE  /\ Follows(x, clusterBumpConfigEpochWithoutConsensus(x, n))
         /\ \A m : Follows(x, clusterHandleConfigEpochCollision(x, n, m))
BY NewEpochFollows, FollowsItself
   DEF clusterBumpConfigEpochWithoutConsensus, clusterHandleConfigEpochCollision

LEMMA SetFollows == ASSUME NEW x, IsTable(x)
  PROVE  /\ \A m : Follows(x, clusterSetNodeAsMaster(x, m))
         /\ \A m : Follows(x, clusterDelNodeSlots(x, m))
         /\ \A m, k : Follows(x, clusterAddSlot(x, m, k))
         /\ \A k : Follows(x, clusterDelSlot(x, k))
         /\ Follows(x, resetManualFailover(x))
BY OtherField, OtherNames, FollowsItself DEF clusterSetNodeAsMaster, clusterDelNodeSlots,
   clusterAddSlot, clusterDelSlot, resetManualFailover

LEMMA CloseFollows == ASSUME NEW x, IsTable(x) PROVE Follows(x, clusterCloseAllSlots(x))
<1> DEFINE y == [x EXCEPT !.importing = {}]
<1>1. Follows(x, y) BY OtherField, OtherNames
<1>2. Follows(y, clusterCloseAllSlots(x))
  BY <1>1, OtherField, OtherNames DEF Follows, clusterCloseAllSlots
<1> QED BY <1>1, <1>2, FollowsOn

LEMMA SetMasterFollows == ASSUME NEW x, IsTable(x), NEW n, NEW m
                          PROVE  Follows(x, clusterSetMaster(x, n, m))
<1> DEFINE y == IF nodeIsMaster(x, n) THEN clusterCloseAllSlots(x) ELSE x
           z == [y EXCEPT !.slaveof[n] = m]
<1>1. Follows(x, y) BY CloseFollows, FollowsItself
<1>2. IsTable(y) BY <1>1 DEF Follows
<1> HIDE DEF y
<1>3. Follows(y, z) BY <1>2, OtherField, OtherNames
<1>4. IsTable(z) BY <1>3 DEF Follows
<1>5. Follows(z, resetManualFailover(z)) BY <1>4, SetFollows
<1>6. clusterSetMaster(x, n, m) = resetManualFailover(z) BY DEF clusterSetMaster, y
<1> HIDE DEF z
<1> QED BY <1>1, <1>2, <1>3, <1>4, <1>5, <1>6, FollowsOn

LEMMA SlotsFollow == ASSUME NEW x, IsTable(x), NEW n, NEW m, NEW e, NEW slots
  PROVE  Follows(x, clusterUpdateSlotsConfigWith(x, n, m, e, slots))
<1> DEFINE u == clusterUpdateSlotsConfigWith(x, n, m, e, slots)
           Owned(o) == [x EXCEPT !.owner = o]
<1>1. \A o : Follows(x, Owned(o)) BY OtherField, OtherNames
<1>2. \A o : IsTable(Owned(o)) BY <1>1 DEF Follows
<1>3. \/ u = x
      \/ \E o : u = clusterSetMaster(Owned(o), n, m)
      \/ \E o, k : u = [Owned(o) EXCEPT !.keys = k]
  BY DEF clusterUpdateSlotsConfigWith
<1> HIDE DEF u, Owned
<1>4. CASE u = x BY <1>4, FollowsItself DEF u
<1>5. CASE \E o : u = clusterSetMaster(Owned(o), n, m)
  <2>1. PICK o : u = clusterSetMaster(Owned(o), n, m) BY <1>5
  <2> QED BY <2>1, <1>1, <1>2, SetMasterFollows, FollowsOn DEF u
<1>6. CASE \E o, k : u = [Owned(o) EXCEPT !.keys = k]
  <2>1. PICK o, k : u = [Owned(o) EXCEPT !.keys = k] BY <1>6
  <2>2. Follows(Owned(o), u) BY <2>1, <1>2, OtherField, OtherNames
  <2> QED BY <2>2, <1>1, FollowsOn DEF u
<1> QED BY <1>3, <1>4, <1>5, <1>6

LEMMA SwitchFollows == ASSUME NEW x, IsTable(x), NEW h PROVE Follows(x, RoleSwitch(x, h))
<1>1. CASE h.slaveof = None BY <1>1, SetFollows DEF RoleSwitch
<1>2. CASE h.slaveof # None
  <2> DEFINE y == IF nodeIsMaster(x, h.from) THEN clusterDelNodeSlots(x, h.from) ELSE x
  <2>1. Follows(x, y) BY SetFollows, FollowsItself
  <2>2. RoleSwitch(x, h) = [y EXCEPT !.slaveof[h.from] = h.slaveof] BY <1>2 DEF RoleSwitch
  <2> HIDE DEF y
  <2>3. IsTable(y) BY <2>1, FollowsTable
  <2>4. Follows(y, [y EXCEPT !.slaveof[h.from] = h.slaveof]) BY <2>3, OtherField, OtherNames
  <2> QED BY <2>1, <2>2, <2>4, FollowsOn
<1> QED BY <1>1, <1>2

LEMMA ClaimFollows == ASSUME NEW x, IsTable(x), NEW n, NEW h
                      PROVE  Follows(x, ClaimSlots(x, n, h))
BY SlotsFollow, FollowsItself DEF ClaimSlots

\* The table with which the packet is answered, and the one it leaves.
LEMMA ConfigFollows == ASSUME NEW x, IsTable(x), NEW n, NEW h, h.cur \in Nat
  PROVE  /\ Follows(x, ClaimSlots(RoleSwitch(SeeEpochs(x, h), h), n, h))
         /\ Follows(x, ConfigOf(x, n, h))
<1> DEFINE y == SeeEpochs(x, h)
           r == RoleSwitch(y, h)
           z == ClaimSlots(r, n, h)
           c == clusterHandleConfigEpochCollision(z, n, h.from)
<1>1. Follows(x, y) /\ IsTable(y) BY SeeFollows DEF Follows
<1>2. Follows(x, r) /\ IsTable(r) BY <1>1, SwitchFollows, FollowsOn DEF Follows
<1>3. Follows(x, z) /\ IsTable(z)
  <2>1. Follows(r, z) BY <1>2, ClaimFollows
  <2> QED BY <1>2, <2>1, FollowsTable, FollowsOn, ZenonT(60)
<1>4. Follows(x, c) BY <1>3, BumpFollows, FollowsOn
<1>5. ConfigOf(x, n, h) \in {c, z} BY DEF ConfigOf
<1> QED BY <1>3, <1>4, <1>5

LEMMA UpdateFollows == ASSUME NEW x, IsTable(x), NEW n, NEW h, h.cur \in Nat
                       PROVE  Follows(x, ApplyUpdate(x, n, h))
<1> DEFINE m == h.about
           y == SeeEpochs(x, h)
           a == [y EXCEPT !.slaveof[m] = None]
           b == [y EXCEPT !.slaveof[m] = None, !.epoch[m] = h.aboutEpoch]
           c == clusterUpdateSlotsConfigWith(b, n, m, h.aboutEpoch, h.aboutSlots)
<1>1. Follows(x, y) /\ IsTable(y) BY SeeFollows DEF Follows
<1>2. ApplyUpdate(x, n, h) \in {y, c} BY DEF ApplyUpdate
<1> HIDE DEF y
<1>3. Follows(x, a) /\ IsTable(a)
  <2>1. Follows(y, a) BY <1>1, OtherField, OtherNames
  <2> HIDE DEF a
  <2> QED BY <1>1, <2>1, FollowsTable, FollowsOn
<1>4. Follows(a, b) BY <1>3, OtherField, OtherNames
<1> HIDE DEF a, b
<1>5. Follows(x, b) /\ IsTable(b) BY <1>3, <1>4, FollowsTable, FollowsOn
<1>6. Follows(x, c) BY <1>5, SlotsFollow, FollowsOn
<1> QED BY <1>1, <1>2, <1>6

\* Every header carries the current epoch of its sender.
LEMMA HeaderEpoch == ASSUME NEW x, NEW n, NEW t
                     PROVE  clusterBuildMessageHdr(x, n, t).cur = x.cur
BY SMT DEF clusterBuildMessageHdr

LEMMA UpdateEpoch == ASSUME NEW x, IsTable(x), NEW n, NEW h, h.cur \in Nat
                     PROVE  \A u \in UpdateFor(x, n, h) : u.cur \in Nat
<1> DEFINE z == ClaimSlots(RoleSwitch(SeeEpochs(x, h), h), n, h)
<1>1. z.cur \in Nat BY ConfigFollows DEF Follows, IsTable
<1>2. UpdateFor(x, n, h) \subseteq {clusterSendUpdate(z, n, h)} BY DEF UpdateFor
<1> HIDE DEF z
<1>3. clusterSendUpdate(z, n, h).cur = z.cur BY SMT DEF clusterSendUpdate, clusterBuildMessageHdr
<1> QED BY <1>1, <1>2, <1>3

\* The node takes the place of its master.
LEMMA ReplaceFollows == ASSUME NEW x, IsTable(x), NEW n, NEW e
                        PROVE  Follows(x, clusterFailoverReplaceYourMaster(x, n, e))
<1> DEFINE a == clusterSetNodeAsMaster(x, n)
           o == [k \in Slots |-> IF a.owner[k] = x.slaveof[n] THEN n ELSE a.owner[k]]
           b == [a EXCEPT !.owner = o]
           c == [b EXCEPT !.epoch[n] = Max({a.epoch[n], e})]
<1>1. Follows(x, a) /\ IsTable(a) BY SetFollows DEF Follows
<1>2. clusterFailoverReplaceYourMaster(x, n, e) = resetManualFailover(c)
  BY DEF clusterFailoverReplaceYourMaster
<1> HIDE DEF a
<1>3. Follows(x, b) /\ IsTable(b)
  <2>1. Follows(a, b) BY <1>1, OtherField, OtherNames
  <2> HIDE DEF b
  <2> QED BY <1>1, <2>1, FollowsTable, FollowsOn
<1> HIDE DEF b
<1>4. Follows(x, c) /\ IsTable(c)
  <2>1. Follows(b, c) BY <1>3, OtherField, OtherNames
  <2> HIDE DEF c
  <2> QED BY <1>3, <2>1, FollowsTable, FollowsOn
<1> HIDE DEF c
<1> QED BY <1>2, <1>4, SetFollows, FollowsOn

-----------------------------------------------------------------------------
(* The inductive invariant.                                                *)

\* What the code fixes of the constants: the epochs of the configuration file are
\* numbers, and the nodes that run are nodes.
ConfigAssumption ==
  /\ Nodes # {} /\ Live \subseteq Nodes
  /\ MaxEpoch \in Nat /\ InitEpoch \in [Nodes -> 0 .. MaxEpoch]

\* The epoch of every header is a number.
Numbered(ms) == \A p \in ms : p.hdr.cur \in Nat

Tables(t) == t = [n \in Nodes |-> t[n]] /\ \A n \in Nodes : IsTable(t[n])

\* A vote is one of a node, in an epoch up to the last one it voted in.
Recorded(vs, t) == \A v \in vs :
  v = <<v[1], v[2], v[3]>> /\ v[1] \in Nat /\ v[3] \in Nodes /\ v[1] <= t[v[3]].lastVote

VotesInv == Tables(table) /\ Numbered(net) /\ Recorded(votes, table) /\ OneVotePerEpoch

\* There is a greatest one among the epochs of the configuration file.
LEMMA GreatestEpoch == ASSUME ConfigAssumption
                       PROVE  Max({InitEpoch[m] : m \in Nodes}) \in Nat
<1> DEFINE E == {InitEpoch[m] : m \in Nodes}
           D == {d \in Nat : MaxEpoch - d \in E}
<1>1. E \subseteq 0 .. MaxEpoch /\ E # {} BY SMT DEF ConfigAssumption
<1>2. \A e \in E : MaxEpoch - e \in D BY <1>1, SMT DEF ConfigAssumption
<1>3. D # {} /\ D \subseteq Nat BY <1>1, <1>2
<1>4. PICK d \in D : \A k \in D : <<k, d>> \notin OpToRel(<, Nat)
  BY <1>3, WFMin, NatLessThanWellFounded
<1>5. \A k \in D : ~ (k < d) BY <1>3, <1>4 DEF OpToRel
<1> DEFINE g == MaxEpoch - d
<1>6. g \in E /\ \A e \in E : g >= e
  <2> HIDE DEF E
  <2>1. g \in E BY <1>4
  <2>2. ASSUME NEW e \in E PROVE g >= e
    <3>1. MaxEpoch - e \in D BY <1>2
    <3>2. ~ (MaxEpoch - e < d) BY <1>5, <3>1
    <3>3. e \in 0 .. MaxEpoch /\ d \in Nat BY <1>1, <1>4
    <3> HIDE DEF D
    <3> QED BY <3>2, <3>3, SMT DEF ConfigAssumption
  <2> QED BY <2>1, <2>2
<1> HIDE DEF E, g
<1>7. Max(E) \in E BY <1>6 DEF Max
<1> QED BY <1>1, <1>7, SMT DEF E

Row(a, b, c, d, e, g, h, i, j) ==
  [cur |-> a, lastVote |-> b, epoch |-> c, slaveof |-> d, owner |-> e,
   importing |-> g, migrating |-> h, keys |-> i, mf |-> j]

LEMMA NineFields ==
  ASSUME NEW a, NEW b, NEW c, NEW d, NEW e, NEW g, NEW h, NEW i, NEW j
  PROVE  Row(a, b, c, d, e, g, h, i, j) = [f \in Fields |-> Row(a, b, c, d, e, g, h, i, j)[f]]
BY SMT DEF Fields, Row

LEMMA VotesInit == ASSUME ConfigAssumption PROVE Init => VotesInv
<1> SUFFICES ASSUME Init PROVE VotesInv OBVIOUS
<1> DEFINE c == Max({InitEpoch[m] : m \in Nodes})
           x == Row(c, 0, InitEpoch, InitMaster, InitOwner, {}, {}, {}, FALSE)
<1>1. c \in Nat BY GreatestEpoch
<1>2. table = [n \in Nodes |-> x] BY DEF Init, Row
<1> HIDE DEF c
<1>3. IsTable(x)
  <2>1. x = [f \in Fields |-> x[f]] BY NineFields
  <2>2. x.cur = c /\ x.lastVote = 0 BY SMT DEF Row
  <2> HIDE DEF x
  <2> QED BY <1>1, <2>1, <2>2, SMT DEF IsTable
<1> HIDE DEF x
<1>4. Tables(table) BY <1>2, <1>3 DEF Tables
<1>5. net = {} /\ votes = {} BY DEF Init
<1> QED BY <1>4, <1>5 DEF VotesInv, Numbered, Recorded, OneVotePerEpoch

-----------------------------------------------------------------------------
(* The steps.                                                              *)

\* A step that leaves the tables alone and sends sound packets.
LEMMA SendKeeps == ASSUME VotesInv, UNCHANGED <<table, votes>>, Numbered(net')
                   PROVE  VotesInv'
BY DEF VotesInv, Tables, Recorded, OneVotePerEpoch

\* A step of one node that is no vote.
LEMMA QuietKeeps ==
  ASSUME VotesInv, NEW n \in Nodes, NEW x, Follows(table[n], x),
         table' = [table EXCEPT ![n] = x], votes' = votes, Numbered(net')
  PROVE  VotesInv'
<1>1. \A m \in Nodes : table'[m] = IF m = n THEN x ELSE table[m] BY DEF VotesInv, Tables
<1>2. table' = [m \in Nodes |-> table'[m]] BY DEF VotesInv, Tables
<1>3. Tables(table') BY <1>1, <1>2 DEF VotesInv, Tables, Follows
<1>4. \A m \in Nodes : table'[m].lastVote = table[m].lastVote BY <1>1 DEF Follows
<1>5. Recorded(votes', table') BY <1>4 DEF VotesInv, Recorded
<1>6. OneVotePerEpoch' BY DEF VotesInv, OneVotePerEpoch
<1> QED BY <1>3, <1>5, <1>6 DEF VotesInv

LEMMA TableOf == ASSUME VotesInv, NEW n \in Nodes
                 PROVE  IsTable(table[n]) /\ table[n].cur \in Nat
BY DEF VotesInv, Tables, IsTable

\* A header built from a table that follows one of a node.
LEMMA HeaderOf == ASSUME VotesInv, NEW n \in Nodes, NEW x, Follows(table[n], x), NEW m, NEW t
                  PROVE  clusterBuildMessageHdr(x, m, t).cur \in Nat
BY HeaderEpoch DEF Follows, IsTable

LEMMA AddressedTo == ASSUME NEW h, NEW m PROVE Addressed(h, m).hdr = h
BY SMT DEF Addressed

\* Packets under way and new ones.
LEMMA MorePackets ==
  ASSUME NEW ms, Numbered(ms), NEW h, h.cur \in Nat, NEW to
  PROVE  Numbered(ms \cup {Addressed(h, m) : m \in to})
BY AddressedTo DEF Numbered

LEMMA BroadcastSound ==
  ASSUME Numbered(net), NEW n, NEW h, h.cur \in Nat, clusterBroadcastMessage(n, h, net)
  PROVE  Numbered(net')
<1>1. PICK linked : net' = net \cup {Addressed(h, m) : m \in linked}
  BY DEF clusterBroadcastMessage
<1>2. Numbered(net \cup {Addressed(h, m) : m \in linked}) BY MorePackets
<1> QED BY <1>1, <1>2

LEMMA Replies == ASSUME NEW hs, \A u \in hs : u.cur \in Nat, NEW m
                 PROVE  Numbered({Addressed(u, m) : u \in hs})
<1> SUFFICES ASSUME NEW p \in {Addressed(u, m) : u \in hs} PROVE p.hdr.cur \in Nat
  BY DEF Numbered
<1>1. PICK u \in hs : p = Addressed(u, m) OBVIOUS
<1> QED BY <1>1, AddressedTo

\* What Receive does if the packet is no request for a vote.
LEMMA ReceiveKeeps ==
  ASSUME VotesInv, NEW n \in Nodes, NEW p, NEW x, Follows(table[n], x), NEW answers,
         Numbered(answers), Receive(p, n, x, answers), votes' = votes
  PROVE  VotesInv'
<1>1. Numbered(net') BY DEF Receive, VotesInv, Numbered
<1> QED BY <1>1, QuietKeeps DEF Receive

LEMMA PingKeeps == ASSUME VotesInv, NEW n \in Nodes, NEW p \in net, ReceivePing(n, p)
                   PROVE  VotesInv'
<1> DEFINE x == table[n]
           h == p.hdr
           pong == clusterBuildMessageHdr(SeeEpochs(x, h), n, "PONG")
           All == {pong} \cup UpdateFor(x, n, h)
<1>1. h.cur \in Nat /\ IsTable(x) BY TableOf DEF VotesInv, Numbered
<1>2. pong.cur \in Nat BY <1>1, SeeFollows, HeaderOf
<1>3. \A u \in All : u.cur \in Nat BY <1>1, <1>2, UpdateEpoch
<1>4. votes' = votes BY DEF ReceivePing
<1>5. PICK out \in SUBSET All :
        Receive(p, n, ConfigOf(x, n, h), {Addressed(u, h.from) : u \in out})
  <2>1. PICK answered, updated \in Through(n, h.from) :
          LET out == (IF h.type = "PING" /\ answered THEN {pong} ELSE {})
                       \cup (IF updated THEN UpdateFor(x, n, h) ELSE {})
          IN Receive(p, n, ConfigOf(x, n, h), {Addressed(u, h.from) : u \in out})
    BY DEF ReceivePing
  <2> DEFINE out == (IF h.type = "PING" /\ answered THEN {pong} ELSE {})
                      \cup (IF updated THEN UpdateFor(x, n, h) ELSE {})
  <2>2. out \in SUBSET All OBVIOUS
  <2>3. Receive(p, n, ConfigOf(x, n, h), {Addressed(u, h.from) : u \in out}) BY <2>1
  <2> HIDE DEF out, All, pong
  <2> QED BY <2>2, <2>3
<1> HIDE DEF All
<1>6. Numbered({Addressed(u, h.from) : u \in out}) BY <1>3, <1>5, Replies
<1>7. Follows(x, ConfigOf(x, n, h)) BY <1>1, ConfigFollows
<1> QED BY <1>4, <1>5, <1>6, <1>7, ReceiveKeeps

LEMMA UpdateKeeps == ASSUME VotesInv, NEW n \in Nodes, NEW p \in net, ReceiveUpdate(n, p)
                     PROVE  VotesInv'
<1>1. p.hdr.cur \in Nat /\ IsTable(table[n]) BY TableOf DEF VotesInv, Numbered
<1>2. Follows(table[n], ApplyUpdate(table[n], n, p.hdr)) BY <1>1, UpdateFollows
<1>3. Numbered({}) BY DEF Numbered
<1> QED BY <1>2, <1>3, ReceiveKeeps DEF ReceiveUpdate

LEMMA AckKeeps == ASSUME VotesInv, NEW n \in Nodes, NEW p \in net, ReceiveAuthAck(n, p)
                  PROVE  VotesInv'
<1>1. p.hdr.cur \in Nat /\ IsTable(table[n]) BY TableOf DEF VotesInv, Numbered
<1>2. Follows(table[n], SeeEpochs(table[n], p.hdr)) BY <1>1, SeeFollows
<1>3. Numbered({}) BY DEF Numbered
<1>4. Receive(p, n, SeeEpochs(table[n], p.hdr), {}) /\ votes' = votes BY DEF ReceiveAuthAck
<1> QED BY <1>2, <1>3, <1>4, ReceiveKeeps

\* The vote: it is above every earlier vote of the node, as the node voted in no
\* epoch above lastVote, and lastVote is not cur.
LEMMA RequestKeeps ==
  ASSUME VotesInv, NEW n \in Nodes, NEW p \in net, ReceiveAuthRequest(n, p)
  PROVE  VotesInv'
<1> DEFINE x == SeeEpochs(table[n], p.hdr)
           y == [x EXCEPT !.lastVote = x.cur]
           ack == Addressed(clusterBuildMessageHdr(y, n, "AUTH_ACK"), p.hdr.from)
           v == <<x.cur, p.hdr.from, n>>
<1>1. p.hdr.cur \in Nat /\ IsTable(table[n]) BY TableOf DEF VotesInv, Numbered
<1>2. Follows(table[n], x) BY <1>1, SeeFollows
<1>3. CASE ~ clusterSendFailoverAuthIfNeeded(x, n, p.hdr)
  <2>1. Receive(p, n, x, {}) /\ votes' = votes BY <1>3 DEF ReceiveAuthRequest
  <2>2. Numbered({}) BY DEF Numbered
  <2> HIDE DEF x
  <2> QED BY <1>2, <2>1, <2>2, ReceiveKeeps
<1>4. CASE clusterSendFailoverAuthIfNeeded(x, n, p.hdr)
  <2>1. /\ votes' = votes \cup {v}
        /\ \E linked \in Through(n, p.hdr.from) : Receive(p, n, y, IF linked THEN {ack} ELSE {})
    BY <1>4 DEF ReceiveAuthRequest
  <2>2. x.lastVote # x.cur BY <1>4 DEF clusterSendFailoverAuthIfNeeded
  <2>3. IsTable(x) /\ x.lastVote = table[n].lastVote BY <1>2 DEF Follows
  <2> HIDE DEF x
  <2>4. y = [f \in Fields |-> y[f]] /\ y.cur = x.cur /\ y.lastVote = x.cur
    BY <2>3, SMT DEF IsTable, Fields
  <2>5. IsTable(y) BY <2>3, <2>4, SMT DEF IsTable
  <2>6. x.cur \in Nat /\ table[n].lastVote < x.cur BY <2>2, <2>3, SMT DEF IsTable
  <2>7. PICK answers \in {{ack}, {}} : Receive(p, n, y, answers) BY <2>1
  <2>8. Numbered(answers)
    <3>1. clusterBuildMessageHdr(y, n, "AUTH_ACK").cur \in Nat BY <2>4, <2>6, HeaderEpoch, ZenonT(60)
    <3>2. ack.hdr.cur \in Nat BY <3>1, AddressedTo
    <3> HIDE DEF ack
    <3> QED BY <2>7, <3>2 DEF Numbered
  <2>9. Numbered(net') BY <2>7, <2>8 DEF Receive, VotesInv, Numbered
  <2>10. table' = [table EXCEPT ![n] = y] BY <2>7 DEF Receive
  <2> HIDE DEF y
  <2>11. \A m \in Nodes : table'[m] = IF m = n THEN y ELSE table[m]
    BY <2>10 DEF VotesInv, Tables
  <2>12. Tables(table')
    <3>1. table' = [m \in Nodes |-> table'[m]] BY <2>10 DEF VotesInv, Tables
    <3> QED BY <2>5, <2>11, <3>1 DEF VotesInv, Tables
  <2>13. v[1] = x.cur /\ v[3] = n /\ v = <<v[1], v[2], v[3]>> BY SMT
  <2> HIDE DEF v
  <2>14. ASSUME NEW w \in votes PROVE w[3] = n => w[1] < x.cur
    <3>1. w[1] \in Nat /\ w[3] \in Nodes /\ w[1] <= table[w[3]].lastVote
      BY DEF VotesInv, Recorded
    <3>2. table[n].lastVote \in Nat BY <1>1 DEF IsTable
    <3> QED BY <2>6, <3>1, <3>2, SMT
  <2>15. OneVotePerEpoch'
    <3> SUFFICES ASSUME NEW a \in votes', NEW b \in votes', a[1] = b[1], a[3] = b[3]
                 PROVE  a = b
      BY DEF OneVotePerEpoch
    <3>1. ~ (x.cur < x.cur) BY <2>6, SMT
    <3> QED BY <2>1, <2>13, <2>14, <3>1 DEF VotesInv, OneVotePerEpoch
  <2>16. Recorded(votes', table')
    <3> SUFFICES ASSUME NEW w \in votes'
                 PROVE  /\ w = <<w[1], w[2], w[3]>> /\ w[1] \in Nat /\ w[3] \in Nodes
                        /\ w[1] <= table'[w[3]].lastVote
      BY DEF Recorded
    <3>1. CASE w = v
      <4>1. table'[n].lastVote = x.cur BY <2>4, <2>11
      <4>2. x.cur <= x.cur BY <2>6, SMT
      <4> QED BY <3>1, <4>1, <4>2, <2>6, <2>13
    <3>2. CASE w \in votes /\ w[3] # n BY <3>2, <2>11 DEF VotesInv, Recorded
    <3>3. CASE w \in votes /\ w[3] = n
      <4>1. w = <<w[1], w[2], w[3]>> /\ w[1] \in Nat BY <3>3 DEF VotesInv, Recorded
      <4>2. w[1] < x.cur BY <3>3, <2>14
      <4>3. w[1] <= x.cur BY <4>1, <4>2, <2>6, SMT
      <4>4. table'[n].lastVote = x.cur BY <2>4, <2>11
      <4> QED BY <3>3, <4>1, <4>3, <4>4
    <3> QED BY <2>1, <3>1, <3>2, <3>3
  <2> QED BY <2>9, <2>12, <2>15, <2>16 DEF VotesInv
<1> QED BY <1>3, <1>4

LEMMA SetUpKeeps == ASSUME VotesInv, NEW n \in Nodes, SetUpElection(n) PROVE VotesInv'
<1> DEFINE h == clusterBuildMessageHdr(table[n], n, "PONG")
<1>1. h.cur \in Nat
  <2>1. table[n].cur \in Nat BY TableOf
  <2>2. h.cur = table[n].cur BY HeaderEpoch
  <2> QED BY <2>1, <2>2
<1>2. PICK linked : net' = net \cup {Addressed(h, m) : m \in linked} BY DEF SetUpElection
<1> HIDE DEF h
<1>3. Numbered(net \cup {Addressed(h, m) : m \in linked}) BY <1>1, MorePackets DEF VotesInv
<1>4. UNCHANGED <<table, votes>> BY DEF SetUpElection
<1> QED BY <1>2, <1>3, <1>4, SendKeeps

LEMMA AskKeeps == ASSUME VotesInv, NEW n \in Nodes, AskForVotes(n) PROVE VotesInv'
<1> DEFINE x == [table[n] EXCEPT !.cur = table[n].cur + 1]
           h == clusterBuildMessageHdr(x, n, "AUTH_REQUEST")
<1>1. IsTable(table[n]) BY TableOf
<1>2. table[n].cur + 1 \in Nat /\ table[n].cur <= table[n].cur + 1 BY <1>1, SMT DEF IsTable
<1>3. Follows(table[n], x) BY <1>1, <1>2, LaterEpoch
<1>4. /\ table' = [table EXCEPT ![n] = x] /\ clusterBroadcastMessage(n, h, net)
      /\ votes' = votes
  BY DEF AskForVotes
<1>5. Numbered(net)  BY DEF VotesInv
<1> HIDE DEF x
<1>6. h.cur \in Nat BY <1>3, HeaderOf
<1> HIDE DEF h
<1>7. Numbered(net') BY <1>4, <1>5, <1>6, BroadcastSound
<1> QED BY <1>3, <1>4, <1>7, QuietKeeps

LEMMA WinKeeps == ASSUME VotesInv, NEW n \in Nodes, WinElection(n) PROVE VotesInv'
<1> DEFINE x == clusterFailoverReplaceYourMaster(table[n], n, auth[n].epoch)
           h == clusterBuildMessageHdr(x, n, "PONG")
<1>1. IsTable(table[n]) BY TableOf
<1>2. Follows(table[n], x) BY <1>1, ReplaceFollows
<1>3. /\ table' = [table EXCEPT ![n] = x] /\ clusterBroadcastMessage(n, h, net)
      /\ votes' = votes
  BY DEF WinElection
<1>4. Numbered(net) BY DEF VotesInv
<1> HIDE DEF x
<1>5. h.cur \in Nat BY <1>2, HeaderOf
<1> HIDE DEF h
<1>6. Numbered(net') BY <1>3, <1>4, <1>5, BroadcastSound
<1> QED BY <1>2, <1>3, <1>6, QuietKeeps

LEMMA ElectionsKeep == ASSUME ConfigAssumption, VotesInv, Elections PROVE VotesInv'
<1>1. PICK n \in Live :
        \/ SetUpElection(n) \/ AskForVotes(n) \/ WinElection(n)
        \/ ElectionTime(n) \/ VoteTime(n) \/ manualFailoverCheckTimeout(n)
  BY DEF Elections
<1>2. n \in Nodes BY DEF ConfigAssumption
<1>3. Numbered(net) BY DEF VotesInv
<1>4. CASE ElectionTime(n) \/ VoteTime(n)
  <2>1. UNCHANGED <<table, votes, net>> BY <1>4 DEF ElectionTime, VoteTime
  <2> QED BY <2>1, <1>3, SendKeeps
<1>5. CASE manualFailoverCheckTimeout(n)
  <2>1. /\ table' = [table EXCEPT ![n] = resetManualFailover(table[n])]
        /\ UNCHANGED <<votes, net>>
    BY <1>5 DEF manualFailoverCheckTimeout
  <2>2. Follows(table[n], resetManualFailover(table[n])) BY <1>2, TableOf, SetFollows
  <2>3. Numbered(net') BY <1>3, <2>1
  <2> QED BY <1>2, <2>1, <2>2, <2>3, QuietKeeps
<1> QED BY <1>1, <1>2, <1>4, <1>5, SetUpKeeps, AskKeeps, WinKeeps

\* An order that sends nothing.
LEMMA CommandKeeps ==
  ASSUME VotesInv, NEW n \in Nodes, NEW name, NEW x, Follows(table[n], x),
         Command(name, n, x), UNCHANGED <<net, votes>>
  PROVE  VotesInv'
<1>1. Numbered(net') BY DEF VotesInv
<1> QED BY <1>1, QuietKeeps DEF Command

LEMMA TakeoverKeeps == ASSUME VotesInv, NEW n \in Nodes, FailoverTakeover(n) PROVE VotesInv'
<1> DEFINE b == clusterBumpConfigEpochWithoutConsensus(table[n], n)
           x == clusterFailoverReplaceYourMaster(b, n, 0)
           h == clusterBuildMessageHdr(x, n, "PONG")
<1>1. Command("takeover", n, x) /\ clusterBroadcastMessage(n, h, net) /\ votes' = votes
  BY DEF FailoverTakeover
<1>2. IsTable(table[n]) BY TableOf
<1>3. Follows(table[n], b) /\ IsTable(b) BY <1>2, BumpFollows, FollowsTable
<1> HIDE DEF b
<1>4. Follows(b, x) BY <1>3, ReplaceFollows
<1> HIDE DEF x
<1>5. Follows(table[n], x) BY <1>2, <1>3, <1>4, FollowsOn
<1>6. h.cur \in Nat BY <1>5, HeaderOf
<1> HIDE DEF h
<1>7. Numbered(net') BY <1>1, <1>6, BroadcastSound DEF VotesInv
<1> QED BY <1>1, <1>5, <1>7, QuietKeeps DEF Command

LEMMA AdministratorKeeps == ASSUME ConfigAssumption, VotesInv, Administrator PROVE VotesInv'
<1>1. PICK n \in Live :
        \/ FailoverForce(n) \/ FailoverTakeover(n) \/ BumpEpoch(n) \/ FlushSlots(n)
        \/ \E k \in Slots : AddSlots(n, k) \/ DelSlots(n, k)
        \/ \E m \in Nodes : Replicate(n, m)
  BY DEF Administrator
<1>2. n \in Nodes /\ IsTable(table[n]) BY TableOf DEF ConfigAssumption
<1> DEFINE t == table[n]
<1>3. CASE FailoverForce(n)
  <2>1. Follows(t, [t EXCEPT !.mf = TRUE]) BY <1>2, OtherField, OtherNames
  <2> QED BY <1>2, <1>3, <2>1, CommandKeeps DEF FailoverForce
<1>4. CASE BumpEpoch(n) BY <1>2, <1>4, BumpFollows, CommandKeeps DEF BumpEpoch
<1>5. CASE FlushSlots(n) BY <1>2, <1>5, SetFollows, CommandKeeps DEF FlushSlots
<1>6. ASSUME NEW k \in Slots, AddSlots(n, k) \/ DelSlots(n, k) PROVE VotesInv'
  <2> DEFINE y == [t EXCEPT !.importing = t.importing \ {k}]
  <2>1. Follows(t, y) BY <1>2, OtherField, OtherNames
  <2>2. \/ Command("addslots", n, clusterAddSlot(y, n, k))
        \/ Command("delslots", n, clusterDelSlot(y, k))
    BY <1>6 DEF AddSlots, DelSlots
  <2>3. UNCHANGED <<net, votes>> BY <1>6 DEF AddSlots, DelSlots
  <2> HIDE DEF y
  <2>4. Follows(y, clusterAddSlot(y, n, k)) /\ Follows(y, clusterDelSlot(y, k))
    BY <2>1, FollowsTable, SetFollows
  <2>5. Follows(t, clusterAddSlot(y, n, k)) /\ Follows(t, clusterDelSlot(y, k))
    BY <1>2, <2>1, <2>4, FollowsOn
  <2> QED BY <1>2, <2>2, <2>3, <2>5, CommandKeeps
<1>7. ASSUME NEW m \in Nodes, Replicate(n, m) PROVE VotesInv'
  BY <1>2, <1>7, SetMasterFollows, CommandKeeps DEF Replicate
<1> QED BY <1>1, <1>2, <1>3, <1>4, <1>5, <1>6, <1>7, TakeoverKeeps

LEMMA NextKeeps == ASSUME ConfigAssumption, VotesInv, Next PROVE VotesInv'
<1>1. CASE Deliver
  <2>1. PICK n \in Live, p \in net : Process(n, p) BY <1>1 DEF Deliver
  <2>2. n \in Nodes BY DEF ConfigAssumption
  <2> QED BY <2>1, <2>2, PingKeeps, UpdateKeeps, RequestKeeps, AckKeeps DEF Process
<1>2. CASE \E p \in net : Lose(p)
  <2>1. UNCHANGED <<table, votes>> /\ net' \subseteq net BY <1>2 DEF Lose
  <2>2. Numbered(net') BY <2>1 DEF VotesInv, Numbered
  <2> QED BY <2>1, <2>2, SendKeeps
<1>3. ASSUME NEW n \in Live, NEW m \in Nodes, SendPing(n, m) PROVE VotesInv'
  <2> DEFINE h == clusterBuildMessageHdr(table[n], n, "PING")
  <2>1. h.cur \in Nat
    <3>1. n \in Nodes BY DEF ConfigAssumption
    <3>2. table[n].cur \in Nat BY <3>1, TableOf
    <3>3. h.cur = table[n].cur BY HeaderEpoch
    <3> QED BY <3>2, <3>3
  <2>2. net' = net \cup {Addressed(h, m)} /\ UNCHANGED <<table, votes>> BY <1>3 DEF SendPing
  <2> HIDE DEF h
  <2>3. Numbered(net') BY <2>1, <2>2, AddressedTo DEF VotesInv, Numbered
  <2> QED BY <2>2, <2>3, SendKeeps
<1>4. ASSUME NEW n \in Live, NEW m \in Nodes, FlagFail(n, m) PROVE VotesInv'
  <2>1. UNCHANGED <<table, votes, net>> BY <1>4 DEF FlagFail
  <2>2. Numbered(net') BY <2>1 DEF VotesInv
  <2> QED BY <2>1, <2>2, SendKeeps
<1> QED BY <1>1, <1>2, <1>3, <1>4, ElectionsKeep, AdministratorKeeps DEF Next

-----------------------------------------------------------------------------
\* In every epoch a node casts at most one vote (clusterSendFailoverAuthIfNeeded),
\* whatever packets are lost, delayed or reordered, and whatever epochs takeovers,
\* collisions and elections lead it through.
THEOREM OneVoteInEpoch == ASSUME ConfigAssumption PROVE Spec => []OneVotePerEpoch
<1>1. Init => VotesInv BY VotesInit
<1>2. VotesInv /\ [Next]_vars => VotesInv'
  <2>1. ASSUME VotesInv, UNCHANGED vars PROVE VotesInv'
    <3>1. UNCHANGED <<table, votes, net>> BY <2>1 DEF vars
    <3>2. Numbered(net') BY <3>1, <2>1 DEF VotesInv
    <3> QED BY <2>1, <3>1, <3>2, SendKeeps
  <2> QED BY <2>1, NextKeeps
<1>3. VotesInv => OneVotePerEpoch BY DEF VotesInv
<1> QED BY <1>1, <1>2, <1>3, PTL DEF Spec
=============================================================================
