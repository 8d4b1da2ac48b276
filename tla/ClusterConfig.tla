---------------------------- MODULE ClusterConfig ----------------------------
(***************************************************************************)
(* Elections and configuration propagation in Redis Cluster (cluster.c):   *)
(* which node owns which slot, under which epoch, while replicas ask for   *)
(* votes, win, and announce themselves, and while administrators take over *)
(* masters and move slots.                                                 *)
(*                                                                         *)
(* Packets are a set: they are delayed and reordered without bound, and    *)
(* lost when a connection breaks.  Packets from n to m travel on two       *)
(* connections, n's own link and the one m opened, so that order is not    *)
(* kept between them.  A node that stops taking steps has crashed.         *)
(* Failure detection is the module ClusterDetector; here any node may come *)
(* to hold a suspect as failed.                                            *)
(***************************************************************************)
EXTENDS ClusterTable

CONSTANTS
  InitMaster,           \* the master of every node at the start
  InitOwner,            \* the owner of every slot
  InitEpoch,            \* the configuration epoch of every node
  InitFail,             \* the nodes everyone holds as failed at the start
  Live,                 \* the nodes that take steps; the others are down
  Pingers,              \* the live nodes that send PINGs
  Steady,               \* the live nodes that do not stop and whose links hold
  Suspects,             \* the nodes that may be held as failed
  MaxEpoch,             \* bound: epochs
  MaxNet,               \* bound: packets in flight when a node sends of itself
  MaxAttempts,          \* bound: elections set up, by node
  MaxCommands           \* bound: administrator commands, by name

VARIABLES
  table,                \* the table of every node, see ClusterTable
  auth,                 \* the failover_auth_* fields of every node
  fail,                 \* the nodes flagged FAIL, by every node
  voted,                \* the masters with a recent voted_time, by every node
  net,                  \* packets in flight
  count,                \* how much of every bound is used
  won,                  \* history: <<epoch, node, late>> of every election won
  votes,                \* history: <<epoch, candidate, voter>> of every vote
  asserts               \* history: the assertions of clusterSetMaster held

vars == <<table, auth, fail, voted, net, count, won, votes, asserts>>

CommandNames == {"force", "takeover", "bump", "addslots", "delslots", "flushslots",
                 "replicate"}

\* What a node holds after clusterLoadConfig read the same file everywhere.
Init ==
  /\ table = [n \in Nodes |->
       [cur |-> Max({InitEpoch[m] : m \in Nodes}), lastVote |-> 0, epoch |-> InitEpoch,
        slaveof |-> InitMaster, owner |-> InitOwner, importing |-> {}, migrating |-> {},
        keys |-> {}, mf |-> FALSE]]
  /\ auth = [n \in Nodes |-> [phase |-> "idle", sent |-> FALSE, count |-> 0, epoch |-> 0,
                             late |-> FALSE]]
  /\ fail = [n \in Nodes |-> InitFail \ {n}]
  /\ voted = [n \in Nodes |-> {}]
  /\ net = {}
  /\ count = [attempts |-> [n \in Nodes |-> 0], commands |-> [c \in CommandNames |-> 0]]
  /\ won = {}
  /\ votes = {}
  /\ asserts = TRUE

-----------------------------------------------------------------------------
(* Sending.                                                                *)

Addressed(h, to) == [hdr |-> h, to |-> to]

\* Does a packet from n to m get through?
Through(n, m) == IF {n, m} \subseteq Steady THEN {TRUE} ELSE BOOLEAN

\* The same packet to some of the nodes: those with a link, and whose link does
\* not break before the packet is read.
clusterBroadcastMessage(n, h, ms) == \E linked \in SUBSET (Live \ {n}) :
  /\ n \in Steady => Steady \ {n} \subseteq linked
  /\ net' = ms \cup {Addressed(h, m) : m \in linked}
  /\ Cardinality(net') <= MaxNet

SendPing(n, m) ==
  /\ n \in Pingers /\ m \in Live \ {n}
  /\ net' = net \cup {Addressed(clusterBuildMessageHdr(table[n], n, "PING"), m)}
  /\ Cardinality(net') <= MaxNet
  /\ UNCHANGED <<table, auth, fail, voted, count, won, votes, asserts>>

\* A connection breaks, with what was under way on it.
Lose(p) ==
  /\ {p.hdr.from, p.to} \ Steady # {}
  /\ net' = net \ {p}
  /\ UNCHANGED <<table, auth, fail, voted, count, won, votes, asserts>>

-----------------------------------------------------------------------------
(* Receiving: one disjunct of clusterProcessPacket each.                    *)

Receive(p, n, x, answers) ==
  /\ p \in net /\ p.to = n
  /\ x.cur <= MaxEpoch
  /\ table' = [table EXCEPT ![n] = x]
  /\ net' = (net \ {p}) \cup answers
  \* clusterSetMaster demands that the node serves no slot.
  /\ asserts' = (asserts /\ (x.slaveof[n] # None /\ x.slaveof[n] # table[n].slaveof[n]
                               => SlotsOf(x, n) = {} /\ x.slaveof[n] # n))

\* The PONG that answers a PING is built before its configuration is processed.
ReceivePing(n, p) ==
  /\ p.hdr.type \in {"PING", "PONG"}
  /\ \E answered, updated \in Through(n, p.hdr.from) :
       LET pong == clusterBuildMessageHdr(SeeEpochs(table[n], p.hdr), n, "PONG")
           out == (IF p.hdr.type = "PING" /\ answered THEN {pong} ELSE {})
                    \cup (IF updated THEN UpdateFor(table[n], n, p.hdr) ELSE {})
       IN Receive(p, n, ConfigOf(table[n], n, p.hdr), {Addressed(h, p.hdr.from) : h \in out})
  /\ UNCHANGED <<auth, fail, voted, count, won, votes>>

ReceiveUpdate(n, p) ==
  /\ p.hdr.type = "UPDATE"
  /\ Receive(p, n, ApplyUpdate(table[n], n, p.hdr), {})
  /\ UNCHANGED <<auth, fail, voted, count, won, votes>>

\* Does n vote for the sender of the request h?
clusterSendFailoverAuthIfNeeded(x, n, h) ==
  LET master == x.slaveof[h.from] IN
  /\ nodeIsMaster(x, n) /\ SlotsOf(x, n) # {}
  /\ h.cur >= x.cur
  /\ x.lastVote # x.cur
  /\ master # None
  /\ master \in fail[n] \/ h.force
  /\ master \notin voted[n]
  /\ \A s \in h.slots : x.owner[s] = None \/ x.epoch[x.owner[s]] <= h.epoch

\* The vote, with the epoch in its header, goes out if the voter has a link.
ReceiveAuthRequest(n, p) ==
  /\ p.hdr.type = "AUTH_REQUEST"
  /\ LET x == SeeEpochs(table[n], p.hdr)
         y == [x EXCEPT !.lastVote = x.cur]
         ack == Addressed(clusterBuildMessageHdr(y, n, "AUTH_ACK"), p.hdr.from)
     IN IF clusterSendFailoverAuthIfNeeded(x, n, p.hdr)
        THEN /\ votes' = votes \cup {<<x.cur, p.hdr.from, n>>}
             /\ voted' = [voted EXCEPT ![n] = @ \cup {x.slaveof[p.hdr.from]}]
             /\ \E linked \in Through(n, p.hdr.from) : Receive(p, n, y, IF linked THEN {ack} ELSE {})
        ELSE Receive(p, n, x, {}) /\ UNCHANGED <<voted, votes>>
  /\ UNCHANGED <<auth, fail, count, won>>

\* A vote counts if it comes from a master with slots, in the epoch of the
\* election or later.  Until the votes are asked for that is the epoch of the
\* election before, so a late vote of that one counts; the history notes it.
VoteCounts(x, n, h) ==
  /\ nodeIsMaster(x, h.from) /\ SlotsOf(x, h.from) # {}
  /\ h.cur >= auth[n].epoch

ReceiveAuthAck(n, p) ==
  /\ p.hdr.type = "AUTH_ACK"
  /\ LET x == SeeEpochs(table[n], p.hdr)
     IN /\ Receive(p, n, x, {})
        /\ auth' = [auth EXCEPT ![n] =
             IF VoteCounts(x, n, p.hdr)
             THEN [@ EXCEPT !.count = @ + 1, !.late = @ \/ ~ auth[n].sent] ELSE @]
  /\ UNCHANGED <<fail, voted, count, won, votes>>

\* A FAIL packet, or the node's own verdict: both come from the detector.
FlagFail(n, m) ==
  /\ m \in Suspects \ ({n} \cup fail[n])
  /\ fail' = [fail EXCEPT ![n] = @ \cup {m}]
  /\ UNCHANGED <<table, auth, voted, net, count, won, votes, asserts>>

-----------------------------------------------------------------------------
(* Elections, from the side of the replica.                                *)

\* The replica takes the slots of its master under the epoch e.
clusterFailoverReplaceYourMaster(x, n, e) ==
  LET old == x.slaveof[n] IN
  resetManualFailover([clusterSetNodeAsMaster(x, n) EXCEPT
    !.owner = [s \in Slots |-> IF @[s] = old THEN n ELSE @[s]],
    !.epoch[n] = Max({@, e})])

\* The conditions on top of clusterHandleSlaveFailover.  How old the data of the
\* replica is, and the rank that delays it, are matters of time.
MayFailover(x, n) ==
  /\ ~ nodeIsMaster(x, n)
  /\ x.slaveof[n] \in fail[n] \/ x.mf
  /\ SlotsOf(x, x.slaveof[n]) # {}

LocalSlaves(x, n) == {m \in Live \ {n} : x.slaveof[m] # None /\ x.slaveof[m] = x.slaveof[n]}

\* The retry time is over: a new election is set up.  The count of the votes is
\* reset here, the epoch of the election only when the votes are asked for.
SetUpElection(n) ==
  /\ MayFailover(table[n], n)
  /\ auth[n].phase = "idle"
  /\ count.attempts[n] < MaxAttempts[n]
  /\ auth' = [auth EXCEPT ![n] = [@ EXCEPT !.phase = IF table[n].mf THEN "open" ELSE "delay",
                                           !.sent = FALSE, !.count = 0, !.late = FALSE]]
  /\ count' = [count EXCEPT !.attempts[n] = @ + 1]
  /\ \E linked \in SUBSET LocalSlaves(table[n], n) :
       net' = net \cup {Addressed(clusterBuildMessageHdr(table[n], n, "PONG"), m) : m \in linked}
  /\ Cardinality(net') <= MaxNet
  /\ UNCHANGED <<table, fail, voted, won, votes, asserts>>

AskForVotes(n) ==
  /\ MayFailover(table[n], n)
  /\ auth[n].phase = "open" /\ ~ auth[n].sent
  /\ table[n].cur < MaxEpoch
  /\ LET x == [table[n] EXCEPT !.cur = @ + 1]
     IN /\ table' = [table EXCEPT ![n] = x]
        /\ auth' = [auth EXCEPT ![n] = [@ EXCEPT !.epoch = x.cur, !.sent = TRUE]]
        /\ clusterBroadcastMessage(n, clusterBuildMessageHdr(x, n, "AUTH_REQUEST"), net)
  /\ UNCHANGED <<fail, voted, count, won, votes, asserts>>

WinElection(n) ==
  /\ MayFailover(table[n], n)
  /\ auth[n].phase = "open" /\ auth[n].sent
  /\ auth[n].count >= Quorum(table[n])
  /\ LET x == clusterFailoverReplaceYourMaster(table[n], n, auth[n].epoch)
     IN /\ table' = [table EXCEPT ![n] = x]
        /\ clusterBroadcastMessage(n, clusterBuildMessageHdr(x, n, "PONG"), net)
  /\ won' = won \cup {<<auth[n].epoch, n, auth[n].late>>}
  /\ UNCHANGED <<auth, fail, voted, count, votes, asserts>>

\* Time: the delay before an election, its timeout, the time between two tries.
ElectionTime(n) ==
  /\ auth[n].phase # "idle"
  /\ auth' = [auth EXCEPT ![n].phase =
       CASE @ = "delay" -> "open" [] @ = "open" -> "expired" [] @ = "expired" -> "idle"]
  /\ UNCHANGED <<table, fail, voted, net, count, won, votes, asserts>>

\* Two node timeouts after a vote about a master, another may be cast.
VoteTime(n) ==
  /\ voted[n] # {}
  /\ voted' = [voted EXCEPT ![n] = {}]
  /\ UNCHANGED <<table, auth, fail, net, count, won, votes, asserts>>

manualFailoverCheckTimeout(n) ==
  /\ table[n].mf
  /\ table' = [table EXCEPT ![n] = resetManualFailover(@)]
  /\ UNCHANGED <<auth, fail, voted, net, count, won, votes, asserts>>

-----------------------------------------------------------------------------
(* The commands of the administrator.                                      *)

Command(name, n, x) ==
  /\ count.commands[name] < MaxCommands[name]
  /\ count' = [count EXCEPT !.commands[name] = @ + 1]
  /\ x.cur <= MaxEpoch
  /\ table' = [table EXCEPT ![n] = x]
  /\ UNCHANGED <<auth, fail, voted>>

FailoverForce(n) ==
  /\ ~ nodeIsMaster(table[n], n)
  /\ Command("force", n, [table[n] EXCEPT !.mf = TRUE])
  /\ UNCHANGED <<net, won, votes, asserts>>

FailoverTakeover(n) ==
  /\ ~ nodeIsMaster(table[n], n)
  /\ LET x == clusterFailoverReplaceYourMaster(
                clusterBumpConfigEpochWithoutConsensus(table[n], n), n, 0)
     IN /\ Command("takeover", n, x)
        /\ clusterBroadcastMessage(n, clusterBuildMessageHdr(x, n, "PONG"), net)
  /\ UNCHANGED <<won, votes, asserts>>

BumpEpoch(n) ==
  /\ Command("bump", n, clusterBumpConfigEpochWithoutConsensus(table[n], n))
  /\ UNCHANGED <<net, won, votes, asserts>>

AddSlots(n, s) ==
  /\ table[n].owner[s] = None
  /\ Command("addslots", n,
       clusterAddSlot([table[n] EXCEPT !.importing = @ \ {s}], n, s))
  /\ UNCHANGED <<net, won, votes, asserts>>

DelSlots(n, s) ==
  /\ table[n].owner[s] # None
  /\ Command("delslots", n, clusterDelSlot([table[n] EXCEPT !.importing = @ \ {s}], s))
  /\ UNCHANGED <<net, won, votes, asserts>>

FlushSlots(n) ==
  /\ table[n].keys = {}
  /\ Command("flushslots", n, clusterDelNodeSlots(table[n], n))
  /\ UNCHANGED <<net, won, votes, asserts>>

\* Only a master is asked to be empty.
Replicate(n, m) ==
  /\ n # m /\ nodeIsMaster(table[n], m)
  /\ nodeIsMaster(table[n], n) => SlotsOf(table[n], n) = {} /\ table[n].keys = {}
  /\ Command("replicate", n, clusterSetMaster(table[n], n, m))
  /\ asserts' = (asserts /\ SlotsOf(table[n], n) = {})
  /\ UNCHANGED <<net, won, votes>>

-----------------------------------------------------------------------------
Process(n, p) ==
  \/ ReceivePing(n, p) \/ ReceiveUpdate(n, p)
  \/ ReceiveAuthRequest(n, p) \/ ReceiveAuthAck(n, p)

Deliver == \E n \in Live, p \in net : Process(n, p)

Elections == \E n \in Live :
  \/ SetUpElection(n) \/ AskForVotes(n) \/ WinElection(n)
  \/ ElectionTime(n) \/ VoteTime(n) \/ manualFailoverCheckTimeout(n)

Administrator == \E n \in Live :
  \/ FailoverForce(n) \/ FailoverTakeover(n) \/ BumpEpoch(n) \/ FlushSlots(n)
  \/ \E s \in Slots : AddSlots(n, s) \/ DelSlots(n, s)
  \/ \E m \in Nodes : Replicate(n, m)

Next ==
  \/ Deliver
  \/ \E p \in net : Lose(p)
  \/ \E n \in Live, m \in Nodes : SendPing(n, m) \/ FlagFail(n, m)
  \/ Elections
  \/ Administrator

Spec == Init /\ [][Next]_vars

\* The cron of a steady node pings every node within half a node timeout, and its
\* packets to steady nodes arrive.  Sending a packet that is already under way is
\* no step and pings are bounded by MaxNet, so that steps that send to m or
\* deliver at m without end also deliver without end.  The fairness is strong only
\* because MaxNet disables what the code would queue.
Pinging(n, m) == SendPing(n, m) \/ \E p \in net :
  p.hdr.from = n /\ p.hdr.type \in {"PING", "PONG"} /\ Process(m, p)

FairSpec ==
  /\ Spec
  /\ WF_vars(\E p \in net : Lose(p))
  /\ \A n \in Steady : \A m \in Steady \ {n} : SF_vars(Pinging(n, m))
  /\ SF_vars(\E m \in Steady, p \in net :
               p.hdr.from \in Steady /\ p.hdr.type = "UPDATE" /\ Process(m, p))

-----------------------------------------------------------------------------
TypeOK ==
  /\ \A n \in Nodes :
       /\ table[n].owner \in [Slots -> Nodes \cup {None}]
       /\ table[n].slaveof \in [Nodes -> Nodes \cup {None}]
       /\ table[n].epoch \in [Nodes -> 0 .. MaxEpoch]
       /\ table[n].lastVote <= table[n].cur
  /\ auth \in [Nodes -> [phase : {"idle", "delay", "open", "expired"}, sent : BOOLEAN,
                         count : Nat, epoch : 0 .. MaxEpoch, late : BOOLEAN]]

\* A node votes for one replica in an epoch and does so once: lastVoteEpoch is set
\* with the vote and currentEpoch never falls (clusterSendFailoverAuthIfNeeded).
OneVotePerEpoch == \A v, w \in votes : v[1] = w[1] /\ v[3] = w[3] => v = w

\* The elections won without a vote of the election before.
InTime == {w \in won : ~ w[3]}

\* No epoch is won by two replicas that counted no late vote: a winner needs the
\* votes of a majority of the masters, as long as all nodes know the same ones, and
\* clusterSendFailoverAuthIfNeeded votes once in an epoch.
EpochWonOnce == \A a, b \in InTime : a[1] = b[1] => a[2] = b[2]

\* A replica that wins the election of an epoch, and counted no late vote, had the
\* votes of a majority of the masters in that epoch (clusterHandleSlaveFailover).
VotedByMajority == \A w \in InTime :
  2 * Cardinality({v \in votes : v[1] = w[1] /\ v[2] = w[2]})
    > Cardinality({n \in Nodes : InitMaster[n] = None})

\* Two nodes that both hold themselves owner of a slot claim it with different
\* epochs, so that every third node that hears both comes down on one side, as long
\* as no election was won with a late vote.
ClaimsDiffer == won = InTime => \A n, m \in Nodes, s \in Slots :
  n # m /\ table[n].owner[s] = n /\ table[m].owner[s] = m
    => table[n].epoch[n] # table[m].epoch[m]

\* A node moves a slot from one owner to another only for a greater epoch, whether
\* it hears of the new owner (clusterUpdateSlotsConfigWith) or is the new owner
\* (clusterFailoverReplaceYourMaster): it never goes back to an older claim.
SlotsMoveForward == [][\A n \in Nodes, s \in Slots :
  LET a == table[n].owner[s]
      b == table'[n].owner[s]
  IN a # None /\ b # None /\ a # b => table'[n].epoch[b] > table[n].epoch[a]]_vars

\* Masters end with different configuration epochs, whatever epochs they started
\* with: clusterHandleConfigEpochCollision moves all but one away.
EpochsDiffer == \A n, m \in Steady :
  n # m /\ table[n].slaveof[n] = None /\ table[m].slaveof[m] = None
    => table[n].epoch[n] # table[m].epoch[m]

EpochsSettle == <>[]EpochsDiffer

\* A master that claims a slot which another node holds to be someone else's does
\* not go on for ever: PINGs, or an UPDATE if the new owner is gone, settle it.
Granted(n, m, s) == table[m].owner[s] = m => table[n].owner[s] \in {m, None}

ClaimsSettle == \A n, m \in Steady, s \in Slots : []<>Granted(n, m, s)

\* The assertions of clusterSetMaster: a node that is made a replica serves no
\* slot.
SetMasterAsserts == asserts
=============================================================================
