---------------------------- MODULE ClusterTable ----------------------------
(***************************************************************************)
(* The table a Redis Cluster node keeps of its cluster (cluster.c) and the *)
(* functions that change it.  A table x is a record:                       *)
(*                                                                         *)
(*   cur, lastVote   server.cluster->currentEpoch, lastVoteEpoch           *)
(*   epoch[m]        node->configEpoch                                     *)
(*   slaveof[m]      node->slaveof; None is a master                       *)
(*   owner[s]        server.cluster->slots                                 *)
(*   importing, migrating   slots with importing_slots_from, migrating_to  *)
(*   keys            the slots this node holds keys of                     *)
(*   mf              a manual failover that may start is under way         *)
(*                                                                         *)
(* The slot bitmap of a node is {s : owner[s] = node}: clusterAddSlot and  *)
(* clusterDelSlot change both together.  Nodes are numbers, in the order   *)
(* memcmp gives their names.                                               *)
(***************************************************************************)
EXTENDS Integers, FiniteSets, FiniteSetsExt

CONSTANTS
  Nodes,                \* the nodes, all known to each other
  Slots,                \* the hash slots
  None                  \* the NULL node

nodeIsMaster(x, m) == x.slaveof[m] = None

\* node->slots, and node->numslots by its cardinality.
SlotsOf(x, m) == {s \in Slots : x.owner[s] = m}

\* The node whose slots and epoch this node announces.
MasterOf(x, m) == IF nodeIsMaster(x, m) THEN m ELSE x.slaveof[m]

clusterSize(x) == Cardinality({m \in Nodes : nodeIsMaster(x, m) /\ SlotsOf(x, m) # {}})

\* Mutant: half of the masters are enough.
Quorum_Half(x) == clusterSize(x) \div 2

Quorum(x) == clusterSize(x) \div 2 + 1

clusterGetMaxEpoch(x) == Max({x.cur} \cup {x.epoch[m] : m \in Nodes})

clusterBumpConfigEpochWithoutConsensus(x, me) ==
  IF x.epoch[me] = 0 \/ x.epoch[me] # clusterGetMaxEpoch(x)
  THEN [x EXCEPT !.cur = @ + 1, !.epoch[me] = x.cur + 1]
  ELSE x

\* Of two masters with one epoch the one with the smaller name takes a new one.
clusterHandleConfigEpochCollision(x, me, sender) ==
  IF /\ x.epoch[sender] = x.epoch[me]
     /\ nodeIsMaster(x, sender) /\ nodeIsMaster(x, me)
     /\ sender > me
  THEN [x EXCEPT !.cur = @ + 1, !.epoch[me] = x.cur + 1]
  ELSE x

clusterSetNodeAsMaster(x, m) == [x EXCEPT !.slaveof[m] = None]

clusterAddSlot(x, m, s) == IF x.owner[s] = None THEN [x EXCEPT !.owner[s] = m] ELSE x

clusterDelSlot(x, s) == [x EXCEPT !.owner[s] = None]

clusterDelNodeSlots(x, m) ==
  [x EXCEPT !.owner = [s \in Slots |-> IF @[s] = m THEN None ELSE @[s]]]

clusterCloseAllSlots(x) == [x EXCEPT !.importing = {}, !.migrating = {}]

resetManualFailover(x) == [x EXCEPT !.mf = FALSE]

\* A master that becomes a replica closes its slots; the replication link is
\* another module's.
clusterSetMaster(x, me, m) ==
  LET y == IF nodeIsMaster(x, me) THEN clusterCloseAllSlots(x) ELSE x
  IN resetManualFailover([y EXCEPT !.slaveof[me] = m])

\* Mutant: a claim with the epoch of the present owner also takes the slot.
clusterUpdateSlotsConfigWith_OldEpoch(x, me, sender, e, slots) ==
  [x EXCEPT !.owner = [s \in Slots |->
      IF s \in slots /\ s \notin x.importing THEN sender ELSE @[s]]]

\* Mutant: only slots without an owner are taken.
clusterUpdateSlotsConfigWith_FreeOnly(x, me, sender, e, slots) ==
  [x EXCEPT !.owner = [s \in Slots |->
      IF s \in slots /\ @[s] = None THEN sender ELSE @[s]]]

\* The slots claimed with a newer epoch go to the sender.  A node whose master
\* (itself, if it is one) lost its last slot this way follows the sender; a
\* master that kept some drops the keys of those it lost.
clusterUpdateSlotsConfigWith(x, me, sender, e, slots) ==
  LET curmaster == MasterOf(x, me)
      taken == {s \in slots : /\ x.owner[s] # sender
                              /\ s \notin x.importing
                              /\ x.owner[s] = None \/ x.epoch[x.owner[s]] < e}
      dirty == {s \in taken : x.owner[s] = me /\ s \in x.keys}
      newmaster == \E s \in taken : x.owner[s] = curmaster
      y == [x EXCEPT !.owner = [s \in Slots |-> IF s \in taken THEN sender ELSE @[s]]]
  IN IF sender = me THEN x
     ELSE IF newmaster /\ SlotsOf(y, curmaster) = {} THEN clusterSetMaster(y, me, sender)
     ELSE [y EXCEPT !.keys = @ \ dirty]

-----------------------------------------------------------------------------
(* The header of every packet, and what a receiver takes from it.          *)

\* A replica announces the slots and the epoch of its master.
clusterBuildMessageHdr(x, me, type) ==
  [type |-> type, from |-> me, cur |-> x.cur, epoch |-> x.epoch[MasterOf(x, me)],
   slaveof |-> x.slaveof[me], slots |-> SlotsOf(x, MasterOf(x, me)), force |-> x.mf,
   about |-> None, aboutEpoch |-> 0, aboutSlots |-> {}]

\* The newest epoch seen becomes the current one, of any packet of a known node.
SeeEpochs(x, h) ==
  [x EXCEPT !.cur = Max({@, h.cur}), !.epoch[h.from] = Max({@, h.epoch})]

\* A master that became a replica loses its slots; a replica may have changed
\* its master.
RoleSwitch(x, h) ==
  IF h.slaveof = None THEN clusterSetNodeAsMaster(x, h.from)
  ELSE LET y == IF nodeIsMaster(x, h.from) THEN clusterDelNodeSlots(x, h.from) ELSE x
       IN [y EXCEPT !.slaveof[h.from] = h.slaveof]

\* The slots of the sender differ from those of the table: they are taken if the
\* sender is a master.
DirtySlots(x, h) == SlotsOf(x, MasterOf(x, h.from)) # h.slots

ClaimSlots(x, me, h) ==
  IF nodeIsMaster(x, h.from) /\ DirtySlots(x, h)
  THEN clusterUpdateSlotsConfigWith(x, me, h.from, h.epoch, h.slots)
  ELSE x

\* The slots the sender claims with an epoch older than their owner's.
StaleSlots(x, h) ==
  {s \in h.slots : /\ x.owner[s] \notin {h.from, None}
                   /\ x.epoch[x.owner[s]] > h.epoch}

\* The configuration of the first such owner, if the sender is linked.
clusterSendUpdate(x, me, h) ==
  LET o == x.owner[Min(StaleSlots(x, h))]
  IN [clusterBuildMessageHdr(x, me, "UPDATE")
        EXCEPT !.about = o, !.aboutEpoch = x.epoch[o], !.aboutSlots = SlotsOf(x, o)]

\* The table after the configuration part of a PING or a PONG: y is the table
\* with the epochs and the role of the sender.
ConfigOf(x, me, h) ==
  LET z == ClaimSlots(RoleSwitch(SeeEpochs(x, h), h), me, h)
  IN IF nodeIsMaster(z, me) /\ nodeIsMaster(z, h.from) /\ h.epoch = z.epoch[me]
     THEN clusterHandleConfigEpochCollision(z, me, h.from)
     ELSE z

\* The UPDATE message that answers it.
UpdateFor(x, me, h) ==
  LET y == RoleSwitch(SeeEpochs(x, h), h)
      z == ClaimSlots(y, me, h)
  IN IF DirtySlots(y, h) /\ StaleSlots(z, h) # {} THEN {clusterSendUpdate(z, me, h)} ELSE {}

\* An UPDATE brings the configuration of a node, if it is newer.
ApplyUpdate(x, me, h) ==
  LET n == h.about
      y == SeeEpochs(x, h)
  IN IF y.epoch[n] >= h.aboutEpoch THEN y
     ELSE clusterUpdateSlotsConfigWith(
            [y EXCEPT !.slaveof[n] = None, !.epoch[n] = h.aboutEpoch],
            me, n, h.aboutEpoch, h.aboutSlots)
=============================================================================
