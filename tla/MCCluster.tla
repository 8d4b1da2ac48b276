----------------------------- MODULE MCCluster -----------------------------
(***************************************************************************)
(* Instances of the modules of cluster.c and of the cluster manager of     *)
(* redis-cli.  A behaviour picks one part and stays with it: the other     *)
(* parts rest in an initial state, or their variables are None.            *)
(***************************************************************************)
EXTENDS ClusterMembers, Sequences, TLC

CONSTANTS
  n1, n2, n3,                     \* masters of ClusterMembers
  node1, node2, node3, key1, key2 \* masters and keys of SlotMigration

VARIABLES
  part,
  table, auth, fail, voted, net, count, won, votes, asserts,
  node, rdb, prog, ask, acked, tool

configVars == <<table, auth, fail, voted, net, count, won, votes, asserts>>
slotVars == <<node, rdb, prog, ask, acked, tool>>

\* An administrator has node 3 meet node 1, which knows node 2 already.
Join == INSTANCE ClusterMembers WITH
  Joined <- {n1, n2}, MeetPairs <- {<<n3, n1>>}, Forgets <- {}, Silent <- {}

Commands == {"force", "takeover", "addslots", "delslots", "flushslots", "bump", "replicate"}

\* Master 1 of three fails and its replicas 4 and 5 ask for votes.
Election == INSTANCE ClusterConfig WITH
  Nodes <- 1 .. 5, Slots <- 1 .. 3, None <- 0,
  InitMaster <- [n \in 1 .. 5 |-> IF n > 3 THEN 1 ELSE 0],
  InitOwner <- [s \in 1 .. 3 |-> s],
  InitEpoch <- [n \in 1 .. 5 |-> IF n > 3 THEN 1 ELSE n],
  InitFail <- {}, Live <- 2 .. 5, Pingers <- {}, Steady <- {}, Suspects <- {1},
  MaxEpoch <- 5, MaxNet <- 2,
  MaxAttempts <- [n \in 1 .. 5 |-> 1], MaxCommands <- [k \in Commands |-> 0]

\* All hold master 1 as failed, and replica 4 may try twice: a vote of its first
\* election may arrive when it has set up the second one.  No packet is lost.
Retry == INSTANCE ClusterConfig WITH
  Nodes <- 1 .. 5, Slots <- 1 .. 3, None <- 0,
  InitMaster <- [n \in 1 .. 5 |-> IF n > 3 THEN 1 ELSE 0],
  InitOwner <- [s \in 1 .. 3 |-> s],
  InitEpoch <- [n \in 1 .. 5 |-> IF n > 3 THEN 1 ELSE n],
  InitFail <- {1}, Live <- 2 .. 5, Pingers <- {}, Steady <- 2 .. 5, Suspects <- {},
  MaxEpoch <- 5, MaxNet <- 3,
  MaxAttempts <- [n \in 1 .. 5 |-> IF n = 4 THEN 2 ELSE 1], MaxCommands <- [k \in Commands |-> 0]

\* Two masters and a replica 4 of the first take the administrator's orders.
Orders == INSTANCE ClusterConfig WITH
  Nodes <- {1, 2, 4}, Slots <- 1 .. 2, None <- 0,
  InitMaster <- [n \in {1, 2, 4} |-> IF n = 4 THEN 1 ELSE 0],
  InitOwner <- [s \in 1 .. 2 |-> s],
  InitEpoch <- [n \in {1, 2, 4} |-> IF n = 4 THEN 1 ELSE n],
  InitFail <- {}, Live <- {1, 2, 4}, Pingers <- {2}, Steady <- {}, Suspects <- {},
  MaxEpoch <- 3, MaxNet <- 1,
  MaxAttempts <- [n \in {1, 2, 4} |-> 1],
  MaxCommands <- [k \in Commands |-> IF k \in {"force", "delslots", "replicate"} THEN 1 ELSE 0]

\* A master gives its slots up and the other one takes them.
GiveUp == INSTANCE ClusterConfig WITH
  Nodes <- {1, 2}, Slots <- 1 .. 2, None <- 0,
  InitMaster <- [n \in {1, 2} |-> 0],
  InitOwner <- [s \in 1 .. 2 |-> s],
  InitEpoch <- [n \in {1, 2} |-> n],
  InitFail <- {}, Live <- {1, 2}, Pingers <- {1, 2}, Steady <- {}, Suspects <- {},
  MaxEpoch <- 3, MaxNet <- 1,
  MaxAttempts <- [n \in {1, 2} |-> 0],
  MaxCommands <- [k \in Commands |-> IF k \in {"flushslots", "addslots"} THEN 1 ELSE 0]

\* A slot with two keys is moved and the client writes; redis-cli may die.
Move == INSTANCE SlotMigration WITH
  Masters <- <<node1, node2, node3>>, Keys <- <<key1, key2>>, Volatile <- {}, MaxWrites <- 2, MaxMoves <- 1,
  MaxDeaths <- 1, Unanswered <- FALSE, Restarts <- FALSE, Tools <- {"reshard"}

\* Moves that are cut short are repaired, with lost replies and restarts.
Repair == INSTANCE SlotMigration WITH
  Masters <- <<node1, node2, node3>>, Keys <- <<key1>>, Volatile <- {}, MaxWrites <- 2, MaxMoves <- 2,
  MaxDeaths <- 1, Unanswered <- TRUE, Restarts <- TRUE, Tools <- {"reshard", "fix", "owners"}

NoConfig ==
  /\ table = None /\ auth = None /\ fail = None /\ voted = None /\ net = None
  /\ count = None /\ won = {} /\ votes = {} /\ asserts = TRUE

NoSlot == node = None /\ rdb = None /\ prog = None /\ ask = None /\ acked = None /\ tool = None

PartsInit ==
  \/ part = "join" /\ Join!Init /\ NoConfig /\ NoSlot
  \/ /\ Init
     /\ \/ part = "members" /\ NoConfig /\ NoSlot
        \/ part = "election" /\ Election!Init /\ NoSlot
        \/ part = "retry" /\ Retry!Init /\ NoSlot
        \/ part = "orders" /\ Orders!Init /\ NoSlot
        \/ part = "give up" /\ GiveUp!Init /\ NoSlot
        \/ part = "move" /\ NoConfig /\ Move!Init
        \/ part = "repair" /\ NoConfig /\ Repair!Init

PartsNext ==
  \/ part = "members" /\ Next /\ UNCHANGED <<part, configVars, slotVars>>
  \/ part = "join" /\ Join!Next /\ UNCHANGED <<part, configVars, slotVars>>
  \/ part = "election" /\ Election!Next /\ UNCHANGED <<part, vars, slotVars>>
  \/ part = "retry" /\ Retry!Next /\ UNCHANGED <<part, vars, slotVars>>
  \/ part = "orders" /\ Orders!Next /\ UNCHANGED <<part, vars, slotVars>>
  \/ part = "give up" /\ GiveUp!Next /\ UNCHANGED <<part, vars, slotVars>>
  \/ part = "move" /\ Move!Next /\ UNCHANGED <<part, vars, configVars>>
  \/ part = "repair" /\ Repair!Next /\ UNCHANGED <<part, vars, configVars>>

partsVars == <<part, vars, configVars, slotVars>>

PartsSpec == PartsInit /\ [][PartsNext]_partsVars

-----------------------------------------------------------------------------
\* A node votes once in an epoch.  Among the replicas that counted no vote of an
\* earlier election, no epoch is won by two, and a winner had the votes of a
\* majority of the masters; two nodes that claim a slot do so with different epochs
\* unless such a late vote decided: OneVotePerEpoch, EpochWonOnce, VotedByMajority
\* and ClaimsDiffer of ClusterConfig.
OneWinner ==
  /\ part = "election" =>
       /\ Election!OneVotePerEpoch /\ Election!EpochWonOnce
       /\ Election!VotedByMajority /\ Election!ClaimsDiffer
  /\ part = "retry" =>
       /\ Retry!OneVotePerEpoch /\ Retry!EpochWonOnce
       /\ Retry!VotedByMajority /\ Retry!ClaimsDiffer

\* A node moves a slot from one owner to another only for a greater epoch:
\* SlotsMoveForward of ClusterConfig.
SlotsMoveForward == [][(part = "orders" \/ part = "give up") =>
  \A n \in DOMAIN table, s \in 1 .. 2 :
    LET old == table[n].owner[s]
        new == table'[n].owner[s]
    IN old # 0 /\ new # 0 /\ old # new => table'[n].epoch[new] > table[n].epoch[old]]_partsVars

\* A read is answered with the last acknowledged write, wherever the slot is on
\* its way, as long as no reply of RESTORE is lost and no node restarts:
\* ServesLastWrite and NoWriteLost of SlotMigration.
ServesLastWrite == part = "move" => Move!ServesLastWrite /\ Move!NoWriteLost

=============================================================================
