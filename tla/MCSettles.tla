----------------------------- MODULE MCSettles -----------------------------
(***************************************************************************)
(* What must eventually happen in a Redis server, its replicas and its     *)
(* cluster.  A behaviour picks one part and stays with it.  The parts      *)
(* other than "link" keep their state in v1 to v9; while one of them runs  *)
(* the link of ReplicaLink rests in its initial state.                     *)
(***************************************************************************)
EXTENDS ReplicaLink, FiniteSets

CONSTANTS
  n1, n2,               \* the servers of Replication
  None

VARIABLES part, v1, v2, v3, v4, v5, v6, v7, v8, v9

partVars == <<v1, v2, v3, v4, v5, v6, v7, v8, v9>>

\* A server becomes the replica of the other, with a small backlog, and its link
\* breaks; a replica is promoted and its master is made its replica.
Servers == {n1, n2}

Broken == INSTANCE Replication WITH srv <- v1, conn <- v2, rdb <- v3, count <- v4,
  Node <- Servers, First <- None, Attached <- {}, BacklogSize <- 1, Diskless <- TRUE,
  Orders <- <<Servers \X Servers>>, MaxWrites <- 2, MaxFaults <- 1

Redirected == INSTANCE Replication WITH srv <- v1, conn <- v2, rdb <- v3, count <- v4,
  Node <- Servers, First <- n1, Attached <- {n2}, BacklogSize <- 1, Diskless <- FALSE,
  Orders <- <<{<<n2, None>>}, {<<n1, n2>>}>>, MaxWrites <- 3, MaxFaults <- 0

Commands == {"force", "takeover", "addslots", "delslots", "flushslots", "bump", "replicate"}

\* Two masters with one epoch and a slot to assign; takeovers by a
\* replica, which is then the master of the other.
Assign == INSTANCE ClusterConfig WITH table <- v1, auth <- v2, fail <- v3, voted <- v4, net <- v5,
  count <- v6, won <- v7, votes <- v8, asserts <- v9,
  Nodes <- {1, 2}, Slots <- 1 .. 3, None <- 0,
  InitMaster <- [n \in {1, 2} |-> 0], InitOwner <- [s \in 1 .. 3 |-> IF s = 3 THEN 0 ELSE s],
  InitEpoch <- [n \in {1, 2} |-> 0], InitFail <- {},
  Live <- {1, 2}, Pingers <- {1, 2}, Steady <- {1, 2}, Suspects <- {}, MaxEpoch <- 5, MaxNet <- 1,
  MaxAttempts <- [n \in {1, 2} |-> 0],
  MaxCommands <- [k \in Commands |-> IF k = "addslots" THEN 2 ELSE IF k = "bump" THEN 1 ELSE 0]

Takeover == INSTANCE ClusterConfig WITH table <- v1, auth <- v2, fail <- v3, voted <- v4, net <- v5,
  count <- v6, won <- v7, votes <- v8, asserts <- v9,
  Nodes <- {1, 2}, Slots <- 1 .. 2, None <- 0,
  InitMaster <- [n \in {1, 2} |-> IF n = 2 THEN 1 ELSE 0], InitOwner <- [s \in 1 .. 2 |-> 1],
  InitEpoch <- [n \in {1, 2} |-> 1], InitFail <- {},
  Live <- {1, 2}, Pingers <- {1, 2}, Steady <- {1, 2}, Suspects <- {}, MaxEpoch <- 3, MaxNet <- 1,
  MaxAttempts <- [n \in {1, 2} |-> 0],
  MaxCommands <- [k \in Commands |-> IF k = "takeover" THEN 1 ELSE 0]

\* Saves after a failing child or write.
Saves == INSTANCE Persistence WITH s <- v1, next <- v2, txs <- v3, Dbs <- {0, 1},
  LoadTruncated <- TRUE, NoFsyncOnRewrite <- FALSE, RdbPreamble <- FALSE, AutoRewrite <- 0,
  Commands <- {"write", "config"}, Policy <- "everysec", AppendOnly <- FALSE, SavePoint <- 1,
  Faults <- {"child", "fork", "write"}, MaxWrites <- 1, MaxFaults <- 2

Unused4 == v4 = None
Unused5 == v5 = None /\ v6 = None /\ v7 = None /\ v8 = None /\ v9 = None

PartsInit ==
  /\ Init
  /\ \/ part = "link" /\ v1 = None /\ v2 = None /\ v3 = None /\ Unused4 /\ Unused5
     \/ part = "broken" /\ Broken!Init /\ Unused5
     \/ part = "redirected" /\ Redirected!Init /\ Unused5
     \/ part = "assign" /\ Assign!Init
     \/ part = "takeover" /\ Takeover!Init
     \/ part = "saves" /\ Saves!Init /\ Unused4 /\ Unused5

PartsNext ==
  \/ part = "link" /\ Next /\ UNCHANGED <<part, partVars>>
  \/ part = "broken" /\ Broken!Next /\ UNCHANGED <<part, vars, v5, v6, v7, v8, v9>>
  \/ part = "redirected" /\ Redirected!Next /\ UNCHANGED <<part, vars, v5, v6, v7, v8, v9>>
  \/ part = "assign" /\ Assign!Next /\ UNCHANGED <<part, vars>>
  \/ part = "takeover" /\ Takeover!Next /\ UNCHANGED <<part, vars>>
  \/ part = "saves" /\ Saves!Next /\ UNCHANGED <<part, vars, v4, v5, v6, v7, v8, v9>>

partsVars == <<part, vars, partVars>>

PartsSpec == PartsInit /\ [][PartsNext]_partsVars

\* The fairness of each part's module, under the condition that it is the part.
Link(A) == part = "link" /\ A /\ UNCHANGED <<part, partVars>>
OfSaves(A) == part = "saves" /\ A /\ UNCHANGED <<part, vars, v4, v5, v6, v7, v8, v9>>

Handler(n) ==
  /\ (part = "broken" /\ Broken!System(n)) \/ (part = "redirected" /\ Redirected!System(n))
  /\ UNCHANGED <<part, vars, v5, v6, v7, v8, v9>>

OfCluster(A, B) ==
  /\ (part = "assign" /\ A) \/ (part = "takeover" /\ B)
  /\ UNCHANGED <<part, vars>>

Lost == OfCluster(\E p \in v5 : Assign!Lose(p), \E p \in v5 : Takeover!Lose(p))

Pings(n, m) == OfCluster(Assign!Pinging(n, m), Takeover!Pinging(n, m))

Updates == OfCluster(
  \E m \in {1, 2}, p \in v5 : p.hdr.type = "UPDATE" /\ Assign!Process(m, p),
  \E m \in {1, 2}, p \in v5 : p.hdr.type = "UPDATE" /\ Takeover!Process(m, p))

PartsFairSpec ==
  /\ PartsSpec
  /\ WF_partsVars(Link(Timeout)) /\ WF_partsVars(Link(TimePasses)) /\ WF_partsVars(Link(connectWithMaster))
  /\ \A n \in Servers : WF_partsVars(Handler(n))
  /\ WF_partsVars(Lost) /\ SF_partsVars(Updates)
  /\ SF_partsVars(Pings(1, 2)) /\ SF_partsVars(Pings(2, 1))
  /\ WF_partsVars(OfSaves(Saves!BeforeSleep))
  /\ WF_partsVars(OfSaves(Saves!ServerCron))
  /\ WF_partsVars(OfSaves(Saves!BioFsync))
  /\ WF_partsVars(OfSaves(Saves!loadDataFromDisk))
  /\ WF_partsVars(OfSaves(Saves!aofChildPipeReadable))
  /\ WF_partsVars(OfSaves(Saves!rewriteAppendOnlyFile))
  /\ WF_partsVars(OfSaves(Saves!RdbChild))

-----------------------------------------------------------------------------
\* A replica ends with its master's data: CatchesUp of Replication.
CatchesUp == <>[](
  /\ part = "broken" => Broken!CaughtUp
  /\ part = "redirected" => Redirected!CaughtUp)

\* Masters end with different epochs, and of two claims to a slot one is given
\* up: EpochsSettle and ClaimsSettle of ClusterConfig.
ClaimsSettle ==
  /\ <>[](part = "assign" => Assign!EpochsDiffer)
  /\ \A n, m \in {1, 2}, s \in 1 .. 3 : []<>(part = "assign" => Assign!Granted(n, m, s))
  /\ \A n, m \in {1, 2}, s \in 1 .. 2 : []<>(part = "takeover" => Takeover!Granted(n, m, s))

\* Once faults and writes stop, the server is up, no rewrite is owed, what was
\* logged is written and synced, and the RDB file is current: Settles of
\* Persistence.
WritesSettle == <>[](part = "saves" => Saves!Settled)
=============================================================================
