------------------------------ MODULE MCServer ------------------------------
(***************************************************************************)
(* Instances of the modules of a Redis server, its replicas and its        *)
(* Sentinels.  A behaviour picks one part and stays with it.  The parts    *)
(* other than "sentinel" and "leader" keep their state in v1 to v5; while  *)
(* one of them runs the Sentinels rest in their initial state.             *)
(***************************************************************************)
EXTENDS Sentinel, Integers, Sequences, TLC

CONSTANTS
  s1, s2, s3,           \* Sentinels
  peer1, peer2,         \* clients, descriptors and keys
  n1, n2, n3            \* the servers of Replication

VARIABLES part, v1, v2, v3, v4, v5

partVars == <<v1, v2, v3, v4, v5>>

\* Three Sentinels of which one may crash, and a master whose replicas are never
\* promoted.  One of them may start a failover in a later epoch while another one
\* waits for the votes of its own.  A quorum of 1 leaves the majority to decide.
Leader == INSTANCE Sentinel WITH
  Sentinels <- {s1, s2, s3}, Quorum <- 1, MaxEpoch <- 2, Promotable <- {},
  Crashing <- {s3}, Tilts <- FALSE, Lossy <- FALSE, Retries <- FALSE

\* Keyspace: refused commands, values and times to live, databases, two keys.
Refusals == INSTANCE Keyspace WITH now <- v1, db <- v2, cl <- v3, stream <- v4, rep <- v5,
  Clients <- {1, 2}, Keys <- {peer1}, Dbs <- {0}, CommandNames <- {"incr", "flush", "unwatch"},
  Errors <- {"unknown", "disk", "redirect"}, MaxValue <- 1, MaxTime <- 1, MaxQueue <- 1, MaxStream <- 0

Lifetimes == INSTANCE Keyspace WITH now <- v1, db <- v2, cl <- v3, stream <- v4, rep <- v5,
  Clients <- {1}, Keys <- {peer1}, Dbs <- {0},
  CommandNames <- {"set", "incr", "incrbyfloat", "get", "getset", "expire", "persist", "del", "evict"},
  Errors <- {}, MaxValue <- 1, MaxTime <- 3, MaxQueue <- 1, MaxStream <- 0

Databases == INSTANCE Keyspace WITH now <- v1, db <- v2, cl <- v3, stream <- v4, rep <- v5,
  Clients <- {1}, Keys <- {peer1}, Dbs <- {0, 1}, CommandNames <- {"incr", "move", "swapdb", "select", "flush"},
  Errors <- {}, MaxValue <- 1, MaxTime <- 1, MaxQueue <- 2, MaxStream <- 0

TwoKeys == INSTANCE Keyspace WITH now <- v1, db <- v2, cl <- v3, stream <- v4, rep <- v5,
  Clients <- {1}, Keys <- {peer1, peer2}, Dbs <- {0}, CommandNames <- {"mset", "expire", "rename"},
  Errors <- {}, MaxValue <- 1, MaxTime <- 2, MaxQueue <- 1, MaxStream <- 0

\* Clients blocked on values of two types; on lists, whose order matters; and
\* transactions, which may signal a key twice, or take away what they signalled.
Blocked == INSTANCE BlockedClients WITH
  db <- v1, blocking <- v2, client <- v3, replica <- v4, waiting <- v5,
  Clients <- {1, 2}, Keys <- {peer1, peer2}, Values <- {1}, MaxLen <- 2, MaxExec <- 1,
  CommandNames <- {"push", "pop", "rpoplpush", "zadd", "zpop", "set", "rename", "del", "flushdb"}

TwoLists == INSTANCE BlockedClients WITH
  db <- v1, blocking <- v2, client <- v3, replica <- v4, waiting <- v5,
  Clients <- {1, 2}, Keys <- {peer1, peer2}, Values <- {1, 2}, MaxLen <- 2, MaxExec <- 1,
  CommandNames <- {"push", "pushx", "linsert", "lset", "pop", "ltrim", "lrem", "rpoplpush", "sort store"}

Pairs == INSTANCE BlockedClients WITH
  db <- v1, blocking <- v2, client <- v3, replica <- v4, waiting <- v5,
  Clients <- {1, 2}, Keys <- {peer1, peer2}, Values <- {1}, MaxLen <- 1, MaxExec <- 2,
  CommandNames <- {"push", "pop", "rpoplpush", "zadd", "del"}

\* What the peers of Networking send: inline commands, then requests.
Inline(name) == [t |-> "line", v |-> <<name>>]
Target(name, fd) == [t |-> "line", v |-> <<name, fd>>]
Multibulk(name) == <<[t |-> "*", n |-> 1], [t |-> "$"], [t |-> "v", v |-> name]>>
Plan(p, q, masters) == [input |-> (peer1 :> p) @@ (peer2 :> q), masters |-> masters]

Good == {
  Plan(<<<<Inline("big"), Inline("list"), Inline("quit")>>, <<[t |-> "bad"]>>>>,
       <<Multibulk("list") \o <<Inline("skip"), Inline("get")>>>>, {}),
  Plan(<<<<Inline("big"), Inline("set")>>>>, <<<<Inline("set")>> \o Multibulk("big")>>, {}),
  Plan(<<<<Inline("blpop"), Inline("get"), Inline("pause"), Inline("get")>>>>,
       <<<<Target("kill", peer1), Inline("push")>>>>, {}),
  Plan(<<<<Inline("blpop"), Inline("get")>>>>,
       <<<<Inline("pause"), Target("unblock", peer1), Inline("push")>>>>, {})}

Scripts == {
  Plan(<<<<Inline("get"), Inline("eval"), Inline("get")>>>>, <<<<Inline("get"), Inline("quit")>>>>, {}),
  Plan(<<<<Inline("multi"), Inline("set"), Inline("exec"), Inline("set")>>>>,
       <<<<Inline("eval"), Inline("get")>>>>, {peer1})}

Short == {Plan(<<<<Inline("big"), Inline("get")>>>>, <<<<Inline("set")>>>>, {})}

Peers == INSTANCE Networking WITH s <- v1, Fds <- {peer1, peer2}, Plans <- Good,
  MaxClients <- 2, BufSize <- 2, ChunkSize <- 2, HardLimit <- 4, SoftLimit <- 0, SoftSeconds <- 0,
  MaxWrites <- 2, MaxQuery <- 4, Room <- 2, Always <- TRUE, Faults <- {}, MaxIdle <- 0, MaxTime <- 3

Eval == INSTANCE Networking WITH s <- v1, Fds <- {peer1, peer2}, Plans <- Scripts,
  MaxClients <- 2, BufSize <- 2, ChunkSize <- 2, HardLimit <- 0, SoftLimit <- 0, SoftSeconds <- 0,
  MaxWrites <- 2, MaxQuery <- 4, Room <- 2, Always <- TRUE, Faults <- {}, MaxIdle <- 0, MaxTime <- 2

Broken == INSTANCE Networking WITH s <- v1, Fds <- {peer1, peer2}, Plans <- Short,
  MaxClients <- 1, BufSize <- 2, ChunkSize <- 2, HardLimit <- 0, SoftLimit <- 2, SoftSeconds <- 0,
  MaxWrites <- 2, MaxQuery <- 4, Room <- 1, Always <- TRUE, Faults <- {"close", "reset"},
  MaxIdle <- 1, MaxTime <- 2

\* Persistence: a rewrite under faults, as commands and with an RDB preamble, the
\* default; the append only file turned on and off during a rewrite and during a
\* save; transactions; snapshots.
Rewrite == INSTANCE Persistence WITH s <- v1, next <- v2, txs <- v3, Dbs <- {0, 1},
  LoadTruncated <- TRUE, NoFsyncOnRewrite <- FALSE, RdbPreamble <- FALSE, AutoRewrite <- 0,
  Commands <- {"write", "rewrite"}, Policy <- "always", AppendOnly <- TRUE, SavePoint <- 0,
  Faults <- {"write", "truncate", "tear", "child", "install", "crash", "power"},
  MaxWrites <- 2, MaxFaults <- 1

Preamble == INSTANCE Persistence WITH s <- v1, next <- v2, txs <- v3, Dbs <- {0, 1},
  LoadTruncated <- TRUE, NoFsyncOnRewrite <- FALSE, RdbPreamble <- TRUE, AutoRewrite <- 0,
  Commands <- {"write", "rewrite"}, Policy <- "always", AppendOnly <- TRUE, SavePoint <- 0,
  Faults <- {"write", "truncate", "tear", "crash", "switch"},
  MaxWrites <- 2, MaxFaults <- 2

SwitchedOn == INSTANCE Persistence WITH s <- v1, next <- v2, txs <- v3, Dbs <- {0, 1},
  LoadTruncated <- TRUE, NoFsyncOnRewrite <- FALSE, RdbPreamble <- FALSE, AutoRewrite <- 0,
  Commands <- {"write", "config", "rewrite"}, Policy <- "everysec", AppendOnly <- FALSE, SavePoint <- 0,
  Faults <- {"child"},
  MaxWrites <- 2, MaxFaults <- 1

SwitchedSave == INSTANCE Persistence WITH s <- v1, next <- v2, txs <- v3, Dbs <- {0, 1},
  LoadTruncated <- TRUE, NoFsyncOnRewrite <- FALSE, RdbPreamble <- FALSE, AutoRewrite <- 0,
  Commands <- {"write", "config", "save"}, Policy <- "everysec", AppendOnly <- FALSE, SavePoint <- 0,
  Faults <- {"child"},
  MaxWrites <- 2, MaxFaults <- 1

Transactions == INSTANCE Persistence WITH s <- v1, next <- v2, txs <- v3, Dbs <- {0},
  LoadTruncated <- FALSE, NoFsyncOnRewrite <- FALSE, RdbPreamble <- FALSE, AutoRewrite <- 0,
  Commands <- {"tx", "rewrite"}, Policy <- "everysec", AppendOnly <- TRUE, SavePoint <- 0,
  Faults <- {"write", "truncate", "crash", "power"},
  MaxWrites <- 2, MaxFaults <- 1

TornTwice == INSTANCE Persistence WITH s <- v1, next <- v2, txs <- v3, Dbs <- {0, 1},
  LoadTruncated <- TRUE, NoFsyncOnRewrite <- FALSE, RdbPreamble <- FALSE, AutoRewrite <- 0,
  Commands <- {"tx"}, Policy <- "everysec", AppendOnly <- TRUE, SavePoint <- 0,
  Faults <- {"power"},
  MaxWrites <- 4, MaxFaults <- 2

Snapshots == INSTANCE Persistence WITH s <- v1, next <- v2, txs <- v3, Dbs <- {0, 1},
  LoadTruncated <- TRUE, NoFsyncOnRewrite <- FALSE, RdbPreamble <- FALSE, AutoRewrite <- 0,
  Commands <- {"write", "save", "flush", "shutdown"}, Policy <- "no", AppendOnly <- FALSE, SavePoint <- 2,
  Faults <- {"crash", "child", "rdb", "fork"},
  MaxWrites <- 3, MaxFaults <- 2

\* Replication: three servers that are made replicas of each other; two servers
\* whose link breaks, or one restarts; of a master with two replicas one is
\* promoted and the others follow it, with such a fault; the replica in the middle
\* of a chain is promoted and the old master follows.
To(n, m) == {<<n, m>>}
AnyOf(nodes) == nodes \X (nodes \cup {None})

Failover == INSTANCE Replication WITH srv <- v1, conn <- v2, rdb <- v3, count <- v4,
  Node <- {n1, n2, n3}, First <- None, Attached <- {}, BacklogSize <- 1, Diskless <- FALSE,
  Orders <- <<AnyOf({n1, n2, n3}), AnyOf({n1, n2, n3})>>, MaxWrites <- 2, MaxFaults <- 0

Faults == INSTANCE Replication WITH srv <- v1, conn <- v2, rdb <- v3, count <- v4,
  Node <- {n1, n2}, First <- None, Attached <- {}, BacklogSize <- 2, Diskless <- FALSE,
  Orders <- <<AnyOf({n1, n2}), AnyOf({n1, n2})>>, MaxWrites <- 2, MaxFaults <- 1

Succession == INSTANCE Replication WITH srv <- v1, conn <- v2, rdb <- v3, count <- v4,
  Node <- {n1, n2, n3}, First <- n1, Attached <- {n2, n3}, BacklogSize <- 2, Diskless <- FALSE,
  Orders <- <<To(n2, None), To(n3, n2) \cup To(n1, n2)>>, MaxWrites <- 2, MaxFaults <- 1

Chain == INSTANCE Replication WITH srv <- v1, conn <- v2, rdb <- v3, count <- v4,
  Node <- {n1, n2, n3}, First <- n1, Attached <- {n2, n3}, BacklogSize <- 2, Diskless <- FALSE,
  Orders <- <<To(n3, n2), To(n2, None), To(n1, n2)>>, MaxWrites <- 3, MaxFaults <- 0

PartsInit ==
  \/ part = "leader" /\ Leader!Init /\ v1 = None /\ v2 = None /\ v3 = None /\ v4 = None /\ v5 = None
  \/ /\ Init
     /\ \/ part = "sentinel" /\ v1 = None /\ v2 = None /\ v3 = None /\ v4 = None /\ v5 = None
        \/ part = "refusals" /\ Refusals!Init
        \/ part = "lifetimes" /\ Lifetimes!Init
        \/ part = "databases" /\ Databases!Init
        \/ part = "two keys" /\ TwoKeys!Init
        \/ part = "blocked" /\ Blocked!Init
        \/ part = "two lists" /\ TwoLists!Init
        \/ part = "pairs" /\ Pairs!Init
        \/ part = "peers" /\ Peers!Init /\ v2 = None /\ v3 = None /\ v4 = None /\ v5 = None
        \/ part = "eval" /\ Eval!Init /\ v2 = None /\ v3 = None /\ v4 = None /\ v5 = None
        \/ part = "breaks" /\ Broken!Init /\ v2 = None /\ v3 = None /\ v4 = None /\ v5 = None
        \/ part = "rewrite" /\ Rewrite!Init /\ v4 = None /\ v5 = None
        \/ part = "preamble" /\ Preamble!Init /\ v4 = None /\ v5 = None
        \/ part = "switched on" /\ SwitchedOn!Init /\ v4 = None /\ v5 = None
        \/ part = "switched save" /\ SwitchedSave!Init /\ v4 = None /\ v5 = None
        \/ part = "transactions" /\ Transactions!Init /\ v4 = None /\ v5 = None
        \/ part = "torn twice" /\ TornTwice!Init /\ v4 = None /\ v5 = None
        \/ part = "snapshots" /\ Snapshots!Init /\ v4 = None /\ v5 = None
        \/ part = "failover" /\ Failover!Init /\ v5 = None
        \/ part = "faults" /\ Faults!Init /\ v5 = None
        \/ part = "succession" /\ Succession!Init /\ v5 = None
        \/ part = "chain" /\ Chain!Init /\ v5 = None

PartsNext ==
  \/ part = "sentinel" /\ Next /\ UNCHANGED <<part, partVars>>
  \/ part = "leader" /\ Leader!Next /\ UNCHANGED <<part, partVars>>
  \/ part = "refusals" /\ Refusals!Next /\ UNCHANGED <<part, vars>>
  \/ part = "lifetimes" /\ Lifetimes!Next /\ UNCHANGED <<part, vars>>
  \/ part = "databases" /\ Databases!Next /\ UNCHANGED <<part, vars>>
  \/ part = "two keys" /\ TwoKeys!Next /\ UNCHANGED <<part, vars>>
  \/ part = "blocked" /\ Blocked!Next /\ UNCHANGED <<part, vars>>
  \/ part = "two lists" /\ TwoLists!Next /\ UNCHANGED <<part, vars>>
  \/ part = "pairs" /\ Pairs!Next /\ UNCHANGED <<part, vars>>
  \/ part = "peers" /\ Peers!Next /\ UNCHANGED <<part, vars, v2, v3, v4, v5>>
  \/ part = "eval" /\ Eval!Next /\ UNCHANGED <<part, vars, v2, v3, v4, v5>>
  \/ part = "breaks" /\ Broken!Next /\ UNCHANGED <<part, vars, v2, v3, v4, v5>>
  \/ part = "rewrite" /\ Rewrite!Next /\ UNCHANGED <<part, vars, v4, v5>>
  \/ part = "preamble" /\ Preamble!Next /\ UNCHANGED <<part, vars, v4, v5>>
  \/ part = "switched on" /\ SwitchedOn!Next /\ UNCHANGED <<part, vars, v4, v5>>
  \/ part = "switched save" /\ SwitchedSave!Next /\ UNCHANGED <<part, vars, v4, v5>>
  \/ part = "transactions" /\ Transactions!Next /\ UNCHANGED <<part, vars, v4, v5>>
  \/ part = "torn twice" /\ TornTwice!Next /\ UNCHANGED <<part, vars, v4, v5>>
  \/ part = "snapshots" /\ Snapshots!Next /\ UNCHANGED <<part, vars, v4, v5>>
  \/ part = "failover" /\ Failover!Next /\ UNCHANGED <<part, vars, v5>>
  \/ part = "faults" /\ Faults!Next /\ UNCHANGED <<part, vars, v5>>
  \/ part = "succession" /\ Succession!Next /\ UNCHANGED <<part, vars, v5>>
  \/ part = "chain" /\ Chain!Next /\ UNCHANGED <<part, vars, v5>>

partsVars == <<part, vars, partVars>>

PartsSpec == PartsInit /\ [][PartsNext]_partsVars

-----------------------------------------------------------------------------
\* A replica that has applied the whole stream has the keys of its master; a
\* replica with the ID and the offset of its master has its data, also when it went
\* on with a promoted replica by the second ID; and +CONTINUE finds the master it
\* was cached for: ReplicaConverges of Keyspace, ReplicaEqual of BlockedClients,
\* ReplicaConsistent, SameIdSameHistory and Asserts of Replication.
ReplicaConsistent ==
  /\ part = "refusals" => Refusals!ReplicaConverges
  /\ part = "lifetimes" => Lifetimes!ReplicaConverges
  /\ part = "databases" => Databases!ReplicaConverges
  /\ part = "two keys" => TwoKeys!ReplicaConverges
  /\ part = "blocked" => Blocked!ReplicaEqual
  /\ part = "two lists" => TwoLists!ReplicaEqual
  /\ part = "pairs" => Pairs!ReplicaEqual
  /\ part = "failover" => Failover!ReplicaConsistent /\ Failover!SameIdSameHistory
  /\ part = "faults" => Faults!ReplicaConsistent /\ Faults!SameIdSameHistory
  /\ part = "succession" =>
       Succession!ReplicaConsistent /\ Succession!SameIdSameHistory /\ Succession!Asserts
  /\ part = "chain" => Chain!ReplicaConsistent /\ Chain!SameIdSameHistory /\ Chain!Asserts

\* EXEC runs only if no watched key was written since WATCH by a command other than
\* MOVE and SWAPDB, and after a command that could not be queued it runs nothing:
\* WatchSeesWrites and AllOrNothing of Keyspace.
TransactionsIsolated ==
  /\ part = "refusals" => Refusals!WatchSeesWrites /\ Refusals!AllOrNothing
  /\ part = "lifetimes" => Lifetimes!WatchSeesWrites /\ Lifetimes!AllOrNothing
  /\ part = "databases" => Databases!WatchSeesWrites /\ Databases!AllOrNothing
  /\ part = "two keys" => TwoKeys!WatchSeesWrites /\ TwoKeys!AllOrNothing

\* Replies are sent in the order of the requests, and under appendfsync always
\* only after the write is on disk: RepliesInOrder, ReplyAfterSync and
\* MasterStreamProxied of Networking.
RepliesInOrder ==
  /\ part = "peers" => Peers!RepliesInOrder /\ Peers!ReplyAfterSync /\ Peers!MasterStreamProxied
  /\ part = "eval" => Eval!RepliesInOrder /\ Eval!MasterStreamProxied
  /\ part = "breaks" => Broken!RepliesInOrder /\ Broken!ReplyAfterSync

\* A client with a reply to send or input to process is in a list that the event
\* loop looks at, and none waits for a key that could serve it: ReplyScheduled,
\* InputNotForgotten and ListsMatchFlags of Networking, NoMissedWakeup of
\* BlockedClients.
NobodyForgotten ==
  /\ part = "blocked" => Blocked!NoMissedWakeup
  /\ part = "two lists" => TwoLists!NoMissedWakeup
  /\ part = "pairs" => Pairs!NoMissedWakeup
  /\ part = "peers" => Peers!ReplyScheduled /\ Peers!InputNotForgotten /\ Peers!ListsMatchFlags
  /\ part = "eval" => Eval!ReplyScheduled /\ Eval!ListsMatchFlags
  /\ part = "breaks" => Broken!ReplyScheduled /\ Broken!ListsMatchFlags

\* The append only file and its buffer replay to the data in memory until a load
\* cuts the RDB preamble off, and transactions are whole: AofReplays and
\* TransactionsWhole of Persistence.
AofReplays ==
  /\ part = "rewrite" => Rewrite!AofReplays
  /\ part = "preamble" => Preamble!AofReplays
  /\ part = "switched on" => SwitchedOn!AofReplays
  /\ part = "switched save" => SwitchedSave!AofReplays
  /\ part = "transactions" => Transactions!AofReplays /\ Transactions!TransactionsWhole
  /\ part = "torn twice" => TornTwice!TransactionsWhole

\* A write that was acknowledged under appendfsync always survives a crash or power
\* failure, except one between the rename and the fsync of a rewritten file and the
\* load that cuts the RDB preamble off, and the counter of changes covers all that
\* no snapshot holds: AckedSurvive and DirtyCoversUnsaved of Persistence.
WritesSurvive ==
  /\ part = "rewrite" => Rewrite!AckedSurvive
  /\ part = "preamble" => Preamble!AckedSurvive
  /\ part = "snapshots" => Snapshots!DirtyCoversUnsaved
=============================================================================
