---------------------------- MODULE Replication ----------------------------
(***************************************************************************)
(* Master-replica replication of the vendored Redis: replication IDs and   *)
(* offsets, the backlog, partial and full resynchronization, chained       *)
(* replicas, promotion and demotion with REPLICAOF, and restarts from an   *)
(* RDB file.                                                               *)
(*                                                                         *)
(* A dataset is the sequence of the writes that made it; a write is one    *)
(* byte of the replication stream and has a number of its own, so that two *)
(* histories never agree by accident.  There is one database.  All servers *)
(* run this version, so PSYNC is always understood.  The exchange before   *)
(* PSYNC is in module ReplicaLink; here it is part of Connect.             *)
(***************************************************************************)
EXTENDS Integers, Sequences, FiniteSets, SequencesExt, Functions

CONSTANTS
  Node,
  None,
  First,                \* a master,
  Attached,             \* and the nodes that are its replicas from the start
  BacklogSize,          \* server.repl_backlog_size
  Diskless,             \* server.repl_diskless_sync
  Orders,               \* bound: the REPLICAOF commands that may come first, second...
  MaxWrites,            \* bound: writes in all
  MaxFaults             \* bound: broken links, restarts, failing saves

VARIABLES
  srv,                  \* the server of every node
  conn,                 \* conn[r]: r's connection to its master
  rdb,                  \* rdb[n]: the dump file of n
  count                 \* how much of the bounds is used

vars == <<srv, conn, rdb, count>>

-----------------------------------------------------------------------------
NoId == <<>>
NoMaster == [id |-> NoId, off |-> -1]
NoBacklog == [used |-> FALSE, hist |-> <<>>]
NoChild == [type |-> "none", data |-> <<>>, id |-> NoId, off |-> -1]
Unreadable == [NoChild EXCEPT !.type = "bad"]
NoConn == [to |-> None, open |-> FALSE, req |-> NoMaster, inbox |-> <<>>]
NoSlaves == [r \in {} |-> None]

changeReplicationId(n, x) ==
  [x EXCEPT !.replid = <<n, x.ids + 1>>, !.ids = @ + 1]

clearReplicationId2(x) == [x EXCEPT !.replid2 = NoId, !.second = -1]

shiftReplicationId(n, x) ==
  changeReplicationId(n, [x EXCEPT !.replid2 = x.replid, !.second = x.offset + 1])

createReplicationBacklog(x) ==
  [x EXCEPT !.backlog = IF @.used THEN @ ELSE [used |-> TRUE, hist |-> <<>>]]

\* The first offset the backlog holds.
BacklogOff(x) == x.offset - Len(x.backlog.hist) + 1

\* The backlog keeps the last BacklogSize bytes.
feedReplicationBacklog(x, v) ==
  LET all == Append(x.backlog.hist, v)
  IN [x EXCEPT !.offset = @ + 1,
               !.backlog.hist = IF Len(all) > BacklogSize THEN Tail(all) ELSE all]

\* What the replicas of x are sent of a byte v: those that are online get it,
\* those that wait for their RDB file have it buffered.
Online(s) == s.state = "ONLINE" /\ ~s.onack

\* Mutant: nothing is buffered for replicas that wait for their RDB file.
FeedSlaves_NoBuffer(x, v) == x

FeedSlaves(x, v) ==
  [x EXCEPT !.slaves =
     [r \in DOMAIN @ |-> IF @[r].state = "WAIT_BGSAVE_START" \/ Online(@[r])
                         THEN @[r]
                         ELSE [@[r] EXCEPT !.buf = Append(@, v)]]]

FeedConns(c, x, v) ==
  [r \in Node |-> IF r \in DOMAIN x.slaves /\ Online(x.slaves[r])
                  THEN [c[r] EXCEPT !.inbox = Append(@, [t |-> "write", v |-> v])]
                  ELSE c[r]]

\* A master without backlog and replicas does not even count its writes.
replicationFeedSlaves(x, v) ==
  IF ~x.backlog.used /\ x.slaves = NoSlaves THEN x
  ELSE FeedSlaves(feedReplicationBacklog(x, v), v)

\* freeClient of all replicas; they still read what was sent to them.
disconnectSlaves(x) == [x EXCEPT !.slaves = NoSlaves]

CloseConns(c, x) ==
  [r \in Node |-> IF r \in DOMAIN x.slaves THEN [c[r] EXCEPT !.open = FALSE]
                                           ELSE c[r]]

\* r's connection goes, and with it r among the replicas of the other side.
Hangup(s, r) ==
  [n \in Node |-> IF n = conn[r].to /\ r \in DOMAIN s[n].slaves
                  THEN [s[n] EXCEPT !.slaves = [q \in DOMAIN @ \ {r} |-> @[q]]]
                  ELSE s[n]]

-----------------------------------------------------------------------------
(* The replica's master, cached for a later PSYNC.                         *)

replicationDiscardCachedMaster(x) == [x EXCEPT !.cached = NoMaster]

replicationCacheMaster(x) ==
  [x EXCEPT !.cached = x.master, !.master = NoMaster, !.state = "CONNECT"]

replicationCacheMasterUsingMyself(x) ==
  [x EXCEPT !.cached = [id |-> x.replid, off |-> x.offset]]

replicationResurrectCachedMaster(x) ==
  [x EXCEPT !.master = x.cached, !.cached = NoMaster, !.state = "CONNECTED"]

\* freeClient(server.master), if there is one.
FreeMaster(x) == IF x.master = NoMaster THEN x ELSE replicationCacheMaster(x)

\* Mutant: a transfer is not undone.
cancelReplicationHandshake_PsyncOnly(x) ==
  IF x.state = "RECEIVE_PSYNC" THEN [x EXCEPT !.state = "CONNECT"] ELSE x

cancelReplicationHandshake(x) ==
  IF x.state \in {"RECEIVE_PSYNC", "TRANSFER"} THEN [x EXCEPT !.state = "CONNECT"]
                                               ELSE x

-----------------------------------------------------------------------------
(* The RDB child.                                                          *)

rdbPopulateSaveInfo(x) ==
  IF \/ x.masterhost = None /\ x.backlog.used
     \/ x.master # NoMaster
     \/ x.cached # NoMaster
  THEN [id |-> x.replid, off |-> x.offset]
  ELSE NoMaster

\* A replica that got its RDB file kills a child that would overwrite it.
KillChild(x) == [x EXCEPT !.child.type = IF @ = "none" THEN @ ELSE "killed"]

Fork(x, type) ==
  LET rsi == rdbPopulateSaveInfo(x)
  IN [type |-> type, data |-> x.data, id |-> rsi.id, off |-> rsi.off]

Waiting(x) == {r \in DOMAIN x.slaves : x.slaves[r].state = "WAIT_BGSAVE_START"}

replicationSetupSlaveForFullResync(s, offset) ==
  [s EXCEPT !.state = "WAIT_BGSAVE_END", !.initial = offset]

\* The child starts with the dataset of now, for all the replicas that wait.
startBgsaveForReplication(x) ==
  [x EXCEPT !.child = Fork(x, IF Diskless THEN "socket" ELSE "disk"),
            !.slaves = [r \in DOMAIN @ |->
               IF r \in Waiting(x)
               THEN replicationSetupSlaveForFullResync(@[r], x.offset)
               ELSE @[r]]]

\* +FULLRESYNC, with the offset the RDB file has.
FullresyncReplies(c, x) ==
  [r \in Node |-> IF r \in Waiting(x)
                  THEN [c[r] EXCEPT !.inbox = Append(@,
                         [t |-> "fullresync", id |-> x.replid, off |-> x.offset])]
                  ELSE c[r]]

\* Without replication information, or if fork fails, those replicas are
\* dropped.
DropWaiting(x) ==
  [x EXCEPT !.slaves = [r \in DOMAIN @ \ Waiting(x) |-> @[r]]]

BgsaveForReplication(c, x, n, ok) ==
  IF ok /\ rdbPopulateSaveInfo(x) # NoMaster
  THEN /\ srv' = [srv EXCEPT ![n] = startBgsaveForReplication(x)]
       /\ conn' = FullresyncReplies(c, x)
  ELSE /\ srv' = [srv EXCEPT ![n] = DropWaiting(x)]
       /\ conn' = [r \in Node |-> IF r \in Waiting(x)
                                  THEN [c[r] EXCEPT !.open = FALSE] ELSE c[r]]

-----------------------------------------------------------------------------
(* PSYNC on the master's side.                                             *)

IdAccepted(x, req) ==
  req.id = x.replid \/ (req.id = x.replid2 /\ req.off <= x.second)

InBacklog(x, req) ==
  /\ x.backlog.used
  /\ req.off >= BacklogOff(x)
  /\ req.off <= BacklogOff(x) + Len(x.backlog.hist)

\* The bytes from an offset to the end of the backlog.
addReplyReplicationBacklog(x, off) ==
  LET from == off - BacklogOff(x) + 1
  IN SubSeq(x.backlog.hist, IF from < 1 THEN 1 ELSE from, Len(x.backlog.hist))

NewSlave == [state |-> "WAIT_BGSAVE_START", initial |-> -1, buf |-> <<>>,
             onack |-> FALSE]

\* +CONTINUE, followed by the backlog from the offset asked for.
masterTryPartialResynchronization(n, r) ==
  LET x == srv[n]
      req == conn[r].req
      bytes == addReplyReplicationBacklog(x, req.off)
  IN /\ IdAccepted(x, req)
     /\ InBacklog(x, req)
     /\ srv' = [srv EXCEPT ![n].slaves =
                  (r :> [NewSlave EXCEPT !.state = "ONLINE"]) @@ @]
     /\ conn' = [conn EXCEPT ![r].req = NoMaster,
                   ![r].inbox = @ \o <<[t |-> "continue", id |-> x.replid]>>
                     \o [i \in 1 .. Len(bytes) |-> [t |-> "write", v |-> bytes[i]]]]

\* A first replica without a backlog starts a new history.
AttachSlave(n, r) ==
  LET x == [srv[n] EXCEPT !.slaves = (r :> NewSlave) @@ @]
  IN IF Cardinality(DOMAIN x.slaves) = 1 /\ ~x.backlog.used
     THEN createReplicationBacklog(clearReplicationId2(changeReplicationId(n, x)))
     ELSE x

\* A replica for which the running child's differences are being buffered.
Registering(x) == {q \in DOMAIN x.slaves : x.slaves[q].state = "WAIT_BGSAVE_END"}

\* Full resynchronization: attach to the running child if that is possible,
\* or start one, or wait for replicationCron or for the end of the child.
FullResync(n, r, ok) ==
  LET x == AttachSlave(n, r)
      c == [conn EXCEPT ![r].req = NoMaster]
  IN IF x.child.type = "disk" /\ Registering(x) # {}
     THEN \E q \in Registering(x) :
            /\ srv' = [srv EXCEPT ![n] =
                 [x EXCEPT !.slaves[r] = [replicationSetupSlaveForFullResync(
                                            @, x.slaves[q].initial)
                                          EXCEPT !.buf = x.slaves[q].buf]]]
            /\ conn' = [c EXCEPT ![r].inbox = Append(@,
                 [t |-> "fullresync", id |-> x.replid, off |-> x.slaves[q].initial])]
     ELSE IF x.child.type # "none" \/ Diskless
     THEN srv' = [srv EXCEPT ![n] = x] /\ conn' = c
     ELSE BgsaveForReplication(c, x, n, ok)

Asked(n, r) ==
  /\ conn[r].to = n
  /\ conn[r].open
  /\ conn[r].req # NoMaster
  /\ r \notin DOMAIN srv[n].slaves

\* PSYNC at a replica whose own master link is down is refused.
Refused(n) == srv[n].masterhost # None /\ srv[n].state # "CONNECTED"

syncCommand(n, r) ==
  /\ Asked(n, r)
  /\ \/ /\ Refused(n)
        /\ conn' = [conn EXCEPT ![r].req = NoMaster,
                                ![r].inbox = Append(@, [t |-> "nomasterlink"])]
        /\ UNCHANGED <<srv, count>>
     \/ /\ ~Refused(n)
        /\ masterTryPartialResynchronization(n, r)
        /\ UNCHANGED count
     \/ /\ ~Refused(n)
        /\ ~(IdAccepted(srv[n], conn[r].req) /\ InBacklog(srv[n], conn[r].req))
        /\ \/ FullResync(n, r, TRUE) /\ UNCHANGED count
           \/ /\ count.faults < MaxFaults
              /\ FullResync(n, r, FALSE)
              /\ count' = [count EXCEPT !.faults = @ + 1]
  /\ UNCHANGED rdb

\* The end of the child.  Its file goes to the replicas that registered for
\* it, followed by what was buffered for them; a diskless one is followed by
\* nothing until the replica's first ACK.  Replicas that came later start the
\* next child.
Sent(x) ==
  [x EXCEPT !.child = NoChild,
            !.slaves = [r \in DOMAIN @ |->
               IF r \notin Registering(x) THEN @[r]
               ELSE IF x.child.type = "socket"
               THEN [@[r] EXCEPT !.state = "ONLINE", !.onack = TRUE]
               ELSE [@[r] EXCEPT !.state = "ONLINE", !.buf = <<>>]]]

Stream(bytes) == [i \in 1 .. Len(bytes) |-> [t |-> "write", v |-> bytes[i]]]

SendRdb(c, x) ==
  [r \in Node |-> IF r \in Registering(x)
                  THEN [c[r] EXCEPT !.inbox = Append(@,
                          [t |-> "rdb", data |-> x.child.data]) \o
                          (IF x.child.type = "socket" THEN <<>>
                           ELSE Stream(x.slaves[r].buf))]
                  ELSE c[r]]

updateSlavesWaitingBgsave(n) ==
  LET x == srv[n]
      y == Sent(x)
  IN /\ x.child.type \in {"disk", "socket"}
     /\ rdb' = IF x.child.type = "disk" THEN [rdb EXCEPT ![n] = x.child] ELSE rdb
     /\ IF Waiting(y) = {}
        THEN srv' = [srv EXCEPT ![n] = y] /\ conn' = SendRdb(conn, x)
        ELSE BgsaveForReplication(SendRdb(conn, x), y, n, TRUE)
     /\ UNCHANGED count

\* The child failed or was killed, for all of its replicas: their connections are
\* closed.
BgsaveFailed(n) ==
  LET x == srv[n]
      y == [x EXCEPT !.child = NoChild,
                     !.slaves = [r \in DOMAIN @ \ Registering(x) |-> @[r]]]
      c == [r \in Node |-> IF r \in Registering(x)
                           THEN [conn[r] EXCEPT !.open = FALSE] ELSE conn[r]]
  IN /\ x.child.type # "none"
     /\ IF x.child.type = "killed" THEN UNCHANGED count
        ELSE /\ count.faults < MaxFaults
             /\ count' = [count EXCEPT !.faults = @ + 1]
     /\ IF Waiting(y) = {}
        THEN srv' = [srv EXCEPT ![n] = y] /\ conn' = c
        ELSE BgsaveForReplication(c, y, n, TRUE)
     /\ UNCHANGED rdb

\* REPLCONF ACK: the replica that was sent its file through the socket is
\* really online now.
putSlaveOnline(n, r) ==
  /\ r \in DOMAIN srv[n].slaves
  /\ srv[n].slaves[r].onack
  /\ srv[r].state = "CONNECTED"
  /\ conn[r].to = n
  /\ srv' = [srv EXCEPT ![n].slaves[r].onack = FALSE, ![n].slaves[r].buf = <<>>]
  /\ conn' = [conn EXCEPT ![r].inbox = @ \o Stream(srv[n].slaves[r].buf)]
  /\ UNCHANGED <<rdb, count>>

-----------------------------------------------------------------------------
(* The replica's side.                                                     *)

\* connectWithMaster and syncWithMaster up to the PSYNC request.
Connect(r) ==
  LET x == srv[r]
  IN /\ x.state = "CONNECT"
     /\ r \notin DOMAIN srv[x.masterhost].slaves
     /\ srv' = [srv EXCEPT ![r].state = "RECEIVE_PSYNC"]
     /\ conn' = [conn EXCEPT ![r] =
          [to |-> x.masterhost, open |-> TRUE, inbox |-> <<>>,
           req |-> IF x.cached # NoMaster
                   THEN [x.cached EXCEPT !.off = @ + 1]
                   ELSE [id |-> NoId, off |-> 0]]]
     /\ UNCHANGED <<rdb, count>>

\* The next thing in r's connection, in a given state of r.
Received(r, state, t) ==
  /\ srv[r].state = state
  /\ conn[r].inbox # <<>>
  /\ Head(conn[r].inbox).t = t

Rest(r) == [conn EXCEPT ![r].inbox = Tail(@)]

\* The replica drops its replicas and its backlog: it may get an entirely
\* different dataset.
ReceiveFullresync(r) ==
  LET m == Head(conn[r].inbox)
      x == [disconnectSlaves(replicationDiscardCachedMaster(srv[r]))
            EXCEPT !.backlog = NoBacklog, !.state = "TRANSFER",
                   !.init = [id |-> m.id, off |-> m.off]]
  IN /\ Received(r, "RECEIVE_PSYNC", "fullresync")
     /\ srv' = [srv EXCEPT ![r] = x]
     /\ conn' = CloseConns(Rest(r), srv[r])
     /\ UNCHANGED <<rdb, count>>

\* readSyncBulkPayload at the end of the file.
LoadRdb(r) ==
  LET m == Head(conn[r].inbox)
      x == [KillChild(srv[r]) EXCEPT !.data = m.data, !.master = srv[r].init,
                          !.state = "CONNECTED", !.replid = srv[r].init.id,
                          !.offset = srv[r].init.off]
  IN /\ Received(r, "TRANSFER", "rdb")
     /\ srv' = [srv EXCEPT ![r] =
                  createReplicationBacklog(clearReplicationId2(x))]
     /\ conn' = Rest(r)
     /\ rdb' = [rdb EXCEPT ![r] = [type |-> "disk", data |-> m.data,
                                   id |-> srv[r].init.id, off |-> srv[r].init.off]]
     /\ UNCHANGED count

\* The file cannot be put in its place; or it does not load, when the old dataset is
\* gone and the new one is not there.
LoadFails(r) ==
  /\ Received(r, "TRANSFER", "rdb")
  /\ count.faults < MaxFaults
  /\ \E renamed \in BOOLEAN :
       /\ srv' = [Hangup(srv, r) EXCEPT ![r] =
                    [cancelReplicationHandshake(KillChild(@)) EXCEPT
                       !.data = IF renamed THEN <<>> ELSE @]]
       /\ rdb' = IF renamed THEN [rdb EXCEPT ![r] = Unreadable] ELSE rdb
  /\ conn' = [conn EXCEPT ![r] = NoConn]
  /\ count' = [count EXCEPT !.faults = @ + 1]

\* The master goes on with another ID: the old one becomes the second.
NewMasterId(x, id) ==
  [x EXCEPT !.replid2 = x.cached.id, !.second = x.offset + 1,
            !.replid = id, !.cached.id = id]

ReceiveContinue(r) ==
  LET id == Head(conn[r].inbox).id
      changed == id # srv[r].cached.id
      x == IF changed THEN disconnectSlaves(NewMasterId(srv[r], id)) ELSE srv[r]
  IN /\ Received(r, "RECEIVE_PSYNC", "continue")
     /\ srv' = [srv EXCEPT ![r] =
                  createReplicationBacklog(replicationResurrectCachedMaster(x))]
     /\ conn' = IF changed THEN CloseConns(Rest(r), srv[r]) ELSE Rest(r)
     /\ UNCHANGED <<rdb, count>>

\* -NOMASTERLINK: try later.
ReceiveError(r) ==
  /\ Received(r, "RECEIVE_PSYNC", "nomasterlink")
  /\ srv' = [srv EXCEPT ![r] = cancelReplicationHandshake(@)]
  /\ conn' = [conn EXCEPT ![r] = NoConn]
  /\ UNCHANGED <<rdb, count>>

\* processInputBufferAndReplicate: the write is executed, counted and passed
\* on to the replica's own replicas.
ReceiveWrite(r) ==
  LET v == Head(conn[r].inbox).v
      x == [srv[r] EXCEPT !.data = Append(@, v), !.master.off = @ + 1]
  IN /\ Received(r, "CONNECTED", "write")
     /\ srv' = [srv EXCEPT ![r] = FeedSlaves(feedReplicationBacklog(x, v), v)]
     /\ conn' = FeedConns(Rest(r), x, v)
     /\ UNCHANGED <<rdb, count>>

\* The end of the connection: the master is cached, or the attempt is undone.
\* A read error instead of the reply to PSYNC counts as a master without PSYNC:
\* the cached master, the replicas and the backlog go, and the SYNC that is
\* tried next finds the connection closed.
ConnectionLost(r) ==
  LET x == srv[r]
      noPsync == x.state = "RECEIVE_PSYNC"
      y == [disconnectSlaves(replicationDiscardCachedMaster(x))
            EXCEPT !.backlog = NoBacklog]
  IN /\ conn[r].to # None
     /\ ~conn[r].open
     /\ conn[r].inbox = <<>>
     /\ srv' = [srv EXCEPT ![r] = cancelReplicationHandshake(
                                    IF noPsync THEN y ELSE FreeMaster(x))]
     /\ conn' = [(IF noPsync THEN CloseConns(conn, x) ELSE conn)
                 EXCEPT ![r] = NoConn]
     /\ UNCHANGED <<rdb, count>>

-----------------------------------------------------------------------------
(* Clients, operators and faults.                                          *)

Write(n) ==
  LET v == count.writes + 1
      x == [srv[n] EXCEPT !.data = Append(@, v)]
  IN /\ srv[n].masterhost = None
     /\ count.writes < MaxWrites
     /\ count' = [count EXCEPT !.writes = v]
     /\ srv' = [srv EXCEPT ![n] = replicationFeedSlaves(x, v)]
     /\ conn' = FeedConns(conn, x, v)
     /\ UNCHANGED rdb

replicationSetMaster(n, m) ==
  LET x == cancelReplicationHandshake(disconnectSlaves(
             FreeMaster([srv[n] EXCEPT !.masterhost = m])))
      y == IF srv[n].masterhost = None THEN replicationCacheMasterUsingMyself(x)
                                       ELSE x
  IN /\ srv' = [Hangup(srv, n) EXCEPT ![n] = [y EXCEPT !.state = "CONNECT"]]
     /\ conn' = [CloseConns(conn, srv[n]) EXCEPT ![n] = NoConn]

replicationUnsetMaster(n) ==
  LET x == disconnectSlaves(cancelReplicationHandshake(
             replicationDiscardCachedMaster(FreeMaster(
               shiftReplicationId(n, [srv[n] EXCEPT !.masterhost = None])))))
  IN /\ srv' = [Hangup(srv, n) EXCEPT ![n] = [x EXCEPT !.state = "NONE"]]
     /\ conn' = [CloseConns(conn, srv[n]) EXCEPT ![n] = NoConn]

\* REPLICAOF m sent to n, or REPLICAOF NO ONE where m is None.
replicaofCommand(n) ==
  /\ count.replicaof < Len(Orders)
  /\ count' = [count EXCEPT !.replicaof = @ + 1]
  /\ \E m \in (Node \cup {None}) \ {n, srv[n].masterhost} :
       /\ <<n, m>> \in Orders[count.replicaof + 1]
       /\ IF m = None THEN replicationUnsetMaster(n) ELSE replicationSetMaster(n, m)
  /\ UNCHANGED rdb

\* replicationCron: a master without replicas frees its backlog after a while,
\* and changes its ID; replicas that wait get a child.
FreeBacklog(n) ==
  [clearReplicationId2(changeReplicationId(n, srv[n])) EXCEPT !.backlog = NoBacklog]

CronBacklog(n) ==
  /\ srv[n].slaves = NoSlaves
  /\ srv[n].backlog.used
  /\ srv[n].masterhost = None
  /\ count.faults < MaxFaults
  /\ count' = [count EXCEPT !.faults = @ + 1]
  /\ srv' = [srv EXCEPT ![n] = FreeBacklog(n)]
  /\ UNCHANGED <<conn, rdb>>

CronBgsave(n) ==
  /\ srv[n].child.type = "none"
  /\ Waiting(srv[n]) # {}
  /\ BgsaveForReplication(conn, srv[n], n, TRUE)
  /\ UNCHANGED <<rdb, count>>

\* BGSAVE by a client or by the save parameters.
bgsaveCommand(n) ==
  /\ srv[n].child.type = "none"
  /\ count.faults < MaxFaults
  /\ count' = [count EXCEPT !.faults = @ + 1]
  /\ srv' = [srv EXCEPT ![n].child = Fork(srv[n], "disk")]
  /\ UNCHANGED <<conn, rdb>>

\* A link breaks; the replica may still have received some of what was sent.
LinkBreaks(r) ==
  /\ conn[r].open
  /\ count.faults < MaxFaults
  /\ count' = [count EXCEPT !.faults = @ + 1]
  /\ srv' = Hangup(srv, r)
  /\ \E k \in 0 .. Len(conn[r].inbox) :
       conn' = [conn EXCEPT ![r].open = FALSE, ![r].req = NoMaster,
                            ![r].inbox = SubSeq(@, 1, k)]
  /\ UNCHANGED rdb

\* A server is started again with its dump file, which it must be able to read.  A
\* replica takes the replication ID and offset from the file (loadDataFromDisk).
Start(n, ids, masterhost, file) ==
  LET x == [data |-> file.data, replid |-> <<n, ids>>, ids |-> ids,
            replid2 |-> NoId, second |-> -1, offset |-> 0, backlog |-> NoBacklog,
            masterhost |-> masterhost,
            state |-> IF masterhost = None THEN "NONE" ELSE "CONNECT",
            master |-> NoMaster, cached |-> NoMaster, init |-> NoMaster,
            slaves |-> NoSlaves, child |-> NoChild]
  IN IF masterhost # None /\ file.id # NoId
     THEN replicationCacheMasterUsingMyself(
            [x EXCEPT !.replid = file.id, !.offset = file.off])
     ELSE x

Restart(n) ==
  /\ count.faults < MaxFaults
  /\ rdb[n] # Unreadable
  /\ count' = [count EXCEPT !.faults = @ + 1]
  /\ srv' = [Hangup(srv, n) EXCEPT ![n] =
               Start(n, srv[n].ids + 1, srv[n].masterhost, rdb[n])]
  /\ conn' = [r \in Node |->
                IF r = n THEN NoConn
                ELSE IF conn[r].to = n
                THEN [conn[r] EXCEPT !.open = FALSE, !.req = NoMaster]
                ELSE conn[r]]
  /\ UNCHANGED rdb

-----------------------------------------------------------------------------
\* The servers as they start; and those of a master that already has replicas, after
\* the full resynchronization of an empty dataset.
History == [type |-> "disk", data |-> <<>>, id |-> <<First, 1>>, off |-> 0]

FirstServer(n) ==
  LET x == Start(n, 0, None, NoChild)
      y == [x EXCEPT !.replid = History.id, !.backlog.used = TRUE]
  IN IF Attached = {} THEN x
     ELSE IF n = First
     THEN [y EXCEPT !.ids = 1,
                    !.slaves = [r \in Attached |-> [NewSlave EXCEPT !.state = "ONLINE", !.initial = 0]]]
     ELSE IF n \in Attached
     THEN [y EXCEPT !.masterhost = First, !.state = "CONNECTED",
                    !.master = [id |-> History.id, off |-> 0], !.init = [id |-> History.id, off |-> 0]]
     ELSE x

Init ==
  /\ srv = [n \in Node |-> FirstServer(n)]
  /\ conn = [n \in Node |-> IF n \in Attached THEN [NoConn EXCEPT !.to = First, !.open = TRUE]
                                               ELSE NoConn]
  /\ rdb = [n \in Node |-> IF Attached # {} /\ n \in Attached \cup {First} THEN History ELSE NoChild]
  /\ count = [writes |-> 0, replicaof |-> 0, faults |-> 0]

Next ==
  \E n \in Node :
    \/ Write(n)
    \/ replicaofCommand(n)
    \/ Connect(n)
    \/ ReceiveFullresync(n) \/ LoadRdb(n) \/ LoadFails(n)
    \/ ReceiveContinue(n) \/ ReceiveError(n) \/ ReceiveWrite(n)
    \/ ConnectionLost(n)
    \/ updateSlavesWaitingBgsave(n) \/ BgsaveFailed(n)
    \/ CronBacklog(n) \/ CronBgsave(n) \/ bgsaveCommand(n)
    \/ LinkBreaks(n) \/ Restart(n)
    \/ \E r \in Node \ {n} : syncCommand(n, r) \/ putSlaveOnline(n, r)

Spec == Init /\ [][Next]_vars

\* The handlers that run without an outside cause.
System(n) ==
  \/ Connect(n)
  \/ ReceiveFullresync(n) \/ LoadRdb(n)
  \/ ReceiveContinue(n) \/ ReceiveError(n) \/ ReceiveWrite(n)
  \/ ConnectionLost(n)
  \/ updateSlavesWaitingBgsave(n)
  \/ srv[n].child.type = "killed" /\ BgsaveFailed(n)
  \/ CronBgsave(n)
  \/ \E r \in Node \ {n} : syncCommand(n, r) \/ putSlaveOnline(n, r)

FairSpec == Spec /\ \A n \in Node : WF_vars(System(n))

-----------------------------------------------------------------------------
TypeOK ==
  /\ \A n \in Node :
       /\ srv[n].state \in {"NONE", "CONNECT", "RECEIVE_PSYNC", "TRANSFER", "CONNECTED"}
       /\ srv[n].masterhost \in (Node \cup {None}) \ {n}
       /\ srv[n].offset \in Nat
       /\ Len(srv[n].backlog.hist) <= BacklogSize
       /\ srv[n].child.type \in {"none", "disk", "socket", "killed"}
       /\ DOMAIN srv[n].slaves \subseteq Node \ {n}
       /\ conn[n].to \in Node \cup {None}
  /\ count.writes \in 0 .. MaxWrites

\* A connected replica holds its master's dataset, but for what is still on the
\* way to it: partial resynchronization never skips, repeats or mixes writes,
\* across promotions, demotions, chains, lost links and restarts.
ReplicaConsistent ==
  \A r \in Node : \A m \in Node \ {r} :
    /\ srv[r].state = "CONNECTED"
    /\ conn[r].to = m
    /\ r \in DOMAIN srv[m].slaves
    => srv[r].data \o [i \in DOMAIN conn[r].inbox |-> conn[r].inbox[i].v]
         \o srv[m].slaves[r].buf
       = srv[m].data

\* The replication ID names a history: of two servers with the same ID and a
\* backlog, the one with the lower offset holds a prefix of the other's data,
\* shorter by exactly the difference of the offsets.
SameIdSameHistory ==
  \A n, m \in Node :
    /\ srv[n].replid = srv[m].replid
    /\ srv[n].backlog.used /\ srv[m].backlog.used
    /\ srv[n].offset <= srv[m].offset
    => /\ IsPrefix(srv[n].data, srv[m].data)
       /\ Len(srv[m].data) - Len(srv[n].data) = srv[m].offset - srv[n].offset

\* What replication.c asserts or dereferences: replicas imply a backlog, a
\* +CONTINUE finds a cached master, a master being cached finds none, and a
\* connected replica counts as far as its master client.
Asserts ==
  \A n \in Node :
    /\ srv[n].slaves # NoSlaves => srv[n].backlog.used
    /\ srv[n].state = "CONNECTED" <=> srv[n].master # NoMaster
    /\ srv[n].master # NoMaster => /\ srv[n].cached = NoMaster
                                   /\ srv[n].master.off = srv[n].offset
                                   /\ srv[n].master.id = srv[n].replid
    /\ Received(n, "RECEIVE_PSYNC", "continue") => srv[n].cached # NoMaster

\* Once faults and reconfigurations end, every replica of a master reaches its
\* dataset.
CaughtUp == \A r, m \in Node :
  srv[r].masterhost = m /\ srv[m].masterhost = None => srv[r].data = srv[m].data

CatchesUp == <>[]CaughtUp

=============================================================================
