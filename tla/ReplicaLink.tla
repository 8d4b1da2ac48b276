---------------------------- MODULE ReplicaLink ----------------------------
(***************************************************************************)
(* A replica's link to its master in replication.c: the non-blocking       *)
(* connection, the handshake of syncWithMaster, the transfer of the RDB    *)
(* file, the timeouts of replicationCron and REPLICAOF at any moment.      *)
(*                                                                         *)
(* The master is whatever answers at the other end: any reply, any order,  *)
(* silence, or a closed connection.  One thing is assumed of it, which a   *)
(* Redis master keeps: it does not continue a stream that the replica did  *)
(* not ask to continue.  What is tracked is what the process holds: the    *)
(* socket, the handlers installed for it, the temporary file, the master   *)
(* client and the cached one.                                              *)
(***************************************************************************)
EXTENDS Integers, Sequences

CONSTANTS
  UseAuth,              \* server.masterauth is set
  AnnounceIp,           \* server.slave_announce_ip is set
  Size,                 \* the length of the RDB file, in reads
  MaxPings              \* bound: newlines the master sends to keep us alive

VARIABLES
  state,                \* server.repl_state
  masterhost,           \* is there a master to replicate
  sock,                 \* open sockets to the master
  reader,               \* the readable handler of the socket
  writer,               \* the writable handler of the socket
  tmp,                  \* open temporary files
  master, cached,       \* server.master, server.cached_master
  size, got,            \* repl_transfer_size, repl_transfer_read
  idle,                 \* nothing came from the master for repl_timeout
  slaves,               \* sub-replicas are attached
  pings,
  last                  \* history: the last reply of the master

vars == <<state, masterhost, sock, reader, writer, tmp, master, cached, size,
          got, idle, slaves, pings, last>>

-----------------------------------------------------------------------------
Handshake == {"RECEIVE_PONG", "RECEIVE_AUTH", "RECEIVE_PORT", "RECEIVE_IP",
              "RECEIVE_CAPA", "RECEIVE_PSYNC"}

\* A line of the master, or the end of the connection, which
\* sendSynchronousCommand turns into an error line.
Reply == {"+ok", "-noauth", "-err", "-readerror", "newline", "+FULLRESYNC",
          "+CONTINUE", "-NOMASTERLINK"}

slaveIsInHandshakeState == state \in Handshake

\* The state after a reply that is accepted: the steps without configuration
\* are passed over, and the next command is written.
AfterReply ==
  [RECEIVE_PONG |-> IF UseAuth THEN "RECEIVE_AUTH" ELSE "RECEIVE_PORT",
   RECEIVE_AUTH |-> "RECEIVE_PORT",
   RECEIVE_PORT |-> IF AnnounceIp THEN "RECEIVE_IP" ELSE "RECEIVE_CAPA",
   RECEIVE_IP   |-> "RECEIVE_CAPA",
   RECEIVE_CAPA |-> "RECEIVE_PSYNC"]

\* Only PING and AUTH must succeed; the REPLCONF options are optional.
Accepted(s, reply) ==
  /\ s = "RECEIVE_PONG" => reply \in {"+ok", "-noauth"}
  /\ s = "RECEIVE_AUTH" => reply = "+ok"

-----------------------------------------------------------------------------
\* The error path of syncWithMaster.
SyncError ==
  /\ sock' = sock - 1
  /\ reader' = "none"
  /\ writer' = "none"
  /\ state' = "CONNECT"

undoConnectWithMaster ==
  /\ sock' = sock - 1
  /\ reader' = "none"
  /\ writer' = "none"

\* Mutant: the temporary file of an aborted transfer stays open.
replicationAbortSyncTransfer_KeepsFile == undoConnectWithMaster /\ UNCHANGED tmp

replicationAbortSyncTransfer == undoConnectWithMaster /\ tmp' = tmp - 1

\* What cancelReplicationHandshake does to the handles.
cancelReplicationHandshake ==
  IF state = "TRANSFER" THEN replicationAbortSyncTransfer
  ELSE IF state = "CONNECTING" \/ slaveIsInHandshakeState
  THEN undoConnectWithMaster /\ UNCHANGED tmp
  ELSE UNCHANGED <<sock, reader, writer, tmp>>

\* replicationCron finds the link to be established.
connectWithMaster ==
  /\ state = "CONNECT"
  /\ sock' = sock + 1
  /\ reader' = "syncWithMaster"
  /\ writer' = "syncWithMaster"
  /\ idle' = FALSE
  /\ state' = "CONNECTING"
  /\ UNCHANGED <<masterhost, tmp, master, cached, size, got, slaves, pings, last>>

\* The connection is there, or failed.
Connected ==
  /\ state = "CONNECTING"
  /\ writer = "syncWithMaster"
  /\ \/ /\ writer' = "none"
        /\ state' = "RECEIVE_PONG"
        /\ UNCHANGED <<sock, reader>>
     \/ SyncError
  /\ UNCHANGED <<masterhost, tmp, master, cached, size, got, idle, slaves, pings,
                 last>>

\* One reply of the handshake, before PSYNC.  The next command may fail to be
\* written.
HandshakeReply(reply) ==
  /\ slaveIsInHandshakeState /\ state # "RECEIVE_PSYNC"
  /\ reply \in {"+ok", "-noauth", "-err", "-readerror"}
  /\ reader = "syncWithMaster"
  /\ idle' = (idle /\ reply = "-readerror")
  /\ \/ /\ Accepted(state, reply)
        /\ state' = AfterReply[state]
        /\ UNCHANGED <<sock, reader, writer>>
     \/ SyncError
  /\ last' = reply
  /\ UNCHANGED <<masterhost, tmp, master, cached, size, got, slaves, pings>>

\* slaveTryPartialResynchronization, the reading half, and what
\* syncWithMaster does with its result.
PsyncWait ==
  /\ pings < MaxPings
  /\ pings' = pings + 1
  /\ idle' = FALSE
  /\ UNCHANGED <<state, sock, reader, writer, tmp, master, cached, size, got, slaves>>

\* The assumption on the master: +CONTINUE only answers a PSYNC with an ID and an
\* offset, those of the cached master.  The code uses the cached master unchecked.
PsyncContinue ==
  /\ cached
  /\ master' = TRUE
  /\ cached' = FALSE
  /\ state' = "CONNECTED"
  /\ reader' = "readQueryFromClient"
  /\ idle' = FALSE
  /\ slaves' \in {slaves, FALSE}        \* gone, if the master's ID changed
  /\ UNCHANGED <<sock, writer, tmp, size, got, pings>>

PsyncTryLater ==
  /\ SyncError
  /\ idle' = FALSE
  /\ UNCHANGED <<tmp, master, cached, size, got, slaves, pings>>

\* The file is opened and the handler that fills it installed.
StartTransfer ==
  /\ tmp' = tmp + 1
  /\ reader' = "readSyncBulkPayload"
  /\ state' = "TRANSFER"
  /\ size' = -1
  /\ got' = 0

\* A full resynchronization, with FULLRESYNC or with the old SYNC after a
\* reply that is not understood.  Writing SYNC, or opening the file, may fail.
PsyncFull(reply) ==
  /\ cached' = FALSE
  /\ slaves' = FALSE
  /\ \/ StartTransfer /\ UNCHANGED <<sock, writer>>
     \/ SyncError /\ UNCHANGED <<tmp, size, got>>
  /\ idle' = (idle /\ reply = "-readerror")
  /\ UNCHANGED <<master, pings>>

PsyncReply(reply) ==
  /\ state = "RECEIVE_PSYNC"
  /\ reader = "syncWithMaster"
  /\ \/ reply = "newline" /\ PsyncWait
     \/ reply = "+CONTINUE" /\ PsyncContinue
     \/ reply = "-NOMASTERLINK" /\ PsyncTryLater
     \/ reply \notin {"newline", "+CONTINUE", "-NOMASTERLINK"} /\ PsyncFull(reply)
  /\ last' = reply
  /\ UNCHANGED masterhost

-----------------------------------------------------------------------------
(* readSyncBulkPayload                                                     *)

\* The first line: a newline, an error, or the length of the file (or the mark
\* that will end it).
BulkHeader ==
  /\ state = "TRANSFER"
  /\ reader = "readSyncBulkPayload"
  /\ size = -1
  /\ \/ /\ size' = Size
        /\ idle' = idle        \* the timer is not restarted here
        /\ UNCHANGED <<state, sock, reader, writer, tmp, pings>>
     \/ /\ pings < MaxPings
        /\ pings' = pings + 1
        /\ idle' = FALSE
        /\ UNCHANGED <<size, state, sock, reader, writer, tmp>>
     \/ /\ cancelReplicationHandshake
        /\ state' = "CONNECT"
        /\ UNCHANGED <<size, idle, pings>>
  /\ UNCHANGED <<masterhost, master, cached, got, slaves, last>>

BulkData ==
  /\ state = "TRANSFER"
  /\ reader = "readSyncBulkPayload"
  /\ size # -1
  /\ got + 1 < size
  /\ \/ /\ got' = got + 1
        /\ idle' = FALSE
        /\ UNCHANGED <<state, sock, reader, writer, tmp>>
     \/ /\ cancelReplicationHandshake
        /\ state' = "CONNECT"
        /\ UNCHANGED <<got, idle>>
  /\ UNCHANGED <<masterhost, master, cached, size, slaves, pings, last>>

\* The last read: the file replaces the dump file and is loaded; the socket
\* becomes the master client.
BulkEnd ==
  /\ state = "TRANSFER"
  /\ reader = "readSyncBulkPayload"
  /\ size # -1
  /\ got + 1 = size
  /\ got' = size
  /\ idle' = FALSE
  /\ \/ /\ tmp' = tmp - 1
        /\ master' = TRUE
        /\ state' = "CONNECTED"
        /\ reader' = "readQueryFromClient"
        /\ UNCHANGED <<sock, writer>>
     \/ /\ cancelReplicationHandshake
        /\ state' = "CONNECT"
        /\ UNCHANGED master
  /\ UNCHANGED <<masterhost, cached, size, slaves, pings, last>>

-----------------------------------------------------------------------------
replicationHandleMasterDisconnection ==
  /\ sock' = sock - 1
  /\ reader' = "none"
  /\ writer' = "none"
  /\ master' = FALSE
  /\ state' = "CONNECT"

replicationCacheMaster == replicationHandleMasterDisconnection /\ cached' = TRUE

\* The master client is freed: its state is kept for a later PSYNC, unless it was
\* about to be closed for an error, or blocked.
freeMaster ==
  \/ replicationCacheMaster
  \/ replicationHandleMasterDisconnection /\ UNCHANGED cached

MasterLost ==
  /\ state = "CONNECTED"
  /\ freeMaster
  /\ UNCHANGED <<masterhost, tmp, size, got, idle, slaves, pings, last>>

\* Mutant: a transfer never times out.
Timeout_NotTransfer ==
  /\ masterhost
  /\ idle
  /\ \/ /\ state = "CONNECTING" \/ slaveIsInHandshakeState
        /\ cancelReplicationHandshake
        /\ state' = "CONNECT"
        /\ UNCHANGED <<master, cached>>
     \/ /\ state = "CONNECTED"
        /\ freeMaster
        /\ UNCHANGED tmp
  /\ UNCHANGED <<masterhost, size, got, idle, slaves, pings, last>>

\* The three timeouts of replicationCron.
Timeout ==
  /\ masterhost
  /\ idle
  /\ \/ /\ state \in {"CONNECTING", "TRANSFER"} \/ slaveIsInHandshakeState
        /\ cancelReplicationHandshake
        /\ state' = "CONNECT"
        /\ UNCHANGED <<master, cached>>
     \/ /\ state = "CONNECTED"
        /\ freeMaster
        /\ UNCHANGED tmp
  /\ UNCHANGED <<masterhost, size, got, idle, slaves, pings, last>>

\* repl_timeout passes without a byte from the master.
TimePasses ==
  /\ ~idle
  /\ state \notin {"NONE", "CONNECT"}
  /\ idle' = TRUE
  /\ UNCHANGED <<state, masterhost, sock, reader, writer, tmp, master, cached,
                 size, got, slaves, pings, last>>

-----------------------------------------------------------------------------
(* REPLICAOF                                                               *)

\* Closes the link in whatever state it is.
DropLink ==
  IF state = "CONNECTED"
  THEN sock' = sock - 1 /\ reader' = "none" /\ writer' = "none" /\ UNCHANGED tmp
  ELSE cancelReplicationHandshake

replicationSetMaster ==
  /\ masterhost' = TRUE
  /\ DropLink
  /\ cached' \in {cached \/ master \/ ~masterhost, cached \/ ~masterhost}
  /\ master' = FALSE
  /\ state' = "CONNECT"
  /\ slaves' = FALSE
  /\ last' = "none"
  /\ UNCHANGED <<size, got, idle, pings>>

replicationUnsetMaster ==
  /\ masterhost
  /\ masterhost' = FALSE
  /\ DropLink
  /\ cached' = FALSE
  /\ master' = FALSE
  /\ state' = "NONE"
  /\ slaves' = FALSE
  /\ last' = "none"
  /\ UNCHANGED <<size, got, idle, pings>>

\* A sub-replica attaches; syncCommand refuses it unless we are connected.
SlaveAttaches ==
  /\ state \in {"NONE", "CONNECTED"}
  /\ ~slaves
  /\ slaves' = TRUE
  /\ UNCHANGED <<state, masterhost, sock, reader, writer, tmp, master, cached,
                 size, got, idle, pings, last>>

Init ==
  /\ state = "NONE"
  /\ masterhost = FALSE
  /\ sock = 0 /\ reader = "none" /\ writer = "none" /\ tmp = 0
  /\ master = FALSE /\ cached = FALSE
  /\ size = -1 /\ got = 0
  /\ idle = FALSE /\ slaves = FALSE /\ pings = 0 /\ last = "none"

Replies == \E reply \in Reply : HandshakeReply(reply) \/ PsyncReply(reply)

Next ==
  \/ connectWithMaster \/ Connected \/ Replies
  \/ BulkHeader \/ BulkData \/ BulkEnd
  \/ MasterLost \/ Timeout \/ TimePasses
  \/ replicationSetMaster \/ replicationUnsetMaster \/ SlaveAttaches

Spec == Init /\ [][Next]_vars

\* replicationCron runs every second, and time passes; nothing is assumed of
\* the master.
FairSpec == Spec /\ WF_vars(Timeout) /\ WF_vars(TimePasses) /\ WF_vars(connectWithMaster)

-----------------------------------------------------------------------------
Idle == {"NONE", "CONNECT"}

\* In every state the process holds exactly what the state needs: one socket
\* with the handlers of the phase, the temporary file only during a transfer,
\* and a master client only when connected.  Nothing leaks on any error path,
\* timeout or REPLICAOF, and nothing is closed twice.
HandlesMatchState ==
  /\ sock = IF state \in Idle THEN 0 ELSE 1
  /\ tmp = IF state = "TRANSFER" THEN 1 ELSE 0
  /\ reader = IF state \in Idle THEN "none"
              ELSE IF state = "TRANSFER" THEN "readSyncBulkPayload"
              ELSE IF state = "CONNECTED" THEN "readQueryFromClient"
              ELSE "syncWithMaster"
  /\ writer = IF state = "CONNECTING" THEN "syncWithMaster" ELSE "none"
  /\ master <=> state = "CONNECTED"
  /\ state = "NONE" <=> ~masterhost
  /\ master => ~cached

\* A silent master holds the replica in no phase for ever: each is left, by the
\* timeouts if by nothing else.
NoPhaseForever ==
  \A s \in Handshake \cup {"CONNECTING", "TRANSFER"} : (state = s) ~> (state # s)

\* "We lost connection with our master, don't disconnect slaves yet, maybe
\* we'll be able to PSYNC with our master later": a connection that breaks
\* before the reply to PSYNC leaves the sub-replicas.
ConnectionLossKeepsReplicas ==
  [][ state = "RECEIVE_PSYNC" /\ last' = "-readerror"
      => slaves' = slaves ]_vars

=============================================================================
