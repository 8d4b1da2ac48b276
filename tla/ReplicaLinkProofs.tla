------------------------- MODULE ReplicaLinkProofs -------------------------
(***************************************************************************)
(* What a replica holds for its master always matches the state of its     *)
(* link: the proof for every configuration, every length of the file and   *)
(* every number of replies.                                                *)
(***************************************************************************)
EXTENDS ReplicaLink, TLAPS

Phases == Idle \cup Handshake \cup {"CONNECTING", "TRANSFER", "CONNECTED"}

\* The handles alone are not inductive: the master client a transfer ends with
\* must not meet a cached one, so a transfer has none, and the link must be in
\* one of the phases that cancelReplicationHandshake knows.
LinkInv ==
  /\ state \in Phases
  /\ masterhost \in BOOLEAN /\ master \in BOOLEAN /\ cached \in BOOLEAN
  /\ HandlesMatchState
  /\ state = "TRANSFER" => ~cached

\* Whatever phase the link is in, what REPLICAOF and the timeouts call leaves no
\* socket, no handler and no file.
Closed == sock' = 0 /\ tmp' = 0 /\ reader' = "none" /\ writer' = "none"

\* cancelReplicationHandshake closes all that an unfinished link holds.
LEMMA CancelCloses ==
  ASSUME LinkInv, state # "CONNECTED", cancelReplicationHandshake
  PROVE  Closed
BY DEF LinkInv, HandlesMatchState, Phases, Idle, Handshake, Closed,
       cancelReplicationHandshake, slaveIsInHandshakeState,
       replicationAbortSyncTransfer, undoConnectWithMaster

\* REPLICAOF closes all that any link holds.
LEMMA DropCloses ==
  ASSUME LinkInv, DropLink
  PROVE  Closed
<1>1. CASE state = "CONNECTED"
  BY <1>1 DEF LinkInv, HandlesMatchState, Idle, DropLink, Closed
<1>2. CASE state # "CONNECTED"
  BY <1>2, CancelCloses DEF DropLink
<1> QED
  BY <1>1, <1>2

\* A link that was closed and waits for the next connection satisfies the
\* invariant.
LEMMA BackToConnect ==
  ASSUME LinkInv, Closed, state' = "CONNECT", masterhost', masterhost' \in BOOLEAN,
         ~ master', master' \in BOOLEAN, cached' \in BOOLEAN
  PROVE  LinkInv'
BY DEF LinkInv, HandlesMatchState, Phases, Idle, Closed

\* The error path of syncWithMaster does the same for a link without a file.
LEMMA ErrorCloses ==
  ASSUME LinkInv, state \notin Idle, state \notin {"TRANSFER", "CONNECTED"}, SyncError, tmp' = tmp
  PROVE  Closed /\ state' = "CONNECT"
BY DEF LinkInv, HandlesMatchState, Idle, SyncError, Closed

-----------------------------------------------------------------------------
LEMMA LinkInit == Init => LinkInv
BY DEF Init, LinkInv, HandlesMatchState, Phases, Idle

\* The next phase of the handshake is one of the handshake.
LEMMA AfterReplyType ==
  ASSUME NEW s \in Handshake, s # "RECEIVE_PSYNC"
  PROVE  AfterReply[s] \in Handshake
BY DEF AfterReply, Handshake

LEMMA LinkStep ==
  ASSUME LinkInv, [Next]_vars
  PROVE  LinkInv'
<1> USE DEF LinkInv
<1>1. CASE connectWithMaster
  BY <1>1 DEF connectWithMaster, HandlesMatchState, Phases, Idle
<1>2. CASE Connected
  <2>1. CASE SyncError
    BY <1>2, <2>1, ErrorCloses, BackToConnect DEF Connected, HandlesMatchState, Idle
  <2>2. CASE ~ SyncError
    BY <1>2, <2>2 DEF Connected, HandlesMatchState, Phases, Idle, Handshake
  <2> QED
    BY <2>1, <2>2
<1>3. ASSUME NEW reply \in Reply, HandshakeReply(reply)
      PROVE  LinkInv'
  <2>1. state \in Handshake /\ state # "RECEIVE_PSYNC"
    BY <1>3 DEF HandshakeReply, slaveIsInHandshakeState
  <2>2. CASE SyncError
    BY <1>3, <2>1, <2>2, ErrorCloses, BackToConnect DEF HandshakeReply, HandlesMatchState, Idle, Handshake
  <2>3. CASE state' = AfterReply[state] /\ UNCHANGED <<sock, reader, writer>>
    <3>1. state' \in Handshake
      BY <2>1, <2>3, AfterReplyType
    <3> QED
      BY <1>3, <2>1, <2>3, <3>1 DEF HandshakeReply, HandlesMatchState, Phases, Idle, Handshake
  <2> QED
    BY <1>3, <2>2, <2>3 DEF HandshakeReply
<1>4. ASSUME NEW reply \in Reply, PsyncReply(reply)
      PROVE  LinkInv'
  <2>1. CASE PsyncWait
    BY <1>4, <2>1 DEF PsyncReply, PsyncWait, HandlesMatchState
  <2>2. CASE PsyncContinue
    BY <1>4, <2>2 DEF PsyncReply, PsyncContinue, HandlesMatchState, Phases, Idle
  <2>3. CASE PsyncTryLater
    BY <1>4, <2>3, ErrorCloses, BackToConnect DEF PsyncReply, PsyncTryLater, HandlesMatchState, Idle
  <2>4. CASE PsyncFull(reply)
    <3>1. CASE SyncError /\ UNCHANGED tmp
      BY <1>4, <2>4, <3>1, ErrorCloses, BackToConnect DEF PsyncReply, PsyncFull, HandlesMatchState, Idle
    <3>2. CASE StartTransfer /\ UNCHANGED <<sock, writer>>
      <4>1. state = "RECEIVE_PSYNC" /\ state' = "TRANSFER" /\ ~ cached' /\ cached' \in BOOLEAN
        BY <1>4, <2>4, <3>2 DEF PsyncReply, PsyncFull, StartTransfer
      <4>2. UNCHANGED <<sock, writer, master, masterhost>> /\ tmp' = tmp + 1
            /\ reader' = "readSyncBulkPayload"
        BY <1>4, <2>4, <3>2 DEF PsyncReply, PsyncFull, StartTransfer
      <4> QED
        BY <4>1, <4>2 DEF HandlesMatchState, Phases, Idle
    <3> QED
      BY <2>4, <3>1, <3>2 DEF PsyncFull
  <2> QED
    BY <1>4, <2>1, <2>2, <2>3, <2>4 DEF PsyncReply
<1>5. CASE BulkHeader
  <2>1. CASE cancelReplicationHandshake /\ state' = "CONNECT"
    BY <1>5, <2>1, CancelCloses, BackToConnect DEF BulkHeader, HandlesMatchState
  <2>2. CASE UNCHANGED <<state, sock, reader, writer, tmp>>
    BY <1>5, <2>2 DEF BulkHeader, HandlesMatchState
  <2> QED
    BY <1>5, <2>1, <2>2 DEF BulkHeader
<1>6. CASE BulkData
  <2>1. CASE cancelReplicationHandshake /\ state' = "CONNECT"
    BY <1>6, <2>1, CancelCloses, BackToConnect DEF BulkData, HandlesMatchState
  <2>2. CASE UNCHANGED <<state, sock, reader, writer, tmp>>
    BY <1>6, <2>2 DEF BulkData, HandlesMatchState
  <2> QED
    BY <1>6, <2>1, <2>2 DEF BulkData
<1>7. CASE BulkEnd
  <2>1. CASE cancelReplicationHandshake /\ state' = "CONNECT" /\ UNCHANGED master
    BY <1>7, <2>1, CancelCloses, BackToConnect DEF BulkEnd, HandlesMatchState
  <2>2. CASE /\ tmp' = tmp - 1 /\ master' = TRUE /\ state' = "CONNECTED"
             /\ reader' = "readQueryFromClient" /\ UNCHANGED <<sock, writer>>
    BY <1>7, <2>2 DEF BulkEnd, HandlesMatchState, Phases, Idle
  <2> QED
    BY <1>7, <2>1, <2>2 DEF BulkEnd
<1>8. ASSUME freeMaster, state = "CONNECTED", UNCHANGED <<masterhost, tmp>>
      PROVE  LinkInv'
  <2>1. replicationHandleMasterDisconnection /\ cached' \in BOOLEAN
    BY <1>8 DEF freeMaster, replicationCacheMaster, HandlesMatchState
  <2>2. Closed
    BY <1>8, <2>1 DEF replicationHandleMasterDisconnection, HandlesMatchState, Idle, Closed
  <2>3. masterhost' /\ masterhost' \in BOOLEAN
    BY <1>8 DEF HandlesMatchState
  <2> QED
    BY <1>8, <2>1, <2>2, <2>3, BackToConnect DEF replicationHandleMasterDisconnection
<1>9. CASE MasterLost
  BY <1>8, <1>9 DEF MasterLost
<1>10. CASE Timeout
  <2>1. CASE state = "CONNECTED"
    BY <1>8, <1>10, <2>1 DEF Timeout, slaveIsInHandshakeState, Handshake
  <2>2. CASE state # "CONNECTED"
    BY <1>10, <2>2, CancelCloses, BackToConnect DEF Timeout, HandlesMatchState
  <2> QED
    BY <2>1, <2>2
<1>11. CASE TimePasses
  BY <1>11 DEF TimePasses, HandlesMatchState
<1>12. CASE replicationSetMaster
  BY <1>12, DropCloses, BackToConnect DEF replicationSetMaster
<1>13. CASE replicationUnsetMaster
  BY <1>13, DropCloses DEF replicationUnsetMaster, Closed, HandlesMatchState, Phases, Idle
<1>14. CASE SlaveAttaches
  BY <1>14 DEF SlaveAttaches, HandlesMatchState
<1>15. CASE UNCHANGED vars
  BY <1>15 DEF vars, HandlesMatchState
<1> QED
  BY <1>1, <1>2, <1>3, <1>4, <1>5, <1>6, <1>7, <1>9, <1>10, <1>11, <1>12, <1>13, <1>14,
     <1>15 DEF Next, Replies

\* In every state, after every error, timeout and REPLICAOF, the process holds
\* the socket, the handlers, the file and the clients of its phase and no more.
THEOREM HandlesCorrect == Spec => []HandlesMatchState
<1>1. LinkInv /\ [Next]_vars => LinkInv'
  BY LinkStep
<1>2. LinkInv => HandlesMatchState
  BY DEF LinkInv
<1> QED
  BY LinkInit, <1>1, <1>2, PTL DEF Spec
=============================================================================
