------------------------------ MODULE Networking ------------------------------
(***************************************************************************)
(* Client connections of networking.c and the event loop of ae.c that      *)
(* drives them: accepting, reading and parsing requests, replies buffered  *)
(* in a fixed buffer and then in a list of blocks, writes before sleeping  *)
(* and from write handlers, the several ways a client is closed, blocked,  *)
(* paused and protected clients, and the event loop re-entered by a slow   *)
(* script.                                                                  *)
(*                                                                         *)
(* A request is a sequence of tokens: a multi bulk count, then a length    *)
(* and a value per argument, or one inline line; the value carries the     *)
(* command.  A reply is a sequence of units; a unit says which command it  *)
(* answers, its place, and which write it tells of.  The peer of a         *)
(* connection sends the tokens of its plan one by one and takes replies at *)
(* its own pace.  A descriptor closed by the server may be accepted again. *)
(***************************************************************************)
EXTENDS Integers, Sequences, FiniteSets, FiniteSetsExt, SequencesExt

CONSTANTS Fds,            \* descriptors
          Plans,          \* what the peers may do: [input, masters], for each descriptor the tokens
                          \* of its consecutive connections, and those that hold our master's link
          MaxClients, BufSize, ChunkSize, HardLimit, SoftLimit, SoftSeconds, MaxWrites,
          MaxQuery, Room,
          Always,         \* whether the append only file is synced at every write
          Faults,         \* {"close", "reset"}: what a peer may do
          MaxIdle, MaxTime,
          None

VARIABLE s

Idle == [j |-> 1, n |-> 0]
Nothing == [fd |-> None, mask |-> {}] \* no event
Unblocked == [fd |-> "unblocked", mask |-> {}]

vars == <<s>>

Closed ==
  [fd |-> FALSE, flags |-> {}, querybuf |-> <<>>, pos |-> 0, reqtype |-> None, mb |-> 0, bulk |-> FALSE,
   argv |-> <<>>, buf |-> <<>>, sentlen |-> 0, reply |-> <<>>, bytes |-> 0, mask |-> {}, soft |-> 0,
   last |-> 0, deadline |-> 0, reploff |-> 0, readoff |-> 0, pending |-> <<>>]

Is(t, c, f) == f \in t.cl[c].flags
SetFlag(t, c, f) == [t EXCEPT !.cl[c].flags = @ \cup {f}]
ClearFlag(t, c, f) == [t EXCEPT !.cl[c].flags = @ \ {f}]
Without(q, c) == SelectSeq(q, LAMBDA x : x # c)

-----------------------------------------------------------------------------
(* Replies                                                                  *)

clientHasPendingReplies(t, c) == t.cl[c].buf # <<>> \/ t.cl[c].reply # <<>>

clientInstallWriteHandler(t, c) ==
  IF Is(t, c, "pending") THEN t
  ELSE [SetFlag(t, c, "pending") EXCEPT !.towrite = <<c>> \o @]

AcceptsReplies(t, c) == t.cl[c].fd /\ t.cl[c].flags \cap {"off", "skip", "master"} = {}

prepareClientToWrite(t, c) == IF clientHasPendingReplies(t, c) THEN t ELSE clientInstallWriteHandler(t, c)

freeClientAsync(t, c) ==
  IF Is(t, c, "asap") THEN t ELSE [SetFlag(t, c, "asap") EXCEPT !.toclose = Append(@, c)]

\* the blocks of the list, without the list's own nodes, against the limits; the soft one counts
\* when it lasts
checkClientOutputBufferLimits(t, c) ==
  LET Check(used, since, soft) ==
        [over |-> (HardLimit # 0 /\ used >= HardLimit) \/ (soft /\ since # 0 /\ t.now - since > SoftSeconds),
         soft |-> IF ~soft THEN 0 ELSE IF since = 0 THEN t.now ELSE since]
  IN Check(t.cl[c].bytes, t.cl[c].soft, SoftLimit # 0 /\ t.cl[c].bytes >= SoftLimit)

CloseIfOver(t, c, k) ==
  LET u == [t EXCEPT !.cl[c].soft = k.soft] IN IF k.over THEN freeClientAsync(u, c) ELSE u

asyncCloseClientOnOutputBufferLimitReached(t, c) ==
  IF t.cl[c].bytes = 0 \/ Is(t, c, "asap") THEN t ELSE CloseIfOver(t, c, checkClientOutputBufferLimits(t, c))

\* Mutant: the buffer is used although blocks wait
addReplyToBuffer_Fits(r, units) == Len(units) <= BufSize - Len(r.buf)

\* whether the fixed buffer takes the units
addReplyToBuffer(r, units) == r.reply = <<>> /\ Len(units) <= BufSize - Len(r.buf)

\* the tail block takes what fits, the rest goes to a new one
addReplyStringToList(r, units) ==
  LET last == Len(r.reply)
      tail == IF last = 0 THEN None ELSE r.reply[last]
      Filled(n) == IF n = 0 THEN r ELSE [r EXCEPT !.reply[last].used = @ \o SubSeq(units, 1, n)]
      NewBlock(q, rest, size) == [q EXCEPT !.reply = Append(@, [used |-> rest, size |-> size]), !.bytes = @ + size]
      Put(q, rest) == IF rest = <<>> THEN q ELSE NewBlock(q, rest, Max({ChunkSize, Len(rest)}))
      Split(n) == Put(Filled(n), SubSeq(units, n + 1, Len(units)))
  IN Split(IF tail = None THEN 0 ELSE Min({Len(units), tail.size - Len(tail.used)}))

BufferReply(t, c, units) ==
  IF addReplyToBuffer(t.cl[c], units) THEN [t EXCEPT !.cl[c].buf = @ \o units]
  ELSE asyncCloseClientOnOutputBufferLimitReached([t EXCEPT !.cl[c] = addReplyStringToList(@, units)], c)

addReply(t, c, units) ==
  IF ~AcceptsReplies(t, c) THEN t
  ELSE IF Is(t, c, "reply") THEN prepareClientToWrite(t, c)
  ELSE BufferReply([prepareClientToWrite(t, c) EXCEPT !.net[c].want = @ \o units], c, units)

addDeferredMultiBulkLength(t, c) ==
  IF AcceptsReplies(t, c) THEN [prepareClientToWrite(t, c) EXCEPT !.cl[c].reply = Append(@, None)] ELSE t

\* the length takes its place before the elements: inside the next block if there is room
setDeferredMultiBulkLength(t, c, node, unit) ==
  LET r == t.cl[c]
      next == r.reply[node + 1]
  IN IF ~AcceptsReplies(t, c) THEN t
     ELSE asyncCloseClientOnOutputBufferLimitReached(
       IF node < Len(r.reply) /\ (node < Len(r.reply) => next.size > Len(next.used) /\ Len(next.used) < 4 * ChunkSize)
       THEN [t EXCEPT !.cl[c].reply = RemoveAt([@ EXCEPT ![node + 1].used = <<unit>> \o @], node)]
       ELSE [t EXCEPT !.cl[c].reply[node] = [used |-> <<unit>>, size |-> 1], !.cl[c].bytes = @ + 1], c)

\* a reply of several elements, whose number is known at the end
DeferredReply(t, c, head, elements) ==
  LET a == addDeferredMultiBulkLength([t EXCEPT !.net[c].want = IF AcceptsReplies(t, c) THEN Append(@, head) ELSE @], c)
      b == FoldLeft(LAMBDA acc, e : addReply(acc, c, <<e>>), a, elements)
  IN setDeferredMultiBulkLength(b, c, Len(a.cl[c].reply), head)

-----------------------------------------------------------------------------
(* Closing                                                                  *)

queueClientForReprocessing(t, c) ==
  IF Is(t, c, "unblocked") THEN t
  ELSE [SetFlag(t, c, "unblocked") EXCEPT !.unblocked = Append(@, c)]

unblockClient(t, c) ==
  queueClientForReprocessing([ClearFlag(t, c, "blocked") EXCEPT !.blocked = Without(@, c)], c)

\* out of every list, and no events of it any more
unlinkClient(t, c) ==
  [t EXCEPT !.current = IF @ = c THEN None ELSE @, !.towrite = Without(@, c), !.unblocked = Without(@, c),
            !.clients = Without(@, c), !.cl[c] = Closed]

\* closed now, or later when it is protected; what is kept of our master is in ReplicaLink
freeClient(t, c) ==
  LET u == IF Is(t, c, "blocked") THEN unblockClient(t, c) ELSE t
  IN IF Is(t, c, "protected") THEN freeClientAsync(t, c)
     ELSE [unlinkClient(u, c) EXCEPT !.toclose = IF Is(t, c, "asap") THEN Without(@, c) ELSE @]

RECURSIVE freeClientsInAsyncFreeQueue(_)
freeClientsInAsyncFreeQueue(t) ==
  IF t.toclose = <<>> THEN t
  ELSE LET c == Head(t.toclose)
           u == freeClient(ClearFlag(t, c, "asap"), c)
       IN freeClientsInAsyncFreeQueue([u EXCEPT !.toclose = Tail(@)])

-----------------------------------------------------------------------------
(* Writing                                                                  *)

\* what one write takes of the units left to send
Take(t, c, units) == Min({Len(units) - t.cl[c].sentlen, t.net[c].room})

\* units of the buffer, then of the blocks, as long as the socket takes them; the number written
RECURSIVE WriteLoop(_, _, _)
WriteLoop(t, c, written) ==
  LET r == t.cl[c]
      units == IF r.buf # <<>> THEN r.buf ELSE r.reply[1].used
      n == Take(t, c, units)
      out == [t EXCEPT !.net[c].got = @ \o SubSeq(units, r.sentlen + 1, r.sentlen + n), !.net[c].room = @ - n]
      u == IF r.sentlen + n < Len(units) THEN [out EXCEPT !.cl[c].sentlen = @ + n]
           ELSE IF r.buf # <<>> THEN [out EXCEPT !.cl[c].buf = <<>>, !.cl[c].sentlen = 0]
           ELSE [out EXCEPT !.cl[c].reply = Tail(@), !.cl[c].sentlen = 0, !.cl[c].bytes = @ - r.reply[1].size]
  IN IF ~clientHasPendingReplies(t, c) \/ n = 0 THEN [t |-> t, n |-> written]
     ELSE IF written + n > MaxWrites THEN [t |-> u, n |-> written + n]
     ELSE WriteLoop(u, c, written + n)

\* [t, ok]: ok is false when the client is gone
writeToClient(t, c, installed) ==
  LET Seen(w) == IF w.n > 0 /\ ~Is(t, c, "master") /\ MaxIdle # 0 THEN [w.t EXCEPT !.cl[c].last = t.now] ELSE w.t
      Sent(v) == IF Is(v, c, "reply") THEN [t |-> freeClient(v, c), ok |-> FALSE] ELSE [t |-> v, ok |-> TRUE]
      Written(u) ==
        IF clientHasPendingReplies(u, c) THEN [t |-> u, ok |-> TRUE]
        ELSE Sent([u EXCEPT !.cl[c].sentlen = 0, !.cl[c].mask = IF installed THEN @ \ {"w", "barrier"} ELSE @])
  IN IF clientHasPendingReplies(t, c) /\ t.net[c].reset THEN [t |-> freeClient(t, c), ok |-> FALSE]
     ELSE Written(Seen(WriteLoop(t, c, 0)))

\* with a sync at every write, a descriptor is written before it is read
WriteEvents == IF Always THEN {"w", "barrier"} ELSE {"w"}

RECURSIVE handleClientsWithPendingWrites(_)
handleClientsWithPendingWrites(t) ==
  LET c == Head(t.towrite)
      u == [ClearFlag(t, c, "pending") EXCEPT !.towrite = Tail(@)]
      Written(w) == IF w.ok /\ clientHasPendingReplies(w.t, c)
                    THEN [w.t EXCEPT !.cl[c].mask = @ \cup WriteEvents] ELSE w.t
  IN IF t.towrite = <<>> THEN t
     ELSE handleClientsWithPendingWrites(
            IF Is(t, c, "protected") THEN u ELSE Written(writeToClient(u, c, FALSE)))

protectClient(t, c) == [SetFlag(t, c, "protected") EXCEPT !.cl[c].mask = {}]

unprotectClient(t, c) ==
  LET u == [ClearFlag(t, c, "protected") EXCEPT !.cl[c].mask = @ \cup {"r"}]
  IN IF clientHasPendingReplies(u, c) THEN clientInstallWriteHandler(u, c) ELSE u

-----------------------------------------------------------------------------
(* Pauses                                                                   *)

pauseClients(t, end) ==
  [t EXCEPT !.paused = TRUE, !.pauseEnd = IF ~t.paused \/ end > @ THEN end ELSE @]

\* the end of a pause puts every client that is not blocked up for reprocessing
clientsArePaused(t) ==
  IF t.paused /\ t.pauseEnd < t.now
  THEN FoldLeft(LAMBDA acc, c : IF Is(acc, c, "blocked") THEN acc ELSE queueClientForReprocessing(acc, c),
                [t EXCEPT !.paused = FALSE], t.clients)
  ELSE t

-----------------------------------------------------------------------------
(* Commands                                                                 *)

Unit(cmd, k, w) == [cmd |-> cmd, k |-> k, w |-> w]
Ok(cmd) == <<Unit(cmd, 1, 0)>>

\* a write: to the append only file's buffer
Dirty(t) == [t EXCEPT !.writes = @ + 1]

\* the element pushed goes to the client blocked longest, if any
handleClientsBlockedOnKeys(t) ==
  LET c == Head(t.blocked)
  IN IF t.blocked = <<>> \/ t.items = 0 THEN t
     ELSE unblockClient(addReply([t EXCEPT !.items = @ - 1, !.writes = @ + 1], c, <<Unit("blpop", 1, t.writes + 1)>>), c)

blpopCommand(t, c) ==
  IF t.items > 0 THEN addReply([Dirty(t) EXCEPT !.items = @ - 1], c, <<Unit("blpop", 1, t.writes + 1)>>)
  ELSE [SetFlag(t, c, "blocked") EXCEPT !.blocked = Append(@, c), !.cl[c].deadline = t.now + 1]

\* the clients killed are freed at once, the caller after its reply
ClientKill(t, c, x) ==
  LET Told(u) == addReply(u, c, IF t.cl[x].fd THEN Ok("kill") ELSE <<Unit("none", 1, 0)>>)
  IN [Told(IF t.cl[x].fd /\ x # c THEN freeClient(t, x) ELSE t)
        EXCEPT !.cl[c].flags = IF t.cl[x].fd /\ x = c THEN @ \cup {"reply"} ELSE @]

ClientUnblock(t, c, x) ==
  LET hit == t.cl[x].fd /\ Is(t, x, "blocked")
  IN addReply(IF hit THEN unblockClient(addReply(t, x, <<Unit("unblocked", 1, 0)>>), x) ELSE t,
              c, IF hit THEN Ok("unblock") ELSE <<Unit("none", 1, 0)>>)

\* a script slower than its limit: its client is hidden from the events handled meanwhile
luaMaskCountHook(t, c) == [protectClient(t, c) EXCEPT !.script = c, !.timedout = TRUE]

\* the commands that answer with one reply: what they do, and the reply
Answering == {"set", "get", "big", "push", "on", "pause"}

Effect(t, c, cmd) ==
  CASE cmd = "set"          -> Dirty(t)
    [] cmd = "push"         -> [Dirty(t) EXCEPT !.items = @ + 1]
    [] cmd = "on"           -> [t EXCEPT !.cl[c].flags = @ \ {"off", "skip"}]
    [] cmd = "pause"        -> pauseClients(t, t.now)
    [] cmd \in {"get", "big"} -> t

Answer(t, cmd) ==
  IF cmd = "big" THEN [k \in 1 .. BufSize + 1 |-> Unit("big", k, 0)]
  ELSE <<Unit(cmd, 1, IF cmd \in {"set", "push"} THEN t.writes + 1 ELSE 0)>>

Call(t, c, argv) ==
  LET Woken(u) == IF argv[1] = "push" THEN handleClientsBlockedOnKeys(u) ELSE u IN
  CASE argv[1] \in Answering -> Woken(addReply(Effect(t, c, argv[1]), c, Answer(t, argv[1])))
    [] argv[1] = "list"    -> DeferredReply(t, c, Unit("list", 0, 0), <<Unit("list", 1, 0), Unit("list", 2, 0)>>)
    [] argv[1] = "blpop"   -> blpopCommand(t, c)
    [] argv[1] = "skip"    -> IF Is(t, c, "off") THEN t ELSE SetFlag(t, c, "skipnext")
    [] argv[1] = "off"     -> SetFlag(t, c, "off")
    [] argv[1] = "kill"    -> ClientKill(t, c, argv[2])
    [] argv[1] = "unblock" -> ClientUnblock(t, c, argv[2])
    [] argv[1] = "multi"   -> SetFlag(t, c, "multi")
    [] argv[1] = "exec"    -> ClearFlag(Dirty(t), c, "multi")
    [] argv[1] = "eval"    -> luaMaskCountHook(t, c)

resetClient(t, c) ==
  LET f == t.cl[c].flags \ {"skip"} IN
  [t EXCEPT !.cl[c].argv = <<>>, !.cl[c].reqtype = None, !.cl[c].mb = 0, !.cl[c].bulk = FALSE,
            !.cl[c].flags = IF "skipnext" \in f THEN (f \ {"skipnext"}) \cup {"skip"} ELSE f]

\* [t, ok]: ok is false after QUIT
processCommand(t, c) ==
  LET argv == t.cl[c].argv IN
  IF argv[1] = "quit" THEN [t |-> SetFlag(addReply(t, c, Ok("quit")), c, "reply"), ok |-> FALSE]
  ELSE IF t.timedout THEN [t |-> addReply(t, c, <<Unit("busy", 1, 0)>>), ok |-> TRUE]
  ELSE [t |-> Call(t, c, argv), ok |-> TRUE]

-----------------------------------------------------------------------------
(* Requests                                                                 *)

MaxArgs == 10 \* 1024 * 1024

\* the arguments of a multi bulk request, as far as they have come: [r, res]
RECURSIVE Bulks(_)
Bulks(r) ==
  LET more == r.pos < Len(r.querybuf)
      tok == r.querybuf[r.pos + 1]
  IN IF r.mb = 0 THEN [r |-> r, res |-> "ok"]
     ELSE IF ~more THEN [r |-> r, res |-> "wait"]
     ELSE IF r.bulk THEN Bulks([r EXCEPT !.argv = Append(@, tok.v), !.pos = @ + 1, !.bulk = FALSE, !.mb = @ - 1])
     ELSE IF tok.t # "$" THEN [r |-> r, res |-> "error"]
     ELSE Bulks([r EXCEPT !.pos = @ + 1, !.bulk = TRUE])

processMultibulkBuffer(r) ==
  LET n == r.querybuf[r.pos + 1].n
  IN IF r.mb # 0 THEN Bulks(r)
     ELSE IF n > MaxArgs THEN [r |-> r, res |-> "error"]
     ELSE Bulks([r EXCEPT !.pos = @ + 1, !.mb = n])

processInlineBuffer(r) ==
  LET tok == r.querybuf[r.pos + 1]
  IN IF tok.t # "line" THEN [r |-> r, res |-> "error"]
     ELSE [r |-> [r EXCEPT !.pos = @ + 1, !.argv = tok.v], res |-> "ok"]

setProtocolError(t, c) == SetFlag(addReply(t, c, <<Unit("error", 1, 0)>>), c, "reply")

Parse(r) ==
  LET type == IF r.reqtype # None THEN r.reqtype
              ELSE IF r.querybuf[r.pos + 1].t = "*" THEN "multibulk" ELSE "inline"
      q == [r EXCEPT !.reqtype = type]
  IN IF type = "inline" THEN processInlineBuffer(q) ELSE processMultibulkBuffer(q)

\* the end of a pass over the input: what was used goes
Trim(t, c) ==
  LET r == t.cl[c]
      u == IF t.current = None THEN t
           ELSE [t EXCEPT !.cl[c].querybuf = SubSeq(@, r.pos + 1, Len(@)), !.cl[c].pos = 0]
  IN [u EXCEPT !.current = None]

\* whether a client's requests wait: it is blocked, being closed, or our master during a script
Stopped(t, c) == Is(t, c, "blocked") \/ (t.timedout /\ Is(t, c, "master")) \/ t.cl[c].flags \cap {"reply", "asap"} # {}

RECURSIVE InputLoop(_, _)
RECURSIVE Pass(_, _)
RECURSIVE Request(_, _, _)
RECURSIVE Served(_, _, _)
RECURSIVE AfterCommand(_, _)

\* requests are served one by one as long as they are complete; a slow script leaves the
\* loop in the middle of its command
InputLoop(t, c) ==
  IF t.cl[c].pos >= Len(t.cl[c].querybuf) THEN Trim(t, c) ELSE Pass(clientsArePaused(t), c)

Pass(t, c) == IF t.paused \/ Stopped(t, c) THEN Trim(t, c) ELSE Request(t, c, Parse(t.cl[c]))

\* a request parsed as far as it has come: p = [r, res]
Request(t, c, p) ==
  IF p.res = "ok" /\ p.r.argv # <<>> THEN Served(t, c, processCommand([t EXCEPT !.cl[c] = p.r], c))
  ELSE IF p.res = "ok" THEN InputLoop(resetClient([t EXCEPT !.cl[c] = p.r], c), c)
  ELSE IF p.res = "wait" THEN Trim([t EXCEPT !.cl[c] = p.r], c)
  ELSE Trim(setProtocolError([t EXCEPT !.cl[c] = p.r], c), c)

Served(t, c, w) ==
  IF w.t.script # t.script THEN w.t ELSE IF w.ok THEN AfterCommand(w.t, c) ELSE Trim(w.t, c)

\* the offset applied moves on with each command of our master, a transaction at its end
Applies(t, c) == Is(t, c, "master") /\ ~Is(t, c, "multi")

AfterCommand(t, c) ==
  LET r == t.cl[c]
      u == IF Applies(t, c) THEN [t EXCEPT !.cl[c].reploff = (r.readoff - Len(r.querybuf)) + r.pos] ELSE t
      v == resetClient(u, c)
  IN IF t.current = None THEN Trim(v, c) ELSE InputLoop(v, c)

\* the part of the stream of our master that was applied goes to our own replicas
Replicate(t, c, prev) ==
  LET applied == t.cl[c].reploff - prev
  IN IF ~Is(t, c, "master") THEN t
     ELSE [t EXCEPT !.proxied = @ \o SubSeq(t.cl[c].pending, 1, applied),
                    !.cl[c].pending = SubSeq(@, applied + 1, Len(@))]

\* where to go on when the script ends: from a read, with a write event to come, or from
\* the clients unblocked
Interrupt(t, c, prev, from) ==
  [t EXCEPT !.cont = [prev |-> prev, from |-> from], !.outer = t.loop, !.loop = Idle]

LeaveInput(t, u, c, from) ==
  IF u.script # t.script THEN Interrupt(u, c, t.cl[c].reploff, from) ELSE Replicate(u, c, t.cl[c].reploff)

processInputBufferAndReplicate(t, c, from) ==
  LeaveInput(t, InputLoop([t EXCEPT !.current = c], c), c, from)

readQueryFromClient(t, c, from) ==
  LET wire == t.net[c].wire
      master == Is(t, c, "master")
      u == [t EXCEPT !.net[c].wire = <<>>, !.cl[c].querybuf = @ \o wire,
                     !.cl[c].last = IF MaxIdle = 0 THEN 0 ELSE t.now,
                     !.cl[c].pending = IF master THEN @ \o wire ELSE @,
                     !.cl[c].readoff = IF master THEN @ + Len(wire) ELSE @]
  IN IF t.net[c].reset \/ (wire = <<>> /\ t.net[c].eof) THEN freeClient(t, c)
     ELSE IF wire = <<>> THEN t
     ELSE IF Len(u.cl[c].querybuf) > MaxQuery THEN freeClient(u, c)
     ELSE processInputBufferAndReplicate(u, c, from)

-----------------------------------------------------------------------------
(* The event loop                                                           *)

Interrupted(t, u) == u.script # t.script

\* the input that waited while the client was blocked
Reprocess(t, c) ==
  LET u == [ClearFlag(t, c, "unblocked") EXCEPT !.unblocked = Tail(@)]
  IN IF Is(u, c, "blocked") \/ u.cl[c].querybuf = <<>> THEN u ELSE processInputBufferAndReplicate(u, c, Unblocked)

RECURSIVE processUnblockedClients(_)
RECURSIVE OtherUnblocked(_, _)
processUnblockedClients(t) ==
  IF t.unblocked = <<>> THEN t ELSE OtherUnblocked(t, Reprocess(t, Head(t.unblocked)))

OtherUnblocked(t, u) == IF Interrupted(t, u) THEN u ELSE processUnblockedClients(u)

\* the clients unblocked, the append only file, the replies
FlushReplies(t, u) ==
  IF Interrupted(t, u) THEN u
  ELSE [handleClientsWithPendingWrites([u EXCEPT !.synced = u.writes]) EXCEPT !.phase = "poll"]

beforeSleep(t) == FlushReplies(t, processUnblockedClients(t))

\* the events ready on a descriptor that are asked for
Ready(t, c) ==
  {m \in t.cl[c].mask \cap {"r", "w"} :
     IF m = "r" THEN t.net[c].wire # <<>> \/ t.net[c].eof \/ t.net[c].reset ELSE t.net[c].room > 0 \/ t.net[c].reset}

\* the events of a poll overwrite the first places of the array of fired events
aeApiPoll(t, order) ==
  [t EXCEPT !.fired = [k \in 1 .. Max({Len(order), Len(@)}) |->
                         IF k <= Len(order) THEN [fd |-> order[k], mask |-> Ready(t, order[k])] ELSE @[k]],
            !.loop = [j |-> 1, n |-> Len(order)]]

WriteEvent(t, e) ==
  IF "w" \in t.cl[e.fd].mask \cap e.mask THEN writeToClient(t, e.fd, TRUE).t ELSE t

ReadEvent(t, e, from) ==
  IF "r" \in t.cl[e.fd].mask \cap e.mask THEN readQueryFromClient(t, e.fd, from) ELSE t

AfterRead(t, e, barrier, r) == IF barrier \/ Interrupted(t, r) THEN r ELSE WriteEvent(r, e)

\* one fired descriptor: read then write, the reverse behind a barrier
FiredEvent(t, e) ==
  LET barrier == "barrier" \in t.cl[e.fd].mask
  IN AfterRead(t, e, barrier, ReadEvent(IF barrier THEN WriteEvent(t, e) ELSE t, e, IF barrier THEN Nothing ELSE e))

-----------------------------------------------------------------------------
(* Actions                                                                  *)

Socket(conn, plan) ==
  [conn |-> conn, plan |-> plan, wire |-> <<>>, eof |-> FALSE, reset |-> FALSE, room |-> Room,
   got |-> <<>>, want |-> <<>>]

Init == \E plan \in Plans :
  s = [plan |-> plan, cl |-> [c \in Fds |-> Closed], net |-> [c \in Fds |-> Socket(0, <<>>)], clients |-> <<>>,
       towrite |-> <<>>, unblocked |-> <<>>, toclose |-> <<>>, blocked |-> <<>>,
       current |-> None, items |-> 0, writes |-> 0, synced |-> 0, proxied |-> <<>>,
       paused |-> FALSE, pauseEnd |-> 0, now |-> 1, script |-> None, timedout |-> FALSE,
       cont |-> [prev |-> 0, from |-> Nothing], phase |-> "before",
       fired |-> <<>>, loop |-> Idle, outer |-> Idle, nested |-> FALSE]

\* the sockets are looked at by polls: before the server's, or one of a script
Waiting == IF s.script = None THEN s.phase = "poll" ELSE ~s.nested

Send(c) ==
  /\ Waiting /\ s.cl[c].fd /\ s.net[c].plan # <<>> /\ ~s.net[c].eof /\ ~s.net[c].reset
  /\ s' = [s EXCEPT !.net[c].plan = Tail(@), !.net[c].wire = Append(@, Head(s.net[c].plan))]

Receive(c) ==
  /\ Waiting /\ s.cl[c].fd /\ s.net[c].room < Room
  /\ s' = [s EXCEPT !.net[c].room = Room]

Fault(c, f) ==
  /\ Waiting /\ s.cl[c].fd /\ ~s.net[c].eof /\ ~s.net[c].reset
  /\ s' = IF f = "close" THEN [s EXCEPT !.net[c].eof = TRUE] ELSE [s EXCEPT !.net[c].reset = TRUE]

BeforeSleep == s.phase = "before" /\ s.script = None /\ s' = beforeSleep(s)

\* the descriptors ready, in some order
Poll ==
  /\ Waiting
  /\ \E order \in SetToSeqs({c \in Fds : Ready(s, c) # {}}) :
       s' = [aeApiPoll(s, order) EXCEPT !.phase = IF s.script = None THEN "events" ELSE @, !.nested = s.script # None]

Handling == IF s.script = None THEN s.phase = "events" ELSE s.nested

ProcessEvent ==
  /\ Handling /\ s.loop.j <= s.loop.n
  /\ s' = FiredEvent([s EXCEPT !.loop.j = @ + 1], s.fired[s.loop.j])

\* the timers come after the events; while blocked, the replies do
EndEvents ==
  /\ Handling /\ s.loop.j > s.loop.n
  /\ s' = IF s.script = None THEN [s EXCEPT !.phase = "time", !.fired = <<>>, !.loop = Idle]
          ELSE [handleClientsWithPendingWrites(s) EXCEPT !.nested = FALSE, !.loop = Idle]

acceptCommonHandler(c) ==
  LET n == s.net[c].conn + 1
      new == [Closed EXCEPT !.fd = TRUE, !.mask = {"r"}, !.last = IF MaxIdle = 0 THEN 0 ELSE s.now,
                            !.flags = IF c \in s.plan.masters THEN {"master"} ELSE {}]
      t == [s EXCEPT !.cl[c] = new, !.net[c] = Socket(n, s.plan.input[c][n]), !.clients = Append(@, c)]
  IN /\ ~s.cl[c].fd /\ s.net[c].conn < Len(s.plan.input[c])
     /\ Handling
     /\ s' = IF Len(t.clients) > MaxClients THEN freeClient(t, c) ELSE t

clientsCronHandleTimeout(t, c) ==
  IF MaxIdle # 0 /\ t.cl[c].flags \cap {"master", "blocked"} = {} /\ t.now - t.cl[c].last > MaxIdle THEN freeClient(t, c)
  ELSE IF Is(t, c, "blocked") /\ t.cl[c].deadline < t.now
  THEN unblockClient(addReply(t, c, <<Unit("null", 1, 0)>>), c)
  ELSE t

serverCron ==
  LET t == clientsArePaused([s EXCEPT !.now = Min({@ + 1, MaxTime}), !.phase = "before"])
      u == FoldLeft(clientsCronHandleTimeout, t, t.clients)
  IN s.phase = "time" /\ s' = freeClientsInAsyncFreeQueue(u)

NoTimer == s.phase = "time" /\ s' = [s EXCEPT !.phase = "before"]

\* u: after the rest of the pass over the input, which another script may have interrupted
Return(u, from) == IF from = Unblocked THEN beforeSleep(u) ELSE IF from = Nothing THEN u ELSE WriteEvent(u, from)
ScriptReturn(c, u) ==
  IF u.script # None THEN Interrupt(u, c, s.cont.prev, s.cont.from)
  ELSE Return(Replicate(u, c, s.cont.prev), s.cont.from)

\* the script returns into the command, the pass over the input and the event it came from
ScriptEnd ==
  LET c == s.script
      free == [unprotectClient(s, c) EXCEPT !.script = None, !.timedout = FALSE, !.loop = s.outer, !.outer = Idle,
                                            !.cont = [prev |-> 0, from |-> Nothing]]
      masters == SelectSeq(s.clients, LAMBDA m : m \in s.plan.masters)
      told == addReply(FoldLeft(queueClientForReprocessing, free, masters), c, Ok("eval"))
  IN /\ s.script # None /\ ~s.nested
     /\ s' = ScriptReturn(c, AfterCommand(told, c))

Next ==
  \/ \E c \in Fds : Send(c)
  \/ \E c \in Fds : Receive(c)
  \/ \E c \in Fds, f \in Faults : Fault(c, f)
  \/ \E c \in Fds : acceptCommonHandler(c)
  \/ BeforeSleep
  \/ Poll
  \/ ProcessEvent
  \/ EndEvents
  \/ serverCron
  \/ NoTimer
  \/ ScriptEnd

Spec == Init /\ [][Next]_vars

-----------------------------------------------------------------------------
(* Properties                                                               *)

\* The type of the state: a client closed is nowhere, an open one in the list of clients.
TypeOK ==
  /\ s.phase \in {"before", "poll", "events", "time"}
  /\ ToSet(s.clients) = {c \in Fds : s.cl[c].fd}
  /\ \A c \in Fds : ~s.cl[c].fd => s.cl[c] = Closed
  /\ IsInjective(s.clients)

Buffered(r) == SubSeq(r.buf \o FlattenSeq([k \in DOMAIN r.reply |-> r.reply[k].used]), r.sentlen + 1,
                      Len(r.buf) + Len(FlattenSeq([k \in DOMAIN r.reply |-> r.reply[k].used])))

\* What a peer has received and what waits for it, in the buffer and in the blocks, is what was
\* replied to it, in that order and once, through partial writes, handlers installed and removed,
\* deferred lengths and protected clients; and the bytes accounted are those of the blocks.
RepliesInOrder ==
  \A c \in Fds : s.cl[c].fd =>
    /\ s.net[c].got \o Buffered(s.cl[c]) = s.net[c].want
    /\ s.cl[c].bytes = FoldLeft(LAMBDA a, b : a + b.size, 0, s.cl[c].reply)

\* Each of the lists of clients holds exactly the clients with its flag, once: whoever frees a
\* client, in whatever order, leaves no pointer to it behind.
ListsMatchFlags ==
  \A q \in {<<s.towrite, "pending">>, <<s.unblocked, "unblocked">>, <<s.toclose, "asap">>, <<s.blocked, "blocked">>} :
    IsInjective(q[1]) /\ ToSet(q[1]) = {c \in Fds : Is(s, c, q[2])}

\* A client with replies waiting always has something that will write them: a write handler, a
\* place in the list of clients to write to, or a script whose end puts it there.
ReplyScheduled ==
  \A c \in Fds : clientHasPendingReplies(s, c) => "w" \in s.cl[c].mask \/ Is(s, c, "pending") \/ Is(s, c, "protected")

\* whether the input of a client holds a request that could be served now
Servable(c) ==
  /\ s.cl[c].pos < Len(s.cl[c].querybuf)
  /\ s.cl[c].flags \cap {"blocked", "reply", "asap", "protected"} = {}
  /\ Parse(s.cl[c]).res # "wait"

\* The server never goes to sleep on a complete request it has read, unless clients are paused:
\* nobody but the peer would wake it up.
InputNotForgotten == s.phase = "poll" /\ s.script = None /\ ~s.paused => \A c \in Fds : ~Servable(c)

\* With a sync at every write, no peer is told of a write that is not on disk yet.
ReplyAfterSync ==
  Always => \A c \in Fds : \A k \in DOMAIN s.net[c].got : s.net[c].got[k].w <= s.synced

\* Our own replicas get the stream of our master as far as it was applied, transactions whole, and
\* the offset says how far: a replica that resumes there misses nothing and repeats nothing.
MasterStreamProxied ==
  \A c \in s.plan.masters : s.cl[c].fd =>
    LET stream == s.plan.input[c][1]
        applied == s.cl[c].reploff
    IN /\ s.script # c => s.proxied = SubSeq(stream, 1, applied) /\ Len(s.cl[c].pending) = s.cl[c].readoff - applied
       /\ \A k \in 1 .. applied : stream[k].v = <<"multi">> => \E e \in k .. applied : stream[e].v = <<"exec">>
=============================================================================
