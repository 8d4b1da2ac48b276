------------------------------ MODULE Streams ------------------------------
(***************************************************************************)
(* One stream of redis (t_stream.c): the macro nodes its entries live in,  *)
(* the consumer groups with their pending entries lists (PEL), the clients *)
(* blocked on it, and what of all that reaches a replica, the append only  *)
(* file and an RDB file.  An ID ms-seq is the number ms * SeqWidth + seq,    *)
(* SeqWidth being the width of the sequence part (2^64 in the code).  Field  *)
(* values are not kept: an entry is its ID and its deleted flag.           *)
(***************************************************************************)
EXTENDS Naturals, Sequences, FiniteSets, SequencesExt, FiniteSetsExt

CONSTANTS Groups, Consumers,
          MaxMs,          \* largest millisecond part of an ID
          SeqWidth,         \* the sequence part wraps at this width
          NodeMax,        \* stream-node-max-entries
          MaxLen,         \* bound on the entries of the stream
          MaxTime, MaxCount, MaxBlocked,   \* bounds on the clock, on delivery counts and on waiting clients
          CommandNames,
          None

VARIABLES st,        \* the stream of the master, None when the key does not exist
          rep,       \* the stream of the replica
          now,       \* mstime()
          blocked,   \* the clients blocked on the key, first to last
          kept,      \* the IDs added and never removed by name
          seen,      \* per group, the IDs handed out since its last ID was set by hand
          reply      \* what the last read returned

vars == <<st, rep, now, blocked, kept, seen, reply>>

MaxId == (MaxMs + 1) * SeqWidth - 1

Ids == 0 .. MaxId

MsOf(id) == id \div SeqWidth

\* start.seq++ : the millisecond part does not take the carry
IncrSeq(id) == (MsOf(id) * SeqWidth) + ((id + 1) % SeqWidth)

streamNew == [nodes |-> <<>>, length |-> 0, last |-> 0, groups |-> [g \in Groups |-> None]]

streamNextID(last) == IF now > MsOf(last) THEN now * SeqWidth ELSE IncrSeq(last)

-----------------------------------------------------------------------------
(* Macro nodes: a node is the sequence of its entries, its key in the radix *)
(* tree is the ID of its first one.                                         *)

Live(node) == SelectSeq(node, LAMBDA e : ~e.del)

NodeKey(node) == node[1].id

AppendItem(s, id) ==
  LET n == Len(s.nodes)
      e == [id |-> id, del |-> FALSE]
  IN [s EXCEPT !.length = @ + 1, !.last = id,
               !.nodes = IF n = 0 \/ (n > 0 => Len(Live(@[n])) >= NodeMax)
                         THEN Append(@, <<e>>)
                         ELSE [@ EXCEPT ![n] = Append(@, e)]]

WholeNode(s, maxlen) == s.length - Len(Live(s.nodes[1])) >= maxlen

\* mark the first n live entries of a node deleted
MarkFirst(node, n) ==
  SubSeq([i \in 1 .. Len(node) |->
            IF Len(Live(SubSeq(node, 1, i))) <= n THEN [node[i] EXCEPT !.del = TRUE] ELSE node[i]],
         1, Len(node))

RECURSIVE streamTrimByLength(_, _, _)
streamTrimByLength(s, maxlen, approx) ==
  IF s.length <= maxlen \/ s.nodes = <<>> THEN s
  ELSE IF WholeNode(s, maxlen)
       THEN streamTrimByLength([s EXCEPT !.nodes = Tail(@), !.length = @ - Len(Live(s.nodes[1]))],
                               maxlen, approx)
       ELSE IF approx THEN s
            ELSE [s EXCEPT !.nodes[1] = MarkFirst(@, s.length - maxlen), !.length = maxlen]

\* the iterator seeks the last node whose key is not after the ID, and failing that the end it starts from
SeekNode(s, id, otherwise) ==
  LET below == {i \in DOMAIN s.nodes : NodeKey(s.nodes[i]) <= id}
  IN IF below = {} THEN otherwise ELSE Max(below)

IdsOf(entries) == [i \in DOMAIN entries |-> entries[i].id]

\* the live entries of the nodes scanned whose IDs are in the range
Within(nodes, start, end) ==
  SelectSeq(IdsOf(Live(FlattenSeq(nodes))), LAMBDA id : start <= id /\ id <= end)

\* the entries an iterator from start to end returns, going forward
StreamRange(s, start, end) ==
  Within(SubSeq(s.nodes, SeekNode(s, start, 1), Len(s.nodes)), start, end)

\* and going backwards
StreamRevRange(s, start, end) ==
  Reverse(Within(SubSeq(s.nodes, 1, SeekNode(s, end, Len(s.nodes))), start, end))

HasEntry(s, id) == StreamRange(s, id, id) # <<>>

\* flag an entry deleted in its node; the node goes with its last live entry
RemoveEntry(nodes, i, id) ==
  IF Len(Live(nodes[i])) = 1 THEN RemoveAt(nodes, i)
  ELSE [nodes EXCEPT ![i] = SubSeq([k \in 1 .. Len(@) |->
                              IF @[k].id = id THEN [@[k] EXCEPT !.del = TRUE] ELSE @[k]], 1, Len(@))]

streamDeleteItem(s, id) ==
  IF ~HasEntry(s, id) THEN s
  ELSE [s EXCEPT !.length = @ - 1, !.nodes = RemoveEntry(@, SeekNode(s, id, 1), id)]

-----------------------------------------------------------------------------
(* Consumer groups.  pel maps a pending ID to its NACK, cons a consumer     *)
(* that exists to its own pending IDs.                                      *)

EmptyPel == [id \in {} |-> None]

streamCreateCG(id) == [last |-> id, pel |-> EmptyPel, cons |-> [c \in Consumers |-> None]]

streamLookupConsumer(cg, c) == IF cg.cons[c] = None THEN [cg EXCEPT !.cons[c] = {}] ELSE cg

WithoutIds(pel, ids) == [id \in DOMAIN pel \ ids |-> pel[id]]

WithNack(pel, id, nack) == [i \in DOMAIN pel \cup {id} |-> IF i = id THEN nack ELSE pel[i]]

\* take an ID out of the PEL of the consumer its NACK names
Disown(cg, id) ==
  IF id \in DOMAIN cg.pel /\ (id \in DOMAIN cg.pel => cg.pel[id].owner # None)
  THEN [cg EXCEPT !.cons[cg.pel[id].owner] = @ \ {id}] ELSE cg

Own(cg, id, nack) ==
  [cg EXCEPT !.pel = WithNack(@, id, nack), !.cons[nack.owner] = @ \cup {id}]

Deliver(cg, c, id) ==
  [Own(Disown(cg, id), id, [owner |-> c, time |-> now, count |-> 1]) EXCEPT !.last = Max({@, id})]

DeliverNoAck(cg, c, id) == [cg EXCEPT !.last = Max({@, id})]

\* what streamPropagateXCLAIM and streamPropagateGroupID send to the replicas
XclaimOf(g, cg, id) ==
  [op |-> "xclaim", group |-> g, consumer |-> cg.pel[id].owner, id |-> id, minidle |-> 0,
   time |-> cg.pel[id].time, retry |-> cg.pel[id].count, force |-> TRUE, lastid |-> cg.last]

SetIdOf(g, cg) == [op |-> "setid", group |-> g, id |-> cg.last]

FirstN(seq, count) == IF count = 0 \/ count >= Len(seq) THEN seq ELSE SubSeq(seq, 1, count)

\* the group after a delivery, what it propagates, and whether this read has moved the last ID
Propagate(acc, g, cg, id, noack, moved) ==
  [cg |-> cg, moved |-> moved,
   prop |-> acc.prop \o IF ~noack THEN <<XclaimOf(g, cg, id)>>
                        ELSE IF moved THEN <<SetIdOf(g, cg)>> ELSE <<>>]

\* the deliveries of a read through a group, one entry after the other
DeliverAll(g, cg, c, ids, noack) ==
  FoldLeft(LAMBDA acc, id : Propagate(acc, g,
                                      IF noack THEN DeliverNoAck(acc.cg, c, id) ELSE Deliver(acc.cg, c, id),
                                      id, noack, acc.moved \/ id > acc.cg.last),
           [cg |-> cg, prop |-> <<>>, moved |-> FALSE], ids)

Replied(s, g, ids, done) == [s |-> [s EXCEPT !.groups[g] = done.cg], prop |-> done.prop, ids |-> ids]

ReplyWith(s, g, c, ids, noack) ==
  IF g = None THEN [s |-> s, prop |-> <<>>, ids |-> ids]
  ELSE Replied(s, g, ids, DeliverAll(g, streamLookupConsumer(s.groups[g], c), c, ids, noack))

\* streamReplyWithRange for a client reading after ID gt: the stream, the messages and the IDs returned
streamReplyWithRange(s, g, c, gt, count, noack) ==
  ReplyWith(s, g, c, FirstN(StreamRange(s, IncrSeq(gt), MaxId), count), noack)

\* the history of a consumer: entries still there get a later time and one more attempt, nothing is propagated
Retried(cg, again) ==
  [cg EXCEPT !.pel = [id \in DOMAIN @ |->
     IF id \in again THEN [@[id] EXCEPT !.time = now, !.count = Min({@ + 1, MaxCount})] ELSE @[id]]]

HistoryOf(s, g, cg, ids) ==
  [s |-> [s EXCEPT !.groups[g] = Retried(cg, {id \in ToSet(ids) : HasEntry(s, id)})], ids |-> ids]

FromPEL(s, g, c, cg, gt, count) ==
  HistoryOf(s, g, cg, FirstN(SetToSortSeq({id \in cg.cons[c] : id >= IncrSeq(gt)}, <), count))

FromConsumerPEL(s, g, c, gt, count) == FromPEL(s, g, c, streamLookupConsumer(s.groups[g], c), gt, count)

streamDelConsumer(cg, c) ==
  IF cg.cons[c] = None THEN cg
  ELSE [cg EXCEPT !.pel = WithoutIds(@, cg.cons[c]), !.cons[c] = None]

RaiseLast(cg, id) == [cg EXCEPT !.last = Max({@, id})]

\* an entry is not old enough to be claimed; the NACK of a claimed one
TooYoung(old, m) == old.owner # None /\ m.minidle > 0 /\ now - old.time < m.minidle

ClaimedNack(old, m) ==
  [owner |-> m.consumer,
   time |-> IF m.time = None \/ (m.time # None => m.time > now) THEN now ELSE m.time,
   count |-> IF m.retry = None THEN Min({old.count + 1, MaxCount}) ELSE m.retry]

Claim(cg, m, old) ==
  IF TooYoung(old, m) THEN [cg |-> cg, taken |-> FALSE]
  ELSE [cg |-> Own(Disown(cg, m.id), m.id, ClaimedNack(old, m)), taken |-> TRUE]

XclaimIn(s, m, cg) ==
  IF m.id \in DOMAIN cg.pel THEN Claim(cg, m, cg.pel[m.id])
  ELSE IF m.force /\ HasEntry(s, m.id) THEN Claim(cg, m, [owner |-> None, time |-> now, count |-> 1])
       ELSE [cg |-> cg, taken |-> FALSE]

\* xclaimCommand on one ID: the group afterwards and whether the entry changed hands
Xclaim(s, m) ==
  XclaimIn(s, m, streamLookupConsumer(RaiseLast(s.groups[m.group], m.lastid), m.consumer))

\* XPENDING: the size of the group's PEL and that of each consumer; and a range of it, of one consumer or of all
xpendingSummary(cg) ==
  [total |-> Cardinality(DOMAIN cg.pel),
   per |-> [c \in {d \in Consumers : cg.cons[d] # None} |-> Cardinality(cg.cons[c])]]

xpendingRange(cg, c, start, end) ==
  {id \in IF c = None THEN DOMAIN cg.pel ELSE IF cg.cons[c] = None THEN {} ELSE cg.cons[c] :
     start <= id /\ id <= end}

-----------------------------------------------------------------------------
(* What a stream becomes when a command, as propagated, is executed on it.  *)

Group(s, g) == IF s = None THEN None ELSE s.groups[g]

xgroupCreate(s, m) ==
  LET t == IF s = None THEN streamNew ELSE s
  IN IF (s = None /\ ~m.mkstream) \/ t.groups[m.group] # None THEN s
     ELSE [t EXCEPT !.groups[m.group] = streamCreateCG(IF m.id = None THEN t.last ELSE m.id)]

xsetidCommand(s, id) ==
  IF s = None \/ (s # None => s.length > 0 /\ id < StreamRevRange(s, 0, MaxId)[1]) THEN s
  ELSE [s EXCEPT !.last = id]

Trimmed(s, maxlen, approx) == IF maxlen = None THEN s ELSE streamTrimByLength(s, maxlen, approx)

xadd(s, m) ==
  LET t == IF s = None THEN streamNew ELSE s
  IN IF m.id <= t.last THEN s ELSE Trimmed(AppendItem(t, m.id), m.maxlen, m.approx)

xack(s, m) ==
  [s EXCEPT !.groups[m.group] = [Disown(@, m.id) EXCEPT !.pel = WithoutIds(@, {m.id})]]

Execute(s, m) ==
  CASE m.op = "xadd" -> xadd(s, m)
    [] m.op = "xtrim" -> IF s = None THEN s ELSE Trimmed(s, m.maxlen, m.approx)
    [] m.op = "xdel" -> IF s = None THEN s ELSE streamDeleteItem(s, m.id)
    [] m.op = "xsetid" -> xsetidCommand(s, m.id)
    [] m.op = "create" -> xgroupCreate(s, m)
    [] m.op = "del" -> None
    [] OTHER ->
         IF Group(s, m.group) = None THEN s
         ELSE CASE m.op = "setid" -> [s EXCEPT !.groups[m.group].last = IF m.id = None THEN s.last ELSE m.id]
                [] m.op = "destroy" -> [s EXCEPT !.groups[m.group] = None]
                [] m.op = "delconsumer" -> [s EXCEPT !.groups[m.group] = streamDelConsumer(@, m.consumer)]
                [] m.op = "xack" -> xack(s, m)
                [] m.op = "xclaim" -> [s EXCEPT !.groups[m.group] = Xclaim(s, m).cg]

ExecuteAll(s, msgs) == FoldLeft(Execute, s, msgs)

\* streamRewriteApproxMaxlen: "~ n" travels as "= the length that resulted"
RewriteMaxlen(s, m) ==
  IF m.maxlen # None /\ m.approx THEN [m EXCEPT !.maxlen = s.length, !.approx = FALSE] ELSE m

-----------------------------------------------------------------------------
(* Saving and loading.                                                      *)

\* XSETID follows the XADDs, for a stream whose last entry was deleted
LastIdFix(s) == <<[op |-> "xsetid", id |-> s.last]>>

\* rewriteStreamObject: the commands that rebuild the stream from an append only file
rewriteStreamObject(s) ==
  LET add(ids, maxlen) == [i \in DOMAIN ids |->
                             [op |-> "xadd", id |-> ids[i], maxlen |-> maxlen, approx |-> FALSE]]
      pending(g, cg, ids) == [i \in DOMAIN ids |-> [XclaimOf(g, cg, ids[i]) EXCEPT !.lastid = 0]]
      group(g, cg) == <<[op |-> "create", group |-> g, id |-> cg.last, mkstream |-> FALSE]>>
                      \o pending(g, cg, SetToSortSeq(DOMAIN cg.pel, <))
  IN (IF s.length > 0 THEN add(StreamRange(s, 0, MaxId), None) ELSE add(<<s.last>>, 0))
     \o LastIdFix(s)
     \o FlattenSeq(SetToSeq({group(g, s.groups[g]) : g \in {h \in Groups : s.groups[h] # None}}))

\* the RDB keeps each group's NACKs without owners, and each consumer's IDs without NACKs
rdbSaveStream(s) ==
  [nodes |-> s.nodes, length |-> s.length, last |-> s.last,
   groups |-> [g \in Groups |->
     IF s.groups[g] = None THEN None
     ELSE [last |-> s.groups[g].last,
           nacks |-> [id \in DOMAIN s.groups[g].pel |-> [time |-> s.groups[g].pel[id].time,
                                                         count |-> s.groups[g].pel[id].count]],
           cons |-> s.groups[g].cons]]]

\* loading joins them again; an ID of a consumer that the group does not know is a corrupt file
rdbLoadStream(f) ==
  LET owner(cg, id) == {c \in Consumers : cg.cons[c] # None /\ (cg.cons[c] # None => id \in cg.cons[c])}
      load(cg) == [last |-> cg.last, cons |-> cg.cons,
                   pel |-> [id \in DOMAIN cg.nacks |->
                              [owner |-> IF owner(cg, id) = {} THEN None ELSE CHOOSE c \in owner(cg, id) : TRUE,
                               time |-> cg.nacks[id].time, count |-> cg.nacks[id].count]]]
      corrupt == \E g \in Groups : f.groups[g] # None
                   /\ \E c \in Consumers : f.groups[g].cons[c] # None /\ ~(f.groups[g].cons[c] \subseteq DOMAIN f.groups[g].nacks)
  IN IF corrupt THEN None
     ELSE [nodes |-> f.nodes, length |-> f.length, last |-> f.last,
           groups |-> [g \in Groups |-> IF f.groups[g] = None THEN None ELSE load(f.groups[g])]]

-----------------------------------------------------------------------------
(* Actions                                                                  *)

NoReply == [from |-> None, ids |-> <<>>, group |-> None]

SeenAfter(sn, g, ids) == IF g = None THEN sn ELSE [sn EXCEPT ![g] = @ \cup ToSet(ids)]

Init ==
  /\ st = None /\ rep = None
  /\ now = 1
  /\ blocked = <<>>
  /\ kept = {}
  /\ seen = [g \in Groups |-> {}]
  /\ reply = NoReply

\* a client of a group waits for what is beyond the group's last ID, which other clients move
WaitsFor(s, w) == IF w.group = None THEN w.gt ELSE s.groups[w.group].last

\* handleClientsBlockedOnKeys on a stream: one pass over the clients in the order they blocked
Serve(acc, w, gt, r) ==
  [acc EXCEPT !.s = r.s, !.prop = @ \o r.prop,
              !.seen = SeenAfter(@, w.group, r.ids),
              !.reply = [from |-> gt, ids |-> r.ids, group |-> w.group]]

ServeClient(acc, w) ==
  IF w.group # None /\ Group(acc.s, w.group) = None THEN acc
  ELSE IF acc.s.last > WaitsFor(acc.s, w)
       THEN Serve(acc, w, WaitsFor(acc.s, w),
                  streamReplyWithRange(acc.s, w.group, w.consumer, WaitsFor(acc.s, w), w.count, w.noack))
       ELSE [acc EXCEPT !.blocked = Append(@, w)]

ServeBlocked(acc, waiting) == FoldLeft(ServeClient, acc, waiting)

\* XADD key [MAXLEN [~] maxlen] id|* field value: the waiting clients are served right after the command
Added(m, added, r) ==
  /\ st' = r.s
  /\ rep' = ExecuteAll(rep, <<RewriteMaxlen(added, m)>> \o r.prop)
  /\ blocked' = r.blocked
  /\ kept' = kept \cup {m.id}
  /\ seen' = r.seen
  /\ reply' = r.reply
  /\ UNCHANGED now

AddAndServe(m, added) ==
  Added(m, added,
        ServeBlocked([s |-> added, prop |-> <<>>, blocked |-> <<>>, seen |-> seen, reply |-> NoReply], blocked))

xaddCommand(id, maxlen, approx) ==
  LET t == IF st = None THEN streamNew ELSE st
      use == IF id = None THEN streamNextID(t.last) ELSE id
      m == [op |-> "xadd", id |-> use, maxlen |-> maxlen, approx |-> approx]
  IN /\ t.length < MaxLen
     /\ use > t.last /\ use \in Ids
     /\ AddAndServe(m, xadd(st, m))

\* commands that only change the stream, and reach the replica as they are or rewritten
Write(m) ==
  /\ st' = Execute(st, m)
  /\ st' # st
  /\ rep' = Execute(rep, RewriteMaxlen(IF m.op = "xtrim" THEN st' ELSE st, m))
  /\ reply' = NoReply
  /\ UNCHANGED <<now, blocked>>

xtrimCommand(maxlen, approx) ==
  /\ st # None
  /\ Write([op |-> "xtrim", maxlen |-> maxlen, approx |-> approx])
  /\ UNCHANGED <<kept, seen>>

xdelCommand(id) ==
  /\ Write([op |-> "xdel", id |-> id, maxlen |-> None])
  /\ kept' = kept \ {id}
  /\ UNCHANGED seen

\* what was trimmed before a new last ID was set by hand is forgotten
xsetid(id) ==
  /\ st # None
  /\ Write([op |-> "xsetid", id |-> id, maxlen |-> None])
  /\ kept' = ToSet(StreamRange(st, 0, MaxId))
  /\ UNCHANGED seen

delCommand == Write([op |-> "del", maxlen |-> None]) /\ kept' = {} /\ seen' = [g \in Groups |-> {}]

\* a new position set by hand starts a new account of what the group hands out
xgroupCommand(op, g, c, id, mkstream) ==
  /\ Write([op |-> op, group |-> g, consumer |-> c, id |-> id, mkstream |-> mkstream, maxlen |-> None])
  /\ seen' = IF op = "delconsumer" THEN seen
             ELSE [seen EXCEPT ![g] = IF Group(st', g) = None THEN {}
                                      ELSE {i \in Ids : i <= st'.groups[g].last}]
  /\ UNCHANGED kept

xackCommand(g, id) ==
  /\ Group(st, g) # None
  /\ id \in DOMAIN st.groups[g].pel
  /\ Write([op |-> "xack", group |-> g, id |-> id, maxlen |-> None])
  /\ UNCHANGED <<kept, seen>>

\* XCLAIM is never propagated as given: an XCLAIM with the outcome, or the last ID it raised, is
Claimed(g, id, lastid, r) ==
  /\ st' = [st EXCEPT !.groups[g] = r.cg]
  /\ rep' = ExecuteAll(rep, IF r.taken THEN <<XclaimOf(g, r.cg, id)>>
                            ELSE IF lastid > st.groups[g].last THEN <<SetIdOf(g, r.cg)>> ELSE <<>>)
  /\ seen' = [seen EXCEPT ![g] = @ \cup {i \in Ids : st.groups[g].last < i /\ i <= lastid}]
  /\ reply' = NoReply
  /\ UNCHANGED <<now, blocked, kept>>

xclaimCommand(g, c, id, minidle, force, lastid) ==
  /\ Group(st, g) # None
  /\ Claimed(g, id, lastid,
             Xclaim(st, [op |-> "xclaim", group |-> g, consumer |-> c, id |-> id, minidle |-> minidle,
                         time |-> None, retry |-> None, force |-> force, lastid |-> lastid]))

\* XREAD [COUNT] [BLOCK] after an ID, or after the last one ("$", id = None); XREADGROUP for ">"
ReadDone(g, gt, r) ==
  /\ st' = r.s
  /\ rep' = ExecuteAll(rep, r.prop)
  /\ reply' = [from |-> gt, ids |-> r.ids, group |-> g]
  /\ seen' = SeenAfter(seen, g, r.ids)
  /\ UNCHANGED <<now, blocked, kept>>

Reads(g, c, gt, count, noack) == ReadDone(g, gt, streamReplyWithRange(st, g, c, gt, count, noack))

xreadCommand(g, c, id, count, noack, block) ==
  LET gt == IF g # None THEN st.groups[g].last
            ELSE IF id # None THEN id ELSE IF st = None THEN 0 ELSE st.last
      ready == st # None /\ (st # None => st.length > 0 /\ st.last > gt)
  IN /\ g # None => Group(st, g) # None
     /\ \/ ready /\ Reads(g, c, gt, count, noack)
        \/ /\ ~ready /\ block
           /\ Len(blocked) < MaxBlocked
           /\ blocked' = Append(blocked, [group |-> g, consumer |-> c, gt |-> gt, count |-> count, noack |-> noack])
           /\ UNCHANGED <<st, rep, now, kept, seen, reply>>

HistoryDone(g, id, r) == st' = r.s /\ reply' = [from |-> id, ids |-> r.ids, group |-> g]

xreadgroupHistory(g, c, id, count) ==
  /\ Group(st, g) # None
  /\ HistoryDone(g, id, FromConsumerPEL(st, g, c, id, count))
  /\ UNCHANGED <<rep, now, blocked, kept, seen>>

\* a blocked client times out or goes away
Unblock(i) ==
  /\ blocked' = RemoveAt(blocked, i)
  /\ UNCHANGED <<st, rep, now, kept, seen, reply>>

\* a restart from an RDB file, which the replica receives too
Reload ==
  /\ st # None
  /\ st' = rdbLoadStream(rdbSaveStream(st))
  /\ rep' = st'
  /\ blocked' = <<>>
  /\ reply' = NoReply
  /\ UNCHANGED <<now, kept, seen>>

Tick ==
  /\ now < MaxTime
  /\ now' = now + 1
  /\ UNCHANGED <<st, rep, blocked, kept, seen, reply>>

Does(name) == name \in CommandNames

Next ==
  \/ Does("xadd") /\ \E id \in Ids \cup {None} : id # 0 /\ xaddCommand(id, None, FALSE)
  \/ Does("maxlen") /\ \E n \in 0 .. 2, approx \in BOOLEAN : xaddCommand(None, n, approx)
  \/ Does("xtrim") /\ \E n \in 0 .. 2, approx \in BOOLEAN : xtrimCommand(n, approx)
  \/ Does("xdel") /\ \E id \in kept : xdelCommand(id)
  \/ Does("xsetid") /\ \E id \in Ids : xsetid(id)
  \/ Does("del") /\ delCommand
  \/ Does("create") /\ \E g \in Groups, id \in {0, None}, mk \in BOOLEAN :
       Group(st, g) = None /\ xgroupCommand("create", g, None, id, mk)
  \/ Does("setid") /\ \E g \in Groups, id \in Ids \cup {None} : xgroupCommand("setid", g, None, id, FALSE)
  \/ Does("destroy") /\ \E g \in Groups : xgroupCommand("destroy", g, None, None, FALSE)
  \/ Does("delconsumer") /\ \E g \in Groups, c \in Consumers : xgroupCommand("delconsumer", g, c, None, FALSE)
  \/ Does("xack") /\ \E g \in Groups, id \in Ids : xackCommand(g, id)
  \/ Does("xclaim") /\ \E g \in Groups, c \in Consumers, id \in kept, idle \in 0 .. 1, force \in BOOLEAN :
       xclaimCommand(g, c, id, idle, force, 0)
  \/ Does("lastid") /\ \E g \in Groups, c \in Consumers, id \in kept : xclaimCommand(g, c, id, 1, FALSE, id)
  \/ Does("xread") /\ \E id \in Ids \cup {None}, block \in BOOLEAN : xreadCommand(None, None, id, 0, FALSE, block)
  \/ Does("xreadgroup") /\ \E g \in Groups, c \in Consumers, count \in 0 .. 1, noack \in BOOLEAN, block \in BOOLEAN :
       xreadCommand(g, c, None, count, noack, block)
  \/ Does("history") /\ \E g \in Groups, c \in Consumers : xreadgroupHistory(g, c, 0, 0)
  \/ \E i \in DOMAIN blocked : Unblock(i)
  \/ Does("reload") /\ Reload
  \/ Tick

Spec == Init /\ [][Next]_vars

-----------------------------------------------------------------------------
(* Properties                                                               *)

NackType == [owner : Consumers \cup {None}, time : 0 .. MaxTime, count : 0 .. MaxCount]

GroupOK(cg) ==
  /\ cg.last \in Ids
  /\ DOMAIN cg.pel \subseteq Ids
  /\ \A id \in DOMAIN cg.pel : cg.pel[id] \in NackType
  /\ \A c \in Consumers : cg.cons[c] # None => cg.cons[c] \subseteq Ids

\* Every part of the stream, of the waiting clients and of the accounts has its shape.
TypeOK ==
  /\ now \in 1 .. MaxTime
  /\ kept \subseteq Ids
  /\ \A s \in {st, rep} : s # None =>
       /\ s.last \in Ids /\ s.length \in 0 .. MaxLen
       /\ \A i \in DOMAIN s.nodes : s.nodes[i] # <<>>
       /\ \A g \in Groups : s.groups[g] # None => GroupOK(s.groups[g])
  /\ Len(blocked) <= MaxBlocked

\* An entry pending in a group is pending with exactly one consumer, the one its NACK names, and a
\* consumer has nothing pending the group does not know of: XREADGROUP after XGROUP SETID, XCLAIM,
\* XACK and DELCONSUMER keep the two levels of PEL together ("NACK half-created" never happens), and
\* XPENDING's total is the sum of what it lists, consumer by consumer.
PelConsistent ==
  \A s \in {st, rep} : s # None =>
    \A g \in Groups : s.groups[g] # None =>
      LET cg == s.groups[g] IN
      /\ \A id \in DOMAIN cg.pel : cg.pel[id].owner # None /\ cg.cons[cg.pel[id].owner] # None
      /\ \A c \in Consumers : cg.cons[c] # None =>
           cg.cons[c] = {id \in DOMAIN cg.pel : cg.pel[id].owner = c}
      /\ LET sum == xpendingSummary(cg)
         IN sum.total = MapThenSumSet(LAMBDA c : sum.per[c], DOMAIN sum.per)
      /\ xpendingRange(cg, None, 0, MaxId) = UNION {xpendingRange(cg, c, 0, MaxId) : c \in Consumers}

Owners(cg) == [id \in DOMAIN cg.pel |-> cg.pel[id].owner]

\* What a master propagates instead of the commands it ran (generated IDs, approximate limits made
\* exact, deliveries as XCLAIM, last IDs as XGROUP SETID) gives its replica the same entries, the
\* same last IDs and the same owner of every pending entry.
ReplicaSame ==
  /\ (st = None) = (rep = None)
  /\ st # None =>
       /\ st.nodes = rep.nodes /\ st.length = rep.length /\ st.last = rep.last
       /\ \A g \in Groups :
            /\ (st.groups[g] = None) = (rep.groups[g] = None)
            /\ st.groups[g] # None => st.groups[g].last = rep.groups[g].last
                                      /\ Owners(st.groups[g]) = Owners(rep.groups[g])

\* The live entries are the newest of those added and not deleted by name, the length counts them,
\* and iterating forward and backwards from any node finds them all, in order.
EntriesRight ==
  st # None =>
    LET all == StreamRange(st, 0, MaxId) IN
    /\ all = SetToSortSeq({id \in kept : id \in ToSet(all)}, <)
    /\ \A id \in kept \ ToSet(all), live \in ToSet(all) : id < live
    /\ st.length = Len(all)
    /\ \A a \in Ids : StreamRange(st, a, MaxId) = SelectSeq(all, LAMBDA id : id >= a)
                      /\ StreamRevRange(st, 0, a) = Reverse(SelectSeq(all, LAMBDA id : id <= a))

\* A group's last ID never passes an entry that was not handed to one of its consumers, unless the
\* position was moved by hand, whichever of reads, waiting clients and NOACK did the handing out.
NothingSkipped ==
  st # None =>
    \A g \in Groups : st.groups[g] # None =>
      \A id \in ToSet(StreamRange(st, 0, st.groups[g].last)) : id \in seen[g]

SameStream(s, t) ==
  /\ t # None
  /\ StreamRange(t, 0, MaxId) = StreamRange(s, 0, MaxId) /\ t.last = s.last
  /\ \A g \in Groups :
       /\ (t.groups[g] = None) = (s.groups[g] = None)
       /\ s.groups[g] # None =>
            /\ t.groups[g].last = s.groups[g].last
            /\ \A id \in DOMAIN s.groups[g].pel : HasEntry(s, id) =>
                 id \in DOMAIN t.groups[g].pel /\ t.groups[g].pel[id] = s.groups[g].pel[id]

\* Rebuilding the stream from an append only file gives back its entries, its last ID, its groups,
\* and the pending entries that still exist, when the last ID is not 0-0.
RewriteKeeps ==
  (st # None /\ (st # None => st.last > 0)) =>
    SameStream(st, ExecuteAll(None, rewriteStreamObject(st)))

\* Rebuilding a stream from an append only file never loses the key.
RewriteRebuilds == st # None => ExecuteAll(None, rewriteStreamObject(st)) # None

\* A read without a group, answered at once or after it has waited, returns every entry beyond its
\* ID, and a client that waits is not left waiting once there is one (xreadCommand and
\* handleClientsBlockedOnKeys).  An ID with the greatest sequence number is left out.
PlainReadsRight ==
  st # None =>
    LET beyond(id) == SelectSeq(StreamRange(st, 0, MaxId), LAMBDA i : i > id) IN
    /\ reply.from # None /\ reply.group = None /\ IncrSeq(reply.from) > reply.from =>
         reply.ids = beyond(reply.from)
    /\ \A i \in DOMAIN blocked : blocked[i].group = None => beyond(blocked[i].gt) = <<>>

\* A read returns only entries beyond the ID it was asked to start after.
ReadsNewer == \A i \in DOMAIN reply.ids : reply.ids[i] > reply.from
=============================================================================
