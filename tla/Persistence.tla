---------------------------- MODULE Persistence ----------------------------
(***************************************************************************)
(* The two persistence mechanisms of a Redis server: the append only file  *)
(* with its background rewrite (aof.c), and the RDB snapshots with their   *)
(* save points (rdb.c, server.c), under failing writes, failing children,  *)
(* crashes and power failures.                                             *)
(*                                                                         *)
(* Write number n inverts bit n of one database, so that a write that a    *)
(* restart drops, repeats or replays in the wrong database shows in the    *)
(* dataset, which is the set of the <<n, db>> whose bit is set.  The log   *)
(* is a sequence of half commands, so that a write may stop inside one.    *)
(* The whole state of the server and of its disk is the record s; the      *)
(* operators named after the C functions take it and return the set of     *)
(* the records the function may leave.                                     *)
(***************************************************************************)
EXTENDS Integers, FiniteSets, FiniteSetsExt, Sequences

CONSTANTS
    Dbs,            \* the databases written to
    Commands,       \* a subset of {"write", "tx", "flush", "save", "shutdown", "config", "rewrite"}
    Policy,         \* appendfsync: "always", "everysec" or "no"
    AppendOnly,     \* the appendonly directive of the configuration file
    RdbPreamble,    \* aof-use-rdb-preamble
    LoadTruncated,  \* aof-load-truncated
    NoFsyncOnRewrite,   \* no-appendfsync-on-rewrite
    SavePoint,      \* the changes of the one save point; 0 is no save point
    AutoRewrite,    \* the growth that starts a rewrite; 0 is never
    Faults,         \* a subset of {"write", "truncate", "tear", "child", "fork", "install", "rdb", "crash", "power", "switch"}
    MaxWrites,      \* bound: writes issued
    MaxFaults,      \* bound: faults injected
    None

VARIABLES
    s,      \* the server, its disk and its child, and as history the faults injected so far
            \* (faults) and which of two harmful events happened (harm): "headless", a load
            \* that cut the RDB preamble off the file, and "switch", a power failure between
            \* the rename of a rewritten file and its fsync
    next,   \* the next write's number
    txs     \* the numbers of the first writes of transactions

vars == <<s, next, txs>>

-----------------------------------------------------------------------------
(* The log *)

\* A command of the log: SELECT, a write, MULTI, EXEC, FLUSHALL or a whole RDB preamble.
Item(t, v) == [t |-> t, v |-> v]
Bytes(items) == [k \in 1..(2 * Len(items)) |-> <<items[(k + 1) \div 2], 2 - (k % 2)>>]

\* The effect of a write: it inverts its bit.
Invert(ds, n, d) == IF <<n, d>> \in ds THEN ds \ {<<n, d>>} ELSE ds \cup {<<n, d>>}

\* What the rewrite puts in the new file: the dataset as an RDB preamble, or as one
\* SELECT per database followed by the commands that create it.
WritesOf(ds, d) ==
    LET ns == SelectSeq([n \in 1..MaxWrites |-> n], LAMBDA n : <<n, d>> \in ds)
    IN  [i \in DOMAIN ns |-> Item("cmd", ns[i])]
rewriteAppendOnlyFileRio(ds) ==
    LET Below[j \in 0..(Max(Dbs) + 1)] ==
          IF j = 0 THEN <<>>
          ELSE Below[j - 1] \o (IF \E e \in ds : e[2] = j - 1
                                THEN <<Item("select", j - 1)>> \o WritesOf(ds, j - 1) ELSE <<>>)
    IN  Below[Max(Dbs) + 1]
Dump(ds) == Bytes(IF RdbPreamble THEN <<Item("rdb", ds)>> ELSE rewriteAppendOnlyFileRio(ds))

\* The fake client executes a command, or queues it inside a transaction.
Execute(a, item) ==
    CASE item.t = "rdb" -> [a EXCEPT !.ds = item.v]
      [] item.t = "select" -> [a EXCEPT !.db = item.v]
      [] item.t = "cmd" -> [a EXCEPT !.ds = Invert(@, item.v, a.db), !.run = @ + 1]
      [] item.t = "flush" -> [a EXCEPT !.ds = {}, !.run = @ + 1]
      [] item.t = "multi" -> a
CallOrQueue(a, item) ==
    IF a.multi /\ item.t # "exec" THEN [a EXCEPT !.queue = Append(@, item)]
    ELSE IF item.t = "multi" THEN [a EXCEPT !.multi = TRUE]
    ELSE IF item.t = "exec"
    THEN LET Exec[i \in 0..Len(a.queue)] == IF i = 0 THEN a ELSE Execute(Exec[i - 1], a.queue[i])
         IN  [Exec[Len(a.queue)] EXCEPT !.multi = FALSE, !.queue = <<>>]
    ELSE Execute(a, item)

\* One half command read.  valid_up_to moves behind every complete command that follows the
\* RDB preamble, when aof-load-truncated is on.
ReadHalf(a, b) ==
    IF a.fmterr THEN a
    ELSE IF b[2] = 1
    THEN IF a.half # None THEN [a EXCEPT !.fmterr = TRUE] ELSE [a EXCEPT !.half = b[1], !.pos = @ + 1]
    ELSE IF a.half # b[1] THEN [a EXCEPT !.fmterr = TRUE]
    ELSE LET r == CallOrQueue([a EXCEPT !.half = None, !.pos = @ + 1,
                                        !.before = IF b[1].t = "multi" THEN a.valid ELSE @], b[1])
         IN  [r EXCEPT !.valid = IF LoadTruncated /\ b[1].t # "rdb" THEN r.pos ELSE @]

\* Before the first command: no offset is valid yet.
LoadStart == [ds |-> {}, db |-> 0, run |-> 0, multi |-> FALSE, queue |-> <<>>, half |-> None,
              pos |-> 0, valid |-> 0, before |-> 0, fmterr |-> FALSE]

\* The dataset a file loads to and what the load leaves of the file: a short read is cut at
\* valid_up_to, a transaction without its EXEC at the MULTI.  valid_up_to is 0 until a command
\* is complete, so the cut behind an RDB preamble takes the preamble as well, although its
\* dataset was loaded: the file is headless.  A short read inside the preamble is fatal.
loadAppendOnlyFile(data) ==
    LET Read[i \in 0..Len(data)] == IF i = 0 THEN LoadStart ELSE ReadHalf(Read[i - 1], data[i])
        Cut(a) == a.half # None \/ a.multi
        UpTo(a) == IF a.half = None /\ a.multi THEN a.before ELSE a.valid
        Short(a) == a.half # None /\ a.half.t = "rdb"
        Loaded(a) == [ok |-> ~a.fmterr /\ (Cut(a) => LoadTruncated /\ ~Short(a)),
                      ds |-> a.ds, run |-> a.run,
                      data |-> IF Cut(a) THEN SubSeq(data, 1, UpTo(a)) ELSE data,
                      headless |-> Cut(a) /\ UpTo(a) = 0 /\ Head(data)[1].t = "rdb"]
    IN  Loaded(Read[Len(data)])

\* redis-check-aof --fix cuts the file behind its last command outside a transaction.
CheckHalf(a, b) ==
    IF a.bad \/ (b[2] = 2 /\ a.half # b[1]) THEN [a EXCEPT !.bad = TRUE]
    ELSE IF b[2] = 1 THEN [a EXCEPT !.half = b[1], !.at = @ + 1]
    ELSE LET m == IF b[1].t = "multi" THEN TRUE ELSE IF b[1].t = "exec" THEN FALSE ELSE a.multi
         IN  [a EXCEPT !.half = None, !.at = @ + 1, !.multi = m, !.pos = IF m THEN @ ELSE a.at + 1]
redis_check_aof(data) ==
    LET Start == [half |-> None, multi |-> FALSE, at |-> 0, pos |-> 0, bad |-> FALSE]
        Check[i \in 0..Len(data)] == IF i = 0 THEN Start ELSE CheckHalf(Check[i - 1], data[i])
    IN  SubSeq(data, 1, Check[Len(data)].pos)

-----------------------------------------------------------------------------
(* The server *)

NoChild == [kind |-> None, snap |-> {}, pc |-> "none", pipe |-> <<>>, diff |-> <<>>, temp |-> <<>>]

\* A process that has not loaded anything: what a crash leaves is the disk.
Down(t) == [up |-> FALSE, refused |-> FALSE, mem |-> {}, acked |-> t.acked, state |-> "off", buf |-> <<>>,
            sel |-> None, wstat |-> "ok", postponed |-> FALSE, size |-> 0, fsoff |-> 0, base |-> 0,
            rsched |-> FALSE, rewbuf |-> <<>>, stop |-> FALSE, bio |-> <<>>, dirty |-> 0, before |-> 0,
            bstat |-> "ok", bsched |-> FALSE, child |-> NoChild,
            faults |-> t.faults, harm |-> t.harm, file |-> t.file, synced |-> t.synced, rdb |-> t.rdb]

HasChild(t) == t.child.kind # None
Fault(t, kind) == kind \in Faults /\ t.faults < MaxFaults
Faulty(t) == [t EXCEPT !.faults = @ + 1]

\* The rewrite buffer: filled while a child rewrites, drained into the pipe, dropped at the end.
aofRewriteBufferAppend(t, items) == [t EXCEPT !.rewbuf = @ \o items]
aofRewriteBufferReset(t) == [t EXCEPT !.rewbuf = <<>>]

\* feedAppendOnlyFile: SELECT when the database is not the last one, then the command, into
\* aof_buf when the AOF is on and into the rewrite buffer while a child rewrites.
feedAppendOnlyFile_NoSelect(t, d, item) ==
    LET items == Bytes(<<item>>) IN
    LET r == [t EXCEPT !.sel = d, !.buf = IF t.state = "on" THEN @ \o items ELSE @] IN
    IF t.state = "off" THEN t ELSE IF t.child.kind = "aof" THEN aofRewriteBufferAppend(r, items) ELSE r
feedAppendOnlyFile(t, d, item) ==
    LET items == Bytes((IF t.sel = d THEN <<>> ELSE <<Item("select", d)>>) \o <<item>>) IN
    LET r == [t EXCEPT !.sel = d, !.buf = IF t.state = "on" THEN @ \o items ELSE @] IN
    IF t.state = "off" THEN t ELSE IF t.child.kind = "aof" THEN aofRewriteBufferAppend(r, items) ELSE r

writeCommandsDeniedByDiskError(t) ==
    (SavePoint > 0 /\ t.bstat = "err") \/ (t.state # "off" /\ t.wstat = "err")

\* try_fsync: in the foreground for "always", as a job of the bio thread once a second for
\* "everysec"; elapsed says whether the second is over.
TryFsync(t, elapsed) ==
    IF NoFsyncOnRewrite /\ HasChild(t) THEN t
    ELSE IF Policy = "always" THEN [t EXCEPT !.synced = Len(t.file), !.fsoff = t.size]
    ELSE IF Policy = "everysec" /\ elapsed /\ t.bio = <<>>
    THEN [t EXCEPT !.bio = <<"cur">>, !.fsoff = t.size]
    ELSE t

\* A write(2) of aof_buf that stopped after j half commands.  When ftruncate(2) takes them
\* out of the file again the buffer stays whole; with "always" the server exits.
ShortWrite(t, j, truncated) ==
    LET r == [t EXCEPT !.file = IF truncated THEN SubSeq(@, 1, t.size) ELSE @ \o SubSeq(t.buf, 1, j), !.postponed = FALSE]
    IN  IF Policy = "always" THEN Down(r)
        ELSE [r EXCEPT !.wstat = "err",
                       !.size = IF truncated THEN @ ELSE @ + j,
                       !.buf = IF truncated THEN @ ELSE SubSeq(@, j + 1, Len(@))]
ShortWrites(t) ==
    IF t.state = "off" THEN {[t EXCEPT !.wstat = "err", !.postponed = FALSE]}
    ELSE IF ~Fault(t, "write") THEN {}
    ELSE {ShortWrite(Faulty(t), 0, TRUE)} \cup
         {ShortWrite(Faulty(t), j, FALSE) : j \in {i \in 1..(Len(t.buf) - 1) :
                                           "truncate" \in Faults /\ ("tear" \in Faults \/ i % 2 = 0)}}

FullWrite(t) == [t EXCEPT !.file = @ \o t.buf, !.size = @ + Len(t.buf), !.buf = <<>>, !.wstat = "ok", !.postponed = FALSE]

\* flushAppendOnlyFile: with "everysec" a write waits up to two seconds for the fsync of the
\* bio thread, and a file with unsynced data is synced although there is nothing to write.
flushAppendOnlyFile(t, force) ==
    IF t.buf = <<>>
    THEN IF Policy = "everysec" /\ t.fsoff # t.size /\ t.bio = <<>> THEN {t, TryFsync(t, TRUE)} ELSE {t}
    ELSE LET writes == ShortWrites(t) \cup (IF t.state = "off" THEN {} ELSE {TryFsync(FullWrite(t), e) : e \in BOOLEAN}) IN
         IF Policy = "everysec" /\ ~force /\ t.bio # <<>>
         THEN IF t.postponed THEN {t} \cup writes ELSE {[t EXCEPT !.postponed = TRUE]}
         ELSE writes

-----------------------------------------------------------------------------
(* The children *)

\* SIGUSR1 ends a child that still runs.
Kill(c) == IF c.pc \in {"dump", "asked", "acked"} THEN [c EXCEPT !.pc = "usr1"] ELSE c

\* The pipes are created with the child and closed when it is gone.
aofCreatePipes(t) == [t EXCEPT !.stop = FALSE, !.child.pipe = <<>>]
aofClosePipes(t) == [t EXCEPT !.child = NoChild]

killAppendOnlyChild(t) == IF t.child.kind = "aof" THEN aofClosePipes(aofRewriteBufferReset(t)) ELSE t

\* The child writes the dataset of this moment; SELECT is re-issued for what follows.
rewriteAppendOnlyFileBackground(t) ==
    IF HasChild(t) THEN {t}
    ELSE {[aofCreatePipes(t) EXCEPT !.child = [NoChild EXCEPT !.kind = "aof", !.snap = t.mem, !.pc = "dump"],
                                    !.rsched = FALSE, !.sel = None]}
         \cup (IF Fault(t, "fork") THEN {Faulty(t)} ELSE {})

\* rdbSave in this process.  A failure leaves the old file.
rdbSave(t) ==
    {[t EXCEPT !.rdb = t.mem, !.dirty = 0, !.bstat = "ok"]} \cup (IF Fault(t, "rdb") THEN {Faulty(t)} ELSE {})

rdbSaveBackground(t) ==
    IF HasChild(t) THEN {t}
    ELSE LET r == [t EXCEPT !.before = t.dirty] IN
         {[r EXCEPT !.child = [NoChild EXCEPT !.kind = "rdb", !.snap = t.mem, !.pc = "dump"]]}
         \cup (IF Fault(t, "fork") THEN {Faulty([r EXCEPT !.bstat = "err"])} ELSE {})

backgroundSaveDoneHandlerDisk(t) ==
    [t EXCEPT !.dirty = IF t.child.pc = "exit0" THEN @ - t.before ELSE @,
              !.bstat = CASE t.child.pc = "exit0" -> "ok" [] t.child.pc = "exit1" -> "err" [] t.child.pc = "usr1" -> @,
              !.child = NoChild]

\* The end of backgroundRewriteDoneHandler, reached on every path.
RewriteCleanup(t) == [aofRewriteBufferReset(aofClosePipes(t)) EXCEPT !.rsched = IF t.state = "wait" THEN TRUE ELSE @]

\* The new file takes the place of the old one (jobs for the old one are taken together): the
\* descriptor is switched and synced, the
\* buffer dropped because the rewrite buffer held the same commands.
SwitchFile(t, data) ==
    IF t.state = "off" THEN [t EXCEPT !.file = data, !.synced = Len(t.child.temp)]
    ELSE [t EXCEPT !.file = data,
                   !.synced = IF Policy = "always" THEN Len(data) ELSE Len(t.child.temp),
                   !.bio = (IF @ = <<>> THEN <<>> ELSE <<"old">>) \o (IF Policy = "everysec" THEN <<"cur">> ELSE <<>>),
                   !.sel = None, !.size = Len(data), !.base = Len(data), !.fsoff = Len(data),
                   !.buf = <<>>, !.state = "on"]

\* A child that ended well: the residual rewrite buffer is appended to its file, which is
\* renamed to the AOF.  The power may fail between the rename and the fsync.
backgroundRewriteDoneHandler(t) ==
    IF t.child.pc # "exit0" THEN {RewriteCleanup(t)}
    ELSE LET data == t.child.temp \o t.rewbuf IN
         {RewriteCleanup(SwitchFile(t, data))}
         \cup (IF Fault(t, "install") THEN {RewriteCleanup(Faulty(t))} ELSE {})
         \cup (IF Fault(t, "switch")
               THEN {Down([Faulty(t) EXCEPT !.file = SubSeq(data, 1, j), !.synced = j, !.harm = @ \cup {"switch"}]) : j \in Len(t.child.temp)..Len(data)}
               ELSE {})

-----------------------------------------------------------------------------
(* CONFIG SET appendonly, SHUTDOWN, FLUSHALL, serverCron *)

stopAppendOnly(t) ==
    {IF ~r.up THEN r
     ELSE killAppendOnlyChild([r EXCEPT !.synced = Len(r.file), !.sel = None, !.state = "off"])
        : r \in flushAppendOnlyFile(t, TRUE)}

startAppendOnly(t) ==
    IF t.child.kind = "rdb" THEN {[t EXCEPT !.state = "wait", !.rsched = TRUE]}
    ELSE {IF HasChild(r) THEN [r EXCEPT !.state = "wait"] ELSE r
            : r \in rewriteAppendOnlyFileBackground(killAppendOnlyChild(t))}

\* prepareForShutdown: the exit is refused while the first AOF is being written, and when the
\* snapshot cannot be saved.
prepareForShutdown(t, save) ==
    LET r == [t EXCEPT !.child = IF @.kind = "rdb" THEN Kill(@) ELSE @] IN
    IF r.state = "wait" /\ r.child.kind = "aof" THEN {r}
    ELSE UNION {IF ~q.up THEN {q}
                ELSE LET p == IF q.state = "off" THEN q ELSE [q EXCEPT !.synced = Len(q.file)] IN
                     IF save THEN {IF z.faults = p.faults THEN Down(z) ELSE z : z \in rdbSave(p)} ELSE {Down(p)}
                : q \in IF r.state = "off" THEN {r}
                        ELSE flushAppendOnlyFile([r EXCEPT !.child = IF @.kind = "aof" THEN Kill(@) ELSE @], TRUE)}

\* FLUSHALL ends the child that saves the dataset from before it, and saves the empty one.
flushallCommand(t) ==
    LET r == [t EXCEPT !.mem = {}, !.dirty = @ + Cardinality(t.mem), !.child = IF @.kind = "rdb" THEN Kill(@) ELSE @] IN
    {[q EXCEPT !.dirty = r.dirty + 1] : q \in IF SavePoint > 0 THEN rdbSave(r) ELSE {r}}

\* The parts of serverCron, in its order; each takes a server that is up.
ScheduledRewrite(t) == IF ~HasChild(t) /\ t.rsched THEN rewriteAppendOnlyFileBackground(t) ELSE {t}
ReapChild(t) ==
    IF t.child.pc \notin {"exit0", "exit1", "usr1"} THEN {t}
    ELSE IF t.child.kind = "rdb" THEN {backgroundSaveDoneHandlerDisk(t)} ELSE backgroundRewriteDoneHandler(t)
Grown(t) == AutoRewrite > 0 /\ t.state = "on" /\ t.size - t.base >= AutoRewrite

\* Mutant: after a failed save the next one waits for another change.
SavePoints_OnlyOk(t) ==
    LET due == SavePoint > 0 /\ t.dirty >= SavePoint /\ t.bstat = "ok" IN
    UNION {IF ~HasChild(r) /\ Grown(r) THEN rewriteAppendOnlyFileBackground(r) ELSE {r}
             : r \in {t} \cup (IF due THEN rdbSaveBackground(t) ELSE {})}
SavePoints(t) ==
    LET due == SavePoint > 0 /\ t.dirty >= SavePoint IN
    UNION {IF ~HasChild(r) /\ Grown(r) THEN rewriteAppendOnlyFileBackground(r) ELSE {r}
             : r \in {t} \cup (IF due THEN rdbSaveBackground(t) ELSE {})}
RetryFlush(t) == IF t.up /\ (t.postponed \/ t.wstat = "err") THEN {t} \cup flushAppendOnlyFile(t, FALSE) ELSE {t}
ScheduledBgsave(t) ==
    IF t.up /\ ~HasChild(t) /\ t.bsched
    THEN {t} \cup {IF HasChild(r) THEN [r EXCEPT !.bsched = FALSE] ELSE r : r \in rdbSaveBackground(t)} ELSE {t}

serverCron(t) ==
    UNION {UNION {UNION {ScheduledBgsave(r) : r \in RetryFlush(q)}
                    : q \in IF HasChild(p) THEN ReapChild(p) ELSE SavePoints(p)}
             : p \in ScheduledRewrite(t)}

-----------------------------------------------------------------------------
(* The steps *)

Init ==
    LET t == Down([faults |-> 0, harm |-> {}, acked |-> {}, file |-> <<>>, synced |-> 0, rdb |-> {}]) IN
    /\ s = [t EXCEPT !.up = TRUE, !.state = IF AppendOnly THEN "on" ELSE "off"]
    /\ next = 1 /\ txs = {}

\* A write command: executed, counted and propagated.
Write(d) ==
    /\ "write" \in Commands /\ s.up /\ next <= MaxWrites /\ ~writeCommandsDeniedByDiskError(s)
    /\ s' = feedAppendOnlyFile([s EXCEPT !.mem = Invert(@, next, d), !.dirty = @ + 1], d, Item("cmd", next))
    /\ next' = next + 1
    /\ UNCHANGED txs

\* MULTI, two writes and EXEC, propagated in one go; the second may be in another database.
Transaction(d, e) ==
    /\ "tx" \in Commands /\ s.up /\ next < MaxWrites /\ ~writeCommandsDeniedByDiskError(s)
    /\ LET r == [s EXCEPT !.mem = Invert(Invert(@, next, d), next + 1, e), !.dirty = @ + 2]
           m == feedAppendOnlyFile(feedAppendOnlyFile(r, d, Item("multi", d)), d, Item("cmd", next))
       IN  s' = feedAppendOnlyFile(feedAppendOnlyFile(m, e, Item("cmd", next + 1)), e, Item("exec", d))
    /\ next' = next + 2 /\ txs' = txs \cup {next}

FlushAll ==
    /\ "flush" \in Commands /\ s.up /\ next <= MaxWrites /\ ~writeCommandsDeniedByDiskError(s)
    /\ \E r \in flushallCommand(s) : s' = [feedAppendOnlyFile(r, 0, Item("flush", None)) EXCEPT !.acked = {}]
    /\ next' = next + 1
    /\ UNCHANGED txs

\* Mutant: the replies leave before the log is written.
BeforeSleep_ReplyFirst ==
    /\ s.up
    /\ \E r \in flushAppendOnlyFile(s, FALSE) : s' = [r EXCEPT !.acked = s.mem]
    /\ s' # s
    /\ UNCHANGED <<next, txs>>

\* beforeSleep: the log is written, then the replies leave.
BeforeSleep ==
    /\ s.up
    /\ \E r \in flushAppendOnlyFile(s, FALSE) : s' = IF r.up THEN [r EXCEPT !.acked = r.mem] ELSE r
    /\ s' # s
    /\ UNCHANGED <<next, txs>>

ServerCron ==
    /\ s.up /\ s' \in serverCron(s) /\ s' # s
    /\ UNCHANGED <<next, txs>>

\* CONFIG SET appendonly yes and no; counted with the faults to bound it.
ConfigSetAppendonly ==
    /\ "config" \in Commands /\ s.up /\ s.faults < MaxFaults
    /\ s' \in IF s.state = "off" THEN startAppendOnly(Faulty(s)) ELSE stopAppendOnly(Faulty(s))
    /\ UNCHANGED <<next, txs>>

bgrewriteaofCommand ==
    /\ "rewrite" \in Commands /\ s.up /\ s.child.kind # "aof"
    /\ s' \in IF s.child.kind = "rdb" THEN {[s EXCEPT !.rsched = TRUE]} ELSE rewriteAppendOnlyFileBackground(s)
    /\ s' # s
    /\ UNCHANGED <<next, txs>>

\* SAVE is refused while a child saves.
saveCommand ==
    /\ "save" \in Commands /\ s.up /\ s.child.kind # "rdb"
    /\ s' \in rdbSave(s) /\ s' # s
    /\ UNCHANGED <<next, txs>>

\* BGSAVE, with SCHEDULE while a rewrite is under way.
bgsaveCommand ==
    /\ "save" \in Commands /\ s.up /\ s.child.kind # "rdb"
    /\ s' \in IF s.child.kind = "aof" THEN {[s EXCEPT !.bsched = TRUE]} ELSE rdbSaveBackground(s)
    /\ s' # s
    /\ UNCHANGED <<next, txs>>

\* SHUTDOWN and SIGTERM: with the save points' snapshot unless NOSAVE.
shutdownCommand ==
    /\ "shutdown" \in Commands /\ s.up /\ s.faults < MaxFaults
    /\ \E save \in {SavePoint > 0, FALSE} : s' \in prepareForShutdown(Faulty(s), save)
    /\ UNCHANGED <<next, txs>>

\* aofChildWriteDiffData: the parent feeds the rewrite buffer to the child until it is told to stop.
aofChildWriteDiffData ==
    /\ s.up /\ s.child.kind = "aof" /\ s.rewbuf # <<>> /\ ~s.stop
    /\ s.child.pc \in {"dump", "asked", "acked"}
    /\ \E j \in 1..Len(s.rewbuf) :
           s' = [s EXCEPT !.child.pipe = @ \o SubSeq(s.rewbuf, 1, j), !.rewbuf = SubSeq(@, j + 1, Len(@))]
    /\ UNCHANGED <<next, txs>>

\* The parent answers the child's "!" and sends no more.
aofChildPipeReadable ==
    /\ s.up /\ s.child.kind = "aof" /\ s.child.pc = "asked"
    /\ s' = [s EXCEPT !.stop = TRUE, !.child.pc = "acked"]
    /\ UNCHANGED <<next, txs>>

\* The child of a rewrite: dumps, reads the pipe, asks; after the answer it reads the rest,
\* appends what it read and exits.
rewriteAppendOnlyFile ==
    /\ s.up /\ s.child.kind = "aof"
    /\ LET c == s.child
           diff == c.diff \o c.pipe
       IN  \/ /\ c.pc = "dump"
              /\ s' = [s EXCEPT !.child = [c EXCEPT !.pc = "asked", !.diff = diff, !.pipe = <<>>]]
           \/ /\ c.pc = "acked"
              /\ s' = [s EXCEPT !.child = [c EXCEPT !.pc = "exit0", !.diff = diff, !.pipe = <<>>,
                                                    !.temp = Dump(c.snap) \o diff]]
    /\ UNCHANGED <<next, txs>>

\* The child of a snapshot renames its file over the RDB.
RdbChild ==
    /\ s.up /\ s.child.kind = "rdb" /\ s.child.pc = "dump"
    /\ s' = [s EXCEPT !.rdb = s.child.snap, !.child.pc = "exit0"]
    /\ UNCHANGED <<next, txs>>

ChildFails ==
    /\ Fault(s, "child") /\ s.up /\ s.child.pc \in {"dump", "asked", "acked"}
    /\ s' = Faulty([s EXCEPT !.child.pc = "exit1"])
    /\ UNCHANGED <<next, txs>>

\* bioProcessBackgroundJobs: a job for the current file makes all of it durable.
BioFsync ==
    /\ s.up /\ s.bio # <<>>
    /\ s' = [s EXCEPT !.bio = Tail(@), !.synced = IF Head(s.bio) = "cur" THEN Len(s.file) ELSE @]
    /\ UNCHANGED <<next, txs>>

\* The process dies, or the machine: what was not synced may be lost from any point on.
Crash ==
    /\ s.up
    /\ \/ Fault(s, "crash") /\ s' = Down(Faulty(s))
       \/ /\ Fault(s, "power")
          /\ \E j \in s.synced..Len(s.file) :
                 /\ "tear" \in Faults \/ j % 2 = 0
                 /\ s' = Down([Faulty(s) EXCEPT !.file = SubSeq(@, 1, j), !.synced = j])
    /\ UNCHANGED <<next, txs>>

\* loadDataFromDisk: from the AOF when it is configured, else from the RDB.
loadDataFromDisk ==
    /\ ~s.up /\ ~s.refused
    /\ LET Started(l) ==
             IF ~l.ok THEN [s EXCEPT !.refused = TRUE]
             ELSE [s EXCEPT !.up = TRUE, !.state = "on", !.mem = l.ds, !.dirty = l.run, !.file = l.data,
                            !.size = Len(l.data), !.fsoff = Len(l.data), !.base = Len(l.data),
                            !.harm = IF l.headless THEN @ \cup {"headless"} ELSE @,
                            !.synced = IF @ > Len(l.data) THEN Len(l.data) ELSE @]
       IN  s' = IF AppendOnly THEN Started(loadAppendOnlyFile(s.file))
                ELSE [s EXCEPT !.up = TRUE, !.mem = s.rdb]
    /\ UNCHANGED <<next, txs>>

\* An operator repairs the file that the server refused.
FixFile ==
    /\ s.refused
    /\ s' = [s EXCEPT !.refused = FALSE, !.file = redis_check_aof(@), !.synced = Len(redis_check_aof(s.file))]
    /\ UNCHANGED <<next, txs>>

Next ==
    \/ \E d \in Dbs : Write(d) \/ \E e \in Dbs : Transaction(d, e)
    \/ FlushAll
    \/ BeforeSleep
    \/ ServerCron
    \/ ConfigSetAppendonly
    \/ bgrewriteaofCommand
    \/ saveCommand
    \/ bgsaveCommand
    \/ shutdownCommand
    \/ aofChildWriteDiffData
    \/ aofChildPipeReadable
    \/ rewriteAppendOnlyFile
    \/ RdbChild
    \/ ChildFails
    \/ BioFsync
    \/ Crash
    \/ loadDataFromDisk
    \/ FixFile

Spec == Init /\ [][Next]_vars

\* The event loop, the bio thread, the pipes and the children go on; a server that went down
\* is started again.
Fairness ==
    /\ WF_vars(BeforeSleep) /\ WF_vars(ServerCron) /\ WF_vars(BioFsync) /\ WF_vars(loadDataFromDisk)
    /\ WF_vars(aofChildPipeReadable) /\ WF_vars(rewriteAppendOnlyFile) /\ WF_vars(RdbChild)
FairSpec == Spec /\ Fairness

-----------------------------------------------------------------------------
(* Properties *)

\* Types: the fields that are not sequences, and no counter below zero.
TypeOK ==
    /\ s.up \in BOOLEAN /\ s.refused \in BOOLEAN /\ s.state \in {"on", "off", "wait"}
    /\ s.mem \subseteq (1..MaxWrites) \X Dbs /\ s.rdb \subseteq (1..MaxWrites) \X Dbs
    /\ s.sel \in Dbs \cup {None} /\ s.wstat \in {"ok", "err"} /\ s.bstat \in {"ok", "err"}
    /\ s.synced \in 0..Len(s.file) /\ s.dirty \in Nat /\ s.before \in Nat /\ s.faults \in 0..MaxFaults
    /\ s.harm \subseteq {"headless", "switch"}
    /\ s.child.kind \in {"aof", "rdb", None}

\* While the AOF is on, its file followed by the buffer not yet written replays to exactly the
\* dataset in memory: no write is missing, repeated or in the wrong database, whatever rewrites,
\* short writes, switches of the file and restarts came before (feedAppendOnlyFile,
\* backgroundRewriteDoneHandler, loadAppendOnlyFile), until a load cuts the RDB preamble off.
AofReplays ==
    s.up /\ s.state = "on" /\ "headless" \notin s.harm =>
        LET Whole(l) == l.ok /\ l.ds = s.mem /\ l.data = s.file \o s.buf
        IN  Whole(loadAppendOnlyFile(s.file \o s.buf))

\* With appendfsync always, also during rewrites, a write whose reply left the server is in the
\* dataset after a crash or a power failure (beforeSleep writes and syncs before it replies),
\* except when the power fails between the rename of a rewritten file and its fsync, and when
\* the load cut the RDB preamble off.
AckedSurvive == Policy = "always" /\ ~NoFsyncOnRewrite /\ s.up /\ s.harm = {} => s.acked \subseteq s.mem

\* A transaction is in the dataset as a whole or not at all, across truncated files as well.
TransactionsWhole ==
    s.up => \A n \in txs : (\E d \in Dbs : <<n, d>> \in s.mem) <=> (\E d \in Dbs : <<n + 1, d>> \in s.mem)

\* The counter of unsaved changes covers every difference between the dataset and the RDB
\* file, so no change is forgotten by the save points (dirty and dirty_before_bgsave).
DirtyCoversUnsaved ==
    ~AppendOnly /\ s.up => Cardinality((s.mem \ s.rdb) \cup (s.rdb \ s.mem)) <= s.dirty

\* An AOF in the write error state has a buffer left to flush, whose success ends the error
\* (the retry of serverCron says so).
ErrorHasBuffer == s.up /\ s.state # "off" /\ s.wstat = "err" => s.buf # <<>>

\* Once faults and writes stop, the server is up, no rewrite is owed, everything is written
\* and synced (appendfsync everysec) and the RDB is current (a save point of one change).
Settled ==
    /\ s.up /\ s.state # "wait" /\ ~s.rsched
    /\ s.state = "on" /\ Policy = "everysec" => s.buf = <<>> /\ s.synced = Len(s.file)
    /\ SavePoint = 1 => s.rdb = s.mem

Settles == <>[]Settled

=============================================================================
