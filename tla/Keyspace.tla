------------------------------ MODULE Keyspace ------------------------------
(***************************************************************************)
(* The keyspace of a master and what a replica makes of it: string and     *)
(* generic commands (t_string.c, db.c), time to live (expire.c),           *)
(* transactions with WATCH (multi.c), the way a command is accepted, run   *)
(* and propagated (server.c), and the replica that applies the stream.     *)
(*                                                                         *)
(* A key is absent (None) or a string v, here a small integer, with the    *)
(* time `when` it expires, 0 for never.  Operators named after a C         *)
(* function take the state x of a server in the middle of a command and    *)
(* return the state after the call:                                        *)
(*   x.db       the databases           x.master  server.masterhost = NULL *)
(*   x.dirty    server.dirty            x.touched keys that were signalled *)
(*   x.argv     the command, as rewritten for propagation                  *)
(*   x.out      the commands fed to the replicas, each with its database   *)
(***************************************************************************)
EXTENDS Integers, Sequences, SequencesExt, FiniteSets

CONSTANTS
  Clients, Keys,
  Dbs,                  \* the databases, numbers from 0
  CommandNames,         \* the commands of this instance
  Errors,               \* why processCommand may refuse a command
  MaxValue,             \* LLONG_MAX
  MaxTime, MaxQueue, MaxStream,   \* bounds on the clock, a queue and the stream
  None

VARIABLES
  now,                  \* mstime()
  db,                   \* db[d][k]: the master's keys
  cl,                   \* cl[c]: the state of a client
  stream,               \* sent to the replica and not applied yet
  rep                   \* the replica: its keys and its client for the master

vars == <<now, db, cl, stream, rep>>

Entry(v, when) == [v |-> v, when |-> when]

\* A client: flags CLIENT_MULTI, CLIENT_DIRTY_CAS and CLIENT_DIRTY_EXEC, the
\* queue of MULTI and the watched keys.  History: changed, a watched key no
\* longer has the value it had; refused, a command of the open MULTI failed.
NewClient == [sel |-> 0, multi |-> FALSE, dirtyCas |-> FALSE, dirtyExec |-> FALSE,
              queue |-> <<>>, watched |-> {}, changed |-> FALSE, refused |-> FALSE]

Cmd(name, k, k2, v, n) == [name |-> name, k |-> k, k2 |-> k2, v |-> v, n |-> n]
Bare(name) == Cmd(name, None, None, 0, 0)

-----------------------------------------------------------------------------
(* Lookups and time to live: db.c, expire.c.                               *)

keyIsExpired(x, d, k) ==
  x.db[d][k] # None /\ x.db[d][k].when > 0 /\ now > x.db[d][k].when

dbDelete(x, d, k) == [x EXCEPT !.db[d][k] = None]

propagateExpire(x, d, k) ==
  [x EXCEPT !.out = Append(@, [d |-> d, c |-> Cmd("del", k, None, 0, 0)])]

expireIfNeeded(x, d, k) ==
  IF keyIsExpired(x, d, k) /\ x.master
  THEN dbDelete(propagateExpire(x, d, k), d, k) ELSE x

signalModifiedKey(x, d, k) == [x EXCEPT !.touched = @ \cup {<<d, k>>}]

Dirty(x) == [x EXCEPT !.dirty = TRUE]

setKey(x, d, k, v) ==
  signalModifiedKey([expireIfNeeded(x, d, k) EXCEPT !.db[d][k] = Entry(v, 0)], d, k)

setExpire(x, d, k, when) == [x EXCEPT !.db[d][k].when = when]

-----------------------------------------------------------------------------
(* Commands on strings: t_string.c.                                        *)

\* SET, SETNX, SETEX: k2 is "nx", "xx" or None, n the time to live or 0.
setGenericCommand(x, d, c) ==
  LET Timed(z) == IF c.n > 0 THEN setExpire(z, d, c.k, now + c.n) ELSE z
      Looked(y) == IF (c.k2 = "nx" /\ y.db[d][c.k] # None) \/ (c.k2 = "xx" /\ y.db[d][c.k] = None)
                   THEN y ELSE Timed(Dirty(setKey(y, d, c.k, c.v)))
  IN  Looked(IF c.k2 = None THEN x ELSE expireIfNeeded(x, d, c.k))

getCommand(x, d, c) == expireIfNeeded(x, d, c.k)

getsetCommand(x, d, c) == Dirty(setKey(getCommand(x, d, c), d, c.k, c.v))

\* MSET and MSETNX of k and k2; n = 1 for MSETNX.
msetGenericCommand(x, d, c) ==
  LET y == expireIfNeeded(expireIfNeeded(x, d, c.k), d, c.k2)
      seen == expireIfNeeded(x, d, c.k)
  IN  IF c.n = 1 /\ seen.db[d][c.k] # None THEN seen
      ELSE IF c.n = 1 /\ y.db[d][c.k2] # None THEN y
      ELSE Dirty(setKey(setKey(x, d, c.k, c.v), d, c.k2, c.v))

\* The value of k, 0 when there is none, grows by one unless that overflows;
\* the time to live stays.
Increment(x, d, k) ==
  LET Put(y, o) ==
        IF o = None THEN Dirty(signalModifiedKey([y EXCEPT !.db[d][k] = Entry(1, 0)], d, k))
        ELSE IF o.v = MaxValue THEN y
        ELSE Dirty(signalModifiedKey([y EXCEPT !.db[d][k].v = o.v + 1], d, k))
      Looked(y) == Put(y, y.db[d][k])
  IN  Looked(expireIfNeeded(x, d, k))

incrDecrCommand(x, d, c) == Increment(x, d, c.k)

\* Propagated as a SET of the value; SET drops the time to live on the replica.
incrbyfloatCommand(x, d, c) ==
  LET AsSet(y) == IF y.dirty THEN [y EXCEPT !.argv = Cmd("set", c.k, None, y.db[d][c.k].v, 0)] ELSE y
  IN  AsSet(Increment(x, d, c.k))

-----------------------------------------------------------------------------
(* Generic commands: db.c and expire.c.                                    *)

delGenericCommand(x, d, c) ==
  LET y == expireIfNeeded(x, d, c.k)
  IN  IF y.db[d][c.k] = None THEN y
      ELSE Dirty(signalModifiedKey(dbDelete(y, d, c.k), d, c.k))

expireGenericCommand(x, d, c) ==
  LET y == expireIfNeeded(x, d, c.k)
      when == now + c.n
  IN  IF y.db[d][c.k] = None THEN y
      ELSE IF when <= now /\ x.master
      THEN [Dirty(signalModifiedKey(dbDelete(y, d, c.k), d, c.k))
              EXCEPT !.argv = Cmd("del", c.k, None, 0, 0)]
      ELSE Dirty(signalModifiedKey(setExpire(y, d, c.k, when), d, c.k))

persistCommand(x, d, c) ==
  LET y == expireIfNeeded(x, d, c.k)
  IN  IF y.db[d][c.k] # None /\ y.db[d][c.k].when > 0
      THEN Dirty(setExpire(y, d, c.k, 0)) ELSE y

\* RENAME, and RENAMENX when n = 1.
renameGenericCommand(x, d, c) ==
  LET To(z) ==
        IF z.db[d][c.k2] # None /\ c.n = 1 THEN z
        ELSE Dirty(signalModifiedKey(signalModifiedKey(
               [z EXCEPT !.db[d][c.k2] = z.db[d][c.k], !.db[d][c.k] = None],
               d, c.k), d, c.k2))
      From(y) == IF y.db[d][c.k] = None \/ c.k = c.k2 THEN y ELSE To(expireIfNeeded(y, d, c.k2))
  IN  From(expireIfNeeded(x, d, c.k))

\* MOVE k n: touches no watched key.
moveCommand(x, d, c) ==
  LET To(z) == IF z.db[c.n][c.k] # None THEN z
               ELSE Dirty([z EXCEPT !.db[c.n][c.k] = z.db[d][c.k], !.db[d][c.k] = None])
      From(y) == IF y.db[d][c.k] = None THEN y ELSE To(expireIfNeeded(y, c.n, c.k))
  IN  IF d = c.n THEN x ELSE From(expireIfNeeded(x, d, c.k))

\* SWAPDB 0 n: touches no watched key either.
dbSwapDatabases(x, d, c) ==
  IF c.n = 0 THEN Dirty(x)
  ELSE Dirty([x EXCEPT !.db[0] = x.db[c.n], !.db[c.n] = x.db[0]])

\* FLUSHDB, or FLUSHALL when n = 1.  FLUSHDB of an empty database is not dirty.
flushCommand(x, d, c) ==
  LET gone == {p \in Dbs \X Keys : (c.n = 1 \/ p[1] = d) /\ x.db[p[1]][p[2]] # None}
  IN  [x EXCEPT !.touched = @ \cup gone, !.dirty = @ \/ c.n = 1 \/ gone # {},
                !.db = [e \in Dbs |-> [k \in Keys |->
                          IF <<e, k>> \in gone THEN None ELSE @[e][k]]]]

selectCommand(x, c) == [x EXCEPT !.sel = c.n]

\* c->cmd->proc(c)
proc(x, c) ==
  LET d == x.sel IN
  CASE c.name = "set" -> setGenericCommand(x, d, c)
    [] c.name = "get" -> getCommand(x, d, c)
    [] c.name = "getset" -> getsetCommand(x, d, c)
    [] c.name = "mset" -> msetGenericCommand(x, d, c)
    [] c.name = "incr" -> incrDecrCommand(x, d, c)
    [] c.name = "incrbyfloat" -> incrbyfloatCommand(x, d, c)
    [] c.name = "del" -> delGenericCommand(x, d, c)
    [] c.name = "expire" -> expireGenericCommand(x, d, c)
    [] c.name = "persist" -> persistCommand(x, d, c)
    [] c.name = "rename" -> renameGenericCommand(x, d, c)
    [] c.name = "move" -> moveCommand(x, d, c)
    [] c.name = "swapdb" -> dbSwapDatabases(x, d, c)
    [] c.name = "flush" -> flushCommand(x, d, c)
    [] c.name = "select" -> selectCommand(x, c)

-----------------------------------------------------------------------------
(* Execution, propagation and transactions: server.c and multi.c.          *)

\* Flags CMD_READONLY of the command table; SELECT is neither read nor write.
ReadOnly == {"get"}
IsWrite(c) == c.name \notin {"get", "select", "unwatch"}

propagate(x, c) == [x EXCEPT !.out = Append(@, [d |-> x.sel, c |-> c])]

unwatchAllKeys(r) == [r EXCEPT !.watched = {}, !.changed = FALSE]

discardTransaction(r) ==
  [unwatchAllKeys(r) EXCEPT !.multi = FALSE, !.dirtyCas = FALSE, !.dirtyExec = FALSE,
                            !.queue = <<>>, !.refused = FALSE]

\* One command; what it changed is fed to the replicas after it ran.
call(x, c) ==
  LET Propagated(y) == IF y.dirty THEN propagate(y, y.argv) ELSE y
  IN  Propagated(proc([x EXCEPT !.dirty = FALSE, !.argv = c], c))

\* One command of the queue; MULTI goes before the first that is not read-only.
ExecOne(x, c) ==
  LET first == ~x.must /\ c.name \notin ReadOnly
      y == IF first THEN [propagate(x, Bare("multi")) EXCEPT !.must = TRUE] ELSE x
  IN  IF c.name = "unwatch" THEN y ELSE call(y, c)

\* The queue of a transaction that is not aborted, and EXEC.
execCommand(x, queue) ==
  LET Closed(y) == IF y.must THEN propagate(y, Bare("exec")) ELSE y
  IN  Closed(FoldLeft(ExecOne, x, queue))

\* A server about to run commands for a client with database sel.
Running(keys, master, sel) ==
  [db |-> keys, master |-> master, sel |-> sel, dirty |-> FALSE, touched |-> {},
   argv |-> None, out |-> <<>>, must |-> FALSE]

\* What a client can see of a key.
Visible(keys, d, k) ==
  LET e == keys[d][k] IN IF e = None \/ (e.when > 0 /\ now > e.when) THEN None ELSE e.v

\* Mutant: a client that has already sent MULTI is not marked.
touchWatchedKey_NotInMulti(r, touched) ==
  [r EXCEPT !.dirtyCas = @ \/ (~r.multi /\ r.watched \cap touched # {})]

touchWatchedKey(r, touched) == [r EXCEPT !.dirtyCas = @ \/ r.watched \cap touched # {}]

\* Install what a command of client c left: r is c's state, x the server.  MOVE
\* and SWAPDB are not expected to mark watchers (silent).
Install(c, r, x, silent) ==
  /\ db' = x.db
  /\ stream' = stream \o x.out
  /\ cl' = [e \in Clients |->
       LET s == IF e = c THEN r ELSE cl[e]
           moved == \E p \in s.watched :
                      Visible(db, p[1], p[2]) # Visible(x.db, p[1], p[2])
       IN  [touchWatchedKey(s, x.touched) EXCEPT !.changed = @ \/ (moved /\ ~silent)]]
  /\ UNCHANGED <<now, rep>>

Silent(c) == c.name \in {"move", "swapdb"}

\* call() of a command outside MULTI.
CallNow(c, cmd) ==
  LET r == cl[c]
      Done(x) == Install(c, [r EXCEPT !.sel = x.sel], x, Silent(cmd))
  IN  IF cmd.name = "unwatch"
      THEN Install(c, [unwatchAllKeys(r) EXCEPT !.dirtyCas = FALSE],
                   Running(db, TRUE, r.sel), FALSE)
      ELSE Done(call(Running(db, TRUE, r.sel), cmd))

ExecAborted(r) == r.dirtyCas \/ r.dirtyExec

\* EXEC.  Commands of the queue that a transaction runs itself cannot abort it:
\* its keys are unwatched first.
Exec(c) ==
  LET r == cl[c]
      Done(x) == Install(c, [discardTransaction(r) EXCEPT !.sel = x.sel], x,
                         \E i \in 1..Len(r.queue) : Silent(r.queue[i]))
  IN  /\ r.multi
      /\ IF ExecAborted(r)
         THEN /\ cl' = [cl EXCEPT ![c] = discardTransaction(r)]
              /\ UNCHANGED <<now, db, stream, rep>>
         ELSE Done(execCommand(Running(db, TRUE, r.sel), r.queue))

Multi(c) ==
  /\ ~cl[c].multi
  /\ cl' = [cl EXCEPT ![c].multi = TRUE]
  /\ UNCHANGED <<now, db, stream, rep>>

Discard(c) ==
  /\ cl[c].multi
  /\ cl' = [cl EXCEPT ![c] = discardTransaction(@)]
  /\ UNCHANGED <<now, db, stream, rep>>

Watch(c, k) ==
  /\ ~cl[c].multi
  /\ cl' = [cl EXCEPT ![c].watched = @ \cup {<<cl[c].sel, k>>}]
  /\ UNCHANGED <<now, db, stream, rep>>

flagTransaction(r) == IF r.multi THEN [r EXCEPT !.dirtyExec = TRUE] ELSE r

\* The early returns of processCommand.  Disk errors and missing replicas stop
\* writes only; a read-only replica and a server that is loading answer without
\* flagTransaction.
Refuses(err, cmd) == err \in {"disk", "replicas", "readonly"} => IsWrite(cmd)
Flags(err) == err \notin {"readonly", "loading"}

Refuse(c, cmd, err) ==
  LET r == [cl[c] EXCEPT !.refused = @ \/ cl[c].multi]
  IN  /\ Refuses(err, cmd)
      /\ cl' = [cl EXCEPT ![c] = IF Flags(err) THEN flagTransaction(r) ELSE r]
      /\ UNCHANGED <<now, db, stream, rep>>

\* A redirection, out of cluster slots, while c has EXEC in hand.
ExecRedirected(c) ==
  /\ "redirect" \in Errors /\ Discard(c)

\* The end of processCommand: queue the command or run it.
processCommand(c, cmd) ==
  IF cl[c].multi
  THEN /\ Len(cl[c].queue) < MaxQueue
       /\ cl' = [cl EXCEPT ![c].queue = Append(@, cmd)]
       /\ UNCHANGED <<now, db, stream, rep>>
  ELSE CallNow(c, cmd)

Disconnect(c) ==
  /\ cl[c] # NewClient
  /\ cl' = [cl EXCEPT ![c] = NewClient]
  /\ UNCHANGED <<now, db, stream, rep>>

-----------------------------------------------------------------------------
(* Time, the expire cycle, eviction and the replica.                       *)

Tick == now < MaxTime /\ now' = now + 1 /\ UNCHANGED <<db, cl, stream, rep>>

activeExpireCycleTryExpire(x, d, k) ==
  IF keyIsExpired(x, d, k) THEN dbDelete(propagateExpire(x, d, k), d, k) ELSE x

\* The cycle samples keys at random: any set of keys of a database.
activeExpireCycle(d) ==
  \E sample \in SUBSET Keys \ {{}} :
    LET Done(x) ==
          /\ \A k \in sample : keyIsExpired(x, d, k) \/ db[d][k] # x.db[d][k]
          /\ db' = x.db /\ stream' = stream \o x.out /\ UNCHANGED <<now, cl, rep>>
    IN  Done(FoldLeft(LAMBDA y, k : activeExpireCycleTryExpire(y, d, k),
                      Running(db, TRUE, d), SetToSeq(sample)))

\* freeMemoryIfNeeded() takes a key out, propagated as a DEL or UNLINK.  Which
\* key is the business of module Eviction.
freeMemoryIfNeeded(d, k) ==
  LET x == dbDelete(propagateExpire(Running(db, TRUE, d), d, k), d, k)
  IN  /\ "evict" \in CommandNames /\ db[d][k] # None
      /\ db' = x.db /\ stream' = stream \o x.out
      /\ UNCHANGED <<now, cl, rep>>

\* The replica's client for its master: processCommand on the next command.
ReplicaStep(r, item) ==
  LET Applied(items) == FoldLeft(LAMBDA y, i : call([y EXCEPT !.sel = i.d], i.c),
                                 Running(r.db, FALSE, item.d), items).db
  IN  IF item.c.name = "multi" THEN [r EXCEPT !.multi = TRUE]
      ELSE IF r.multi /\ item.c.name # "exec" THEN [r EXCEPT !.queue = Append(@, item)]
      ELSE [r EXCEPT !.multi = FALSE, !.queue = <<>>,
                     !.db = Applied(IF r.multi THEN r.queue ELSE <<item>>)]

ReplicaApplies ==
  /\ stream # <<>>
  /\ rep' = ReplicaStep(rep, Head(stream))
  /\ stream' = Tail(stream)
  /\ UNCHANGED <<now, db, cl>>

-----------------------------------------------------------------------------
AnyCommand ==
  UNION {[name : {"set"}, k : Keys, k2 : {None, "nx", "xx"}, v : {0, 1}, n : {0, 1}],
         [name : {"getset"}, k : Keys, k2 : {None}, v : {0}, n : {0}],
         [name : {"mset"}, k : Keys, k2 : Keys, v : {1}, n : {0, 1}],
         [name : {"get", "incr", "incrbyfloat", "del", "persist"},
          k : Keys, k2 : {None}, v : {0}, n : {0}],
         [name : {"expire"}, k : Keys, k2 : {None}, v : {0}, n : {0, 1}],
         [name : {"rename"}, k : Keys, k2 : Keys, v : {0}, n : {0, 1}],
         [name : {"move"}, k : Keys, k2 : {None}, v : {0}, n : Dbs],
         [name : {"swapdb", "select"}, k : {None}, k2 : {None}, v : {0}, n : Dbs],
         [name : {"flush"}, k : {None}, k2 : {None}, v : {0}, n : {0, 1}],
         [name : {"unwatch"}, k : {None}, k2 : {None}, v : {0}, n : {0}]}

Commands == {c \in AnyCommand : c.name \in CommandNames}

Absent == [d \in Dbs |-> [k \in Keys |-> None]]

Init ==
  /\ now = 1 /\ db = Absent /\ stream = <<>>
  /\ cl = [c \in Clients |-> NewClient]
  /\ rep = [db |-> Absent, multi |-> FALSE, queue |-> <<>>]

\* The stream has room for what a transaction may send.
Room == Len(stream) <= MaxStream

Next ==
  \/ Tick
  \/ ReplicaApplies
  \/ \E c \in Clients :
       \/ Multi(c) \/ Discard(c) \/ ExecRedirected(c) \/ Disconnect(c)
       \/ Room /\ Exec(c)
       \/ \E k \in Keys : Watch(c, k)
       \/ \E cmd \in Commands :
            \/ Room /\ processCommand(c, cmd)
            \/ \E err \in Errors : Refuse(c, cmd, err)
  \/ \E d \in Dbs :
       \/ Room /\ activeExpireCycle(d)
       \/ \E k \in Keys : Room /\ freeMemoryIfNeeded(d, k)

Spec == Init /\ [][Next]_vars

-----------------------------------------------------------------------------
Databases == [Dbs -> [Keys -> {None} \cup [v : 0..MaxValue, when : 0..MaxTime + 1]]]

\* The shape of the state.
TypeOK ==
  /\ now \in 1..MaxTime
  /\ db \in Databases /\ rep.db \in Databases
  /\ \A c \in Clients : cl[c].watched \subseteq Dbs \X Keys /\ Len(cl[c].queue) <= MaxQueue
  /\ \A i \in 1..Len(stream) : stream[i].d \in Dbs

Values(keys) == [d \in Dbs |-> [k \in Keys |-> IF keys[d][k] = None THEN None ELSE keys[d][k].v]]

Volatile(keys) == {p \in Dbs \X Keys : keys[p[1]][p[2]] # None /\ keys[p[1]][p[2]].when > 0}

\* The replica after the commands under way to it.
Settled == FoldLeft(ReplicaStep, rep, stream)

\* Whatever expires, is evicted, is rewritten or runs inside MULTI/EXEC, what
\* is in the stream is exactly what separates the replica from the master:
\* once it is applied the replica has the master's keys and values, and no
\* transaction is left open.
ReplicaConverges ==
  LET Same(r) == Values(r.db) = Values(db) /\ ~r.multi IN Same(Settled)

\* A client whose watched key was given another value by a command of any client,
\* or was flushed, cannot run its transaction: CLIENT_DIRTY_CAS is set.  MOVE,
\* SWAPDB, eviction and the time to live change a key and mark nobody; they are
\* left out here.
WatchSeesWrites == \A c \in Clients : cl[c].changed => cl[c].dirtyCas

\* Of a transaction in which a command was refused nothing runs.
AllOrNothing == \A c \in Clients : cl[c].refused => cl[c].dirtyExec

\* "in order to make sure that differences in float precision or formatting
\* will not create differences in replicas" (t_string.c): the replica also
\* agrees on which keys expire.
ReplicaVolatileSame == Volatile(Settled.db) = Volatile(db)
=============================================================================
