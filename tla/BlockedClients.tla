--------------------------- MODULE BlockedClients ---------------------------
(***************************************************************************)
(* Clients that block on lists and sorted sets (blocked.c, t_list.c), the  *)
(* keyspace that wakes them (db.c), and the stream of commands that keeps  *)
(* a replica equal to the master.                                          *)
(*                                                                         *)
(* A value is a record with its type and its elements: those of a list in  *)
(* order, those of a sorted set by score.  Operators named after a C       *)
(* function take a state x of the server and return the state after it;    *)
(* x.dirty says whether the command changed the dataset.                   *)
(***************************************************************************)
EXTENDS Integers, Sequences, SequencesExt, FiniteSets

CONSTANTS
  Clients, Keys, Values,
  CommandNames,         \* the commands of this instance
  MaxLen,               \* bound on the length of a list or sorted set
  MaxExec,              \* bound on the commands in a transaction
  None

VARIABLES
  db,                   \* db[k]: the value of k, or None
  blocking,             \* db->blocking_keys: per key the waiting clients, in order
  client,               \* client[c]: what c waits for
  replica,              \* the dataset of a replica that has processed the stream
  waiting               \* history: the blocked clients in the order they blocked

vars == <<db, blocking, client, replica, waiting>>

List(items) == [type |-> "list", items |-> items]
Zset(items) == [type |-> "zset", items |-> items]
String == [type |-> "string", items |-> <<>>]

\* CLIENT_BLOCKED is not set.
Running == [btype |-> None, keys |-> {}, where |-> "head", target |-> None]

\* The server during a command: with server.ready_keys.
Server == [db |-> db, blocking |-> blocking, client |-> client, replica |-> replica,
           ready |-> <<>>, dirty |-> FALSE]

IsType(x, k, type) == x.db[k] # None /\ x.db[k].type = type

-----------------------------------------------------------------------------
(* The keyspace.                                                           *)

signalKeyAsReady(x, k) ==
  IF x.blocking[k] = <<>> \/ Contains(x.ready, k) THEN x
  ELSE [x EXCEPT !.ready = Append(@, k)]

dbAdd(x, k, val) ==
  LET y == [x EXCEPT !.db[k] = val]
  IN  IF val.type \in {"list", "zset"} THEN signalKeyAsReady(y, k) ELSE y

dbOverwrite(x, k, val) == [x EXCEPT !.db[k] = val]

setKey(x, k, val) == IF x.db[k] = None THEN dbAdd(x, k, val) ELSE dbOverwrite(x, k, val)

dbSyncDelete(x, k) == [x EXCEPT !.db[k] = None]

Dirty(x) == [x EXCEPT !.dirty = TRUE]

\* The collection at k now holds items; an empty one is deleted.
StoreOrDelete(x, k, items) ==
  IF items = <<>> THEN dbSyncDelete(x, k) ELSE [x EXCEPT !.db[k].items = items]

delGenericCommand(x, k) == IF x.db[k] = None THEN x ELSE Dirty(dbSyncDelete(x, k))

emptyDb(x) == Dirty([x EXCEPT !.db = [k \in Keys |-> None]])

renameGenericCommand(x, k, k2) ==
  IF x.db[k] = None \/ k = k2 THEN x
  ELSE Dirty(dbSyncDelete(dbAdd(dbSyncDelete(x, k2), k2, x.db[k]), k))

-----------------------------------------------------------------------------
(* List commands.                                                          *)

Added(items, v, where) == IF where = "head" THEN <<v>> \o items ELSE Append(items, v)

End(items, where) == IF where = "head" THEN items[1] ELSE items[Len(items)]

Popped(items, where) == IF where = "head" THEN Tail(items) ELSE Front(items)

listTypePush(x, k, v, where) == [x EXCEPT !.db[k].items = Added(@, v, where)]

pushGenericCommand(x, k, v, where) ==
  IF x.db[k] # None /\ ~IsType(x, k, "list") THEN x
  ELSE LET y == IF x.db[k] = None THEN dbAdd(x, k, List(<<>>)) ELSE x
       IN  Dirty(listTypePush(y, k, v, where))

pushxGenericCommand(x, k, v, where) ==
  IF ~IsType(x, k, "list") THEN x ELSE Dirty(listTypePush(x, k, v, where))

\* The first position of v in items, or 0.
Position(items, v) == IF Contains(items, v) THEN SelectInSeq(items, LAMBDA e : e = v) ELSE 0

linsertCommand(x, k, pivot, v, where) ==
  IF ~IsType(x, k, "list") \/ Position(x.db[k].items, pivot) = 0 THEN x
  ELSE LET i == Position(x.db[k].items, pivot)
       IN  Dirty([x EXCEPT !.db[k].items = InsertAt(@, IF where = "head" THEN i ELSE i + 1, v)])

lsetCommand(x, k, index, v) ==
  IF ~IsType(x, k, "list") \/ index \notin 1 .. Len(x.db[k].items) THEN x
  ELSE Dirty([x EXCEPT !.db[k].items[index] = v])

popGenericCommand(x, k, where) ==
  IF ~IsType(x, k, "list") THEN x
  ELSE Dirty(StoreOrDelete(x, k, Popped(x.db[k].items, where)))

\* LTRIM with zero-based start and end, negative ones counted from the end.
ltrimCommand(x, k, start, end) ==
  IF ~IsType(x, k, "list") THEN x
  ELSE LET items == x.db[k].items
           Abs(i) == IF i < 0 THEN Len(items) + i ELSE i
           from == IF Abs(start) < 0 THEN 0 ELSE Abs(start)
       IN  Dirty(StoreOrDelete(x, k, SubSeq(items, from + 1,
                   IF Abs(end) >= Len(items) THEN Len(items) ELSE Abs(end) + 1)))

lremCommand(x, k, v) ==
  IF ~IsType(x, k, "list") \/ ~Contains(x.db[k].items, v) THEN x
  ELSE Dirty(StoreOrDelete(x, k, SelectSeq(x.db[k].items, LAMBDA e : e # v)))

rpoplpushHandlePush(x, k, v) ==
  listTypePush(IF x.db[k] = None THEN dbAdd(x, k, List(<<>>)) ELSE x, k, v, "head")

rpoplpushCommand(x, k, k2) ==
  IF ~IsType(x, k, "list") \/ (x.db[k2] # None /\ ~IsType(x, k2, "list")) THEN x
  ELSE LET v == End(x.db[k].items, "tail")
           popped == [x EXCEPT !.db[k].items = Front(@)]
           y == rpoplpushHandlePush(popped, k2, v)
       IN  Dirty(StoreOrDelete(y, k, y.db[k].items))

-----------------------------------------------------------------------------
(* Sorted sets, by their scores.                                           *)

zaddGenericCommand(x, k, score) ==
  IF x.db[k] # None /\ ~IsType(x, k, "zset") THEN x
  ELSE LET y == IF x.db[k] = None THEN dbAdd(x, k, Zset(<<>>)) ELSE x
           lower == SelectSeq(y.db[k].items, LAMBDA e : e <= score)
           higher == SelectSeq(y.db[k].items, LAMBDA e : e > score)
       IN  Dirty([y EXCEPT !.db[k].items = Append(lower, score) \o higher])

genericZpopCommand(x, k, where) ==
  IF ~IsType(x, k, "zset") THEN x
  ELSE Dirty(StoreOrDelete(x, k, Popped(x.db[k].items, where)))

-----------------------------------------------------------------------------
(* Commands, their propagation, and transactions.                          *)

Do(x, m) ==
  CASE m.name = "push" -> pushGenericCommand(x, m.key, m.value, m.where)
    [] m.name = "pushx" -> pushxGenericCommand(x, m.key, m.value, m.where)
    [] m.name = "linsert" -> linsertCommand(x, m.key, m.pivot, m.value, m.where)
    [] m.name = "lset" -> lsetCommand(x, m.key, m.index, m.value)
    [] m.name = "pop" -> popGenericCommand(x, m.key, m.where)
    [] m.name = "ltrim" -> ltrimCommand(x, m.key, m.start, m.end)
    [] m.name = "lrem" -> lremCommand(x, m.key, m.value)
    [] m.name = "rpoplpush" -> rpoplpushCommand(x, m.key, m.target)
    [] m.name = "zadd" -> zaddGenericCommand(x, m.key, m.value)
    [] m.name = "zpop" -> genericZpopCommand(x, m.key, m.where)
    [] m.name = "set" -> Dirty(setKey(x, m.key, String))
    [] m.name = "sort store" -> Dirty(setKey(x, m.key, List(<<m.value>>)))
    [] m.name = "del" -> delGenericCommand(x, m.key)
    [] m.name = "rename" -> renameGenericCommand(x, m.key, m.target)
    [] m.name = "flushdb" -> emptyDb(x)

\* The replica executes a command of the stream; nobody is blocked there.
propagate(x, m) ==
  LET idle == [x EXCEPT !.db = x.replica, !.blocking = [k \in Keys |-> <<>>]]
  IN  [x EXCEPT !.replica = Do(idle, m).db]

\* call(): a command that has changed the dataset is propagated.
Propagated(x, m) == IF x.dirty THEN propagate(x, m) ELSE x
call(x, m) == Propagated(Do([x EXCEPT !.dirty = FALSE], m), m)

-----------------------------------------------------------------------------
(* Blocking and waking.                                                    *)

blockForKeys(x, c, btype, keys, where, target) ==
  [x EXCEPT !.blocking = [k \in Keys |-> IF Contains(keys, k) THEN Append(@[k], c) ELSE @[k]],
            !.client[c] = [btype |-> btype, keys |-> ToSet(keys), where |-> where,
                           target |-> target]]

unblockClientWaitingData(x, c) ==
  [x EXCEPT !.blocking = [k \in Keys |-> SelectSeq(@[k], LAMBDA d : d # c)],
            !.client[c] = Running]

\* The first key with a value decides: a value of another type is an error.
Blocking(x, c, type, pop, keys, where) ==
  LET there == SelectSeq(keys, LAMBDA k : x.db[k] # None)
  IN  IF there = <<>> THEN blockForKeys(x, c, type, keys, where, None)
      ELSE call(x, [name |-> pop, key |-> there[1], where |-> where])

\* BLPOP and BRPOP: an element found at once is propagated as LPOP or RPOP.
blockingPopGenericCommand(x, c, keys, where) == Blocking(x, c, "list", "pop", keys, where)

\* BZPOPMIN and BZPOPMAX
blockingGenericZpopCommand(x, c, keys, where) == Blocking(x, c, "zset", "zpop", keys, where)

brpoplpushCommand(x, c, k, target) ==
  IF x.db[k] = None THEN blockForKeys(x, c, "list", <<k>>, "tail", target)
  ELSE call(x, [name |-> "rpoplpush", key |-> k, target |-> target])

\* v, popped from k, goes to a client; where the target of BRPOPLPUSH has
\* another type the client gets an error, and the caller puts v back.
serveClientBlockedOnList(x, k, v, where, target) ==
  LET pop == [name |-> "pop", key |-> k, where |-> where]
      push == [name |-> "push", key |-> target, value |-> v, where |-> "head"]
  IN  IF target = None THEN propagate(x, pop)
      ELSE IF x.db[target] # None /\ ~IsType(x, target, "list")
      THEN listTypePush(x, k, v, where)
      ELSE propagate(rpoplpushHandlePush(propagate(x, pop), target, v), push)

\* A client of another type goes to the tail of the queue of k.
Rotate(x, k) == [x EXCEPT !.blocking[k] = Append(Tail(@), Head(@))]

\* The list at k serves up to n clients of its queue, first come first served.
RECURSIVE ServeList(_, _, _)
ServeList(x, k, n) ==
  IF n = 0 THEN x
  ELSE LET c == Head(x.blocking[k])
           items == x.db[k].items
           w == x.client[c]
       IN  IF w.btype # "list" THEN ServeList(Rotate(x, k), k, n - 1)
           ELSE IF items = <<>> THEN x
           ELSE ServeList(serveClientBlockedOnList(
                            unblockClientWaitingData([x EXCEPT !.db[k].items = Popped(@, w.where)], c),
                            k, End(items, w.where), w.where, w.target),
                          k, n - 1)

\* The sorted set at k serves up to n clients; the last element deletes it.
RECURSIVE ServeZset(_, _, _)
ServeZset(x, k, n) ==
  IF n = 0 \/ x.db[k] = None THEN x
  ELSE LET c == Head(x.blocking[k])
           w == x.client[c]
           m == [name |-> "zpop", key |-> k, where |-> w.where]
       IN  IF w.btype # "zset" THEN ServeZset(Rotate(x, k), k, n - 1)
           ELSE ServeZset(propagate(Do(unblockClientWaitingData(x, c), m), m), k, n - 1)

\* A list left empty is deleted.
Emptied(x, k) == StoreOrDelete(x, k, x.db[k].items)

\* One key of server.ready_keys.
ServeKey(x, k) ==
  LET n == Len(x.blocking[k])
  IN  CASE IsType(x, k, "list") ->
             Emptied(ServeList(x, k, n), k)
        [] IsType(x, k, "zset") -> ServeZset(x, k, n)
        [] OTHER -> x

\* Mutant: one pass; keys that become ready while clients are served are lost.
handleClientsBlockedOnKeys_Once(x) ==
  [FoldLeft(ServeKey, [x EXCEPT !.ready = <<>>], x.ready) EXCEPT !.ready = <<>>]

\* Serving a BRPOPLPUSH makes its target ready in turn.  A key leaves
\* db->ready_keys before it is served.
RECURSIVE handleClientsBlockedOnKeys(_)
handleClientsBlockedOnKeys(x) ==
  IF x.ready = <<>> THEN x
  ELSE handleClientsBlockedOnKeys(ServeKey([x EXCEPT !.ready = Tail(@)], Head(x.ready)))

-----------------------------------------------------------------------------
(* The server's steps.                                                     *)

Install(x) ==
  /\ db' = x.db /\ blocking' = x.blocking /\ client' = x.client /\ replica' = x.replica
  /\ waiting' = LET stay == SelectSeq(waiting, LAMBDA c : x.client[c] # Running)
                    new == {c \in Clients : x.client[c] # Running} \ ToSet(waiting)
                IN  stay \o SetToSeq(new)

Room(k) == db[k] = None \/ Len(db[k].items) < MaxLen

Where == {"head", "tail"}

\* The ends of which this instance pops.
PopEnds(name) == IF name \in CommandNames THEN Where ELSE {}

Commands ==
  [name : {"push", "pushx"}, key : {k \in Keys : Room(k)}, value : Values, where : Where]
  \cup [name : {"linsert"}, key : {k \in Keys : Room(k)}, pivot : Values, value : Values,
        where : Where]
  \cup [name : {"lset"}, key : Keys, index : 1 .. MaxLen, value : Values]
  \cup [name : {"pop", "zpop"}, key : Keys, where : Where]
  \cup [name : {"ltrim"}, key : Keys, start : -2 .. 1, end : -2 .. 1]
  \cup [name : {"lrem", "sort store"}, key : Keys, value : Values]
  \cup [name : {"zadd"}, key : {k \in Keys : Room(k)}, value : Values]
  \cup [name : {"rpoplpush", "rename"}, key : Keys, target : {k \in Keys : Room(k)}]
  \cup [name : {"set", "del", "flushdb"}, key : Keys]

\* A client that is not blocked executes a command, or several as a
\* transaction; the clients they wake are served at the end.
Execute ==
  \E n \in 1 .. MaxExec :
    \E ms \in [1 .. n -> {m \in Commands : m.name \in CommandNames}] :
      Install(handleClientsBlockedOnKeys(FoldLeft(call, Server, ms)))

KeyLists == {<<k>> : k \in Keys} \cup {keys \in Keys \X Keys : keys[1] # keys[2]}

\* What the blocking commands of c leave before the clients are served.
Blocks(c) ==
  {blockingPopGenericCommand(Server, c, keys, w) : keys \in KeyLists, w \in PopEnds("pop")}
  \cup {blockingGenericZpopCommand(Server, c, keys, w) : keys \in KeyLists, w \in PopEnds("zpop")}
  \cup {brpoplpushCommand(Server, c, k, j) : k \in Keys, j \in {j \in Keys : Room(j) /\ "rpoplpush" \in CommandNames}}

Block(c) == client[c] = Running /\ \E x \in Blocks(c) : Install(handleClientsBlockedOnKeys(x))

\* The timeout passes (clientsCronHandleTimeout), CLIENT UNBLOCK names the
\* client, or its connection is closed.
unblockClient(c) ==
  /\ client[c] # Running
  /\ Install(unblockClientWaitingData(Server, c))

\* The server becomes a replica: every blocked client is let go.
disconnectAllBlockedClients ==
  Install(FoldLeft(LAMBDA x, c : unblockClientWaitingData(x, c), Server, waiting))

Init ==
  /\ db = [k \in Keys |-> None]
  /\ blocking = [k \in Keys |-> <<>>]
  /\ client = [c \in Clients |-> Running]
  /\ replica = db
  /\ waiting = <<>>

Next ==
  \/ Execute
  \/ \E c \in Clients : Block(c) \/ unblockClient(c)
  \/ disconnectAllBlockedClients

Spec == Init /\ [][Next]_vars

-----------------------------------------------------------------------------
\* blocking_keys and the clients agree, and no empty collection stays behind.
TypeOK ==
  /\ \A k \in Keys :
       /\ IsInjective(blocking[k])
       /\ ToSet(blocking[k]) = {c \in Clients : k \in client[c].keys}
       /\ db[k] # None /\ db[k].type # "string" => db[k].items # <<>>

\* Between two commands no client waits for a key that could serve it: a PUSH,
\* RENAME or ZADD inside a transaction, or the push of a served BRPOPLPUSH,
\* wakes the clients of every key it fills.
NoMissedWakeup ==
  \A c \in Clients : \A k \in client[c].keys : ~(db[k] # None /\ db[k].type = client[c].btype)

\* A replica that has executed the stream has the master's dataset, although
\* blocked pops are never propagated as such but as what they did.
ReplicaEqual == replica = db

\* blocked.c: "We serve clients in the same order they blocked for this key,
\* from the first blocked to the last."
QueuesInOrder ==
  \A k \in Keys :
    \A i, j \in 1 .. Len(blocking[k]) :
      /\ i < j
      /\ client[blocking[k][i]].btype = client[blocking[k][j]].btype
      => Position(waiting, blocking[k][i]) < Position(waiting, blocking[k][j])
=============================================================================
