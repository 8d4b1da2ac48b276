----------------------------- MODULE RedisDict -----------------------------
(***************************************************************************)
(* dict.c of the vendored Redis: a chained hash table that is rehashed     *)
(* incrementally, bucket by bucket, while it is used, with a cursor scan   *)
(* that survives resizing and with safe iterators that suspend it.         *)
(*                                                                         *)
(* A table is the sequence of its chains; <<>> is the table that was never *)
(* allocated.  An entry is its key: values play no part in the structure.  *)
(* The operators are the functions of dict.c, from a dictionary to the     *)
(* dictionary they leave.                                                  *)
(***************************************************************************)
EXTENDS Integers, Sequences, FiniteSets, SequencesExt

CONSTANTS
  Key,                  \* the keys
  Hash,                 \* Hash[k]: dictHashKey
  Bits,                 \* the width of the scan cursor, 64 in the code
  InitialSize,          \* DICT_HT_INITIAL_SIZE
  ForceRatio,           \* dict_force_resize_ratio
  MinFill,              \* HASHTABLE_MIN_FILL, in percent
  EmptyVisits,          \* empty buckets visited per rehashing step, 10
  Readers               \* the readers of the run: "scan", "iterator"

VARIABLES
  d,                    \* the dictionary
  canResize,            \* dict_can_resize
  members,              \* history: the keys added and not deleted
  scan,                 \* a client's SCAN
  iter                  \* a safe iterator

vars == <<d, canResize, members, scan, iter>>

-----------------------------------------------------------------------------
Used(t) == FoldLeft(LAMBDA n, chain : n + Len(chain), 0, t)

Keys(t) == UNION {ToSet(t[i]) : i \in DOMAIN t}

Bucket(t, h) == (h % Len(t)) + 1

dictIsRehashing(x) == x.rehashidx # -1

_dictInit == [ht |-> <<<<>>, <<>>>>, rehashidx |-> -1, iterators |-> 0]

_dictNextPower(n) ==
  CHOOSE p \in {InitialSize * 2^j : j \in 0 .. Bits} :
    p >= n /\ (p = InitialSize \/ p \div 2 < n)

\* The dictionary is left alone if it is rehashing, if the size is too small,
\* or if it would not change.
dictExpand(x, n) ==
  LET size == _dictNextPower(n)
      new == [i \in 1 .. size |-> <<>>]
  IN IF dictIsRehashing(x) \/ Used(x.ht[1]) > n \/ size = Len(x.ht[1]) THEN x
     ELSE IF x.ht[1] = <<>> THEN [x EXCEPT !.ht[1] = new]
     ELSE [x EXCEPT !.ht[2] = new, !.rehashidx = 0]

dictResize(x) ==
  IF ~canResize \/ dictIsRehashing(x) THEN x
  ELSE dictExpand(x, IF Used(x.ht[1]) < InitialSize
                     THEN InitialSize ELSE Used(x.ht[1]))

htNeedsResize(x) ==
  LET size == Len(x.ht[1]) + Len(x.ht[2])
      used == Used(x.ht[1]) + Used(x.ht[2])
  IN size > InitialSize /\ (used * 100) \div size < MinFill

_dictExpandIfNeeded(x) ==
  LET t == x.ht[1]
  IN IF dictIsRehashing(x) THEN x
     ELSE IF t = <<>> THEN dictExpand(x, InitialSize)
     ELSE IF Used(t) >= Len(t) /\ (canResize \/ Used(t) \div Len(t) > ForceRatio)
     THEN dictExpand(x, Used(t) * 2)
     ELSE x

-----------------------------------------------------------------------------
(* Incremental rehashing.                                                  *)

\* Every entry of the chain at index i moves to the front of its new chain.
MoveBucket(x, i) ==
  LET move(t, k) == [t EXCEPT ![Bucket(t, Hash[k])] = <<k>> \o @]
  IN [x EXCEPT !.ht[2] = FoldLeft(move, @, x.ht[1][i + 1]),
               !.ht[1][i + 1] = <<>>,
               !.rehashidx = i + 1]

\* Once the first table is empty, the second one takes its place.
FinishRehash(x) ==
  IF Used(x.ht[1]) = 0
  THEN [x EXCEPT !.ht = <<x.ht[2], <<>>>>, !.rehashidx = -1]
  ELSE x

RECURSIVE RehashLoop(_, _, _)
RehashLoop(x, n, visits) ==
  IF n = 0 \/ Used(x.ht[1]) = 0
  THEN FinishRehash(x)
  ELSE LET next == CHOOSE i \in x.rehashidx .. Len(x.ht[1]) - 1 :
                     /\ x.ht[1][i + 1] # <<>>
                     /\ \A j \in x.rehashidx .. i - 1 : x.ht[1][j + 1] = <<>>
           empty == next - x.rehashidx
       IN IF empty >= visits
          THEN [x EXCEPT !.rehashidx = @ + visits]
          ELSE RehashLoop(MoveBucket(x, next), n - 1, visits - empty)

dictRehash(x, n) ==
  IF dictIsRehashing(x) THEN RehashLoop(x, n, n * EmptyVisits) ELSE x

_dictRehashStep(x) == IF x.iterators = 0 THEN dictRehash(x, 1) ELSE x

-----------------------------------------------------------------------------
(* Adding, finding, deleting.                                              *)

Holds(x, k) ==
  \E n \in {1, 2} : /\ x.ht[n] # <<>>
                    /\ k \in ToSet(x.ht[n][Bucket(x.ht[n], Hash[k])])

\* The entry goes to the front of its chain, in the second table if there is
\* one.
dictAddRaw(x, k) ==
  LET y == _dictExpandIfNeeded(_dictRehashStep(x))
      n == IF dictIsRehashing(y) THEN 2 ELSE 1
  IN IF Holds(y, k) THEN y
     ELSE [y EXCEPT !.ht[n][Bucket(y.ht[n], Hash[k])] = <<k>> \o @]

\* Both functions return at once on an empty dictionary.
dictFind(x, k) ==
  IF Used(x.ht[1]) + Used(x.ht[2]) = 0 THEN x ELSE _dictRehashStep(x)

dictGenericDelete(x, k) ==
  LET y == dictFind(x, k)
      drop(t) == IF t = <<>> THEN t
                 ELSE [t EXCEPT ![Bucket(t, Hash[k])] =
                         SelectSeq(@, LAMBDA e : e # k)]
  IN [y EXCEPT !.ht = <<drop(y.ht[1]), drop(y.ht[2])>>]

-----------------------------------------------------------------------------
(* dictScan: the cursor counts with its bits reversed, so that the buckets *)
(* a bucket splits into, or is merged from, are visited together.          *)

rev(v) ==
  LET f[i \in 0 .. Bits] ==
        IF i = 0 THEN 0 ELSE (2 * f[i - 1]) + ((v \div 2^(i - 1)) % 2)
  IN f[Bits]

\* v |= ~mask, and an increment of the reversed cursor.
NextCursor(v, size) ==
  rev((rev((v % size) + (2^Bits - size)) + 1) % 2^Bits)

\* The expansions, in the larger table, of the cursor in the smaller one.
RECURSIVE ScanLarger(_, _, _)
ScanLarger(v, small, large) ==
  LET w == NextCursor(v, Len(large))
      here == ToSet(large[Bucket(large, v)])
  IN IF (w \div Len(small)) % (Len(large) \div Len(small)) = 0
     THEN [cursor |-> w, emitted |-> here]
     ELSE LET rest == ScanLarger(w, small, large)
          IN [rest EXCEPT !.emitted = @ \cup here]

dictScan(x, v) ==
  LET t0 == x.ht[1]
      t1 == x.ht[2]
      small == IF Len(t0) > Len(t1) THEN t1 ELSE t0
      large == IF Len(t0) > Len(t1) THEN t0 ELSE t1
  IN IF Used(t0) + Used(t1) = 0 THEN [cursor |-> 0, emitted |-> {}]
     ELSE IF ~dictIsRehashing(x)
     THEN [cursor |-> NextCursor(v, Len(t0)), emitted |-> ToSet(t0[Bucket(t0, v)])]
     ELSE LET r == ScanLarger(v, small, large)
          IN [r EXCEPT !.emitted = @ \cup ToSet(small[Bucket(small, v)])]

-----------------------------------------------------------------------------
(* dictNext of a safe iterator.                                            *)

\* The first bucket of table n from index i on that has entries, if any.
FirstFrom(x, n, i) ==
  SelectSeq([j \in 1 .. Len(x.ht[n]) |-> j - 1],
            LAMBDA j : j >= i /\ x.ht[n][j + 1] # <<>>)

\* The iterator after its next entry; table 0 stands for NULL, the end.
dictNext(x, it) ==
  LET at(n, i) == [it EXCEPT !.table = n, !.index = i,
                             !.current = Head(x.ht[n][i + 1]),
                             !.rest = Tail(x.ht[n][i + 1])]
      here == FirstFrom(x, it.table, it.index + 1)
      there == FirstFrom(x, 2, 0)
  IN IF it.rest # <<>>
     THEN [it EXCEPT !.current = Head(it.rest), !.rest = Tail(it.rest)]
     ELSE IF here # <<>> THEN at(it.table, Head(here))
     ELSE IF it.table = 1 /\ dictIsRehashing(x) /\ there # <<>>
     THEN at(2, Head(there))
     ELSE [it EXCEPT !.table = 0]

-----------------------------------------------------------------------------
Iterating == iter.table # 0

TypeOK ==
  /\ d.rehashidx \in -1 .. Len(d.ht[1]) - 1
  /\ d.iterators \in {0, 1}
  /\ d.iterators = 1 <=> Iterating
  /\ canResize \in BOOLEAN
  /\ members \subseteq Key
  /\ scan.cursor \in 0 .. 2^Bits - 1

NoIter == [table |-> 0, index |-> -1, current |-> 0, rest |-> <<>>,
           stable |-> {}, missing |-> {}, twice |-> FALSE]

Init ==
  /\ d = _dictInit
  /\ canResize = TRUE
  /\ members = {}
  /\ scan = [running |-> FALSE, cursor |-> 0, missing |-> {}]
  /\ iter = NoIter

Add(k) ==
  /\ d' = dictAddRaw(d, k)
  /\ members' = members \cup {k}
  /\ UNCHANGED <<canResize, scan, iter>>

\* While an iterator is open, its user may delete the entry it was given.
Delete(k) ==
  /\ Iterating => k = iter.current
  /\ d' = dictGenericDelete(d, k)
  /\ members' = members \ {k}
  /\ scan' = [scan EXCEPT !.missing = @ \ {k}]
  /\ iter' = [iter EXCEPT !.missing = @ \ {k}, !.stable = @ \ {k}]
  /\ UNCHANGED canResize

Find(k) ==
  /\ d' = dictFind(d, k)
  /\ UNCHANGED <<canResize, members, scan, iter>>

\* serverCron: tryResizeHashTables and incrementallyRehash.  Iterators are not
\* kept from one event to the next.
Cron ==
  /\ ~Iterating
  /\ \/ htNeedsResize(d) /\ d' = dictResize(d)
     \/ d' = dictRehash(d, 100)
  /\ UNCHANGED <<canResize, members, scan, iter>>

\* updateDictResizePolicy, when a child process starts or ends.
ResizePolicy ==
  /\ ~Iterating
  /\ canResize' = ~canResize
  /\ UNCHANGED <<d, members, scan, iter>>

dictEmpty ==
  /\ ~Iterating
  /\ d' = _dictInit
  /\ members' = {}
  /\ scan' = [scan EXCEPT !.missing = {}]
  /\ UNCHANGED <<canResize, iter>>

ScanStart ==
  /\ "scan" \in Readers
  /\ ~scan.running
  /\ scan' = [running |-> TRUE, cursor |-> 0, missing |-> members]
  /\ UNCHANGED <<d, canResize, members, iter>>

ScanStep ==
  /\ scan.running
  /\ LET r == dictScan(d, scan.cursor)
     IN scan' = [running |-> r.cursor # 0, cursor |-> r.cursor,
                 missing |-> scan.missing \ r.emitted]
  /\ UNCHANGED <<d, canResize, members, iter>>

\* The iterator moves on; "missing" are the keys there from the start that it
\* has not returned yet, "twice" that it returned one of them again.
Advance(it) ==
  LET n == dictNext(d, it)
  IN /\ iter' = IF n.table = 0
                THEN [NoIter EXCEPT !.missing = n.missing, !.twice = n.twice]
                ELSE [n EXCEPT !.missing = @ \ {n.current},
                               !.twice = @ \/ n.current \in n.stable \ n.missing]
     /\ d' = [d EXCEPT !.iterators = IF n.table = 0 THEN 0 ELSE 1]
     /\ UNCHANGED <<canResize, members, scan>>

IterStart ==
  /\ "iterator" \in Readers
  /\ ~Iterating
  /\ Advance([NoIter EXCEPT !.table = 1, !.stable = members, !.missing = members])

\* dictNext, and dictReleaseIterator after the last entry.
IterNext == Iterating /\ Advance(iter)

Next ==
  \/ \E k \in Key : Add(k) \/ Delete(k) \/ Find(k)
  \/ Cron
  \/ ResizePolicy
  \/ dictEmpty
  \/ ScanStart
  \/ ScanStep
  \/ IterStart
  \/ IterNext

Spec == Init /\ [][Next]_vars

-----------------------------------------------------------------------------
\* Through any interleaving of additions, deletions, growing, shrinking and
\* partial rehashing, the two tables together hold every key that was added
\* and not deleted exactly once, in the chain its hash selects, and none below
\* rehashidx in the first table (the invariant dict.c relies on).
HoldsMembers ==
  /\ Keys(d.ht[1]) \cup Keys(d.ht[2]) = members
  /\ Used(d.ht[1]) + Used(d.ht[2]) = Cardinality(members)
  /\ \A n \in {1, 2} : \A i \in DOMAIN d.ht[n] : \A k \in ToSet(d.ht[n][i]) :
       Bucket(d.ht[n], Hash[k]) = i
  /\ \A i \in 1 .. d.rehashidx : d.ht[1][i] = <<>>

\* "guaranteed to return all elements present in the dictionary" (dictScan): a
\* key that was there from the start to the end of a scan is returned, however
\* the tables were resized and rehashed between its steps.
ScanComplete == ~scan.running => scan.missing = {}

\* A safe iterator returns every entry that is there throughout exactly once,
\* although its user adds keys and deletes the entry it was given, and although
\* the additions may start a rehashing.
SafeIteration == ~iter.twice /\ (~Iterating => iter.missing = {})

=============================================================================
