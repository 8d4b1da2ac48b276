-------------------------------- MODULE Sets --------------------------------
(***************************************************************************)
(* Sets of redis (t_set.c) in their two encodings: a dictionary, and an    *)
(* intset (intset.c), a sorted array of integers of one width that is      *)
(* widened in place when a larger integer arrives.  Memory is a sequence   *)
(* of cells; an integer of width w fills w cells, and reading cells that   *)
(* do not hold one integer of that width yields None.  A replica receives  *)
(* what each command propagates.                                           *)
(***************************************************************************)
EXTENDS Integers, Sequences, FiniteSets, FiniteSetsExt, SequencesExt

CONSTANTS Keys,
          Ints,            \* elements that are representable as integers
          Strs,            \* the other elements
          Limit16, Limit32,\* integers below these magnitudes have width 1 and 2
          MaxIntset,       \* set-max-intset-entries
          MoveMul,         \* SPOP_MOVE_STRATEGY_MUL
          SubMul,          \* SRANDMEMBER_SUB_STRATEGY_MUL
          MaxSize,         \* bound on the size of a set
          CommandNames,
          None

VARIABLES db,      \* key -> set object, or None
          rep      \* key -> the elements the replica holds

vars == <<db, rep>>

Elems == Ints \cup Strs

-----------------------------------------------------------------------------
(* intset.c                                                                 *)

Width(v) ==
  IF v >= -Limit16 /\ v < Limit16 THEN 1
  ELSE IF v >= -Limit32 /\ v < Limit32 THEN 2 ELSE 4

intsetNew == [enc |-> "intset", width |-> 1, length |-> 0, mem |-> <<>>]

\* positions count from zero, as in the code
GetEncoded(is, pos, w) ==
  LET cells == SubSeq(is.mem, pos * w + 1, pos * w + w)
      v == cells[1][1]
  IN IF cells = SubSeq([i \in 1 .. w |-> <<v, w, i>>], 1, w) THEN v ELSE None

Get(is, pos) == GetEncoded(is, pos, is.width)

Set(is, pos, v) ==
  LET w == is.width
      at(i) == i - pos * w
  IN [is EXCEPT !.mem = SubSeq([i \in 1 .. Len(is.mem) |->
                                  IF at(i) \in 1 .. w THEN <<v, w, at(i)>> ELSE is.mem[i]], 1, Len(is.mem))]

\* zrealloc: the cells that remain keep their contents, new ones hold nothing
intsetResize(is, len) ==
  LET n == len * is.width
  IN [is EXCEPT !.mem = SubSeq([i \in 1 .. n |-> IF i <= Len(is.mem) THEN is.mem[i] ELSE <<None, 0, 0>>], 1, n)]

RECURSIVE Bisect(_, _, _, _)
Bisect(is, v, min, max) ==
  LET mid == (min + max) \div 2
      cur == Get(is, mid)
  IN IF max < min THEN [found |-> FALSE, pos |-> min]
     ELSE IF v > cur THEN Bisect(is, v, mid + 1, max)
     ELSE IF v < cur THEN Bisect(is, v, min, mid - 1)
     ELSE [found |-> TRUE, pos |-> mid]

intsetSearch(is, v) ==
  IF is.length = 0 THEN [found |-> FALSE, pos |-> 0]
  ELSE IF v > Get(is, is.length - 1) THEN [found |-> FALSE, pos |-> is.length]
  ELSE IF v < Get(is, 0) THEN [found |-> FALSE, pos |-> 0]
  ELSE Bisect(is, v, 0, is.length - 1)

\* back to front
RECURSIVE Widen(_, _, _, _)
Widen(is, n, curenc, prepend) ==
  IF n = 0 THEN is
  ELSE Widen(Set(is, (n - 1) + prepend, GetEncoded(is, n - 1, curenc)), n - 1, curenc, prepend)

intsetUpgradeAndAdd(is, v) ==
  LET prepend == IF v < 0 THEN 1 ELSE 0
      wide == intsetResize([is EXCEPT !.width = Width(v)], is.length + 1)
      moved == Widen(wide, is.length, is.width, prepend)
  IN [Set(moved, IF prepend = 1 THEN 0 ELSE is.length, v) EXCEPT !.length = @ + 1]

\* memmove of everything from one position to the end of the array
intsetMoveTail(is, from, to) ==
  LET n == (is.length - from) * is.width
      shift == (to - from) * is.width
      into(i) == i - to * is.width
  IN [is EXCEPT !.mem = SubSeq([i \in 1 .. Len(is.mem) |->
                                  IF into(i) \in 1 .. n THEN is.mem[i - shift] ELSE is.mem[i]], 1, Len(is.mem))]

\* the tail makes room, unless the new value goes to the end
Opened(is, pos) == IF pos < is.length THEN intsetMoveTail(is, pos, pos + 1) ELSE is

AddAt(is, v, at) ==
  IF at.found THEN is
  ELSE [Set(Opened(intsetResize(is, is.length + 1), at.pos), at.pos, v) EXCEPT !.length = @ + 1]

intsetAdd(is, v) ==
  IF Width(v) > is.width THEN intsetUpgradeAndAdd(is, v) ELSE AddAt(is, v, intsetSearch(is, v))

intsetFind(is, v) == Width(v) <= is.width /\ intsetSearch(is, v).found

\* the tail closes the gap, unless the value was the last one
Closed(is, pos) == IF pos < is.length - 1 THEN intsetMoveTail(is, pos + 1, pos) ELSE is

RemoveFrom(is, at) ==
  IF ~at.found THEN is ELSE [intsetResize(Closed(is, at.pos), is.length - 1) EXCEPT !.length = @ - 1]

intsetRemove(is, v) == IF Width(v) > is.width THEN is ELSE RemoveFrom(is, intsetSearch(is, v))

-----------------------------------------------------------------------------
(* The set type                                                             *)

Dict(members) == [enc |-> "ht", members |-> members]

setTypeCreate(e) == IF e \in Ints THEN intsetNew ELSE Dict({})

\* the elements an iterator visits, in its order
Iterate(o) == IF o.enc = "intset" THEN [i \in 1 .. o.length |-> Get(o, i - 1)] ELSE SetToSeq(o.members)

setTypeSize(o) == IF o.enc = "intset" THEN o.length ELSE Cardinality(o.members)

setTypeConvert(o) == Dict(ToSet(Iterate(o)))

Overflows(o) == o.length > MaxIntset

setTypeIsMember(o, e) == IF o.enc = "ht" THEN e \in o.members ELSE e \in Ints /\ (e \in Ints => intsetFind(o, e))

ConvertIfBig(o, new) == IF new.length # o.length /\ Overflows(new) THEN setTypeConvert(new) ELSE new

setTypeAdd(o, e) ==
  IF o.enc = "ht" THEN Dict(o.members \cup {e})
  ELSE IF e \notin Ints THEN Dict(setTypeConvert(o).members \cup {e})
  ELSE ConvertIfBig(o, intsetAdd(o, e))

setTypeRemove(o, e) ==
  IF o.enc = "ht" THEN Dict(o.members \ {e})
  ELSE IF e \in Ints THEN intsetRemove(o, e) ELSE o

AddAll(o, s) == FoldLeft(LAMBDA x, e : setTypeAdd(x, e), o, s)

RemoveAll(o, s) == FoldLeft(LAMBDA x, e : setTypeRemove(x, e), o, s)

\* an empty set is not kept
Stored(o) == IF setTypeSize(o) = 0 THEN None ELSE o

Members(k) == IF db[k] = None THEN {} ELSE ToSet(Iterate(db[k]))

-----------------------------------------------------------------------------
(* Commands                                                                 *)

saddCommand(k, es) ==
  /\ db' = [db EXCEPT ![k] = AddAll(IF db[k] = None THEN setTypeCreate(es[1]) ELSE db[k], es)]
  /\ rep' = [rep EXCEPT ![k] = @ \cup ToSet(es)]

sremCommand(k, e) ==
  /\ db[k] # None
  /\ db' = [db EXCEPT ![k] = Stored(setTypeRemove(db[k], e))]
  /\ rep' = [rep EXCEPT ![k] = @ \ {e}]

smoveCommand(src, dst, e) ==
  /\ db[src] # None /\ src # dst
  /\ db[src] # None => setTypeIsMember(db[src], e)
  /\ db' = [db EXCEPT ![src] = Stored(setTypeRemove(@, e)),
                      ![dst] = setTypeAdd(IF @ = None THEN setTypeCreate(e) ELSE @, e)]
  /\ rep' = IF e \in rep[src] THEN [rep EXCEPT ![src] = @ \ {e}, ![dst] = @ \cup {e}] ELSE rep

\* SPOP without a count propagates the SREM of the element it chose
spopCommand(k) ==
  \E e \in Members(k) :
    /\ db' = [db EXCEPT ![k] = Stored(setTypeRemove(@, e))]
    /\ rep' = [rep EXCEPT ![k] = @ \ {e}]

\* Mutant: the elements kept, instead of the popped ones, are propagated
SpopPropagated_Kept(popped, kept) == kept

SpopPropagated(popped, kept) == popped

NewSet(es) == AddAll(setTypeCreate(es[1]), es)

\* everything goes: DEL; few go: each is removed; most go: the ones that stay move to a new set
spopWithCountCommand(k, count) ==
  LET size == setTypeSize(db[k])
  IN /\ db[k] # None /\ count > 0
     /\ IF count >= size
        THEN db' = [db EXCEPT ![k] = None] /\ rep' = [rep EXCEPT ![k] = {}]
        ELSE \E popped \in kSubset(count, Members(k)) :
               LET kept == Members(k) \ popped
               IN /\ db' = [db EXCEPT ![k] = IF (size - count) * MoveMul > count
                                             THEN RemoveAll(@, SetToSeq(popped)) ELSE NewSet(SetToSeq(kept))]
                  /\ rep' = [rep EXCEPT ![k] = @ \ SpopPropagated(popped, kept)]

\* the elements SRANDMEMBER may return for a positive count, as the cases build them
srandmemberWithCount(o, count) ==
  LET size == setTypeSize(o)
      all == ToSet(Iterate(o))
  IN IF count = 0 THEN {{}}
     ELSE IF count >= size THEN {all}
     ELSE IF count * SubMul > size THEN {all \ gone : gone \in kSubset(size - count, all)}
     ELSE kSubset(count, all)

\* sets sorted by size, smallest first; a set met again is not searched
InterOf(sorted) ==
  AddAll(intsetNew,
         SelectSeq(Iterate(db[sorted[1]]),
                   LAMBDA e : \A j \in 2 .. Len(sorted) :
                                sorted[j] = sorted[1] \/ setTypeIsMember(db[sorted[j]], e)))

sinterGeneric(ks) ==
  IF \E j \in DOMAIN ks : db[ks[j]] = None THEN intsetNew
  ELSE InterOf(SortSeq(ks, LAMBDA a, b : setTypeSize(db[a]) < setTypeSize(db[b])))

\* missing keys are like empty sets
Existing(ks) == SelectSeq(ks, LAMBDA k : db[k] # None)

\* algorithm 1 tests each element of the first set, algorithm 2 takes the others' elements out
FirstIsCheaper(ks) ==
  LET sizes(S(_)) == FoldLeft(LAMBDA n, k : n + S(k), 0, Existing(ks))
  IN sizes(LAMBDA k : setTypeSize(db[ks[1]])) \div 2 <= sizes(LAMBDA k : setTypeSize(db[k]))

DiffOne(k, others) ==
  AddAll(intsetNew,
         SelectSeq(Iterate(db[k]),
                   LAMBDA e : \A j \in DOMAIN others : others[j] # k /\ ~setTypeIsMember(db[others[j]], e)))

DiffTwo(k, others) ==
  FoldLeft(LAMBDA o, j : IF setTypeSize(o) = 0 THEN o ELSE RemoveAll(o, Iterate(db[j])),
           AddAll(intsetNew, Iterate(db[k])), others)

sunionDiffGeneric(ks, op) ==
  IF op = "union" THEN FoldLeft(LAMBDA o, k : AddAll(o, Iterate(db[k])), intsetNew, Existing(ks))
  ELSE IF db[ks[1]] = None THEN intsetNew
  ELSE IF FirstIsCheaper(ks) THEN DiffOne(ks[1], Existing(Tail(ks))) ELSE DiffTwo(ks[1], Existing(Tail(ks)))

SetOp(ks, op) == IF op = "inter" THEN sinterGeneric(ks) ELSE sunionDiffGeneric(ks, op)

\* what the operation means, on plain sets
Meaning(f, ks, op) ==
  CASE op = "inter" -> {e \in f[ks[1]] : \A j \in DOMAIN ks : e \in f[ks[j]]}
    [] op = "union" -> UNION {f[ks[j]] : j \in DOMAIN ks}
    [] op = "diff" -> {e \in f[ks[1]] : \A j \in DOMAIN ks \ {1} : e \notin f[ks[j]]}

storeCommand(dst, ks, op) ==
  /\ db' = [db EXCEPT ![dst] = Stored(SetOp(ks, op))]
  /\ rep' = [rep EXCEPT ![dst] = Meaning(rep, ks, op)]

Does(name) == name \in CommandNames

KeyLists == {<<j, k>> : j, k \in Keys} \cup {<<i, j, k, l>> : i, j, k, l \in Keys}

Init == db = [k \in Keys |-> None] /\ rep = [k \in Keys |-> {}]

Bounded == \A k \in Keys : db'[k] # None => setTypeSize(db'[k]) <= MaxSize

Next ==
  \/ Does("sadd") /\ \E k \in Keys, d, e \in Elems : saddCommand(k, <<d, e>>) /\ Bounded
  \/ Does("srem") /\ \E k \in Keys, e \in Elems : sremCommand(k, e)
  \/ Does("smove") /\ \E j, k \in Keys, e \in Elems : smoveCommand(j, k, e) /\ Bounded
  \/ Does("spop") /\ \E k \in Keys : spopCommand(k)
  \/ Does("spopcount") /\ \E k \in Keys, count \in 1 .. MaxSize : db[k] # None /\ spopWithCountCommand(k, count)
  \/ Does("store") /\ \E dst \in Keys, ks \in KeyLists, op \in {"inter", "union", "diff"} :
       storeCommand(dst, ks, op) /\ Bounded

Spec == Init /\ [][Next]_vars

-----------------------------------------------------------------------------
(* Properties                                                               *)

\* A set is a dictionary of elements or an intset with room for exactly its length.
TypeOK ==
  /\ rep \in [Keys -> SUBSET Elems]
  /\ \A k \in Keys : db[k] # None =>
       IF db[k].enc = "ht" THEN db[k].members \subseteq Elems
       ELSE db[k].width \in {1, 2, 4} /\ Len(db[k].mem) = db[k].length * db[k].width

\* The array of an intset always reads as strictly increasing integers of its width, whatever
\* mix of additions, widenings in place and removals made it, and a set with a member that is
\* not an integer, or grown past set-max-intset-entries, is a dictionary.
IntsetRight ==
  \A k \in Keys : db[k] # None =>
    /\ setTypeSize(db[k]) > 0
    /\ db[k].enc = "intset" =>
         LET s == Iterate(db[k]) IN
         /\ \A i \in DOMAIN s : s[i] \in Ints
         /\ \A i \in 1 .. Len(s) - 1 : s[i] < s[i + 1]
         /\ db[k].length <= MaxIntset

\* A replica fed the propagated commands holds the master's sets: the elements SPOP chose at random
\* by any of its three strategies, and the results of the stored operations by either difference
\* algorithm.
ReplicaSame == \A k \in Keys : Members(k) = rep[k]

\* SINTER, SUNION and SDIFF return what the set operation means for any keys, repeated and
\* missing ones included, and SRANDMEMBER with a count returns that many distinct members.
ReadsRight ==
  /\ \A ks \in KeyLists, op \in {"inter", "union", "diff"} :
       ToSet(Iterate(SetOp(ks, op))) = Meaning([k \in Keys |-> Members(k)], ks, op)
  /\ \A k \in Keys, count \in 0 .. MaxSize : db[k] # None =>
       \A answer \in srandmemberWithCount(db[k], count) :
         answer \subseteq Members(k) /\ Cardinality(answer) = Min({count, Cardinality(Members(k))})
=============================================================================
