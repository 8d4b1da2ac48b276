----------------------------- MODULE SortedSets -----------------------------
(***************************************************************************)
(* A sorted set of redis (t_zset.c) in its two encodings: a ziplist of     *)
(* (element, score) pairs kept in order, and a skip list with spans next   *)
(* to a dictionary.  Elements are the numbers 1 .. N in lexicographical    *)
(* order; a score is a number, or Inf and -Inf.  The random level of a     *)
(* skip list node is any level.                                            *)
(***************************************************************************)
EXTENDS Integers, Sequences, FiniteSets, FiniteSetsExt, SequencesExt, TLC

CONSTANTS N,             \* elements are 1 .. N
          LongElems,     \* those longer than zset-max-ziplist-value
          Scores,        \* scores clients send
          Weights,
          MaxEntries,    \* zset-max-ziplist-entries
          MaxLevel,      \* ZSKIPLIST_MAXLEVEL
          Plain,         \* the members of a set object, a source of unions
          MaxScore,      \* bound on the finite scores increments reach
          Inf,           \* a number above every sum of scores
          CommandNames,
          None

VARIABLES zset,     \* the object at the key, None when the key does not exist
          score     \* the scores the set should hold: a function on its elements

vars == <<zset, score>>

Elems == 1 .. N

NaN == 2 * Inf

Infinite == {Inf, -Inf}

Plus(a, b) ==
  IF {a, b} = Infinite THEN NaN
  ELSE IF a \in Infinite THEN a ELSE IF b \in Infinite THEN b ELSE a + b

Times(w, a) ==
  IF a \notin Infinite THEN w * a
  ELSE IF w = 0 THEN NaN ELSE IF w > 0 THEN a ELSE -a

Less(s1, e1, s2, e2) == s1 < s2 \/ (s1 = s2 /\ e1 < e2)

-----------------------------------------------------------------------------
(* The skip list.  at[0] is the header; fwd[i] and span[i] belong to level  *)
(* i, counted from one.                                                     *)

Header == 0

Tuple(n, F(_)) == SubSeq([i \in 1 .. n |-> F(i)], 1, n)

zslCreate ==
  [level |-> 1, length |-> 0, tail |-> None,
   at |-> (Header :> [score |-> 0, back |-> None,
                      fwd |-> Tuple(MaxLevel, LAMBDA i : None), span |-> Tuple(MaxLevel, LAMBDA i : 0)])]

\* go along level i while the next node is one to skip and its rank within the limit
RECURSIVE Along(_, _, _, _, _, _)
Along(z, i, x, rank, skip, limit) ==
  LET next == z.at[x].fwd[i]
      reached == rank + z.at[x].span[i]
  IN IF next \in skip /\ reached <= limit THEN Along(z, i, next, reached, skip, limit)
     ELSE [x |-> x, rank |-> rank]

\* the descent shared by every search: update[i] and rank[i] of each level
Descend(z, i, above, skip, limit) == <<Along(z, i, above[1].x, above[1].rank, skip, limit)>> \o above

Walk(z, skip, limit) ==
  FoldLeft(LAMBDA above, i : Descend(z, i, above, skip, limit),
           <<Along(z, z.level, Header, 0, skip, limit)>>,
           [k \in 1 .. z.level - 1 |-> z.level - k])

Nodes(z) == DOMAIN z.at \ {Header}

Before(z, s, e) == {n \in Nodes(z) : Less(z.at[n].score, n, s, e)}

\* Mutant: levels above the new node keep their span
GrownSpan_Untouched(span) == span

\* a level that passes over the new node gets one longer
GrownSpan(span) == span + 1

InsertAfter(z, s, e, lv, found) ==
  LET up(i) == IF i <= z.level THEN found[i] ELSE [x |-> Header, rank |-> 0]
      top == Max({lv, z.level})
      rank1 == up(1).rank
      span(n, i) == IF n = Header /\ i > z.level THEN z.length ELSE z.at[n].span[i]
      next == z.at[up(1).x].fwd[1]
      touched(n, i) == i <= top /\ up(i).x = n
      relinked(n) ==
        LET h == Len(z.at[n].fwd) IN
        [z.at[n] EXCEPT
           !.back = IF n = next THEN e ELSE @,
           !.fwd = Tuple(h, LAMBDA i : IF touched(n, i) /\ i <= lv THEN e ELSE z.at[n].fwd[i]),
           !.span = Tuple(h, LAMBDA i : IF ~touched(n, i) THEN z.at[n].span[i]
                                        ELSE IF i <= lv THEN (rank1 - up(i).rank) + 1
                                        ELSE GrownSpan(z.at[n].span[i]))]
      new == [score |-> s, back |-> IF up(1).x = Header THEN None ELSE up(1).x,
              fwd |-> Tuple(lv, LAMBDA i : z.at[up(i).x].fwd[i]),
              span |-> Tuple(lv, LAMBDA i : span(up(i).x, i) - (rank1 - up(i).rank))]
  IN [level |-> top, length |-> z.length + 1,
      tail |-> IF next = None THEN e ELSE z.tail,
      at |-> [n \in DOMAIN z.at \cup {e} |-> IF n = e THEN new ELSE relinked(n)]]

zslInsert(z, s, e, lv) == InsertAfter(z, s, e, lv, Walk(z, Before(z, s, e), z.length))

\* the level of the list falls while the header's topmost pointer is null
TopLevel(at, level) == Max({1} \cup {i \in 1 .. level : at[Header].fwd[i] # None})

Unlinked(z, node, at) ==
  [level |-> TopLevel(at, z.level), length |-> z.length - 1,
   tail |-> IF node.fwd[1] = None THEN node.back ELSE z.tail, at |-> at]

zslDeleteNode(z, x, up) ==
  LET node == z.at[x]
      relinked(n) ==
        LET h == Len(z.at[n].fwd) IN
        [z.at[n] EXCEPT
           !.back = IF n = node.fwd[1] THEN node.back ELSE @,
           !.fwd = Tuple(h, LAMBDA i : IF i <= z.level /\ z.at[n].fwd[i] = x THEN node.fwd[i] ELSE z.at[n].fwd[i]),
           !.span = Tuple(h, LAMBDA i :
                       IF i > z.level \/ (i <= z.level => up[i] # n) THEN z.at[n].span[i]
                       ELSE IF z.at[n].fwd[i] = x THEN z.at[n].span[i] + node.span[i] - 1
                       ELSE z.at[n].span[i] - 1)]
  IN Unlinked(z, node, [n \in DOMAIN z.at \ {x} |-> relinked(n)])

Ups(found) == Tuple(Len(found), LAMBDA i : found[i].x)

zslDelete(z, s, e) == zslDeleteNode(z, e, Ups(Walk(z, Before(z, s, e), z.length)))

StaysInPlace(z, e, s) ==
  LET x == z.at[e] IN
  /\ x.back = None \/ (x.back # None => z.at[x.back].score < s)
  /\ x.fwd[1] = None \/ (x.fwd[1] # None => z.at[x.fwd[1]].score > s)

zslUpdateScore(z, cur, e, s, lv) ==
  IF StaysInPlace(z, e, s) THEN [z EXCEPT !.at[e].score = s]
  ELSE zslInsert(zslDelete(z, cur, e), s, e, lv)

\* delete from the node after the ones to skip, while in range (limit: a last rank)
RECURSIVE DeleteFrom(_, _, _, _)
DeleteFrom(z, up, inRange, count) ==
  LET x == z.at[up[1]].fwd[1]
  IN IF x \notin inRange \/ count = 0 THEN z
     ELSE DeleteFrom(zslDeleteNode(z, x, up), up, inRange, count - 1)

zslDeleteRange(z, skip, inRange) == DeleteFrom(z, Ups(Walk(z, skip, z.length)), inRange, z.length)

zslDeleteRangeByRank(z, start, end) ==
  DeleteFrom(z, Ups(Walk(z, Nodes(z), start - 1)), Nodes(z), (end - start) + 1)

\* the first level at which the descent stands on the element has its rank
Topmost(found, Test(_)) ==
  LET at == {i \in DOMAIN found : Test(found[i])}
  IN IF at = {} THEN [x |-> None, rank |-> 0] ELSE found[Max(at)]

zslGetRank(z, s, e) ==
  Topmost(Walk(z, Before(z, s, e) \cup {e}, z.length), LAMBDA f : f.x = e).rank

zslGetElementByRank(z, rank) == Topmost(Walk(z, Nodes(z), rank), LAMBDA f : f.rank = rank).x

-----------------------------------------------------------------------------
(* The ziplist: a sequence of pairs in order.                               *)

zzlInsert(zl, s, e) ==
  LET after == {i \in DOMAIN zl : zl[i].s > s \/ (zl[i].s = s /\ zl[i].e > e)}
  IN IF after = {} THEN Append(zl, [e |-> e, s |-> s])
     ELSE InsertAt(zl, Min(after), [e |-> e, s |-> s])

zzlFind(zl, e) == IF \E i \in DOMAIN zl : zl[i].e = e THEN CHOOSE i \in DOMAIN zl : zl[i].e = e ELSE 0

zzlDelete(zl, i) == RemoveAt(zl, i)

-----------------------------------------------------------------------------
(* The object: either encoding.                                             *)

Ziplist(zl) == [enc |-> "ziplist", zl |-> zl]

Skiplist(z, dict) == [enc |-> "skiplist", z |-> z, dict |-> dict]

createZsetObject == Skiplist(zslCreate, <<>>)

zsetLength(o) == IF o.enc = "ziplist" THEN Len(o.zl) ELSE o.z.length

Filled(o, pairs, lv) ==
  FoldLeft(LAMBDA x, p : Skiplist(zslInsert(x.z, p.s, p.e, lv[p.e]), (p.e :> p.s) @@ x.dict), o, pairs)

\* the pairs of a skip list, first to last
RECURSIVE FromNode(_, _)
FromNode(z, x) == IF x = None THEN <<>> ELSE <<[e |-> x, s |-> z.at[x].score]>> \o FromNode(z, z.at[x].fwd[1])

Pairs(o) == IF o.enc = "ziplist" THEN o.zl ELSE FromNode(o.z, o.z.at[Header].fwd[1])

zsetConvert(o, enc, lv) ==
  IF o.enc = enc THEN o
  ELSE IF enc = "skiplist" THEN Filled(createZsetObject, o.zl, lv) ELSE Ziplist(Pairs(o))

TooBig(o, e) == zsetLength(o) > MaxEntries \/ e \in LongElems

zsetConvertToZiplistIfNeeded(o, elems) ==
  IF zsetLength(o) <= MaxEntries /\ elems \cap LongElems = {} THEN Ziplist(Pairs(o)) ELSE o

zsetScore(o, e) ==
  IF o.enc = "ziplist" THEN IF zzlFind(o.zl, e) = 0 THEN None ELSE o.zl[zzlFind(o.zl, e)].s
  ELSE IF e \in DOMAIN o.dict THEN o.dict[e] ELSE None

ConvertIfBig(o, e, lv) == IF TooBig(o, e) THEN zsetConvert(o, "skiplist", lv) ELSE o

AddElement(o, s, e, lv) ==
  IF o.enc = "ziplist" THEN ConvertIfBig(Ziplist(zzlInsert(o.zl, s, e)), e, lv)
  ELSE Skiplist(zslInsert(o.z, s, e, lv[e]), (e :> s) @@ o.dict)

\* the element is moved only when its score changes
UpdateElement(o, cur, new, e, lv) ==
  IF new = NaN THEN [o |-> o, did |-> "nan"]
  ELSE IF new = cur THEN [o |-> o, did |-> "same"]
  ELSE [did |-> "updated",
        o |-> IF o.enc = "ziplist"
              THEN Ziplist(zzlInsert(zzlDelete(o.zl, zzlFind(o.zl, e)), new, e))
              ELSE Skiplist(zslUpdateScore(o.z, cur, e, new, lv[e]), (e :> new) @@ o.dict)]

\* zsetAdd: the object and what was done, "nan" leaving everything as it was
zsetAdd(o, s, e, flags, lv) ==
  IF zsetScore(o, e) = None
  THEN IF "xx" \in flags THEN [o |-> o, did |-> "nop"] ELSE [o |-> AddElement(o, s, e, lv), did |-> "added"]
  ELSE IF "nx" \in flags THEN [o |-> o, did |-> "nop"]
       ELSE UpdateElement(o, zsetScore(o, e), IF "incr" \in flags THEN Plus(s, zsetScore(o, e)) ELSE s, e, lv)

Without(f, elems) == [e \in DOMAIN f \ elems |-> f[e]]

zsetDel(o, e) ==
  IF zsetScore(o, e) = None THEN o
  ELSE IF o.enc = "ziplist" THEN Ziplist(zzlDelete(o.zl, zzlFind(o.zl, e)))
  ELSE Skiplist(zslDelete(o.z, o.dict[e], e), Without(o.dict, {e}))

Rank(o, e) == IF o.enc = "ziplist" THEN zzlFind(o.zl, e) ELSE zslGetRank(o.z, o.dict[e], e)

zsetRank(o, e, rev) ==
  IF zsetScore(o, e) = None THEN None ELSE IF rev THEN zsetLength(o) - Rank(o, e) ELSE Rank(o, e) - 1

-----------------------------------------------------------------------------
(* Ranges, by score or by element ("-" and "+" are the exclusive bounds 0   *)
(* and N + 1).                                                              *)

GteMin(r, v) == IF r.minex THEN v > r.min ELSE v >= r.min

LteMax(r, v) == IF r.maxex THEN v < r.max ELSE v <= r.max

EmptyRange(r) == r.min > r.max \/ (r.min = r.max /\ (r.minex \/ r.maxex))

Value(by, p) == IF by = "score" THEN p.s ELSE p.e

NodeValue(by, z, n) == IF by = "score" THEN z.at[n].score ELSE n

zslIsInRange(z, by, r) ==
  /\ ~EmptyRange(r)
  /\ z.tail # None /\ GteMin(r, NodeValue(by, z, z.tail))
  /\ LteMax(r, NodeValue(by, z, z.at[Header].fwd[1]))

NodesWhere(z, by, Test(_)) == {n \in Nodes(z) : Test(NodeValue(by, z, n))}

IfNode(z, by, x, Test(_)) == IF Test(NodeValue(by, z, x)) THEN x ELSE None

zslFirstInRange(z, by, r) ==
  IF ~zslIsInRange(z, by, r) THEN None
  ELSE IfNode(z, by, z.at[Walk(z, NodesWhere(z, by, LAMBDA v : ~GteMin(r, v)), z.length)[1].x].fwd[1],
              LAMBDA v : LteMax(r, v))

zslLastInRange(z, by, r) ==
  IF ~zslIsInRange(z, by, r) THEN None
  ELSE IfNode(z, by, Walk(z, NodesWhere(z, by, LAMBDA v : LteMax(r, v)), z.length)[1].x,
              LAMBDA v : GteMin(r, v))

zzlIsInRange(zl, by, r) ==
  /\ ~EmptyRange(r) /\ zl # <<>>
  /\ GteMin(r, Value(by, zl[Len(zl)])) /\ LteMax(r, Value(by, zl[1]))

zzlFirstInRange(zl, by, r) ==
  LET i == Min({k \in DOMAIN zl : GteMin(r, Value(by, zl[k]))})
  IN IF zzlIsInRange(zl, by, r) /\ LteMax(r, Value(by, zl[i])) THEN zl[i].e ELSE None

zzlLastInRange(zl, by, r) ==
  LET i == Max({k \in DOMAIN zl : LteMax(r, Value(by, zl[k]))})
  IN IF zzlIsInRange(zl, by, r) /\ GteMin(r, Value(by, zl[i])) THEN zl[i].e ELSE None

\* the lexicographic searches are the same walks with elements compared instead of scores
zslFirstInLexRange(z, r) == zslFirstInRange(z, "lex", r)

zslLastInLexRange(z, r) == zslLastInRange(z, "lex", r)

zzlFirstInLexRange(zl, r) == zzlFirstInRange(zl, "lex", r)

zzlLastInLexRange(zl, r) == zzlLastInRange(zl, "lex", r)

FirstInRange(o, by, r) ==
  CASE o.enc = "ziplist" /\ by = "score" -> zzlFirstInRange(o.zl, by, r)
    [] o.enc = "ziplist" /\ by = "lex" -> zzlFirstInLexRange(o.zl, r)
    [] o.enc = "skiplist" /\ by = "score" -> zslFirstInRange(o.z, by, r)
    [] o.enc = "skiplist" /\ by = "lex" -> zslFirstInLexRange(o.z, r)

LastInRange(o, by, r) ==
  CASE o.enc = "ziplist" /\ by = "score" -> zzlLastInRange(o.zl, by, r)
    [] o.enc = "ziplist" /\ by = "lex" -> zzlLastInLexRange(o.zl, r)
    [] o.enc = "skiplist" /\ by = "score" -> zslLastInRange(o.z, by, r)
    [] o.enc = "skiplist" /\ by = "lex" -> zslLastInLexRange(o.z, r)

Following(o, e, rev) ==
  LET i == zzlFind(o.zl, e) + (IF rev THEN -1 ELSE 1)
  IN IF o.enc = "ziplist" THEN IF i \in DOMAIN o.zl THEN o.zl[i].e ELSE None
     ELSE IF rev THEN o.z.at[e].back ELSE o.z.at[e].fwd[1]

\* from an element on: skip offset elements unseen, return up to limit (negative: all) while in range
RECURSIVE Collect(_, _, _, _, _, _, _)
Collect(o, by, r, x, offset, limit, rev) ==
  LET v == IF by = "score" THEN zsetScore(o, x) ELSE x
      next == Following(o, x, rev)
  IN IF x = None THEN <<>>
     ELSE IF offset # 0 THEN Collect(o, by, r, next, offset - 1, limit, rev)
     ELSE IF limit = 0 \/ ~(IF rev THEN GteMin(r, v) ELSE LteMax(r, v)) THEN <<>>
     ELSE <<x>> \o Collect(o, by, r, next, 0, limit - 1, rev)

RangeStart(o, by, r, rev) == IF rev THEN LastInRange(o, by, r) ELSE FirstInRange(o, by, r)

genericZrangebyscore(o, r, offset, limit, rev) ==
  Collect(o, "score", r, RangeStart(o, "score", r, rev), offset, limit, rev)

genericZrangebylex(o, r, offset, limit, rev) ==
  Collect(o, "lex", r, RangeStart(o, "lex", r, rev), offset, limit, rev)

\* ranks of both ends on a skip list, a walk of the range on a ziplist
RankOf(o, x) == zslGetRank(o.z, o.z.at[x].score, x)

CountBetween(o, by, r, first, last) ==
  IF first = None THEN 0
  ELSE IF o.enc = "ziplist" THEN Len(Collect(o, by, r, first, 0, -1, FALSE))
  ELSE (o.z.length - (RankOf(o, first) - 1)) - (IF last = None THEN 0 ELSE o.z.length - RankOf(o, last))

CountInRange(o, by, r) == CountBetween(o, by, r, FirstInRange(o, by, r), LastInRange(o, by, r))

zcount(o, r) == CountInRange(o, "score", r)

zlexcount(o, r) == CountInRange(o, "lex", r)

\* start and end as clients give them, negative ones counting from the end
Indexes(start, end, len) ==
  LET s == Max({0, IF start < 0 THEN len + start ELSE start})
      e == IF end < 0 THEN len + end ELSE end
  IN [start |-> s, end |-> Min({e, len - 1}), empty |-> s > e \/ s >= len]

RECURSIVE Take(_, _, _, _)
Take(o, x, n, rev) == IF n = 0 \/ x = None THEN <<>> ELSE <<x>> \o Take(o, Following(o, x, rev), n - 1, rev)

\* the element a range of indexes starts from; the two ends of a skip list are at hand
Starting(o, start, rev) ==
  IF o.enc = "ziplist" THEN o.zl[IF rev THEN Len(o.zl) - start ELSE start + 1].e
  ELSE IF start > 0 THEN zslGetElementByRank(o.z, IF rev THEN o.z.length - start ELSE start + 1)
  ELSE IF rev THEN o.z.tail ELSE o.z.at[Header].fwd[1]

TakeRange(o, ix, rev) ==
  IF ix.empty THEN <<>> ELSE Take(o, Starting(o, ix.start, rev), (ix.end - ix.start) + 1, rev)

zrangeGeneric(o, start, end, rev) == TakeRange(o, Indexes(start, end, zsetLength(o)), rev)

-----------------------------------------------------------------------------
(* Commands                                                                 *)

Lookup == IF zset # None THEN zset ELSE Ziplist(<<>>)

\* a random level for each new node; the choice for other elements is not made
Levels(elems) == {lv \in [Elems -> 1 .. MaxLevel] : \A e \in Elems \ elems : lv[e] = 1}

NewNodes(elems) == elems \cup (IF Lookup.enc = "ziplist" THEN DOMAIN score ELSE {})

Bounded(ref) == \A e \in DOMAIN ref : ref[e] \in {-Inf, Inf} \cup (-MaxScore .. MaxScore)

Flags == {{}, {"nx"}, {"xx"}, {"incr"}, {"incr", "xx"}, {"incr", "nx"}}

\* an empty sorted set does not stay in the keyspace
Stored(o) == IF zsetLength(o) = 0 THEN None ELSE o

\* what a client expects of adding to the scores it knows
Reference(ref, s, e, flags) ==
  IF e \in DOMAIN ref
  THEN LET new == IF "incr" \in flags THEN Plus(ref[e], s) ELSE s
       IN IF "nx" \in flags \/ new = NaN THEN ref ELSE [ref EXCEPT ![e] = new]
  ELSE IF "xx" \in flags THEN ref ELSE (e :> s) @@ ref

\* ZADD and ZINCRBY: the encoding of a new key is chosen by its first element
zaddGenericCommand(pairs, flags, lv) ==
  LET fresh == IF MaxEntries = 0 \/ pairs[1].e \in LongElems THEN createZsetObject ELSE Ziplist(<<>>)
      o == IF zset = None THEN fresh ELSE zset
      add(acc, p) == zsetAdd(acc.o, p.s, p.e, flags, lv)
  IN /\ "incr" \in flags => Len(pairs) = 1
     /\ ~(zset = None /\ "xx" \in flags)
     /\ zset' = Stored(FoldLeft(add, [o |-> o, did |-> "nop"], pairs).o)
     /\ score' = FoldLeft(LAMBDA ref, p : Reference(ref, p.s, p.e, flags), score, pairs)
     /\ Bounded(score')

zremCommand(e) ==
  /\ zset # None
  /\ zset' = Stored(zsetDel(zset, e))
  /\ score' = Without(score, {e})

ScoreRanges == [min : Scores, max : Scores, minex : BOOLEAN, maxex : BOOLEAN]

LexRanges ==
  {r \in [min : 0 .. N, max : 1 .. N + 1, minex : BOOLEAN, maxex : BOOLEAN] :
     (r.min = 0 => r.minex) /\ (r.max = N + 1 => r.maxex)}

\* delete from the first pair in range up to the first one beyond the maximum
zzlDeleteFrom(zl, by, r, from) ==
  LET stop == {i \in from .. Len(zl) : ~LteMax(r, Value(by, zl[i]))}
  IN IF from = 0 THEN zl
     ELSE SubSeq(zl, 1, from - 1) \o IF stop = {} THEN <<>> ELSE SubSeq(zl, Min(stop), Len(zl))

zzlDeleteRange(zl, by, r) == zzlDeleteFrom(zl, by, r, zzlFind(zl, FirstInRange(Ziplist(zl), by, r)))

\* deletes by score or by element from either encoding; the dictionary follows the list
zremrange(o, by, r) ==
  IF o.enc = "ziplist" THEN Ziplist(zzlDeleteRange(o.zl, by, r))
  ELSE LET z == zslDeleteRange(o.z, NodesWhere(o.z, by, LAMBDA v : ~GteMin(r, v)),
                               NodesWhere(o.z, by, LAMBDA v : LteMax(r, v)))
       IN Skiplist(z, Without(o.dict, DOMAIN o.dict \ Nodes(z)))

Uniform == \A d, e \in DOMAIN score : score[d] = score[e]

zremrangeCommand(by, r) ==
  /\ zset # None
  /\ by = "lex" => Uniform
  /\ zset' = Stored(zremrange(zset, by, r))
  /\ score' = [e \in {d \in DOMAIN score : LET v == IF by = "score" THEN score[d] ELSE d
                                           IN ~(GteMin(r, v) /\ LteMax(r, v))} |-> score[e]]

\* the elements of a score function in the order of the set
Ordered(ref) == SortSeq(SetToSeq(DOMAIN ref), LAMBDA d, e : Less(ref[d], d, ref[e], e))

zremrangebyrankCommand(start, end) ==
  LET ix == Indexes(start, end, zsetLength(zset))
      z == zslDeleteRangeByRank(zset.z, ix.start + 1, ix.end + 1)
  IN /\ zset # None
     /\ ~ix.empty
     /\ zset' = Stored(IF zset.enc = "ziplist"
                       THEN Ziplist(SubSeq(zset.zl, 1, ix.start) \o SubSeq(zset.zl, ix.end + 2, Len(zset.zl)))
                       ELSE Skiplist(z, Without(zset.dict, DOMAIN zset.dict \ Nodes(z))))
     /\ score' = Without(score, ToSet(SubSeq(Ordered(score), ix.start + 1, ix.end + 1)))

\* the first or last element, count times or until the key is gone
RECURSIVE Pop(_, _, _)
Pop(o, max, count) ==
  LET e == IF o.enc = "ziplist" THEN o.zl[IF max THEN Len(o.zl) ELSE 1].e
           ELSE IF max THEN o.z.tail ELSE o.z.at[Header].fwd[1]
  IN IF count = 0 \/ zsetLength(o) = 0 THEN o ELSE Pop(zsetDel(o, e), max, count - 1)

genericZpopCommand(max, count) ==
  LET order == Ordered(score)
      gone == IF max THEN SubSeq(order, Max({1, (Len(order) - count) + 1}), Len(order))
              ELSE SubSeq(order, 1, Min({count, Len(order)}))
  IN /\ zset # None
     /\ zset' = Stored(Pop(zset, max, count))
     /\ score' = Without(score, ToSet(gone))

\* zunionInterAggregate: an infinity against the other is zero
Aggregate(how, a, b) ==
  CASE how = "sum" -> IF Plus(a, b) = NaN THEN 0 ELSE Plus(a, b)
    [] how = "min" -> IF b # NaN /\ b < a THEN b ELSE a
    [] how = "max" -> IF b # NaN /\ b > a THEN b ELSE a

ZeroIfNaN(x) == IF x = NaN THEN 0 ELSE x

PlainPairs == [e \in Plain |-> 1]

SourceOf(name) ==
  IF name = "set" THEN PlainPairs
  ELSE [e \in {p.e : p \in ToSet(Pairs(Lookup))} |-> zsetScore(Lookup, e)]

Member(op, f, e) == op = "inter" => e \in DOMAIN f

\* what each source that has the element brings; the product of a later one is not corrected in an
\* intersection
Weighed(op, e, having) ==
  [i \in DOMAIN having |-> IF i = 1 \/ op = "union" THEN ZeroIfNaN(Times(having[i].w, having[i].f[e]))
                           ELSE Times(having[i].w, having[i].f[e])]

Total(how, values) == FoldLeft(LAMBDA a, b : Aggregate(how, a, b), Head(values), Tail(values))

Combined(op, how, by) ==
  [e \in {d \in UNION {DOMAIN by[i].f : i \in DOMAIN by} : \A i \in DOMAIN by : Member(op, by[i].f, d)} |->
     Total(how, Weighed(op, e, SelectSeq(by, LAMBDA x : e \in DOMAIN x.f)))]

\* sources, smallest first; src[i] = [f |-> element -> score, w |-> weight]
zunionInter(op, how, src) ==
  Combined(op, how, SortSeq(src, LAMBDA a, b : Cardinality(DOMAIN a.f) < Cardinality(DOMAIN b.f)))

PairsOf(ref, order) == [i \in DOMAIN order |-> [e |-> order[i], s |-> ref[order[i]]]]

ResultOf(result, lv) ==
  IF result = <<>> THEN createZsetObject
  ELSE zsetConvertToZiplistIfNeeded(Filled(createZsetObject, PairsOf(result, Ordered(result)), lv), DOMAIN result)

zunionInterGenericCommand(op, how, names, weights, lv) ==
  LET known(name) == IF name = "set" THEN PlainPairs ELSE score
      wanted == {e \in UNION {DOMAIN known(names[i]) : i \in DOMAIN names} :
                   op = "inter" => \A i \in DOMAIN names : e \in DOMAIN known(names[i])}
      vals(e) == {Times(weights[i], known(names[i])[e]) : i \in {j \in DOMAIN names : e \in DOMAIN known(names[j])}}
      sum(e) == LET weighed(i) == IF e \in DOMAIN known(names[i]) THEN Times(weights[i], known(names[i])[e]) ELSE 0
                IN IF {weighed(1), weighed(2)} = Infinite THEN 0 ELSE Plus(weighed(1), weighed(2))
  IN /\ zset' = Stored(ResultOf(zunionInter(op, how, [i \in DOMAIN names |-> [f |-> SourceOf(names[i]),
                                                                              w |-> weights[i]]]), lv))
     /\ score' = [e \in wanted |-> CASE how = "sum" -> sum(e)
                                     [] how = "min" -> Min(vals(e))
                                     [] how = "max" -> Max(vals(e))]
     /\ Bounded(score')

Does(name) == name \in CommandNames

Init == zset = None /\ score = <<>>

Next ==
  \/ Does("zadd") /\ \E s \in Scores, e \in Elems, fl \in Flags : \E lv \in Levels(NewNodes({e})) :
       zaddGenericCommand(<<[e |-> e, s |-> s]>>, fl, lv)
  \/ Does("zadd2") /\ \E s, t \in Scores, d, e \in Elems : \E lv \in Levels(NewNodes({d, e})) :
       zaddGenericCommand(<<[e |-> d, s |-> s], [e |-> e, s |-> t]>>, {}, lv)
  \/ Does("zrem") /\ \E e \in Elems : zremCommand(e)
  \/ Does("zremrange") /\ \E r \in ScoreRanges : zremrangeCommand("score", r)
  \/ Does("zremrange") /\ \E r \in LexRanges : zremrangeCommand("lex", r)
  \/ Does("zremrangebyrank") /\ \E a, b \in -N .. N : zset # None /\ zremrangebyrankCommand(a, b)
  \/ Does("zpop") /\ \E max \in BOOLEAN, count \in 1 .. 2 : genericZpopCommand(max, count)
  \/ Does("zstore") /\ \E op \in {"union", "inter"}, how \in {"sum", "min", "max"}, w1, w2 \in Weights, lv \in Levels(Elems),
                          other \in {"key", "set"} :
       zunionInterGenericCommand(op, how, <<"key", other>>, <<w1, w2>>, lv)

Spec == Init /\ [][Next]_vars

-----------------------------------------------------------------------------
(* Properties                                                               *)

\* The object is absent, a ziplist of pairs, or a skip list with its dictionary.
TypeOK ==
  /\ DOMAIN score \subseteq Elems
  /\ zset # None => zset.enc \in {"ziplist", "skiplist"}
  /\ (zset # None /\ (zset # None => zset.enc = "skiplist")) => zset.z.level \in 1 .. MaxLevel

RankIn(order, x) == IF x = Header THEN 0 ELSE CHOOSE i \in DOMAIN order : order[i] = x

\* Every level of the skip list is a chain of its nodes in order, each span is the distance in
\* ranks to the next one (or to the end), the backward pointers and the tail follow the first
\* level, and the dictionary holds the same elements and scores: after any mix of insertions,
\* score updates, deletions and range deletions.
SkiplistRight ==
  (zset # None /\ (zset # None => zset.enc = "skiplist")) =>
    LET z == zset.z
        order == Ordered(score)
        taller(i) == SelectSeq(order, LAMBDA e : Len(z.at[e].fwd) >= i)
        next(x, i) == LET later == {e \in ToSet(taller(i)) : RankIn(order, e) > RankIn(order, x)}
                      IN IF later = {} THEN None ELSE CHOOSE e \in later : \A d \in later : RankIn(order, e) <= RankIn(order, d)
    IN /\ Nodes(z) = DOMAIN score /\ zset.dict = score /\ z.length = Len(order)
       /\ z.level = Max({1} \cup {Len(z.at[e].fwd) : e \in Nodes(z)})
       /\ z.tail = IF order = <<>> THEN None ELSE Last(order)
       /\ \A x \in DOMAIN z.at :
            /\ x # Header => z.at[x].score = score[x]
                             /\ z.at[x].back = IF RankIn(order, x) = 1 THEN None ELSE order[RankIn(order, x) - 1]
            /\ \A i \in 1 .. Min({z.level, Len(z.at[x].fwd)}) :
                 LET nx == next(x, i) IN
                 /\ z.at[x].fwd[i] = nx
                 /\ z.at[x].span[i] = (IF nx = None THEN Len(order) ELSE RankIn(order, nx)) - RankIn(order, x)

\* In both encodings the set holds exactly what the commands put there, in order of score and then
\* element; a set is stored as a ziplist only while it is short and its elements are; no score is
\* ever not a number, and an emptied set leaves the keyspace.
HoldsScores ==
  /\ (zset = None) = (DOMAIN score = {})
  /\ zset # None =>
       /\ Pairs(zset) = [i \in DOMAIN Ordered(score) |-> [e |-> Ordered(score)[i], s |-> score[Ordered(score)[i]]]]
       /\ zset.enc = "ziplist" => Len(zset.zl) <= MaxEntries /\ {p.e : p \in ToSet(zset.zl)} \cap LongElems = {}
       /\ \A e \in DOMAIN score : score[e] # NaN

\* ZRANK, ZRANGE, ZRANGEBYSCORE with LIMIT, ZCOUNT and their lexicographic and reverse variants
\* answer from either encoding what filtering the ordered set by hand gives.
QueriesRight ==
  zset # None =>
    LET order == Ordered(score)
        ranges(by) == IF by = "score" THEN ScoreRanges ELSE IF Uniform THEN LexRanges ELSE {}
        inside(by, r) == SelectSeq(order, LAMBDA e : LET v == IF by = "score" THEN score[e] ELSE e
                                                     IN GteMin(r, v) /\ LteMax(r, v))
        turned(s, rev) == IF rev THEN Reverse(s) ELSE s
    IN /\ \A e \in Elems, rev \in BOOLEAN :
            zsetRank(zset, e, rev) = IF e \notin DOMAIN score THEN None ELSE RankIn(turned(order, rev), e) - 1
       /\ \A by \in {"score", "lex"} : \A r \in ranges(by) :
            /\ (IF by = "score" THEN zcount(zset, r) ELSE zlexcount(zset, r)) = Len(inside(by, r))
            /\ \A rev \in BOOLEAN, offset \in 0 .. 1, limit \in {-1, 1} :
                 (IF by = "score" THEN genericZrangebyscore(zset, r, offset, limit, rev)
                  ELSE genericZrangebylex(zset, r, offset, limit, rev))
                   = LET all == turned(inside(by, r), rev)
                         rest == SubSeq(all, offset + 1, Len(all))
                     IN IF limit < 0 THEN rest ELSE SubSeq(rest, 1, Min({limit, Len(rest)}))
       /\ \A a, b \in -N .. N, rev \in BOOLEAN :
            LET place(i) == IF i < 0 THEN Len(order) + i + 1 ELSE i + 1 IN
            zrangeGeneric(zset, a, b, rev)
              = SelectSeq(turned(order, rev),
                          LAMBDA e : RankIn(turned(order, rev), e) \in place(a) .. place(b))
=============================================================================
