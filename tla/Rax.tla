--------------------------------- MODULE Rax ---------------------------------
(***************************************************************************)
(* The radix tree of rax.c: nodes whose characters are edges, chains of    *)
(* single children folded into compressed nodes, and iterators that seek   *)
(* and step in both directions.  A string is a sequence of characters,     *)
(* which are numbers; a node holds its characters, its children, and, when *)
(* it stands for a key, the key's data (Null for the null pointer).        *)
(***************************************************************************)
EXTENDS Integers, Sequences, FiniteSets, FiniteSetsExt, SequencesExt

CONSTANTS Strings,      \* the keys used
          Probes,       \* the strings iterators seek
          Data, Null,
          MaxNode,      \* RAX_NODE_MAX_SIZE
          None

VARIABLES rax,      \* [head, numele, numnodes]
          map       \* the keys the tree should hold, and their data

vars == <<rax, map>>

Leaf == [chars |-> <<>>, compr |-> FALSE, key |-> FALSE, data |-> Null, kids |-> <<>>]

Size(n) == Len(n.chars)

raxSetData(n, data) == [n EXCEPT !.key = TRUE, !.data = data]

Node(chars, kids) == [Leaf EXCEPT !.chars = chars, !.compr = Len(chars) > 1, !.kids = kids]

\* the key and data of another node
Like(n, old) == IF old.key THEN raxSetData(n, old.data) ELSE n

From(s, i) == SubSeq(s, i + 1, Len(s))

Common(a, b) == Max({n \in 0 .. Min({Len(a), Len(b)}) : SubSeq(a, 1, n) = SubSeq(b, 1, n)})

\* the child of a node for a character
Edge(n, c) == IF \E k \in DOMAIN n.chars : n.chars[k] = c THEN CHOOSE k \in DOMAIN n.chars : n.chars[k] = c ELSE 0

\* where the walk along a string stops: the node, the characters matched, the
\* position in a compressed node, the nodes above and the children taken
RECURSIVE LowWalk(_, _, _, _, _)
LowWalk(h, s, i, stack, path) ==
  LET m == Common(h.chars, From(s, i))
      k == Edge(h, s[i + 1])
      stop(n, j) == [h |-> h, i |-> i + n, j |-> j, stack |-> stack, path |-> path]
  IN IF Size(h) = 0 \/ i = Len(s) THEN stop(0, 0)
     ELSE IF h.compr
     THEN IF m # Size(h) THEN stop(m, m)
          ELSE LowWalk(h.kids[1], s, i + m, Append(stack, h), Append(path, 1))
     ELSE IF k = 0 THEN stop(0, 0)
          ELSE LowWalk(h.kids[k], s, i + 1, Append(stack, h), Append(path, k))

raxLowWalk(t, s) == LowWalk(t.head, s, 0, <<>>, <<>>)

\* a tree with the node at a path replaced
RECURSIVE Graft(_, _, _)
Graft(n, path, new) ==
  IF path = <<>> THEN new
  ELSE [n EXCEPT !.kids = ReplaceAt(n.kids, path[1], Graft(n.kids[path[1]], Tail(path), new))]

RECURSIVE At(_, _)
At(n, path) == IF path = <<>> THEN n ELSE At(n.kids[path[1]], Tail(path))

-----------------------------------------------------------------------------
(* Insertion                                                                *)

\* edges are kept in the order of their characters
raxAddChild(n, c, child) ==
  LET pos == Cardinality({k \in DOMAIN n.chars : n.chars[k] < c}) + 1
  IN [n EXCEPT !.chars = InsertAt(@, pos, c), !.kids = InsertAt(@, pos, child)]

raxCompressNode(n, s, child) == [n EXCEPT !.chars = s, !.compr = TRUE, !.kids = <<child>>]

\* the nodes for what is left of the string, from node h down to the new key
RECURSIVE Extend(_, _, _)
Extend(h, s, data) ==
  LET n == Min({Len(s), MaxNode}) IN
  IF s = <<>> THEN raxSetData(h, data)
  ELSE IF Size(h) = 0 /\ Len(s) > 1 THEN raxCompressNode(h, SubSeq(s, 1, n), Extend(Leaf, From(s, n), data))
  ELSE raxAddChild(h, s[1], Extend(Leaf, Tail(s), data))

\* the rest of a split compressed node; a single character is a plain edge
Postfix(chars, next) == Node(chars, <<next>>)

\* algorithm 1: a mismatch inside a compressed node puts a node with two edges at the split
Split(h, j, s, data) ==
  LET next == h.kids[1]
      rest == IF Size(h) - j - 1 > 0 THEN Postfix(From(h.chars, j + 1), next) ELSE next
      split == Extend(Node(<<h.chars[j + 1]>>, <<rest>>), s, data)
  IN IF j = 0 THEN Like(split, h) ELSE Like(Node(SubSeq(h.chars, 1, j), <<split>>), h)

\* algorithm 2: the string ends inside a compressed node
Trim(h, j, data) ==
  LET postfix == raxSetData(Postfix(From(h.chars, j), h.kids[1]), data)
  IN Like(Node(SubSeq(h.chars, 1, j), <<postfix>>), h)

RECURSIVE CountNodes(_)
CountNodes(n) == 1 + FoldLeft(LAMBDA a, k : a + CountNodes(k), 0, n.kids)

\* [rax, inserted, old]
InsertAtStop(t, s, data, overwrite, w) ==
  LET put(new) == [t EXCEPT !.head = Graft(@, w.path, new), !.numele = @ + 1,
                            !.numnodes = @ + (CountNodes(new) - CountNodes(w.h))]
  IN IF w.i = Len(s) /\ (~w.h.compr \/ w.j = 0)
     THEN IF w.h.key THEN [rax |-> IF overwrite THEN [t EXCEPT !.head = Graft(@, w.path, raxSetData(w.h, data))] ELSE t,
                           inserted |-> FALSE, old |-> w.h.data]
          ELSE [rax |-> put(raxSetData(w.h, data)), inserted |-> TRUE, old |-> None]
     ELSE [rax |-> put(IF w.h.compr /\ w.i # Len(s) THEN Split(w.h, w.j, From(s, w.i), data)
                       ELSE IF w.h.compr THEN Trim(w.h, w.j, data)
                       ELSE Extend(w.h, From(s, w.i), data)),
           inserted |-> TRUE, old |-> None]

raxGenericInsert(t, s, data, overwrite) == InsertAtStop(t, s, data, overwrite, raxLowWalk(t, s))

\* whether the walk along a string ended at a node that is its key
EndsAtKey(s, w) == w.i = Len(s) /\ (~w.h.compr \/ w.j = 0) /\ w.h.key

DataAt(s, w) == IF EndsAtKey(s, w) THEN w.h.data ELSE None

raxFind(t, s) == DataAt(s, raxLowWalk(t, s))

-----------------------------------------------------------------------------
(* Removal                                                                  *)

\* a compressed node without its child is a leaf
raxRemoveChild(n, k) ==
  IF n.compr THEN Like(Leaf, n) ELSE [n EXCEPT !.chars = RemoveAt(@, k), !.kids = RemoveAt(@, k)]

\* a node that is not a key and has a single child
InChain(n) == ~n.key /\ (n.compr \/ Size(n) = 1)

\* whether the chain being compressed goes on through a node
Joins(n, size) == InChain(n) /\ size + Size(n) <= MaxNode

\* the characters of the chain from a node, and the first node after it
RECURSIVE Chain(_, _)
Chain(n, size) ==
  LET next == Last(n.kids) IN
  IF Size(n) # 0 /\ (Size(n) # 0 => Joins(next, size + Size(n)))
  THEN LET c == Chain(next, size + Size(n)) IN [c EXCEPT !.chars = n.chars \o @, !.nodes = @ + 1]
  ELSE [chars |-> n.chars, next |-> next, nodes |-> 1]

JoinChain(t, from, c) ==
  IF c.nodes = 1 THEN t
  ELSE [t EXCEPT !.head = Graft(@, from, [Node(c.chars, <<c.next>>) EXCEPT !.compr = TRUE]),
                 !.numnodes = (@ + 1) - c.nodes]

JoinFrom(t, from) == JoinChain(t, from, Chain(At(t.head, from), 0))

\* recompression around the node at a path
Recompress(t, path) ==
  LET top == Min({d \in 0 .. Len(path) : \A e \in d .. Len(path) - 1 : InChain(At(t.head, SubSeq(path, 1, e)))})
  IN JoinFrom(t, SubSeq(path, 1, top))

\* the node left without a child is joined to its neighbours when only one edge remains
Prune(t, above, gone, cut) ==
  LET pruned == [t EXCEPT !.head = Graft(@, above, cut), !.numnodes = @ - gone]
  IN IF Size(cut) = 1 /\ ~cut.key THEN Recompress(pruned, above) ELSE pruned

\* a leaf goes, with the nodes above it that are neither keys nor branches
RemoveLeaf(t, p) ==
  LET keep == Max({0} \cup {d \in 0 .. Len(p) - 1 : ~InChain(At(t.head, SubSeq(p, 1, d)))})
      above == SubSeq(p, 1, keep)
  IN Prune(t, above, Len(p) - keep, raxRemoveChild(At(t.head, above), p[keep + 1]))

RemoveAtStop(t, p, h) ==
  LET plain == [t EXCEPT !.head = Graft(@, p, [h EXCEPT !.key = FALSE, !.data = Null])]
  IN IF Size(h) = 0 /\ p # <<>> THEN RemoveLeaf(t, p)
     ELSE IF Size(h) = 1 THEN Recompress(plain, p) ELSE plain

RemoveKey(t, s, w) ==
  IF EndsAtKey(s, w) THEN RemoveAtStop([t EXCEPT !.numele = @ - 1], w.path, w.h) ELSE t

raxRemove(t, s) == RemoveKey(t, s, raxLowWalk(t, s))

-----------------------------------------------------------------------------
(* Iterators: the nodes above, the node, the key spelled so far, the data.  *)

AddChars(it, s) == [it EXCEPT !.key = @ \o s]

DelChars(it, n) == [it EXCEPT !.key = SubSeq(@, 1, Len(@) - n)]

Down(it, k, s) ==
  [AddChars(it, s) EXCEPT !.stack = Append(@, it.node), !.node = it.node.kids[k]]

\* up to the parent, unless noup says the iterator is there already
Up(it, noup) ==
  LET n == IF noup THEN it.node ELSE Last(it.stack)
      up == [it EXCEPT !.node = n, !.stack = IF noup THEN @ ELSE SubSeq(@, 1, Len(@) - 1)]
  IN DelChars(up, IF n.compr THEN Size(n) ELSE 1)

Found(it) == [it EXCEPT !.data = it.node.data]

AtHead(it) == it.stack = <<>>

EOF(it) == [it EXCEPT !.eof = TRUE]

\* the edge after a character, in either direction
Beside(n, c, back) ==
  LET ks == {k \in DOMAIN n.chars : IF back THEN n.chars[k] < c ELSE n.chars[k] > c}
  IN IF ks = {} THEN 0 ELSE IF back THEN Max(ks) ELSE Min(ks)

Deeper(it) == Down(it, 1, IF it.node.compr THEN it.node.chars ELSE <<it.node.chars[1]>>)

\* Mutant: a node met on the way down is passed over
StopsAt_Leaf(n) == n.key /\ Size(n) = 0

StopsAt(n) == n.key

RECURSIVE Forward(_, _, _)
RECURSIVE Climb(_, _, _, _)

StopOrGoOn(x, origin) == IF StopsAt(x.node) THEN Found(x) ELSE Forward(x, FALSE, origin)

\* down to the first key below, or else up
Forward(it, noup, origin) ==
  IF ~noup /\ Size(it.node) > 0 THEN StopOrGoOn(Deeper(it), origin)
  ELSE IF ~noup /\ AtHead(it) THEN EOF(origin)
  ELSE Climb(Up(it, noup), Last(it.key), noup, origin)

\* from a parent, down its edge after the one we come from, or further up
Climb(up, from, noup, origin) ==
  LET k == Beside(up.node, from, FALSE)
  IN IF ~up.node.compr /\ Size(up.node) > (IF noup THEN 0 ELSE 1) /\ k # 0
     THEN StopOrGoOn(Down(up, k, <<up.node.chars[k]>>), origin)
     ELSE IF AtHead(up) THEN EOF(origin)
     ELSE Climb(Up(up, FALSE), Last(up.key), FALSE, origin)

raxIteratorNextStep(it, noup) ==
  IF it.eof THEN it
  ELSE IF it.just THEN [it EXCEPT !.just = FALSE]
  ELSE Forward(it, noup, it)

RECURSIVE raxSeekGreatest(_)
raxSeekGreatest(it) ==
  LET n == it.node IN
  IF Size(n) = 0 THEN it
  ELSE raxSeekGreatest(Down(it, Len(n.kids), IF n.compr THEN n.chars ELSE <<Last(n.chars)>>))

\* up, then down to the greatest key of the edge before the one we come from, if any
GreatestBefore(up, from, noup) ==
  LET k == Beside(up.node, from, TRUE)
  IN IF ~up.node.compr /\ Size(up.node) > (IF noup THEN 0 ELSE 1) /\ k # 0
     THEN raxSeekGreatest(Down(up, k, <<up.node.chars[k]>>)) ELSE up

RECURSIVE Backward(_, _, _)
BackOrGoOn(x, origin) == IF x.node.key THEN Found(x) ELSE Backward(x, FALSE, origin)

Backward(it, noup, origin) ==
  IF ~noup /\ AtHead(it) THEN EOF(origin)
  ELSE BackOrGoOn(GreatestBefore(Up(it, noup), Last(it.key), noup), origin)

raxIteratorPrevStep(it, noup) ==
  IF it.eof THEN it
  ELSE IF it.just THEN [it EXCEPT !.just = FALSE]
  ELSE Backward(it, noup, it)

\* the flag that makes the next step stay where the seek arrived
Seeked(it) == [it EXCEPT !.just = TRUE]

\* the seek of an element that is not found, or not wanted: from the node where the walk
\* stopped, with the key that leads there, step to the neighbour
Step(it, gt, noup) == IF gt THEN raxIteratorNextStep(it, noup) ELSE raxIteratorPrevStep(it, noup)

BesideFrom(here, w, gt, s) ==
  LET mismatch == w.i # Len(s)
      nodechar == w.h.chars[w.j + 1]
      keychar == s[w.i + 1]
      past == mismatch /\ w.h.compr /\ ~(IF gt THEN nodechar > keychar ELSE nodechar < keychar)
  IN IF mismatch /\ w.h.compr /\ ~gt /\ ~past THEN Found(raxSeekGreatest(here))
     ELSE IF ~mismatch /\ w.h.compr /\ w.h.key /\ w.j # 0 /\ ~gt THEN here
     ELSE Step(AddChars(here, IF past THEN w.h.chars ELSE IF mismatch /\ ~w.h.compr THEN <<keychar>> ELSE <<>>),
               gt, past \/ (mismatch /\ ~w.h.compr))

SeekBeside(it, w, gt, s) ==
  Seeked(BesideFrom([it EXCEPT !.key = SubSeq(s, 1, w.i - (IF w.h.compr THEN w.j ELSE 0)), !.just = FALSE],
                    w, gt, s))

NewIterator(t) == [stack |-> <<>>, node |-> t.head, key |-> <<>>, eof |-> FALSE, just |-> TRUE, data |-> None]

SeekAtStop(it, op, s, w) ==
  IF op \in {"=", ">=", "<="} /\ EndsAtKey(s, w) THEN Found([it EXCEPT !.key = s])
  ELSE IF op = "=" THEN EOF(it) ELSE SeekBeside(it, w, op \in {">", ">="}, s)

SeekAlong(t, op, s, w) == SeekAtStop([NewIterator(t) EXCEPT !.stack = w.stack, !.node = w.h], op, s, w)

raxSeek(t, op, s) ==
  IF t.numele = 0 THEN EOF(NewIterator(t))
  ELSE IF op = "$" THEN Found(raxSeekGreatest(NewIterator(t)))
  ELSE SeekAlong(t, op, s, raxLowWalk(t, s))

\* every key from where an iterator stands, in one direction
RECURSIVE Sweep(_, _)
Visit(x, back) == IF x.eof THEN <<>> ELSE <<[key |-> x.key, data |-> x.data]>> \o Sweep(x, back)

Sweep(it, back) == Visit(Step(it, ~back, FALSE), back)

-----------------------------------------------------------------------------

Init == rax = [head |-> Leaf, numele |-> 0, numnodes |-> 1] /\ map = <<>>

raxInsert(s, data) ==
  /\ rax' = raxGenericInsert(rax, s, data, TRUE).rax
  /\ map' = [k \in DOMAIN map \cup {s} |-> IF k = s THEN data ELSE map[k]]

raxTryInsert(s, data) ==
  /\ rax' = raxGenericInsert(rax, s, data, FALSE).rax
  /\ map' = [k \in DOMAIN map \cup {s} |-> IF k = s /\ s \notin DOMAIN map THEN data ELSE map[k]]

Remove1(s) ==
  /\ rax' = raxRemove(rax, s)
  /\ map' = [k \in DOMAIN map \ {s} |-> map[k]]

Next ==
  \/ \E s \in Strings, d \in Data : raxInsert(s, d)
  \/ \E s \in Strings, d \in Data : raxTryInsert(s, d)
  \/ \E s \in Strings : Remove1(s)

Spec == Init /\ [][Next]_vars

-----------------------------------------------------------------------------
(* Properties                                                               *)

RECURSIVE AllNodes(_)
AllNodes(n) == {n} \cup UNION {AllNodes(n.kids[k]) : k \in DOMAIN n.kids}

RECURSIVE KeysUnder(_, _)
KeysUnder(n, prefix) ==
  (IF n.key THEN {<<prefix, n.data>>} ELSE {})
  \cup UNION {KeysUnder(n.kids[k], prefix \o (IF n.compr THEN n.chars ELSE <<n.chars[k]>>)) : k \in DOMAIN n.kids}

\* The type of the tree: a compressed node has one child and at least two characters, any other
\* node has its edges in order and a child for each.
TypeOK ==
  \A n \in AllNodes(rax.head) :
    IF n.compr THEN Size(n) > 1 /\ Len(n.kids) = 1
    ELSE Len(n.kids) = Size(n) /\ \A k \in 1 .. Size(n) - 1 : n.chars[k] < n.chars[k + 1]

\* Whatever keys are added, overwritten and removed, splitting and rejoining nodes, the tree spells
\* exactly the keys it should hold with their data, finds each of them and no other, counts its
\* elements and nodes right (raxFree asserts the count), and keeps no leaf that is not a key.
TreeRight ==
  /\ KeysUnder(rax.head, <<>>) = {<<s, map[s]>> : s \in DOMAIN map}
  /\ \A s \in Probes \cup Strings : raxFind(rax, s) = IF s \in DOMAIN map THEN map[s] ELSE None
  /\ rax.numele = Cardinality(DOMAIN map)
  /\ rax.numnodes = CountNodes(rax.head)
  /\ \A n \in AllNodes(rax.head) : Size(n) = 0 => n.key \/ n = rax.head

Before(a, b) == \* lexicographic order
  LET m == Common(a, b) IN
  IF m = Len(a) THEN Len(b) > m ELSE m < Len(b) /\ a[m + 1] < b[m + 1]

Wanted(op, s) ==
  {k \in DOMAIN map : CASE op = ">" -> Before(s, k)
                        [] op = ">=" -> Before(s, k) \/ s = k
                        [] op = "<" -> Before(k, s)
                        [] op = "<=" -> Before(k, s) \/ s = k
                        [] op = "$" -> \A j \in DOMAIN map : ~Before(k, j)
                        [] op = "=" -> k = s}

\* A seek by any operator to any string, a key or not, followed by steps in the direction of the
\* operator visits the keys it should, in lexicographic order.
IterationRight ==
  \A s \in Probes, op \in {">", ">=", "<", "<=", "=", "$"} :
    LET it == raxSeek(rax, op, s)
        back == op \in {"<", "<="}
        visited == Sweep(it, back)
    IN IF op \in {"=", "$"} THEN Wanted(op, s) = IF it.eof THEN {} ELSE {it.key}
       ELSE /\ {visited[i].key : i \in DOMAIN visited} = Wanted(op, s)
            /\ \A i \in DOMAIN visited :
                 i > 1 => Before(visited[i - (IF back THEN 0 ELSE 1)].key, visited[i - (IF back THEN 1 ELSE 0)].key)

\* The data of an iterator is that of the key it stands on, right after a seek too.
SeekSetsData ==
  \A s \in Probes, op \in {">", ">=", "<", "<=", "=", "$"} :
    LET it == raxSeek(rax, op, s) IN ~it.eof => it.data = map[it.key]

\* Removals leave no chain of single children uncompressed.
ChainsCompressed ==
  \A n \in AllNodes(rax.head) : InChain(n) => ~InChain(Last(n.kids))
=============================================================================
