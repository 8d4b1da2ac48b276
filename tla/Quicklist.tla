------------------------------ MODULE Quicklist ------------------------------
(* Lists (t_list.c) on their representation, the quicklist (quicklist.c): a    *)
(* linked list of nodes, each a ziplist of a few entries.  Full nodes are      *)
(* split, small neighbours are merged, and when list-compress-depth is not     *)
(* zero the nodes further than that from both ends are kept compressed.        *)
(*                                                                             *)
(* An entry is the number of bytes it takes.  A node has its entries zl, its   *)
(* encoding and the recompress flag ("temporarily decompressed for usage").    *)
(* ql.count is the cached number of entries; ql.garbled is set when an         *)
(* operation edits the bytes of a node that is compressed at that moment,      *)
(* after which the contents of the node are undefined.                         *)
EXTENDS Integers, Sequences, SequencesExt

CONSTANTS
    Values,          \* entries, as their sizes in bytes
    Fill,            \* list-max-ziplist-size: entries per node; 0 for a negative
                     \* setting, under which only the bytes count
    NodeBytes,       \* the size limit in force (8 kb, or a negative setting)
    Depth,           \* list-compress-depth
    MinCompress,     \* MIN_COMPRESS_BYTES
    CommandNames,    \* the commands clients send
    MaxEntries,      \* bound on the length of the list
    MaxIndex         \* bound on the indexes in commands

VARIABLES
    ql,              \* the quicklist stored at the key
    list,            \* what the list is supposed to contain
    answer           \* [got, want]: the last reply and the right one

vars == <<ql, list, answer>>

Bytes(zl) == FoldLeft(LAMBDA acc, v : acc + v, 0, zl)

NewNode(zl) == [zl |-> zl, enc |-> "raw", recompress |-> FALSE]

quicklistNew == [nodes |-> <<>>, count |-> 0, garbled |-> FALSE]

Entries(q) == FlattenSeq([i \in DOMAIN q.nodes |-> q.nodes[i].zl])

-----------------------------------------------------------------------------
(* Compression of nodes.                                                       *)

quicklistCompressNode(n) ==
    IF n.enc = "raw" /\ Bytes(n.zl) >= MinCompress
    THEN [n EXCEPT !.enc = "lzf", !.recompress = FALSE]
    ELSE n

quicklistDecompressNode(n) == [n EXCEPT !.enc = "raw"]

quicklistDecompressNodeForUse(n) ==
    IF n.enc = "lzf" THEN [n EXCEPT !.enc = "raw", !.recompress = TRUE] ELSE n

\* Edits the ziplist of node i, which the code takes to be uncompressed.
EditNode(q, i, zl) ==
    [q EXCEPT !.nodes[i].zl = zl, !.garbled = @ \/ q.nodes[i].enc = "lzf"]

\* __quicklistCompress: i is the node to compress when it is not within Depth
\* of an end (0 is NULL) and len is quicklist->len, which the callers that link
\* or unlink a node update only afterwards.  When the loop over the depth does
\* not end in the middle of the list and Depth > 1, forward and reverse have
\* each moved one node beyond it.
Compress(q, len, i) ==
    IF Depth = 0 \/ len < 2 * Depth THEN q
    ELSE LET n == Len(q.nodes)
             ends == (1..Depth) \cup ((n + 1 - Depth)..n)
             opened == [j \in 1..n |-> IF j \in ends
                                       THEN quicklistDecompressNode(q.nodes[j])
                                       ELSE q.nodes[j]]
             closing == (IF i \in ends THEN {} ELSE {i})
                        \cup (IF Depth > 1 THEN {Depth + 1, n - Depth} ELSE {})
         IN IF n < 2 * Depth THEN [q EXCEPT !.nodes = SubSeq(opened, 1, n)]
            ELSE [q EXCEPT !.nodes =
                    SubSeq([j \in 1..n |-> IF j \in closing
                                           THEN quicklistCompressNode(opened[j])
                                           ELSE opened[j]], 1, n)]

quicklistRecompressOnly(q, i) ==
    IF q.nodes[i].recompress
    THEN [q EXCEPT !.nodes[i] = quicklistCompressNode(@)] ELSE q

quicklistCompress(q, len, i) ==
    IF q.nodes[i].recompress THEN quicklistRecompressOnly(q, i)
    ELSE Compress(q, len, i)

-----------------------------------------------------------------------------
(* Linking and unlinking nodes.                                                *)

\* __quicklistInsertNode: the new node goes after or before node i (0: none).
InsertNode(q, i, node, after) ==
    LET at == IF after THEN i + 1 ELSE i
        old == IF after THEN i ELSE i + 1
    IN IF i = 0 THEN [q EXCEPT !.nodes = <<node>>]
       ELSE quicklistCompress([q EXCEPT !.nodes = InsertAt(@, at, node)],
                              Len(q.nodes), old)

DelNode(q, i) ==
    Compress([q EXCEPT !.nodes = RemoveAt(@, i),
                       !.count = @ - Len(q.nodes[i].zl)], Len(q.nodes), 0)

\* Bytes and entries node i may hold (fill > 0 counts entries).
MeetsLimit(bytes, entries) ==
    bytes <= NodeBytes /\ (Fill = 0 \/ entries <= Fill)

quicklistNodeAllowInsert(q, i, v) ==
    /\ i \in DOMAIN q.nodes
    /\ MeetsLimit(Bytes(q.nodes[i].zl) + v, Len(q.nodes[i].zl) + 1)

quicklistNodeAllowMerge(q, i, j) ==
    /\ i \in DOMAIN q.nodes /\ j \in DOMAIN q.nodes
    /\ MeetsLimit(Bytes(q.nodes[i].zl \o q.nodes[j].zl),
                  Len(q.nodes[i].zl \o q.nodes[j].zl))

quicklistPush(q, v, where) ==
    LET i == IF where = "head" THEN 1 ELSE Len(q.nodes)
        Join(zl) == IF where = "head" THEN <<v>> \o zl ELSE zl \o <<v>>
        pushed == IF quicklistNodeAllowInsert(q, i, v)
                  THEN EditNode(q, i, Join(q.nodes[i].zl))
                  ELSE InsertNode(q, IF q.nodes = <<>> THEN 0 ELSE i,
                                  NewNode(<<v>>), where = "tail")
    IN [pushed EXCEPT !.count = @ + 1]

\* quicklistDelIndex: entry k of node i; a node left empty is unlinked.
quicklistDelIndex(q, i, k) ==
    LET left == EditNode(q, i, RemoveAt(q.nodes[i].zl, k))
        kept == IF left.nodes[i].zl = <<>> THEN DelNode(left, i) ELSE left
    IN [kept EXCEPT !.count = @ - 1]

quicklistPop(q, where) ==
    LET i == IF where = "head" THEN 1 ELSE Len(q.nodes)
    IN quicklistDelIndex(q, i, IF where = "head" THEN 1 ELSE Len(q.nodes[i].zl))

-----------------------------------------------------------------------------
(* Access by index.  An offset is a ziplist index: counted from the tail of    *)
(* the node when negative.                                                     *)

Position(zl, offset) == IF offset >= 0 THEN offset + 1 ELSE Len(zl) + offset + 1

\* The entries in the nodes before node i, from the head or from the tail.
Before(q, i, forward) ==
    Len(Entries([nodes |-> IF forward THEN SubSeq(q.nodes, 1, i - 1)
                           ELSE SubSeq(q.nodes, i + 1, Len(q.nodes))]))

EntryAt(q, forward, index, i) ==
    [q |-> [q EXCEPT !.nodes[i] = quicklistDecompressNodeForUse(@)],
     node |-> i,
     offset |-> IF forward THEN index - Before(q, i, TRUE) ELSE Before(q, i, FALSE) - index - 1]

\* quicklistIndex: [q, node, offset] with the node decompressed for use, node 0
\* when the index is out of range.
quicklistIndex(q, idx) ==
    LET forward == idx >= 0
        index == IF forward THEN idx ELSE -idx - 1
    IN IF index >= q.count THEN [q |-> q, node |-> 0, offset |-> 0]
       ELSE EntryAt(q, forward, index,
                    CHOOSE j \in DOMAIN q.nodes : /\ Before(q, j, forward) <= index
                                                  /\ index < Before(q, j, forward) + Len(q.nodes[j].zl))

quicklistReplaceAtIndex(q, idx, v) ==
    LET Replace(at, zl) ==
          quicklistCompress(EditNode(at.q, at.node, [zl EXCEPT ![Position(zl, at.offset)] = v]),
                            Len(q.nodes), at.node)
        Found(at) == IF at.node = 0 THEN q ELSE Replace(at, at.q.nodes[at.node].zl)
    IN Found(quicklistIndex(q, idx))

-----------------------------------------------------------------------------
(* Insertion in the middle: split and merge.                                   *)

\* _quicklistZiplistMerge of nodes i and i + 1 into the one with more entries.
ZiplistMerge(q, i) ==
    LET first == Len(q.nodes[i].zl) >= Len(q.nodes[i + 1].zl)
        gone == IF first THEN i + 1 ELSE i
        merged == [q EXCEPT !.nodes[IF first THEN i ELSE i + 1] =
                              [quicklistDecompressNode(@) EXCEPT !.zl = q.nodes[i].zl \o q.nodes[i + 1].zl],
                            !.nodes[gone].zl = <<>>]
    IN quicklistCompress(DelNode(merged, gone), Len(q.nodes) - 1, i)

\* Nodes i and i + 1 become one when the limits allow it; where node c is then.
JoinNodes(q, i) == IF quicklistNodeAllowMerge(q, i, i + 1) THEN ZiplistMerge(q, i) ELSE q
Moved(old, q, c) == c - (Len(old.nodes) - Len(q.nodes))

\* _quicklistMergeNodes around node c: the two before it, the two after it, then it with
\* the one before and the one after.
MergeNext(old, q, c) == JoinNodes(q, Moved(old, q, c))
MergePrevious(q, c) == MergeNext(q, JoinNodes(q, c - 1), c)
MergeAfter(old, q, c) == MergePrevious(JoinNodes(q, Moved(old, q, c) + 1), Moved(old, q, c))
MergeNodes(q, c) == MergeAfter(q, JoinNodes(q, c - 2), c)

\* Mutant: the entry at the offset goes to the wrong half.
SplitNode_OffByOne(zl, offset, after) ==
    IF after THEN [orig |-> SubSeq(zl, 1, offset),
                   new |-> SubSeq(zl, offset + 1, Len(zl))]
    ELSE [orig |-> SubSeq(zl, offset + 1, Len(zl)),
          new |-> SubSeq(zl, 1, offset)]

\* _quicklistSplitNode: what the node keeps and what the new node gets.
SplitNode(zl, offset, after) ==
    IF after THEN [orig |-> SubSeq(zl, 1, offset + 1),
                   new |-> SubSeq(zl, offset + 2, Len(zl))]
    ELSE [orig |-> SubSeq(zl, offset + 1, Len(zl)),
          new |-> SubSeq(zl, 1, offset)]

\* Adds v to node i, decompressed and recompressed around the edit.
InsertInto(q, i, zl) ==
    quicklistRecompressOnly(
        EditNode([q EXCEPT !.nodes[i] = quicklistDecompressNodeForUse(@)], i, zl), i)

\* The cases of _quicklistInsert.
InsertBeside(q, i, offset, v, after) ==
    LET zl == q.nodes[i].zl
        full == ~quicklistNodeAllowInsert(q, i, v)
        beside == IF after THEN i + 1 ELSE i - 1
        at_end == IF after THEN offset = Len(zl) ELSE offset = 0
        hasBeside == at_end /\ beside \in DOMAIN q.nodes
        split == SplitNode(zl, offset, after)
        used == EditNode([q EXCEPT !.nodes[i] = quicklistDecompressNodeForUse(@)],
                         i, split.orig)
        half == NewNode(IF after THEN <<v>> \o split.new ELSE split.new \o <<v>>)
    IN CASE ~full ->
              InsertInto(q, i, InsertAt(zl, IF after THEN offset + 2 ELSE offset + 1, v))
         [] full /\ hasBeside /\ quicklistNodeAllowInsert(q, beside, v) ->
              InsertInto(q, beside, IF after THEN <<v>> \o q.nodes[beside].zl
                                    ELSE q.nodes[beside].zl \o <<v>>)
         [] full /\ hasBeside /\ ~quicklistNodeAllowInsert(q, beside, v) ->
              InsertNode(q, i, NewNode(<<v>>), after)
         [] full /\ ~hasBeside ->
              MergeNodes(InsertNode(used, i, half, after), IF after THEN i ELSE i + 1)

\* _quicklistInsert next to the entry at a (non-negative) offset of node i.
quicklistInsert(q, i, offset, v, after) ==
    [InsertBeside(q, i, offset, v, after) EXCEPT !.count = @ + 1]

-----------------------------------------------------------------------------
(* Deleting a range.                                                           *)

RECURSIVE DelRangeFrom(_, _, _, _)
\* How many entries one round of the loop of quicklistDelRange deletes.
DelStep(len, offset, extent) ==
    CASE offset = 0 /\ extent >= len -> len
      [] offset > 0 /\ extent >= len -> len - offset
      [] offset < 0 -> IF -offset > extent THEN extent ELSE -offset
      [] OTHER -> extent

\* The loop of quicklistDelRange: node i, its offset, what is still to delete.
DelRangeFrom(q, i, offset, extent) ==
    LET zl == q.nodes[i].zl
        del == DelStep(Len(zl), offset, extent)
        p == Position(zl, offset)
        used == EditNode([q EXCEPT !.nodes[i] = quicklistDecompressNodeForUse(@)],
                         i, SubSeq(zl, 1, p - 1) \o SubSeq(zl, p + del, Len(zl)))
        short == [used EXCEPT !.count = @ - del]
        unlinked == (offset = 0 /\ extent >= Len(zl)) \/ short.nodes[i].zl = <<>>
        after == IF offset = 0 /\ extent >= Len(zl) THEN DelNode(q, i)
                 ELSE IF unlinked THEN DelNode(short, i)
                 ELSE quicklistRecompressOnly(short, i)
    IN IF extent = 0 THEN q
       ELSE IF extent = del THEN after
       ELSE DelRangeFrom(after, IF unlinked THEN i ELSE i + 1, 0, extent - del)

quicklistDelRange(q, start, count) ==
    LET extent == CASE start >= 0 /\ count > q.count - start -> q.count - start
                    [] start < 0 /\ count > -start -> -start
                    [] OTHER -> count
        From(at) == IF count <= 0 \/ at.node = 0 THEN q ELSE DelRangeFrom(at.q, at.node, at.offset, extent)
    IN From(quicklistIndex(q, start))

-----------------------------------------------------------------------------
(* Iterators: [node, offset, at], at is FALSE while iter->zi is NULL.          *)

IteratorAt(found) ==
    [q |-> found.q, it |-> [node |-> found.node, offset |-> found.offset, at |-> FALSE]]
GetIteratorAtIdx(q, idx) == IteratorAt(quicklistIndex(q, idx))

RECURSIVE quicklistNext(_, _, _)
\* [q, it, more]: an exhausted node is compressed again on the way out of it.
quicklistNext(q, it, dir) ==
    LET step == IF dir = "head" THEN 1 ELSE -1
        offset == IF it.at THEN it.offset + step ELSE it.offset
        used == IF it.at THEN q
                ELSE [q EXCEPT !.nodes[it.node] = quicklistDecompressNodeForUse(@)]
        p == Position(used.nodes[it.node].zl, offset)
        beyond == \/ p \notin DOMAIN used.nodes[it.node].zl
                  \/ dir = "head" /\ offset < 0
                  \/ dir = "tail" /\ offset >= 0
        left == quicklistCompress(used, Len(q.nodes), it.node)
        next == IF it.node + step \in DOMAIN q.nodes THEN it.node + step ELSE 0
    IN IF it.node = 0 THEN [q |-> q, it |-> it, more |-> FALSE]
       ELSE IF ~beyond THEN [q |-> used, more |-> TRUE,
                             it |-> [it EXCEPT !.offset = offset, !.at = TRUE]]
       ELSE quicklistNext(left, [node |-> next, at |-> FALSE,
                                 offset |-> IF dir = "head" THEN 0 ELSE -1], dir)

\* The entry an iterator stands on.
Entry(r) == LET zl == r.q.nodes[r.it.node].zl
            IN zl[Position(zl, r.it.offset)]

Resumed(r, q, dir) ==
    LET next == IF dir = "head" THEN r.it.node ELSE r.it.node - 1
    IN [q |-> q,
        it |-> IF Len(q.nodes) = Len(r.q.nodes) THEN [r.it EXCEPT !.at = FALSE]
               ELSE [node |-> IF next \in DOMAIN q.nodes THEN next ELSE 0,
                     offset |-> IF dir = "head" THEN 0 ELSE -1, at |-> FALSE]]

\* quicklistDelEntry: the iterator resumes at the same offset, or with the next
\* node when the entry was the last of its node.
quicklistDelEntry(r, dir) ==
    Resumed(r, quicklistDelIndex(r.q, r.it.node, Position(r.q.nodes[r.it.node].zl, r.it.offset)), dir)

-----------------------------------------------------------------------------
(* The commands.  listTypeReleaseIterator only frees the iterator.             *)

RECURSIVE Collect(_, _, _)
RECURSIVE CollectAt(_, _, _)
\* The loop of LRANGE: the next n entries from the head side.
Collect(r, out, n) ==
    IF n = 0 THEN [q |-> r.q, out |-> out] ELSE CollectAt(quicklistNext(r.q, r.it, "head"), out, n)
CollectAt(s, out, n) == Collect(s, Append(out, Entry(s)), n - 1)

RECURSIVE RemoveFrom(_, _, _, _)
RECURSIVE RemoveHere(_, _, _, _)
\* The loop of LREM: n is what may still be removed, 0 for any number.
RemoveFrom(r, v, n, dir) == RemoveHere(quicklistNext(r.q, r.it, dir), v, n, dir)
RemoveHere(s, v, n, dir) ==
    IF ~s.more THEN s.q
    ELSE IF Entry(s) # v THEN RemoveFrom(s, v, n, dir)
    ELSE IF n = 1 THEN quicklistDelEntry(s, dir).q
    ELSE RemoveFrom(quicklistDelEntry(s, dir), v, IF n = 0 THEN 0 ELSE n - 1, dir)

RECURSIVE Seek(_, _)
RECURSIVE SeekFrom(_, _)
\* The loop of LINSERT: up to the pivot.
Seek(r, pivot) == SeekFrom(quicklistNext(r.q, r.it, "head"), pivot)
SeekFrom(s, pivot) == IF ~s.more \/ Entry(s) = pivot THEN s ELSE Seek(s, pivot)

\* An empty list is deleted with its key.
Stored(q) == IF q.count = 0 THEN [quicklistNew EXCEPT !.garbled = q.garbled] ELSE q

\* A command leaves quicklist q and list l, and answers got where want is right.
Answers(q, l, got, want) ==
    /\ ql' = Stored(q)
    /\ list' = l
    /\ answer' = [got |-> got, want |-> want]

\* A command that answers with the length.
AnswersLength(q, l) == Answers(q, l, q.count, Len(l))

\* pushGenericCommand, pushxGenericCommand.
pushGenericCommand(v, where) ==
    /\ "push" \in CommandNames
    /\ Len(list) < MaxEntries
    /\ AnswersLength(quicklistPush(ql, v, where), IF where = "head" THEN <<v>> \o list ELSE list \o <<v>>)

popGenericCommand(where) ==
    /\ "pop" \in CommandNames
    /\ list # <<>>
    /\ LET i == IF where = "head" THEN 1 ELSE Len(ql.nodes)
           zl == ql.nodes[i].zl
           k == IF where = "head" THEN 1 ELSE Len(list)
       IN Answers(quicklistPop(ql, where), RemoveAt(list, k),
                  IF where = "head" THEN Head(zl) ELSE Last(zl), list[k])

\* rpoplpushCommand with the same source and destination.
rpoplpushCommand ==
    /\ "rpoplpush" \in CommandNames
    /\ list # <<>>
    /\ LET v == Last(Last(ql.nodes).zl)
       IN Answers(quicklistPush(quicklistPop(ql, "tail"), v, "head"),
                  <<Last(list)>> \o Front(list), v, Last(list))

lindexCommand(idx) ==
    /\ "lindex" \in CommandNames
    /\ list # <<>>
    /\ LET p == IF idx >= 0 THEN idx + 1 ELSE Len(list) + idx + 1
           Found(at) == Answers(at.q, list, IF at.node = 0 THEN 0 ELSE Entry(IteratorAt(at)),
                                IF p \in DOMAIN list THEN list[p] ELSE 0)
       IN Found(quicklistIndex(ql, idx))

lsetCommand(idx, v) ==
    /\ "lset" \in CommandNames
    /\ list # <<>>
    /\ LET p == IF idx >= 0 THEN idx + 1 ELSE Len(list) + idx + 1
           hit == p \in DOMAIN list
       IN Answers(quicklistReplaceAtIndex(ql, idx, v),
                  IF hit THEN [list EXCEPT ![p] = v] ELSE list,
                  quicklistIndex(ql, idx).node # 0, hit)

InsertAtPivot(s, v, after) ==
    IF s.more THEN quicklistInsert(s.q, s.it.node, s.it.offset, v, after) ELSE s.q

linsertCommand(pivot, v, after) ==
    /\ "linsert" \in CommandNames
    /\ list # <<>> /\ Len(list) < MaxEntries
    /\ LET first == CHOOSE p \in DOMAIN list :
                       list[p] = pivot /\ \A o \in 1..(p - 1) : list[o] # pivot
       IN AnswersLength(InsertAtPivot(Seek(GetIteratorAtIdx(ql, 0), pivot), v, after),
                        IF pivot \in Range(list)
                        THEN InsertAt(list, IF after THEN first + 1 ELSE first, v) ELSE list)

\* The clipping of LRANGE and LTRIM: the indexes that remain, none if from > to.
Clip(llen, start, end) ==
    LET from == IF start < 0 /\ llen + start < 0 THEN 0
                ELSE IF start < 0 THEN llen + start ELSE start
        to == IF end < 0 THEN llen + end ELSE end
    IN IF from > to \/ from >= llen THEN [from |-> llen, to |-> llen - 1]
       ELSE [from |-> from, to |-> IF to >= llen THEN llen - 1 ELSE to]

lrangeCommand(start, end) ==
    /\ "lrange" \in CommandNames
    /\ list # <<>>
    /\ LET r == Clip(ql.count, start, end)
           w == Clip(Len(list), start, end)
           got == Collect(GetIteratorAtIdx(ql, r.from), <<>>, r.to - r.from + 1)
       IN Answers(IF r.from > r.to THEN ql ELSE got.q, list,
                  IF r.from > r.to THEN <<>> ELSE got.out,
                  SubSeq(list, w.from + 1, w.to + 1))

TrimRight(llen, to) == llen - to - 1

ltrimCommand(start, end) ==
    /\ "ltrim" \in CommandNames
    /\ list # <<>>
    /\ LET r == Clip(ql.count, start, end)
           ltrim == r.from
           rtrim == IF r.from > r.to THEN 0 ELSE TrimRight(ql.count, r.to)
           w == Clip(Len(list), start, end)
       IN Answers(quicklistDelRange(quicklistDelRange(ql, 0, ltrim), -rtrim, rtrim),
                  SubSeq(list, w.from + 1, w.to + 1), TRUE, TRUE)

RECURSIVE Without(_, _, _)
\* l without its first n entries v, without all of them when n is 0.
Without(l, v, n) ==
    IF l = <<>> THEN <<>>
    ELSE IF Head(l) # v THEN <<Head(l)>> \o Without(Tail(l), v, n)
    ELSE IF n = 1 THEN Tail(l)
    ELSE Without(Tail(l), v, IF n = 0 THEN 0 ELSE n - 1)

\* A command that answers with how many entries it removed.
AnswersRemoved(q, l) == Answers(q, l, ql.count - q.count, Len(list) - Len(l))

lremCommand(v, n, dir) ==
    /\ "lrem" \in CommandNames
    /\ list # <<>>
    /\ dir = "tail" => n > 0
    /\ AnswersRemoved(RemoveFrom(GetIteratorAtIdx(ql, IF dir = "head" THEN 0 ELSE -1), v, n, dir),
                      IF dir = "head" THEN Without(list, v, n) ELSE Reverse(Without(Reverse(list), v, n)))

Init ==
    /\ ql = quicklistNew
    /\ list = <<>>
    /\ answer = [got |-> 0, want |-> 0]

Indexes == (-MaxIndex - 1)..MaxIndex

Next ==
    /\ ~ql.garbled
    /\ \/ \E v \in Values, where \in {"head", "tail"} : pushGenericCommand(v, where)
       \/ \E where \in {"head", "tail"} : popGenericCommand(where)
       \/ rpoplpushCommand
       \/ \E idx \in Indexes : lindexCommand(idx)
       \/ \E idx \in Indexes, v \in Values : lsetCommand(idx, v)
       \/ \E pivot, v \in Values, after \in BOOLEAN : linsertCommand(pivot, v, after)
       \/ \E start, end \in Indexes : lrangeCommand(start, end)
       \/ \E start, end \in Indexes : ltrimCommand(start, end)
       \/ \E v \in Values, n \in 0..2, dir \in {"head", "tail"} : lremCommand(v, n, dir)

Spec == Init /\ [][Next]_vars

-----------------------------------------------------------------------------
(* The nodes are never empty and hold entries of the list.                     *)
TypeOK ==
    /\ ql.count \in 0..MaxEntries
    /\ \A i \in DOMAIN ql.nodes :
         /\ ql.nodes[i].zl \in Seq(Values)
         /\ ql.nodes[i].enc \in {"raw", "lzf"}

(* Whatever sequence of commands splits, merges, trims and compresses the      *)
(* nodes, the quicklist holds the list the commands describe, the cached count *)
(* and every reply agree with it, no node is empty and none is above its fill. *)
ListRight ==
    ~ql.garbled => /\ Entries(ql) = list
                   /\ ql.count = Len(list)
                   /\ answer.got = answer.want
                   /\ \A i \in DOMAIN ql.nodes :
                        /\ ql.nodes[i].zl # <<>>
                        /\ Fill > 0 => Len(ql.nodes[i].zl) <= Fill

(* No command edits the bytes of a node while it is compressed: push and pop   *)
(* work on the first and last node without looking at the encoding.            *)
EditsRaw == ~ql.garbled

(* The first and the last Depth nodes are left uncompressed (quicklist.h:      *)
(* compress is the number of nodes to leave uncompressed at the ends).         *)
EndsUncompressed ==
    \A i \in DOMAIN ql.nodes :
        i <= Depth \/ i > Len(ql.nodes) - Depth => ql.nodes[i].enc = "raw"
=============================================================================
