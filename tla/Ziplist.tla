------------------------------- MODULE Ziplist -------------------------------
(* The ziplist (ziplist.c): the entries of a small list, hash or sorted set in *)
(* one block of memory.  Every entry starts with the length of the one before  *)
(* it, in 1 byte, or in 5 when that length is 254 or more, so an insertion or  *)
(* deletion can change the size of its neighbour, and of the neighbour after   *)
(* it, and so on.                                                              *)
(*                                                                             *)
(* The block is modelled by its layout: the header fields (bytes, tail offset, *)
(* 16-bit length) and the entries, each with the element it holds and the      *)
(* prevlen field as it is stored (value and size).  All sizes are the real     *)
(* ones.  torn is set when the block is reallocated to fewer bytes than still  *)
(* hold entries.                                                               *)
EXTENDS Integers, Sequences, SequencesExt

CONSTANTS
    Strs,            \* lengths of the strings stored that are not integers
    Ints,            \* the integers stored
    Uint16Max,       \* UINT16_MAX, the length field's "count the entries"
    Places,          \* insertions happen within Places entries of the head
    MaxEntries,      \* bound on the entries of the first ziplist
    MaxSecond,       \* and of the second
    MaxBytes         \* bound on the bytes of a ziplist

VARIABLES
    zl,              \* the ziplists edited and merged: zl[1] and zl[2]
    items,           \* what each is supposed to contain
    answer           \* [got, want]: the last query's reply and the right one

vars == <<zl, items, answer>>

Elements == [int : {FALSE}, n : Strs] \cup [int : {TRUE}, n : Ints]

Header == 10         \* ZIPLIST_HEADER_SIZE
BigPrevLen == 254    \* ZIP_BIG_PREVLEN

ziplistNew == [ents |-> <<>>, bytes |-> Header + 1, tail |-> Header, len |-> 0,
               torn |-> FALSE]

\* zipTryEncoding and zipIntSize: the payload of an integer.
zipIntSize(n) ==
    CASE n \in 0..12 -> 0
      [] n \in (-128)..127 /\ n \notin 0..12 -> 1
      [] n \in (-32768)..32767 /\ n \notin (-128)..127 -> 2
      [] n \in (-8388608)..8388607 /\ n \notin (-32768)..32767 -> 3
      [] OTHER -> 4

zipStoreEntryEncoding(e) ==
    CASE e.int \/ e.n <= 63 -> 1
      [] ~e.int /\ e.n > 63 /\ e.n <= 16383 -> 2
      [] OTHER -> 5

\* The bytes of an entry after its prevlen field.
BodyLength(e) == zipStoreEntryEncoding(e) + IF e.int THEN zipIntSize(e.n) ELSE e.n

\* zipStorePrevEntryLength(NULL, len).
PrevLenSize(len) == IF len < BigPrevLen THEN 1 ELSE 5

zipRawEntryLength(ent) == ent.size + BodyLength(ent.e)

\* The offset of entry k, of the end mark for k = Len + 1.
Offset(ents, k) ==
    Header + FoldLeft(LAMBDA acc, ent : acc + zipRawEntryLength(ent), 0,
                      SubSeq(ents, 1, k - 1))

\* ZIPLIST_INCR_LENGTH
IncrLength(z, incr) ==
    IF z.len < Uint16Max THEN [z EXCEPT !.len = @ + incr] ELSE z

-----------------------------------------------------------------------------
RECURSIVE CascadeUpdate(_, _)

\* The tail offset after the prevlen of entry k grew.
TailAfterGrowth(z, k, extra) ==
    IF z.tail # Offset(z.ents, k) THEN z.tail + extra ELSE z.tail

\* __ziplistCascadeUpdate from entry k: the prevlen fields after it are
\* rewritten as long as each rewrite makes its entry longer; they never shrink.
CascadeUpdate(z, k) ==
    LET rawlen == zipRawEntryLength(z.ents[k])
        size == PrevLenSize(rawlen)
        next == z.ents[k + 1]
        grown == [z EXCEPT !.ents[k + 1].prev = rawlen,
                           !.ents[k + 1].size = size,
                           !.bytes = @ + size - next.size,
                           !.tail = TailAfterGrowth(z, k + 1, size - next.size)]
    IN IF k >= Len(z.ents) THEN z
       ELSE IF next.prev = rawlen THEN z
       ELSE IF next.size < size THEN CascadeUpdate(grown, k + 1)
       ELSE [z EXCEPT !.ents[k + 1].prev = rawlen]

\* __ziplistDelete of up to num entries from entry k on.
ziplistDelete(z, k, num) ==
    LET n == Len(z.ents)
        after == IF k + num > n THEN n + 1 ELSE k + num
        first == z.ents[k]
        totlen == Offset(z.ents, after) - Offset(z.ents, k)
        nextdiff == IF after > n THEN 0
                    ELSE PrevLenSize(first.prev) - z.ents[after].size
        kept == SubSeq(z.ents, 1, k - 1)
        moved == IF after > n THEN kept
                 ELSE kept \o <<[z.ents[after] EXCEPT !.prev = first.prev,
                                                     !.size = PrevLenSize(first.prev)]>>
                           \o SubSeq(z.ents, after + 1, n)
        tail == IF after > n THEN Offset(z.ents, k) - first.prev
                ELSE z.tail - totlen + IF after < n THEN nextdiff ELSE 0
        short == IncrLength([z EXCEPT !.ents = moved, !.tail = tail,
                                      !.bytes = @ - totlen + nextdiff], k - after)
    IN IF nextdiff # 0 THEN CascadeUpdate(short, k) ELSE short

\* The block would be reallocated smaller before its entries are moved.
ForceLarge(nextdiff, reqlen) == nextdiff = -4 /\ reqlen < 4

\* __ziplistInsert before entry k, or at the end.
ziplistInsert(z, k, e) ==
    LET n == Len(z.ents)
        prevlen == IF k <= n THEN z.ents[k].prev
                   ELSE IF n = 0 THEN 0 ELSE zipRawEntryLength(z.ents[n])
        ent == [e |-> e, prev |-> prevlen, size |-> PrevLenSize(prevlen)]
        reqlen == zipRawEntryLength(ent)
        diff == IF k <= n THEN PrevLenSize(reqlen) - z.ents[k].size ELSE 0
        forcelarge == ForceLarge(diff, reqlen)
        nextdiff == IF forcelarge THEN 0 ELSE diff
        pushed == IF k > n THEN z.ents
                  ELSE [z.ents EXCEPT ![k].prev = reqlen,
                                      ![k].size = @ + nextdiff]
        long == [z EXCEPT !.ents = InsertAt(pushed, k, ent),
                          !.bytes = @ + reqlen + nextdiff,
                          !.tail = IF k > n THEN Offset(z.ents, k)
                                   ELSE @ + reqlen + IF k < n THEN nextdiff ELSE 0,
                          !.torn = @ \/ reqlen + nextdiff < 0]
        settled == IF nextdiff # 0 THEN CascadeUpdate(long, k + 1) ELSE long
    IN IncrLength(settled, 1)

\* ziplistMerge of two ziplists that are not empty.
ziplistMerge(z1, z2) ==
    CascadeUpdate(
        [ents |-> z1.ents \o z2.ents,
         bytes |-> z1.bytes + z2.bytes - Header - 1,
         tail |-> z1.bytes - 1 + z2.tail - Header,
         len |-> IF z1.len + z2.len < Uint16Max THEN z1.len + z2.len ELSE Uint16Max,
         torn |-> z1.torn \/ z2.torn],
        Len(z1.ents))

-----------------------------------------------------------------------------
(* Queries walk the block: an offset that is not the start of an entry reads   *)
(* garbage (0).                                                                *)

EntryAt(z, offset) ==
    LET hits == {k \in 1..(Len(z.ents) + 1) : Offset(z.ents, k) = offset}
    IN IF hits = {} THEN 0 ELSE CHOOSE k \in hits : TRUE

RECURSIVE Backward(_, _, _)
\* The walk of ziplistIndex with a negative index from the entry at an offset.
Backward(z, offset, steps) ==
    LET k == EntryAt(z, offset)
    IN IF k = 0 \/ k > Len(z.ents) THEN 0
       ELSE IF steps = 0 THEN k
       ELSE IF z.ents[k].prev = 0 THEN 0
       ELSE Backward(z, offset - z.ents[k].prev, steps - 1)

\* ziplistIndex (ziplistPrev from the tail is the same walk): the entry, 0: NULL.
ziplistIndex(z, index) ==
    IF index < 0 THEN Backward(z, z.tail, -index - 1)
    ELSE IF index < Len(z.ents) THEN index + 1 ELSE 0

\* ziplistFind from the head: the first entry equal to e, comparing one entry
\* and skipping the next skip ones.
ziplistFind(z, e, skip) ==
    LET hits == {k \in DOMAIN z.ents : /\ (k - 1) % (skip + 1) = 0
                                       /\ z.ents[k].e = e}
    IN IF hits = {} THEN 0 ELSE CHOOSE k \in hits : \A j \in hits : k <= j

\* ziplistLen counts when the field has overflowed, and stores a small result.
ziplistLen(z) == IF z.len < Uint16Max THEN z.len ELSE Len(z.ents)

ziplistLenStored(z) ==
    IF z.len = Uint16Max /\ Len(z.ents) < Uint16Max
    THEN [z EXCEPT !.len = Len(z.ents)] ELSE z

-----------------------------------------------------------------------------
Silent == [got |-> 0, want |-> 0]

Init ==
    /\ zl = [i \in 1..2 |-> ziplistNew]
    /\ items = [i \in 1..2 |-> <<>>]
    /\ answer = Silent

\* ziplistPush at either end, ziplistInsert in between.
Insert(i, k, e) ==
    /\ Len(items[i]) < IF i = 1 THEN MaxEntries ELSE MaxSecond
    /\ zl[i].bytes + BodyLength(e) + 5 <= MaxBytes
    /\ zl' = [zl EXCEPT ![i] = ziplistInsert(@, k, e)]
    /\ items' = [items EXCEPT ![i] = InsertAt(@, k, e)]
    /\ answer' = Silent

\* ziplistDelete, ziplistDeleteRange.
Delete(i, k, num) ==
    /\ k <= Len(items[i])
    /\ zl' = [zl EXCEPT ![i] = ziplistDelete(@, k, num)]
    /\ items' = [items EXCEPT ![i] = SubSeq(@, 1, k - 1) \o SubSeq(@, k + num, Len(@))]
    /\ answer' = Silent

\* ziplistMerge; the second block is freed.
Merge ==
    /\ items[1] # <<>> /\ items[2] # <<>>
    /\ Len(items[1] \o items[2]) <= MaxEntries
    /\ zl' = <<ziplistMerge(zl[1], zl[2]), ziplistNew>>
    /\ items' = <<items[1] \o items[2], <<>>>>
    /\ answer' = Silent

Length(i) ==
    /\ answer' = [got |-> ziplistLen(zl[i]), want |-> Len(items[i])]
    /\ zl' = [zl EXCEPT ![i] = ziplistLenStored(@)]
    /\ UNCHANGED items

Find(i, e, skip) ==
    /\ LET at == {k \in DOMAIN items[i] : items[i][k] = e /\ (k - 1) % (skip + 1) = 0}
       IN answer' = [got |-> ziplistFind(zl[i], e, skip),
                     want |-> IF at = {} THEN 0
                              ELSE CHOOSE k \in at : \A j \in at : k <= j]
    /\ UNCHANGED <<zl, items>>

Next ==
    /\ \A i \in 1..2 : ~zl[i].torn
    /\ \/ \E i \in 1..2, e \in Elements :
            \E k \in 1..(Len(items[i]) + 1) :
               /\ k <= Places \/ k = Len(items[i]) + 1
               /\ Insert(i, k, e)
       \/ \E i \in 1..2, k \in 1..MaxEntries, num \in 1..2 : Delete(i, k, num)
       \/ Merge
       \/ \E i \in 1..2 : Length(i)
       \/ \E i \in 1..2, e \in Elements, skip \in 0..1 : Find(i, e, skip)

Spec == Init /\ [][Next]_vars

-----------------------------------------------------------------------------
(* The block holds elements and never shrinks below its header and end mark.   *)
TypeOK ==
    \A i \in 1..2 :
        /\ zl[i].bytes \in (Header + 1)..(2 * MaxBytes)
        /\ \A k \in DOMAIN zl[i].ents : /\ zl[i].ents[k].e \in Elements
                                        /\ zl[i].ents[k].size \in {1, 5}

(* However insertions, deletions, merges and the cascades they cause follow    *)
(* each other, every entry records the length of the entry before it in a      *)
(* field large enough for it, the tail offset is that of the last entry, the   *)
(* byte count is the sum of the entries, and no entry's bytes are cut off.     *)
ChainRight ==
    \A i \in 1..2 :
        LET z == zl[i]
            n == Len(z.ents)
        IN /\ ~z.torn
           /\ z.bytes = Offset(z.ents, n + 1) + 1
           /\ z.tail = IF n = 0 THEN Header ELSE Offset(z.ents, n)
           /\ \A k \in 1..n :
                /\ z.ents[k].prev = IF k = 1 THEN 0 ELSE zipRawEntryLength(z.ents[k - 1])
                /\ z.ents[k].size >= PrevLenSize(z.ents[k].prev)

(* The ziplist holds the elements put into it in their order, read forwards or *)
(* backwards, and reports the right length and the first match of a search     *)
(* also when the length field has overflowed.                                  *)
ReadsRight ==
    /\ answer.got = answer.want
    /\ \A i \in 1..2 :
         LET n == Len(items[i])
         IN /\ [k \in DOMAIN zl[i].ents |-> zl[i].ents[k].e] = items[i]
            /\ \A index \in (-n - 1)..n :
                 ziplistIndex(zl[i], index) =
                    IF index \in 0..(n - 1) THEN index + 1
                    ELSE IF index \in (-n)..(-1) THEN n + index + 1 ELSE 0
=============================================================================
