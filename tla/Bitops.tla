------------------------------- MODULE Bitops -------------------------------
(***************************************************************************)
(* Bitmaps (bitops.c): strings read and written as arrays of bits.  SETBIT *)
(* and BITFIELD write in place, BITOP computes a new string, BITCOUNT,     *)
(* BITPOS, GETBIT and BITFIELD GET read, with steps of whole words where   *)
(* the address allows it.                                                  *)
(*                                                                         *)
(* A byte has ByteBits bits and a machine word WordBytes bytes, so that    *)
(* int64_t is Word bits wide and 8, 64 and 2^64 keep their roles at a      *)
(* small scale.  A shift by the full width of the type and an overflow of  *)
(* a signed subtraction are undefined in C: the operators that meet one    *)
(* return the set of results compilers give.                               *)
(***************************************************************************)
EXTENDS Integers, FiniteSets, FiniteSetsExt, Sequences, SequencesExt

CONSTANTS Keys,
          ByteBits, WordBytes,   \* 8 and 8
          FastWords,             \* words of a step of BITOP's fast path: 4
          PopStep, PopMod,       \* bytes of a step of redisPopcount: 28, and
                                 \* the range of the byte it adds up in: 256
          MaxBytes,              \* the 512 MB limit of a string
          BitOffsets,            \* offsets of SETBIT
          Fields,                \* fields [offset, sign, bits] of BITFIELD
          SetValues, Increments, \* arguments of SET and INCRBY
          MaxOps,                \* bound: subcommands of one BITFIELD
          CommandNames,          \* commands clients send
          None

VARIABLES db,     \* the string of each key, a sequence of bytes, or None
          bits,   \* what it should be: [len, ones] or None (history)
          answer  \* replies of the last BITFIELD, and what they should be

vars == <<db, bits, answer>>

Word == ByteBits * WordBytes
All == 2 ^ Word - 1
Unsigned(v) == v % (2 ^ Word)
Signed(u) == IF u % (2 ^ Word) >= 2 ^ (Word - 1) THEN (u % (2 ^ Word)) - 2 ^ Word
             ELSE u % (2 ^ Word)
BitOf(v, n) == (v \div 2 ^ n) % 2
SumOf(S, f(_)) == MapThenSumSet(f, S)

\* ((uint64_t)-1) << n, undefined when n is the width: the shift may be
\* taken modulo the width, or give zero.
OnesFrom(n) == IF n < Word THEN {2 ^ Word - 2 ^ n} ELSE {0, All}
Or(v, mask, n) == IF mask = 0 THEN v ELSE IF mask = All THEN All ELSE (v % (2 ^ n)) + mask
AndNot(v, mask, n) == IF mask = 0 THEN v ELSE IF mask = All THEN 0 ELSE v % (2 ^ n)
\* a - b on int64_t, as used in a comparison.
Minus(a, b) == {a - b, Signed(a - b)}

(***************************************************************************)
(* Bits of a string: bit 0 is the most significant of the first byte.      *)
(***************************************************************************)
GetBit(s, offset) ==
  LET byte == offset \div ByteBits
  IN  IF byte < Len(s) THEN BitOf(s[byte + 1], ByteBits - 1 - (offset % ByteBits)) ELSE 0

SetBit(s, offset, on) ==
  LET byte == offset \div ByteBits
      bit == ByteBits - 1 - (offset % ByteBits)
  IN  [s EXCEPT ![byte + 1] = @ - BitOf(@, bit) * 2 ^ bit + on * 2 ^ bit]

\* lookupStringForBitCommand: created, or padded with zeroes, so that the
\* highest bit can be addressed.
Grown(s, maxbit) ==
  LET byte == maxbit \div ByteBits
      t == IF s = None THEN <<>> ELSE s
  IN  SubSeq([i \in 1 .. Max({Len(t), byte + 1}) |-> IF i <= Len(t) THEN t[i] ELSE 0],
             1, Max({Len(t), byte + 1}))

\* The offset is refused when it starts beyond the limit of a string.
ValidOffset(offset) == offset >= 0 /\ offset \div ByteBits < MaxBytes

RECURSIVE setUnsignedBitfield(_, _, _, _)
setUnsignedBitfield(s, offset, n, value) ==
  IF n = 0 THEN s
  ELSE setUnsignedBitfield(SetBit(s, offset, BitOf(value, n - 1)), offset + 1, n - 1, value)

getUnsignedBitfield(s, offset, n) ==
  LET One(j) == GetBit(s, offset + j) * 2 ^ (n - 1 - j) IN SumOf(0 .. n - 1, One)

\* The possible values.
getSignedBitfield(s, offset, n) ==
  LET u == getUnsignedBitfield(s, offset, n)
  IN  IF BitOf(u, n - 1) = 0 THEN {Signed(u)}
      ELSE {Signed(Or(u, mask, n)) : mask \in OnesFrom(n)}

(***************************************************************************)
(* Overflow of value + incr in a field of n bits: whether it overflows and *)
(* the value to store instead, undefined (None) for FAIL.                  *)
(***************************************************************************)
NoOverflow == [over |-> FALSE, limit |-> None]
Over(limit) == [over |-> TRUE, limit |-> limit]

checkUnsignedBitfieldOverflow(value, incr, n, owtype) ==
  LET max == 2 ^ n - 1
      above == value > max \/ (incr > 0 /\ incr > Signed(max - value))
      below == incr < 0 /\ incr < Signed(0 - value)
      Saturated == IF above THEN max ELSE 0
      Wrapped == Unsigned(value + incr) % (2 ^ n)
  IN  IF ~above /\ ~below THEN NoOverflow
      ELSE Over(CASE owtype = "wrap" -> Wrapped
                  [] owtype = "sat" -> Saturated
                  [] owtype = "fail" -> None)

\* The sum as an unsigned number with the sign bit of the field propagated.
WrapSigned(value, incr, n) ==
  LET c == Unsigned(value + incr)
  IN  {Signed(IF BitOf(c, n - 1) = 1 THEN Or(c, mask, n) ELSE AndNot(c, mask, n)) :
         mask \in OnesFrom(n)}

checkSignedBitfieldOverflow(value, incr, n, owtype) ==
  LET max == 2 ^ (n - 1) - 1
      min == 0 - max - 1
      Above(maxincr) == \/ value > max
                        \/ n # Word /\ incr > maxincr
                        \/ value >= 0 /\ incr > 0 /\ incr > maxincr
      Below(minincr) == \/ value < min
                        \/ n # Word /\ incr < minincr
                        \/ value < 0 /\ incr < 0 /\ incr < minincr
      Limits(saturated) == CASE owtype = "wrap" -> WrapSigned(value, incr, n)
                             [] owtype = "sat" -> {saturated}
                             [] owtype = "fail" -> {None}
  IN  UNION {IF Above(maxincr) THEN {Over(l) : l \in Limits(max)}
             ELSE IF Below(minincr) THEN {Over(l) : l \in Limits(min)}
             ELSE {NoOverflow} : maxincr \in Minus(max, value), minincr \in Minus(min, value)}

(***************************************************************************)
(* BITFIELD: the subcommands [op, offset, sign, bits, arg, owtype] run in  *)
(* order on the string, padded up to the highest bit any of them writes.   *)
(* Outcomes are [s, replies].                                              *)
(***************************************************************************)
Writes(op) == op.op # "get"

\* One SET or INCRBY: SET answers the old value, INCRBY the new one, and
\* neither writes when it overflows under FAIL.
Stored(s, op, old, o) ==
  LET new == IF o.over THEN o.limit
             ELSE IF op.op = "incrby" THEN old + op.arg ELSE op.arg
  IN  IF o.over /\ op.owtype = "fail" THEN [s |-> s, reply |-> None]
      ELSE [s |-> setUnsignedBitfield(s, op.offset, op.bits, Unsigned(new)),
            reply |-> IF op.op = "incrby" THEN new ELSE old]

SignedOp(s, op) ==
  UNION {{Stored(s, op, old, o) :
            o \in IF op.op = "incrby"
                  THEN checkSignedBitfieldOverflow(old, op.arg, op.bits, op.owtype)
                  ELSE checkSignedBitfieldOverflow(op.arg, 0, op.bits, op.owtype)} :
         old \in getSignedBitfield(s, op.offset, op.bits)}

UnsignedOp(s, op) ==
  LET old == getUnsignedBitfield(s, op.offset, op.bits)
      o == IF op.op = "incrby"
           THEN checkUnsignedBitfieldOverflow(old, op.arg, op.bits, op.owtype)
           ELSE checkUnsignedBitfieldOverflow(Unsigned(op.arg), 0, op.bits, op.owtype)
  IN  {Stored(s, op, old, o)}

\* GET works on a zero-padded copy of the bytes around the field, one more
\* than a word.
GetOp(s, op) ==
  LET byte == op.offset \div ByteBits
      src == IF s = None THEN <<>> ELSE s
      buf == [i \in 1 .. WordBytes + 1 |-> IF i + byte <= Len(src) THEN src[i + byte] ELSE 0]
      off == op.offset - byte * ByteBits
  IN  {[s |-> s, reply |-> v] :
         v \in IF op.sign THEN getSignedBitfield(buf, off, op.bits)
               ELSE {getUnsignedBitfield(buf, off, op.bits)}}

FieldOp(s, op) == IF ~Writes(op) THEN GetOp(s, op)
                  ELSE IF op.sign THEN SignedOp(s, op) ELSE UnsignedOp(s, op)

RECURSIVE FieldOps(_, _, _)
FieldOps(s, replies, ops) ==
  IF ops = <<>> THEN {[s |-> s, replies |-> replies]}
  ELSE UNION {FieldOps(r.s, Append(replies, r.reply), Tail(ops)) : r \in FieldOp(s, Head(ops))}

HighestWrite(ops) ==
  Max({ops[j].offset + ops[j].bits - 1 : j \in {i \in DOMAIN ops : Writes(ops[i])}})

Bitfield(s, ops) ==
  IF \A j \in DOMAIN ops : ~Writes(ops[j]) THEN FieldOps(s, <<>>, ops)
  ELSE FieldOps(Grown(s, HighestWrite(ops)), <<>>, ops)

(***************************************************************************)
(* BITOP over the strings of the source keys, in steps of FastWords words  *)
(* while every source has that much left, then byte by byte.               *)
(***************************************************************************)
BytesWith(f(_, _), x, y) ==
  LET One(n) == f(BitOf(x, n), BitOf(y, n)) * 2 ^ n IN SumOf(0 .. ByteBits - 1, One)
Complement(x) == 2 ^ ByteBits - 1 - x
Combine(op, x, y) ==
  CASE op = "and" -> BytesWith(LAMBDA a, b : a * b, x, y)
    [] op = "or" -> BytesWith(LAMBDA a, b : a + b - a * b, x, y)
    [] op = "xor" -> BytesWith(LAMBDA a, b : (a + b) % 2, x, y)

FastBytes(minlen) ==
  LET step == FastWords * WordBytes IN (minlen \div step) * step

BitopResult(op, srcs) ==
  LET s(i) == IF srcs[i] = None THEN <<>> ELSE srcs[i]
      maxlen == Max({Len(s(i)) : i \in DOMAIN srcs})
      minlen == Min({Len(s(i)) : i \in DOMAIN srcs})
      fast == FastBytes(minlen)
      Byte(i, j) == IF Len(s(i)) < j THEN 0 ELSE s(i)[j]
      One(j) == IF op = "not" THEN Complement(Byte(1, j))
                ELSE IF Len(srcs) = 1 THEN Byte(1, j)
                ELSE Combine(op, Byte(1, j), Byte(2, j))
      Fast(j) == IF op = "not" THEN Complement(s(1)[j])
                 ELSE IF Len(srcs) = 1 THEN s(1)[j] ELSE Combine(op, s(1)[j], s(2)[j])
  IN  SubSeq([j \in 1 .. maxlen |-> IF j <= fast THEN Fast(j) ELSE One(j)], 1, maxlen)

(***************************************************************************)
(* BITCOUNT and BITPOS of the bytes from start to end of a string at       *)
(* address addr.                                                           *)
(***************************************************************************)
OnesIn(byte) == LET One(n) == BitOf(byte, n) IN SumOf(0 .. ByteBits - 1, One)

\* A step adds its bits up in one byte of a word.
RECURSIVE redisPopcount(_)
redisPopcount(s) ==
  IF Len(s) >= PopStep
  THEN (FoldSeq(LAMBDA b, n : n + OnesIn(b), 0, SubSeq(s, 1, PopStep)) % PopMod)
         + redisPopcount(SubSeq(s, PopStep + 1, Len(s)))
  ELSE FoldSeq(LAMBDA b, n : n + OnesIn(b), 0, s)

\* Bytes skipped one at a time up to an aligned address, then words, then
\* a word (padded with zeroes) searched bit by bit.
redisBitpos(s, addr, bit) ==
  LET skip == IF bit = 1 THEN 0 ELSE 2 ^ ByteBits - 1
      Aligned(i) == (addr + i) % WordBytes = 0
      i0 == CHOOSE i \in 0 .. Len(s) :
              /\ Aligned(i) \/ i = Len(s) \/ s[i + 1] # skip
              /\ \A j \in 0 .. i - 1 : ~Aligned(j) /\ s[j + 1] = skip
      found == ~Aligned(i0) /\ i0 < Len(s)
      Full(i) == i + WordBytes <= Len(s) /\ \A k \in 1 .. WordBytes : s[i + k] = skip
      i1 == IF found THEN i0
            ELSE CHOOSE i \in {i0 + WordBytes * m : m \in 0 .. Len(s)} :
                   /\ ~Full(i)
                   /\ \A m \in 0 .. Len(s) : i0 + WordBytes * m < i => Full(i0 + WordBytes * m)
      WordBit(n) == GetBit(SubSeq(s, i1 + 1, Len(s)), n)
  IN  IF bit = 1 /\ \A n \in 0 .. Word - 1 : WordBit(n) = 0 THEN -1
      ELSE i1 * ByteBits + CHOOSE n \in 0 .. Word - 1 :
                             WordBit(n) = bit /\ \A m \in 0 .. n - 1 : WordBit(m) # bit

\* start and end with negative indexes from the end.
IndexRange(s, start, end) ==
  LET From(i) == IF i < 0 THEN Max({Len(s) + i, 0}) ELSE i
  IN  [start |-> From(start), end |-> Min({From(end), Len(s) - 1})]

bitcount(s, start, end) ==
  LET r == IndexRange(s, start, end)
  IN  IF s = None \/ (start < 0 /\ end < 0 /\ start > end) \/ r.start > r.end THEN 0
      ELSE redisPopcount(SubSeq(s, r.start + 1, r.end + 1))

\* A range given with its end does not go on with zeroes.
\* Mutant: neither does the rest of the string.
PastEnd_Always(endGiven, bit, pos, bytes) == bit = 0 /\ pos = bytes * ByteBits
PastEnd(endGiven, bit, pos, bytes) == endGiven /\ bit = 0 /\ pos = bytes * ByteBits

bitpos(s, addr, bit, start, end, endGiven) ==
  LET r == IndexRange(s, start, end)
      pos == redisBitpos(SubSeq(s, r.start + 1, r.end + 1), addr + r.start, bit)
  IN  IF s = None THEN (IF bit = 1 THEN -1 ELSE 0)
      ELSE IF r.start > r.end THEN -1
      ELSE IF PastEnd(endGiven, bit, pos, r.end - r.start + 1) THEN -1
      ELSE IF pos = -1 THEN -1 ELSE pos + r.start * ByteBits
-----------------------------------------------------------------------------
(***************************************************************************)
(* What the strings should be: a length in bytes and the set of ones.      *)
(***************************************************************************)
Content(b) == IF b = None THEN [len |-> 0, ones |-> {}] ELSE b
Extended(b, maxbit) ==
  [len |-> Max({Content(b).len, maxbit \div ByteBits + 1}), ones |-> Content(b).ones]
FieldBits(op) == op.offset .. op.offset + op.bits - 1
Low(op) == IF op.sign THEN 0 - 2 ^ (op.bits - 1) ELSE 0
High(op) == IF op.sign THEN 2 ^ (op.bits - 1) - 1 ELSE 2 ^ op.bits - 1
InField(op, v) == CHOOSE x \in Low(op) .. High(op) : (x - v) % (2 ^ op.bits) = 0
FieldValue(b, op) ==
  LET One(n) == 2 ^ (op.offset + op.bits - 1 - n)
  IN  InField(op, SumOf(Content(b).ones \cap FieldBits(op), One))
Written(b, op, v) ==
  [b EXCEPT !.ones = (@ \ FieldBits(op)) \cup
     {n \in FieldBits(op) : BitOf(v % (2 ^ op.bits), op.offset + op.bits - 1 - n) = 1}]

\* The effect and the reply of one subcommand.
Meaning(b, op) ==
  LET old == FieldValue(b, op)
      arg == IF op.op = "set" /\ ~op.sign THEN Unsigned(op.arg) ELSE op.arg
      exact == IF op.op = "incrby" THEN old + arg ELSE arg
      new == IF exact \in Low(op) .. High(op) THEN exact
             ELSE CASE op.owtype = "wrap" -> InField(op, exact)
                    [] op.owtype = "sat" -> IF exact > High(op) THEN High(op) ELSE Low(op)
                    [] op.owtype = "fail" -> None
  IN  IF ~Writes(op) THEN [b |-> b, reply |-> old]
      ELSE IF new = None THEN [b |-> b, reply |-> None]
      ELSE [b |-> Written(b, op, new), reply |-> IF op.op = "set" THEN old ELSE new]

RECURSIVE Meanings(_, _, _)
Meanings(b, replies, ops) ==
  IF ops = <<>> THEN [b |-> b, replies |-> replies]
  ELSE LET m == Meaning(b, Head(ops)) IN Meanings(m.b, Append(replies, m.reply), Tail(ops))

BitopMeaning(op, srcs) ==
  LET len == Max({Content(srcs[i]).len : i \in DOMAIN srcs})
      In(n) == {i \in DOMAIN srcs : n \in Content(srcs[i]).ones}
      One(n) == CASE op = "and" -> In(n) = DOMAIN srcs
                  [] op = "or" -> In(n) # {}
                  [] op = "xor" -> Cardinality(In(n)) % 2 = 1
                  [] op = "not" -> In(n) = {}
  IN  IF len = 0 THEN None
      ELSE [len |-> len, ones |-> {n \in 0 .. len * ByteBits - 1 : One(n)}]
-----------------------------------------------------------------------------
FieldOpsSet ==
  UNION {{[op |-> "get", offset |-> f.offset, sign |-> f.sign, bits |-> f.bits,
           arg |-> 0, owtype |-> "wrap"]}
         \cup [op : {"set"}, offset : {f.offset}, sign : {f.sign}, bits : {f.bits},
               arg : SetValues, owtype : {"wrap", "sat", "fail"}]
         \cup [op : {"incrby"}, offset : {f.offset}, sign : {f.sign}, bits : {f.bits},
               arg : Increments, owtype : {"wrap", "sat", "fail"}] : f \in Fields}

Init == /\ db = [k \in Keys |-> None]
        /\ bits = [k \in Keys |-> None]
        /\ answer = None

setbitCommand ==
  /\ "setbit" \in CommandNames
  /\ \E k \in Keys, offset \in BitOffsets, on \in {0, 1} :
       /\ ValidOffset(offset)
       /\ db' = [db EXCEPT ![k] = SetBit(Grown(@, offset), offset, on)]
       /\ bits' = [bits EXCEPT ![k] =
                     LET b == Extended(@, offset)
                     IN  [b EXCEPT !.ones = IF on = 1 THEN @ \cup {offset} ELSE @ \ {offset}]]
  /\ UNCHANGED answer

bitfieldCommand ==
  /\ "bitfield" \in CommandNames
  /\ \E k \in Keys, ops \in UNION {[1 .. n -> FieldOpsSet] : n \in 1 .. MaxOps} :
       /\ \A j \in DOMAIN ops : ValidOffset(ops[j].offset)
       /\ \E r \in Bitfield(db[k], ops) :
            LET written == {ops[j] : j \in {i \in DOMAIN ops : Writes(ops[i])}}
                start == IF written = {} THEN bits[k]
                         ELSE Extended(bits[k], Max(UNION {FieldBits(op) : op \in written}))
                m == Meanings(start, <<>>, ops)
            IN  /\ db' = [db EXCEPT ![k] = r.s]
                /\ bits' = [bits EXCEPT ![k] = m.b]
                /\ answer' = [got |-> r.replies, expected |-> m.replies]

bitopCommand ==
  /\ "bitop" \in CommandNames
  /\ \E target \in Keys, op \in {"and", "or", "xor", "not"} :
     \E srcs \in UNION {[1 .. n -> Keys] : n \in IF op = "not" THEN {1} ELSE {1, 2}} :
       LET res == BitopResult(op, [i \in DOMAIN srcs |-> db[srcs[i]]])
       IN  /\ db' = [db EXCEPT ![target] = IF res = <<>> THEN None ELSE res]
           /\ bits' = [bits EXCEPT ![target] =
                         BitopMeaning(op, [i \in DOMAIN srcs |-> bits[srcs[i]]])]
  /\ UNCHANGED answer

Next == setbitCommand \/ bitfieldCommand \/ bitopCommand

Spec == Init /\ [][Next]_vars
-----------------------------------------------------------------------------
TypeOK ==
  \A k \in Keys : db[k] # None =>
    Len(db[k]) > 0 /\ \A i \in DOMAIN db[k] : db[k][i] \in 0 .. 2 ^ ByteBits - 1

\* Whatever mix of SETBIT, BITFIELD and BITOP built a string, it has the
\* length and the bits the commands describe, the bytes of a field that no
\* command wrote being zero (setbitCommand, bitopCommand, bitfieldCommand).
BitsRight ==
  \A k \in Keys :
    IF bits[k] = None THEN db[k] = None
    ELSE /\ Len(db[k]) = bits[k].len
         /\ {n \in 0 .. Len(db[k]) * ByteBits - 1 : GetBit(db[k], n) = 1} = bits[k].ones

\* BITFIELD answers what integers of that width and sign give: the field
\* read back is the number written, and a sum or a value that does not fit
\* wraps, saturates or fails as OVERFLOW says (bitops.c:265-283).
FieldsRight == answer # None => answer.got = answer.expected

\* BITCOUNT and BITPOS, for every range and wherever the string is in
\* memory, answer the count and the first position of the definition: with
\* no end given the string goes on with zeroes (redisPopcount, redisBitpos,
\* bitposCommand).
ReadsRight ==
  \A k \in Keys : db[k] # None =>
    LET n == Len(db[k])
        s == db[k]
        At(i) == IF i < 0 THEN Max({n + i, 0}) ELSE i
        Within(a, b) == {i \in 0 .. n * ByteBits - 1 :
                           i \div ByteBits \in At(a) .. Min({At(b), n - 1})}
        First(S) == IF S = {} THEN -1 ELSE Min(S)
        Where(a, b, bit) == {i \in Within(a, b) : GetBit(s, i) = bit}
    IN  \A a, b \in -(n + 1) .. n :
          /\ bitcount(s, a, b) = Cardinality(Where(a, b, 1)) \/ (a < 0 /\ b < 0 /\ a > b)
          /\ \A addr \in 0 .. WordBytes - 1, bit \in {0, 1} :
               /\ bitpos(s, addr, bit, a, b, TRUE) = First(Where(a, b, bit))
               /\ bitpos(s, addr, bit, a, -1, FALSE) =
                    IF bit = 0 /\ Where(a, -1, 0) = {} /\ At(a) < n THEN n * ByteBits
                    ELSE First(Where(a, -1, bit))

\* No command makes a string longer than the limit its offsets are tested
\* against ("making sure an error is returned if it is negative or if it
\* overflows Redis 512 MB limit for the string value", bitops.c:404-406).
WithinLimit == \A k \in Keys : db[k] # None => Len(db[k]) <= MaxBytes
=============================================================================
