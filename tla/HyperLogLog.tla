---------------------------- MODULE HyperLogLog ----------------------------
(***************************************************************************)
(* HyperLogLogs (hyperloglog.c): an array of registers kept either as a    *)
(* run-length "sparse" string of opcodes or as a "dense" string of packed  *)
(* 6-bit registers, behind a header that caches the last cardinality.      *)
(* PFADD, PFCOUNT, PFMERGE and PFDEBUG change the value in place and       *)
(* promote it from sparse to dense; a replica runs the commands that are   *)
(* propagated.                                                             *)
(*                                                                         *)
(* An element is its hash.  The cardinality estimate is a function of the  *)
(* register histogram alone, so the histogram stands for it.               *)
(***************************************************************************)
EXTENDS Integers, FiniteSets, Sequences, SequencesExt

CONSTANTS Keys,        \* keys that hold HyperLogLogs
          Hashes,      \* hashes of the elements clients add
          P, Q,        \* HLL_P and HLL_Q: 2^P registers, runs up to Q+1
          ValMax,      \* HLL_SPARSE_VAL_MAX_VALUE
          ValLen,      \* HLL_SPARSE_VAL_MAX_LEN
          ZeroMax,     \* HLL_SPARSE_ZERO_MAX_LEN
          XzeroMax,    \* HLL_SPARSE_XZERO_MAX_LEN
          SparseMax,   \* server.hll_sparse_max_bytes, the header apart
          MaxAdded,    \* bound: elements of one PFADD
          None         \* a key that does not exist; no cached cardinality

VARIABLES db,      \* the value of each key: [enc, ops or bytes, card]
          rep,     \* the same keys on the replica
          regs,    \* the registers each key should have (history)
          count    \* the last answer of PFCOUNT: what was asked, what came

vars == <<db, rep, regs, count>>

Registers == 2 ^ P
Bits == 6
RegisterMax == 2 ^ Bits - 1
DenseBytes == (Registers * Bits + 7) \div 8

Zeroes == [i \in 0 .. Registers - 1 |-> 0]
Larger(x, y) == IF x > y THEN x ELSE y
Union(f, g) == [i \in DOMAIN f |-> Larger(f[i], g[i])]

(***************************************************************************)
(* Registers packed 6 bits each, least significant bits first, over two    *)
(* neighbouring bytes; one byte more than needed follows the last one.     *)
(***************************************************************************)
GetRegister(bytes, regnum) ==
  LET byte == (regnum * Bits) \div 8 + 1
      fb == (regnum * Bits) % 8
  IN  ((bytes[byte] \div 2 ^ fb) + bytes[byte + 1] * 2 ^ (8 - fb)) % (2 ^ Bits)

SetRegister(bytes, regnum, val) ==
  LET byte == (regnum * Bits) \div 8 + 1
      fb == (regnum * Bits) % 8
      kept == IF fb + Bits > 8 THEN fb + Bits - 8 ELSE 0
      low == bytes[byte] % (2 ^ fb)
      high == (bytes[byte] \div 2 ^ (fb + Bits)) * 2 ^ (fb + Bits)
  IN  [bytes EXCEPT ![byte] = low + ((val * 2 ^ fb) % 256) + high,
                    ![byte + 1] = (@ \div 2 ^ kept) * 2 ^ kept + (val \div 2 ^ (8 - fb))]

\* The register a hash goes to, and the length of its 00..1 pattern.
hllPatLen(hash) ==
  LET rest == (hash \div Registers) + 2 ^ Q
  IN  [index |-> hash % Registers,
       count |-> CHOOSE n \in 1 .. Q + 1 :
                   /\ (rest \div 2 ^ (n - 1)) % 2 = 1
                   /\ \A m \in 1 .. n - 1 : (rest \div 2 ^ (m - 1)) % 2 = 0]

\* A result: the new value and whether the cardinality changed.
hllDenseSet(o, index, val) ==
  IF val > GetRegister(o.bytes, index)
  THEN [o |-> [o EXCEPT !.bytes = SetRegister(@, index, val)], changed |-> TRUE]
  ELSE [o |-> o, changed |-> FALSE]

(***************************************************************************)
(* Sparse opcodes: "zero" and "val" take one byte, "xzero" two.            *)
(***************************************************************************)
Zero(len) == [t |-> "zero", len |-> len, val |-> 0]
Xzero(len) == [t |-> "xzero", len |-> len, val |-> 0]
Val(val, len) == [t |-> "val", len |-> len, val |-> val]
Size(op) == IF op.t = "xzero" THEN 2 ELSE 1
SparseSize(ops) == FoldSeq(LAMBDA op, n : n + Size(op), 0, ops)
Covered(ops) == FoldSeq(LAMBDA op, n : n + op.len, 0, ops)
ZeroRun(len) == IF len = 0 THEN <<>>
                ELSE IF len > ZeroMax THEN <<Xzero(len)>> ELSE <<Zero(len)>>
ValRun(val, len) == IF len = 0 THEN <<>> ELSE <<Val(val, len)>>

\* The registers opcodes stand for.
Decode(ops) ==
  [i \in 0 .. Registers - 1 |->
     ops[CHOOSE k \in DOMAIN ops :
           /\ Covered(SubSeq(ops, 1, k - 1)) <= i
           /\ i < Covered(SubSeq(ops, 1, k))].val]

Dense(bytes, card) == [enc |-> "dense", ops |-> <<>>, bytes |-> bytes, card |-> card]
Sparse(ops, card) == [enc |-> "sparse", ops |-> ops, bytes |-> <<>>, card |-> card]

RECURSIVE WriteRuns(_, _, _)
WriteRuns(bytes, r, i) ==
  IF i = Registers THEN bytes
  ELSE WriteRuns(IF r[i] = 0 THEN bytes ELSE SetRegister(bytes, i, r[i]), r, i + 1)

\* Every non-zero run written over zero bytes; the header is copied.
hllSparseToDense(o) ==
  IF o.enc = "dense" THEN o
  ELSE Dense(WriteRuns(SubSeq([b \in 1 .. DenseBytes + 1 |-> 0], 1, DenseBytes + 1), Decode(o.ops), 0), o.card)

Fits(a, b) == a.len + b.len <= ValLen

\* Step 4 of hllSparseSet: neighbouring "val" opcodes of one value are
\* merged, over at most five steps from the opcode before the changed one.
RECURSIVE Merge(_, _, _)
Merge(ops, k, scanlen) ==
  IF k > Len(ops) \/ scanlen = 0 THEN ops
  ELSE IF /\ ops[k].t = "val" /\ k < Len(ops) /\ ops[k + 1].t = "val"
          /\ ops[k].val = ops[k + 1].val /\ Fits(ops[k], ops[k + 1])
  THEN Merge(SubSeq(ops, 1, k - 1)
               \o <<Val(ops[k].val, ops[k].len + ops[k + 1].len)>>
               \o SubSeq(ops, k + 2, Len(ops)), k, scanlen - 1)
  ELSE Merge(ops, k + 1, scanlen - 1)

\* promote: convert to dense, then set the register there.
Promote(o, index, val) == hllDenseSet(hllSparseToDense(o), index, val)

\* The opcodes that replace the one covering the register: a run of the
\* same kind on each side of a "val" of length 1.
Split(op, before, after, val) ==
  IF op.t = "val" THEN ValRun(op.val, before) \o <<Val(val, 1)>> \o ValRun(op.val, after)
  ELSE ZeroRun(before) \o <<Val(val, 1)>> \o ZeroRun(after)

\* Step 3: the new opcodes take the place of the k-th one, unless the value
\* would grow beyond hll_sparse_max_bytes.
Substitute(o, k, seq, index, val) ==
  LET delta == SparseSize(seq) - Size(o.ops[k])
  IN  IF delta > 0 /\ SparseSize(o.ops) + delta > SparseMax
      THEN Promote(o, index, val)
      ELSE [o |-> Sparse(Merge(SubSeq(o.ops, 1, k - 1) \o seq \o SubSeq(o.ops, k + 1, Len(o.ops)),
                               IF k > 1 THEN k - 1 ELSE 1, 5), None),
            changed |-> TRUE]

\* Steps 1 and 2: the k-th opcode, op, covers the register; the first it covers is first.
SetCovered(o, k, op, first, index, val) ==
  IF op.t = "val" /\ op.val >= val THEN [o |-> o, changed |-> FALSE]
  ELSE Substitute(o, k, Split(op, index - first, first + op.len - 1 - index, val), index, val)

SetAt(o, k, index, val) == SetCovered(o, k, o.ops[k], Covered(SubSeq(o.ops, 1, k - 1)), index, val)

hllSparseSet(o, index, val) ==
  IF val > ValMax THEN Promote(o, index, val)
  ELSE SetAt(o, CHOOSE j \in DOMAIN o.ops : /\ Covered(SubSeq(o.ops, 1, j - 1)) <= index
                                            /\ index < Covered(SubSeq(o.ops, 1, j)), index, val)

hllSet(o, index, val) ==
  IF o.enc = "dense" THEN hllDenseSet(o, index, val) ELSE hllSparseSet(o, index, val)

hllAdd(o, hash) == LET h == hllPatLen(hash) IN hllSet(o, h.index, h.count)

(***************************************************************************)
(* The histogram of the registers: how many registers have each value.     *)
(***************************************************************************)
hllDenseRegHisto(bytes) ==
  [v \in 0 .. RegisterMax |->
     Cardinality({i \in 0 .. Registers - 1 : GetRegister(bytes, i) = v})]

hllSparseRegHisto(ops) ==
  [v \in 0 .. RegisterMax |->
     FoldSeq(LAMBDA op, n : IF op.val = v THEN n + op.len ELSE n, 0, ops)]

hllRawRegHisto(r) ==
  [v \in 0 .. RegisterMax |-> Cardinality({i \in DOMAIN r : r[i] = v})]

hllCount(o) == IF o.enc = "dense" THEN hllDenseRegHisto(o.bytes)
               ELSE hllSparseRegHisto(o.ops)

\* max[i] = MAX(max[i], hll[i]).
hllMerge(max, o) ==
  IF o.enc = "dense"
  THEN [i \in DOMAIN max |-> Larger(max[i], GetRegister(o.bytes, i))]
  ELSE Union(max, Decode(o.ops))

createHLLObject ==
  LET whole == Registers \div XzeroMax
      rest == Registers % XzeroMax
  IN  Sparse([k \in 1 .. whole |-> Xzero(XzeroMax)]
               \o (IF rest = 0 THEN <<>> ELSE <<Xzero(rest)>>), hllRawRegHisto(Zeroes))

(***************************************************************************)
(* Commands, as what they do to the keys of a server: the new keys, and    *)
(* whether server.dirty grew, so that the command is propagated.           *)
(***************************************************************************)
PfaddInvalidates(o) == [o EXCEPT !.card = None]

Existing(d, key) == IF d[key] = None THEN createHLLObject ELSE d[key]

AddOne(r, hash) ==
  LET Either(a) == [o |-> a.o, changed |-> r.changed \/ a.changed] IN Either(hllAdd(r.o, hash))

PfaddDone(d, key, r) ==
  [d |-> [d EXCEPT ![key] = IF r.changed THEN PfaddInvalidates(r.o) ELSE r.o], dirty |-> r.changed]

pfadd(d, key, hashes) ==
  PfaddDone(d, key, FoldLeft(AddOne, [o |-> Existing(d, key), changed |-> d[key] = None], hashes))

PfcountDirty(cached) == ~cached

\* One key: the cached cardinality, or a new one that is cached.
pfcountOne(d, key) ==
  LET cached == d[key].card # None
      Counted(card) == [d |-> [d EXCEPT ![key].card = card], dirty |-> PfcountDirty(cached), card |-> card]
  IN  Counted(IF cached THEN d[key].card ELSE hllCount(d[key]))

RECURSIVE WriteMax(_, _, _)
WriteMax(o, max, i) ==
  IF i = Registers THEN o ELSE WriteMax(IF max[i] = 0 THEN o ELSE hllSet(o, i, max[i]).o, max, i + 1)

MaxOf(d, keys) == FoldSeq(LAMBDA k, max : IF d[k] = None THEN max ELSE hllMerge(max, d[k]), Zeroes, keys)

pfmerge(d, dest, srcs) ==
  LET dense == \E k \in {dest} \cup ToSet(srcs) : d[k] # None /\ d[k].enc = "dense"
      o == Existing(d, dest)
  IN  [d |-> [d EXCEPT ![dest] = [WriteMax(IF dense THEN hllSparseToDense(o) ELSE o, MaxOf(d, <<dest>> \o srcs), 0)
                                    EXCEPT !.card = None]], dirty |-> TRUE]

\* Several keys: the histogram of their union, nothing cached.
pfcountMany(d, keys) == hllRawRegHisto(MaxOf(d, keys))

\* PFDEBUG TODENSE and GETREG.
pfdebug(d, key) ==
  [d |-> [d EXCEPT ![key] = hllSparseToDense(@)], dirty |-> d[key].enc = "sparse"]

-----------------------------------------------------------------------------
Init == /\ db = [k \in Keys |-> None]
        /\ rep = [k \in Keys |-> None]
        /\ regs = [k \in Keys |-> Zeroes]
        /\ count = None

\* What a command leaves here, r, and on the replica when it is propagated, p.
Execute(r, p) == db' = r.d /\ rep' = IF r.dirty THEN p.d ELSE rep

Set(r, hashes) ==
  FoldSeq(LAMBDA x, f : LET h == hllPatLen(x)
                        IN  [f EXCEPT ![h.index] = Larger(@, h.count)], r, hashes)

pfaddCommand ==
  \E k \in Keys : \E hs \in UNION {[1 .. n -> Hashes] : n \in 0 .. MaxAdded} :
    /\ Execute(pfadd(db, k, hs), pfadd(rep, k, hs))
    /\ regs' = [regs EXCEPT ![k] = Set(@, hs)]
    /\ UNCHANGED count

pfcountCommand ==
  \/ \E k \in Keys :
       /\ db[k] # None
       /\ Execute(pfcountOne(db, k), pfcountOne(rep, k))
       /\ count' = [card |-> pfcountOne(db, k).card, of |-> regs[k]]
       /\ UNCHANGED regs
  \/ \E k, m \in Keys :
       /\ count' = [card |-> pfcountMany(db, <<k, m>>), of |-> Union(regs[k], regs[m])]
       /\ UNCHANGED <<db, rep, regs>>

pfmergeCommand ==
  \E k, m \in Keys :
    /\ Execute(pfmerge(db, k, <<m>>), pfmerge(rep, k, <<m>>))
    /\ regs' = [regs EXCEPT ![k] = Union(@, regs[m])]
    /\ UNCHANGED count

pfdebugCommand ==
  \E k \in Keys :
    /\ db[k] # None
    /\ Execute(pfdebug(db, k), pfdebug(rep, k))
    /\ UNCHANGED <<regs, count>>

Next == pfaddCommand \/ pfcountCommand \/ pfmergeCommand \/ pfdebugCommand

Spec == Init /\ [][Next]_vars
-----------------------------------------------------------------------------
\* Every value is a header and either opcodes within the limits of their
\* fields or bytes (hyperloglog.c:182-205, 365-377).
TypeOK ==
  \A d \in {db, rep} : \A k \in Keys : d[k] # None =>
    IF d[k].enc = "sparse"
    THEN /\ SparseSize(d[k].ops) <= Larger(SparseMax, SparseSize(createHLLObject.ops))
         /\ \A j \in DOMAIN d[k].ops :
              LET op == d[k].ops[j]
              IN  op.len \in 1 .. (CASE op.t = "zero" -> ZeroMax [] op.t = "xzero" -> XzeroMax
                                     [] op.t = "val" -> ValLen)
    ELSE d[k].bytes \in [1 .. DenseBytes + 1 -> 0 .. 255]

\* Whatever the encoding and however it was split, merged or promoted, the
\* value holds for each register the longest pattern added to it, directly
\* or through PFMERGE, and its opcodes cover exactly the registers
\* (hllSparseSet, hllSparseToDense, hllDenseSet, pfmergeCommand).
RegistersRight ==
  \A k \in Keys :
    IF db[k] = None THEN regs[k] = Zeroes
    ELSE /\ db[k].enc = "sparse" => Covered(db[k].ops) = Registers
         /\ hllMerge(Zeroes, db[k]) = regs[k]

\* PFCOUNT answers the estimate of the registers as they are: a cached
\* cardinality is never older than the last change, and the three ways to
\* compute the histogram agree (pfcountCommand, HLL_INVALIDATE_CACHE).
CountRight == count # None => count.card = hllRawRegHisto(count.of)

\* The replica, which only sees the commands that made the dataset dirty,
\* holds the same bytes: same encoding, same opcodes, same cached
\* cardinality ("we need to propagate the change", hyperloglog.c:1299).
HllReplicaSame == rep = db
=============================================================================
