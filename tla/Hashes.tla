------------------------------- MODULE Hashes -------------------------------
(***************************************************************************)
(* A hash of redis (t_hash.c): a ziplist of fields and values, or a        *)
(* dictionary once it is long or holds something long.  A value is one of  *)
(* Strs, or a number counted in halves, whose text is an integer when it   *)
(* is even.  A replica receives what each command propagates.              *)
(***************************************************************************)
EXTENDS Integers, Sequences, FiniteSets, FiniteSetsExt, SequencesExt, TLC

CONSTANTS Fields, Strs,
          Long,          \* fields and strings longer than hash-max-ziplist-value
          LongNum,       \* numbers of at least this magnitude are as long
          MaxEntries,    \* hash-max-ziplist-entries
          LLMax,         \* LLONG_MAX, in halves and even; LLONG_MIN is -LLMax - 2
          Increments,    \* of HINCRBY
          FloatIncrements, \* of HINCRBYFLOAT; Inf may be one
          MaxNum,        \* bound on the magnitude of floats
          Inf,
          None

VARIABLES hash,     \* the object, None when the key does not exist
          fields,   \* the value each field should have
          rep,      \* the value each field has on a replica
          repExists \* the replica has the key

vars == <<hash, fields, rep, repExists>>

IsNum(v) == v \notin Strs \cup Fields

Abs(n) == IF n < 0 THEN -n ELSE n

TooLong(v) == v \in Long \/ (IsNum(v) /\ (IsNum(v) => Abs(v) >= LongNum))

-----------------------------------------------------------------------------
(* The hash type                                                            *)

Ziplist(zl) == [enc |-> "ziplist", zl |-> zl]

Dict(d) == [enc |-> "ht", dict |-> d]

\* the place of a field: fields are the odd entries, ziplistFind skips the values
zlFind(zl, f) ==
  LET at == {i \in DOMAIN zl : i % 2 = 1 /\ zl[i] = f}
  IN IF at = {} THEN 0 ELSE Min(at)

hashTypeLength(o) == IF o.enc = "ziplist" THEN Len(o.zl) \div 2 ELSE Cardinality(DOMAIN o.dict)

hashTypeGetValue(o, f) ==
  IF o.enc = "ziplist" THEN IF zlFind(o.zl, f) = 0 THEN None ELSE o.zl[zlFind(o.zl, f) + 1]
  ELSE IF f \in DOMAIN o.dict THEN o.dict[f] ELSE None

hashTypeExists(o, f) == hashTypeGetValue(o, f) # None

\* the fields and values an iterator visits, in its order
Pairs(o) ==
  IF o.enc = "ziplist" THEN [i \in 1 .. hashTypeLength(o) |-> <<o.zl[2 * i - 1], o.zl[2 * i]>>]
  ELSE LET s == SetToSeq(DOMAIN o.dict) IN [i \in DOMAIN s |-> <<s[i], o.dict[s[i]]>>]

hashTypeConvert(o) ==
  LET p == Pairs(o)
  IN Dict([f \in {p[i][1] : i \in DOMAIN p} |-> (CHOOSE x \in ToSet(p) : x[1] = f)[2]])

hashTypeTryConversion(o, args) ==
  IF o.enc = "ziplist" /\ \E v \in args : TooLong(v) THEN hashTypeConvert(o) ELSE o

\* the value after the field is deleted, and the new one inserted where it was
Overwrite(zl, i, v) == InsertAt(RemoveAt(zl, i), i, v)

TooMany(o) == hashTypeLength(o) > MaxEntries

hashTypeSet(o, f, v) ==
  LET i == zlFind(o.zl, f)
      zl == Ziplist(IF i # 0 THEN Overwrite(o.zl, i + 1, v) ELSE o.zl \o <<f, v>>)
  IN IF o.enc = "ht" THEN Dict((f :> v) @@ o.dict)
     ELSE IF TooMany(zl) THEN hashTypeConvert(zl) ELSE zl

hashTypeDelete(o, f) ==
  LET i == zlFind(o.zl, f)
  IN IF o.enc = "ht" THEN Dict([g \in DOMAIN o.dict \ {f} |-> o.dict[g]])
     ELSE IF i = 0 THEN o ELSE Ziplist(RemoveAt(RemoveAt(o.zl, i), i))

-----------------------------------------------------------------------------
(* Commands                                                                 *)

\* hashTypeLookupWriteOrCreate: a missing key is added, empty
LookupOrCreate == IF hash = None THEN Ziplist(<<>>) ELSE hash

Assign(f, v) == fields' = (f :> v) @@ fields

\* the HSET a replica is sent
Propagate(f, v) == rep' = (f :> v) @@ rep /\ repExists' = TRUE

Quiet == UNCHANGED <<fields, rep, repExists>>

hsetCommand(f, v, g, w) ==
  LET o == hashTypeTryConversion(LookupOrCreate, {f, v, g, w})
  IN /\ hash' = hashTypeSet(hashTypeSet(o, f, v), g, w)
     /\ fields' = (g :> w) @@ (f :> v) @@ fields
     /\ rep' = (g :> w) @@ (f :> v) @@ rep
     /\ repExists' = TRUE

\* the length of the arguments may convert the hash even when the field exists
hsetnxCommand(f, v) ==
  LET o == hashTypeTryConversion(LookupOrCreate, {f, v})
  IN IF hashTypeExists(o, f) THEN hash' = o /\ Quiet
     ELSE hash' = hashTypeSet(o, f, v) /\ Assign(f, v) /\ Propagate(f, v)

Old(f) == IF hashTypeExists(LookupOrCreate, f) THEN hashTypeGetValue(LookupOrCreate, f) ELSE 0

IsInt(v) == IsNum(v) /\ (IsNum(v) => v % 2 = 0 /\ v >= -LLMax - 2 /\ v <= LLMax)

Overflows(old, incr) ==
  \/ incr < 0 /\ old < 0 /\ incr < (-LLMax - 2) - old
  \/ incr > 0 /\ old > 0 /\ incr > LLMax - old

\* a sum of long longs
Wrap(n) ==
  LET m == 2 * (LLMax + 2) IN ((n + LLMax + 2) % m) - (LLMax + 2)

hincrbyCommand(f, incr) ==
  IF ~IsInt(Old(f)) \/ (IsInt(Old(f)) => Overflows(Old(f), incr)) THEN hash' = LookupOrCreate /\ Quiet
  ELSE /\ hash' = hashTypeSet(LookupOrCreate, f, Wrap(Old(f) + incr))
       /\ Assign(f, Old(f) + incr)
       /\ Propagate(f, Wrap(Old(f) + incr))

\* an increment may be infinite, as strtold accepts it; the sum may not
hincrbyfloatCommand(f, incr) ==
  IF ~IsNum(Old(f)) \/ incr = Inf THEN hash' = LookupOrCreate /\ Quiet
  ELSE /\ Abs(Old(f) + incr) <= MaxNum
       /\ hash' = hashTypeSet(LookupOrCreate, f, Old(f) + incr)
       /\ Assign(f, Old(f) + incr)
       /\ Propagate(f, Old(f) + incr)

Kept(o) == IF hashTypeLength(o) = 0 THEN None ELSE o

hdelCommand(f) ==
  /\ hash # None
  /\ hash # None => hashTypeExists(hash, f)
  /\ hash' = Kept(hashTypeDelete(hash, f))
  /\ fields' = [g \in DOMAIN fields \ {f} |-> fields[g]]
  /\ rep' = [g \in DOMAIN rep \ {f} |-> rep[g]]
  /\ repExists' = (DOMAIN rep \ {f} # {})

Init == hash = None /\ fields = <<>> /\ rep = <<>> /\ repExists = FALSE

Values == Strs \cup {0, 1}

Next ==
  \/ \E f, g \in Fields, v, w \in Values : hsetCommand(f, v, g, w)
  \/ \E f \in Fields, v \in Values : hsetnxCommand(f, v)
  \/ \E f \in Fields, incr \in Increments : hincrbyCommand(f, incr)
  \/ \E f \in Fields, incr \in FloatIncrements : hincrbyfloatCommand(f, incr)
  \/ \E f \in Fields : hdelCommand(f)

Spec == Init /\ [][Next]_vars

-----------------------------------------------------------------------------
(* Properties                                                               *)

\* A hash is a ziplist of an even number of entries or a dictionary.
TypeOK ==
  /\ DOMAIN fields \subseteq Fields
  /\ hash # None => IF hash.enc = "ziplist" THEN Len(hash.zl) % 2 = 0 ELSE DOMAIN hash.dict \subseteq Fields

\* Through updates, deletions and conversions the hash gives each field the last value set or
\* summed into it and no field twice, a ziplist never has more than hash-max-ziplist-entries
\* fields, and HINCRBY never wraps around the range of a long long.
HashRight ==
  LET p == IF hash = None THEN <<>> ELSE Pairs(hash)
  IN /\ ToSet(p) = {<<f, fields[f]>> : f \in DOMAIN fields}
     /\ Len(p) = Cardinality(DOMAIN fields)
     /\ hash # None => (hash.enc = "ziplist" => hashTypeLength(hash) <= MaxEntries)

\* The replica has the key exactly when the master has it, with the same fields and values,
\* increments of floats included.
ReplicaHashSame == rep = fields /\ repExists = (hash # None)

\* A ziplist holds nothing longer than hash-max-ziplist-value.
ZiplistShort ==
  (hash # None /\ (hash # None => hash.enc = "ziplist")) => \A i \in DOMAIN hash.zl : ~TooLong(hash.zl[i])
=============================================================================
