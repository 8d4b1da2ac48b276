---------------------------- MODULE MCStructures ----------------------------
(***************************************************************************)
(* Instances of the modules of Redis' data structures and of the types     *)
(* built from them.  A behaviour picks one part and stays with it; the     *)
(* variables of the part are v1 to v7, in the order of its module.         *)
(***************************************************************************)
EXTENDS Integers, Sequences, FiniteSets

CONSTANTS
  elem1, elem2, elem3, elem4, longElem, \* elements, fields and a consumer group
  Inf, None

VARIABLES part, v1, v2, v3, v4, v5, v6, v7

ListCommands == {"push", "pop", "rpoplpush", "lindex", "lset", "linsert", "lrange", "ltrim", "lrem"}

BitField(offset, sign, bits) == [offset |-> offset, sign |-> sign, bits |-> bits]
BitFields == {BitField(0, TRUE, 2), BitField(1, TRUE, 3), BitField(3, FALSE, 3)}

\* RedisDict: a SCAN and a safe iterator while the table is resized; keys 1
\* and 9 collide.
Scan == INSTANCE RedisDict WITH d <- v1, canResize <- v2, members <- v3, scan <- v4, iter <- v5,
  Key <- {0, 1, 3}, Hash <- [k \in {0, 1, 3} |-> k], Bits <- 4, InitialSize <- 1, ForceRatio <- 1,
  MinFill <- 40, EmptyVisits <- 2, Readers <- {"scan"}

Iterator == INSTANCE RedisDict WITH d <- v1, canResize <- v2, members <- v3, scan <- v4, iter <- v5,
  Key <- {0, 1, 9}, Hash <- [k \in {0, 1, 9} |-> k % 8], Bits <- 4, InitialSize <- 1,
  ForceRatio <- 1, MinFill <- 40, EmptyVisits <- 2, Readers <- {"iterator"}

\* Lists: every command on plain nodes, and compressed inner nodes.
List == INSTANCE Quicklist WITH ql <- v1, list <- v2, answer <- v3,
  Values <- {1, 2}, Fill <- 2, NodeBytes <- 3, Depth <- 0, MinCompress <- 1, MaxEntries <- 4,
  MaxIndex <- 2, CommandNames <- ListCommands

Compressed == INSTANCE Quicklist WITH ql <- v1, list <- v2, answer <- v3,
  Values <- {1, 2}, Fill <- 2, NodeBytes <- 4, Depth <- 1, MinCompress <- 1, MaxEntries <- 6,
  MaxIndex <- 2, CommandNames <- {"push", "pop", "rpoplpush", "ltrim", "lset"}

\* Ziplists whose entries are around the size at which the previous length
\* grows.
Zip == INSTANCE Ziplist WITH zl <- v1, items <- v2, answer <- v3,
  Strs <- {247, 300}, Ints <- {5}, Uint16Max <- 3, Places <- 2, MaxEntries <- 4, MaxSecond <- 1,
  MaxBytes <- 1400

\* Streams: consumer groups, blocked readers, trimming and rewriting, plain
\* reads.
ConsumerGroups == INSTANCE Streams WITH st <- v1, rep <- v2, now <- v3, blocked <- v4, kept <- v5, seen <- v6, reply <- v7,
  Groups <- {elem3}, Consumers <- {1, 2}, NodeMax <- 2, SeqWidth <- 2, MaxCount <- 1,
  MaxMs <- 1, MaxLen <- 2, MaxTime <- 1, MaxBlocked <- 0,
  CommandNames <- {"xadd", "create", "setid", "xreadgroup", "xclaim", "delconsumer", "xdel",
                   "history", "reload", "lastid"}

BlockedReaders == INSTANCE Streams WITH st <- v1, rep <- v2, now <- v3, blocked <- v4, kept <- v5, seen <- v6, reply <- v7,
  Groups <- {elem3}, Consumers <- {1, 2}, NodeMax <- 2, SeqWidth <- 2, MaxCount <- 1,
  MaxMs <- 1, MaxLen <- 2, MaxTime <- 1, MaxBlocked <- 1,
  CommandNames <- {"xadd", "create", "xreadgroup", "xack", "destroy"}

Trim == INSTANCE Streams WITH st <- v1, rep <- v2, now <- v3, blocked <- v4, kept <- v5, seen <- v6, reply <- v7,
  Groups <- {elem3}, Consumers <- {1, 2}, NodeMax <- 2, SeqWidth <- 2, MaxCount <- 1,
  MaxMs <- 2, MaxLen <- 3, MaxTime <- 2, MaxBlocked <- 0,
  CommandNames <- {"xadd", "maxlen", "xtrim", "xdel", "reload"}

SetIds == INSTANCE Streams WITH st <- v1, rep <- v2, now <- v3, blocked <- v4, kept <- v5, seen <- v6, reply <- v7,
  Groups <- {elem3}, Consumers <- {1, 2}, NodeMax <- 2, SeqWidth <- 2, MaxCount <- 1,
  MaxMs <- 1, MaxLen <- 2, MaxTime <- 1, MaxBlocked <- 0,
  CommandNames <- {"xadd", "xsetid", "reload"}

PlainReads == INSTANCE Streams WITH st <- v1, rep <- v2, now <- v3, blocked <- v4, kept <- v5, seen <- v6, reply <- v7,
  Groups <- {elem3}, Consumers <- {1, 2}, NodeMax <- 2, SeqWidth <- 2, MaxCount <- 1,
  MaxMs <- 1, MaxLen <- 2, MaxTime <- 1, MaxBlocked <- 1,
  CommandNames <- {"xadd", "xread", "del"}

\* Sorted sets: around the conversion to a skiplist, and with infinite
\* scores.
Zset == INSTANCE SortedSets WITH zset <- v1, score <- v2,
  N <- 3, LongElems <- {3}, Scores <- {0, 1}, Weights <- {1}, MaxEntries <- 2, MaxLevel <- 2,
  Plain <- {1}, MaxScore <- 1, Inf <- 100,
  CommandNames <- {"zadd", "zrem", "zremrange", "zremrangebyrank", "zpop"}

ZsetStores == INSTANCE SortedSets WITH zset <- v1, score <- v2,
  N <- 2, LongElems <- {2}, Scores <- {-100, 0, 100}, Weights <- {1, -2}, MaxEntries <- 1,
  MaxLevel <- 2, Plain <- {1, 2}, MaxScore <- 1, Inf <- 100,
  CommandNames <- {"zadd", "zadd2", "zrem", "zremrange", "zremrangebyrank", "zpop", "zstore"}

\* Sets of integers of every width and a string.
Set == INSTANCE Sets WITH db <- v1, rep <- v2,
  Keys <- {1, 2}, Ints <- {-1, 0, 2}, Strs <- {elem1}, Limit16 <- 1, Limit32 <- 2, MaxIntset <- 2,
  MoveMul <- 1, SubMul <- 2, MaxSize <- 4,
  CommandNames <- {"sadd", "srem", "smove", "store", "spopcount", "spop"}

\* Hashes around the conversion to a hash table and the limits of integers.
Hash == INSTANCE Hashes WITH hash <- v1, fields <- v2, rep <- v3, repExists <- v4,
  Fields <- {elem2, elem3, elem4}, Strs <- {elem1, longElem}, Long <- {longElem}, LongNum <- 100, MaxEntries <- 2,
  LLMax <- 4, Increments <- {-4, 2}, FloatIncrements <- {-1, 1}, MaxNum <- 6, Inf <- Inf

\* Radix trees whose keys share prefixes.
Tree == INSTANCE Rax WITH rax <- v1, map <- v2,
  Strings <- {<<>>, <<1>>, <<1, 1, 1>>, <<1, 1, 2>>, <<1, 2, 1>>, <<2, 1, 1>>},
  Probes <- {<<>>, <<1>>, <<2>>, <<3>>, <<1, 1>>, <<1, 2>>, <<1, 3>>, <<1, 1, 1>>, <<1, 1, 3>>,
             <<2, 0>>, <<2, 1, 1>>, <<2, 1, 2>>, <<2, 1, 1, 1>>},
  Data <- {elem1, elem2}, Null <- elem2, MaxNode <- 10

\* HyperLogLogs: sparse runs and their promotion, and merges.
Sparse == INSTANCE HyperLogLog WITH db <- v1, rep <- v2, regs <- v3, count <- v4,
  Keys <- {1}, Hashes <- {8, 9, 17, 10, 18, 12, 37}, P <- 3, Q <- 3, ValMax <- 2, ValLen <- 3,
  ZeroMax <- 2, XzeroMax <- 8, SparseMax <- 6, MaxAdded <- 1

Merge == INSTANCE HyperLogLog WITH db <- v1, rep <- v2, regs <- v3, count <- v4,
  Keys <- {1, 2}, Hashes <- {4, 5, 9}, P <- 2, Q <- 3, ValMax <- 2, ValLen <- 2,
  ZeroMax <- 1, XzeroMax <- 4, SparseMax <- 4, MaxAdded <- 1

\* Bitmaps: fields that overlap and overflow, operations on two strings, and
\* counts and positions in one.
Bitfield == INSTANCE Bitops WITH db <- v1, bits <- v2, answer <- v3,
  Keys <- {1}, ByteBits <- 2, WordBytes <- 2, FastWords <- 1, PopStep <- 3, PopMod <- 8, MaxBytes <- 4,
  BitOffsets <- {3}, Fields <- BitFields, SetValues <- {-4, 3, 7},
  Increments <- {-8, -3, 7}, MaxOps <- 1, CommandNames <- {"setbit", "bitfield"}

Bitop == INSTANCE Bitops WITH db <- v1, bits <- v2, answer <- v3,
  Keys <- {1, 2}, ByteBits <- 2, WordBytes <- 2, FastWords <- 1, PopStep <- 3, PopMod <- 8, MaxBytes <- 4,
  BitOffsets <- {1, 5}, Fields <- BitFields, SetValues <- {1}, Increments <- {2}, MaxOps <- 1,
  CommandNames <- {"setbit", "bitop"}

Bitpos == INSTANCE Bitops WITH db <- v1, bits <- v2, answer <- v3,
  Keys <- {1}, ByteBits <- 2, WordBytes <- 2, FastWords <- 1, PopStep <- 3, PopMod <- 8, MaxBytes <- 4,
  BitOffsets <- {1, 4, 5}, Fields <- BitFields, SetValues <- {1}, Increments <- {2}, MaxOps <- 1,
  CommandNames <- {"setbit", "bitop"}

\* The last n variables are not used.
Unused(n) ==
  /\ n >= 5 => v3 = None
  /\ n >= 4 => v4 = None
  /\ n >= 3 => v5 = None
  /\ n >= 2 => v6 = None
  /\ n >= 1 => v7 = None

PartsInit ==
  \/ part = "scan" /\ Scan!Init /\ Unused(2)
  \/ part = "iterator" /\ Iterator!Init /\ Unused(2)
  \/ part = "list" /\ List!Init /\ Unused(4)
  \/ part = "compressed" /\ Compressed!Init /\ Unused(4)
  \/ part = "ziplist" /\ Zip!Init /\ Unused(4)
  \/ part = "groups" /\ ConsumerGroups!Init
  \/ part = "readers" /\ BlockedReaders!Init
  \/ part = "trim" /\ Trim!Init
  \/ part = "ids" /\ SetIds!Init
  \/ part = "reads" /\ PlainReads!Init
  \/ part = "zset" /\ Zset!Init /\ Unused(5)
  \/ part = "zset stores" /\ ZsetStores!Init /\ Unused(5)
  \/ part = "set" /\ Set!Init /\ Unused(5)
  \/ part = "hash" /\ Hash!Init /\ Unused(3)
  \/ part = "rax" /\ Tree!Init /\ Unused(5)
  \/ part = "sparse" /\ Sparse!Init /\ Unused(3)
  \/ part = "merge" /\ Merge!Init /\ Unused(3)
  \/ part = "bitfield" /\ Bitfield!Init /\ Unused(4)
  \/ part = "bitop" /\ Bitop!Init /\ Unused(4)
  \/ part = "bitpos" /\ Bitpos!Init /\ Unused(4)

PartsNext ==
  \/ part = "scan" /\ Scan!Next /\ UNCHANGED <<part, v6, v7>>
  \/ part = "iterator" /\ Iterator!Next /\ UNCHANGED <<part, v6, v7>>
  \/ part = "list" /\ List!Next /\ UNCHANGED <<part, v4, v5, v6, v7>>
  \/ part = "compressed" /\ Compressed!Next /\ UNCHANGED <<part, v4, v5, v6, v7>>
  \/ part = "ziplist" /\ Zip!Next /\ UNCHANGED <<part, v4, v5, v6, v7>>
  \/ part = "groups" /\ ConsumerGroups!Next /\ UNCHANGED <<part>>
  \/ part = "readers" /\ BlockedReaders!Next /\ UNCHANGED <<part>>
  \/ part = "trim" /\ Trim!Next /\ UNCHANGED <<part>>
  \/ part = "ids" /\ SetIds!Next /\ UNCHANGED <<part>>
  \/ part = "reads" /\ PlainReads!Next /\ UNCHANGED <<part>>
  \/ part = "zset" /\ Zset!Next /\ UNCHANGED <<part, v3, v4, v5, v6, v7>>
  \/ part = "zset stores" /\ ZsetStores!Next /\ UNCHANGED <<part, v3, v4, v5, v6, v7>>
  \/ part = "set" /\ Set!Next /\ UNCHANGED <<part, v3, v4, v5, v6, v7>>
  \/ part = "hash" /\ Hash!Next /\ UNCHANGED <<part, v5, v6, v7>>
  \/ part = "rax" /\ Tree!Next /\ UNCHANGED <<part, v3, v4, v5, v6, v7>>
  \/ part = "sparse" /\ Sparse!Next /\ UNCHANGED <<part, v5, v6, v7>>
  \/ part = "merge" /\ Merge!Next /\ UNCHANGED <<part, v5, v6, v7>>
  \/ part = "bitfield" /\ Bitfield!Next /\ UNCHANGED <<part, v4, v5, v6, v7>>
  \/ part = "bitop" /\ Bitop!Next /\ UNCHANGED <<part, v4, v5, v6, v7>>
  \/ part = "bitpos" /\ Bitpos!Next /\ UNCHANGED <<part, v4, v5, v6, v7>>

PartsSpec == PartsInit /\ [][PartsNext]_<<part, v1, v2, v3, v4, v5, v6, v7>>

-----------------------------------------------------------------------------
\* The chains, spans, counts, encodings and lists of pending entries inside a
\* structure agree with each other after every edit: EditsRaw of Quicklist,
\* ChainRight of Ziplist, PelConsistent of Streams, SkiplistRight of
\* SortedSets, IntsetRight of Sets.
LayoutRight ==
  /\ part = "compressed" => Compressed!EditsRaw
  /\ part = "ziplist" => Zip!ChainRight
  /\ part = "groups" => ConsumerGroups!PelConsistent
  /\ part = "readers" => BlockedReaders!PelConsistent
  /\ part = "zset" => Zset!SkiplistRight
  /\ part = "zset stores" => ZsetStores!SkiplistRight
  /\ part = "set" => Set!IntsetRight

\* A structure holds exactly what the commands so far put there, whatever its
\* encoding: HoldsMembers of RedisDict, ListRight of Quicklist, EntriesRight
\* and RewriteKeeps of Streams, HoldsScores of SortedSets, HashRight of Hashes,
\* TreeRight of Rax, RegistersRight of HyperLogLog, BitsRight of Bitops.
HoldsContents ==
  /\ part = "scan" => Scan!HoldsMembers
  /\ part = "iterator" => Iterator!HoldsMembers
  /\ part = "list" => List!ListRight
  /\ part = "compressed" => Compressed!ListRight
  /\ part = "groups" => ConsumerGroups!EntriesRight
  /\ part = "trim" => Trim!EntriesRight /\ Trim!RewriteKeeps
  /\ part = "ids" => SetIds!EntriesRight /\ SetIds!RewriteKeeps
  /\ part = "zset" => Zset!HoldsScores
  /\ part = "zset stores" => ZsetStores!HoldsScores
  /\ part = "hash" => Hash!HashRight
  /\ part = "rax" => Tree!TreeRight
  /\ part = "sparse" => Sparse!RegistersRight
  /\ part = "merge" => Merge!RegistersRight
  /\ part = "bitfield" => Bitfield!BitsRight
  /\ part = "bitop" => Bitop!BitsRight
  /\ part = "bitpos" => Bitpos!BitsRight

\* Queries answer what the contents say: ReadsRight of Ziplist, of Sets and of
\* Bitops, PlainReadsRight of Streams, QueriesRight of SortedSets, CountRight of
\* HyperLogLog, FieldsRight of Bitops.
ReadsRight ==
  /\ part = "ziplist" => Zip!ReadsRight
  /\ part = "reads" => PlainReads!PlainReadsRight
  /\ part = "zset" => Zset!QueriesRight
  /\ part = "zset stores" => ZsetStores!QueriesRight
  /\ part = "set" => Set!ReadsRight
  /\ part = "sparse" => Sparse!CountRight
  /\ part = "merge" => Merge!CountRight
  /\ part = "bitfield" => Bitfield!FieldsRight
  /\ part = "bitpos" => Bitpos!ReadsRight

\* A SCAN returns every element that stays for its whole duration, a safe
\* iterator every element once, a radix tree iterator the keys in order, and a
\* consumer group does not move past an entry that it has not handed out:
\* ScanComplete and SafeIteration of RedisDict, IterationRight of Rax,
\* NothingSkipped of Streams.
IterationRight ==
  /\ part = "scan" => Scan!ScanComplete
  /\ part = "iterator" => Iterator!SafeIteration
  /\ part = "rax" => Tree!IterationRight
  /\ part = "groups" => ConsumerGroups!NothingSkipped
  /\ part = "readers" => BlockedReaders!NothingSkipped

\* What is sent to a replica rebuilds the value: ReplicaSame of Streams and of
\* Sets, ReplicaHashSame of Hashes, HllReplicaSame of HyperLogLog.
ReplicaSame ==
  /\ part = "groups" => ConsumerGroups!ReplicaSame
  /\ part = "readers" => BlockedReaders!ReplicaSame
  /\ part = "trim" => Trim!ReplicaSame
  /\ part = "set" => Set!ReplicaSame
  /\ part = "hash" => Hash!ReplicaHashSame
  /\ part = "sparse" => Sparse!HllReplicaSame
  /\ part = "merge" => Merge!HllReplicaSame
=============================================================================
