-------------------------- MODULE PersistenceProofs --------------------------
(***************************************************************************)
(* Proof that the counter of unsaved changes of a Redis server (dirty)     *)
(* covers the difference between the dataset and the RDB file, for any     *)
(* databases, save point, fsync policy and faults.                         *)
(*                                                                         *)
(* A background save takes the dataset of one moment while writes go on,   *)
(* and is subtracted from the counter when the parent hears of its end.    *)
(* The invariant therefore says more: while the child writes, the changes  *)
(* since its start (dirty - dirty_before_bgsave) cover what its snapshot   *)
(* lacks; from the rename of its file to the end of the child, they cover  *)
(* what the RDB file lacks.                                                *)
(***************************************************************************)
EXTENDS Persistence, FiniteSetTheorems, TLAPS

\* Most leaves are first-order reasoning; those that compute ask for SMT.
USE Zenon

-----------------------------------------------------------------------------
(* How far two datasets are apart.                                         *)

Delta(a, b) == (a \ b) \cup (b \ a)

LEMMA DeltaFinite == ASSUME NEW a, NEW b, IsFiniteSet(a), IsFiniteSet(b)
                     PROVE  IsFiniteSet(Delta(a, b)) /\ Cardinality(Delta(a, b)) \in Nat
<1>1. IsFiniteSet(a \cup b) BY FS_Union
<1>2. Delta(a, b) \subseteq a \cup b BY DEF Delta
<1>3. IsFiniteSet(Delta(a, b)) BY <1>1, <1>2, FS_Subset
<1> QED BY <1>3, FS_CardinalityType

LEMMA DeltaItself == ASSUME NEW a PROVE Cardinality(Delta(a, a)) = 0
<1>1. Delta(a, a) = {} BY DEF Delta
<1> QED BY <1>1, FS_EmptySet

\* A write moves the dataset by one.
LEMMA InvertMoves == ASSUME NEW a, NEW b, IsFiniteSet(a), IsFiniteSet(b), NEW n, NEW d
  PROVE  /\ IsFiniteSet(Invert(a, n, d))
         /\ Cardinality(Delta(Invert(a, n, d), b)) <= Cardinality(Delta(a, b)) + 1
<1> DEFINE e == <<n, d>>
           D == Delta(a, b)
           I == Invert(a, n, d)
<1>1. I \subseteq a \cup {e} /\ Delta(I, b) \subseteq D \cup {e} BY DEF Invert, Delta
<1> HIDE DEF e, D, I
<1>2. IsFiniteSet(a \cup {e}) BY FS_AddElement
<1>3. IsFiniteSet(I) BY <1>1, <1>2, FS_Subset
<1>4. IsFiniteSet(D) /\ Cardinality(D) \in Nat BY DeltaFinite DEF D
<1>5. IsFiniteSet(D \cup {e}) /\ Cardinality(D \cup {e}) \in {Cardinality(D), Cardinality(D) + 1}
  BY <1>4, FS_AddElement
<1>6. IsFiniteSet(Delta(I, b)) /\ Cardinality(Delta(I, b)) <= Cardinality(D \cup {e})
  BY <1>1, <1>5, FS_Subset
<1>7. Cardinality(Delta(I, b)) \in Nat BY <1>6, FS_CardinalityType
<1> HIDE DEF Delta
<1>8. Cardinality(Delta(I, b)) <= Cardinality(D) + 1 BY <1>4, <1>5, <1>6, <1>7, SMT
<1> QED BY <1>3, <1>8 DEF I, D

\* FLUSHALL moves it by its size.
LEMMA FlushMoves == ASSUME NEW a, NEW b, IsFiniteSet(a), IsFiniteSet(b)
  PROVE  /\ Cardinality(a) \in Nat
         /\ Cardinality(Delta({}, b)) <= Cardinality(Delta(a, b)) + Cardinality(a)
<1> DEFINE D == Delta(a, b)
<1>1. Delta({}, b) = b /\ b \subseteq D \cup a BY DEF Delta
<1>2. IsFiniteSet(D) /\ Cardinality(D) \in Nat BY DeltaFinite
<1>3. Cardinality(a) \in Nat /\ Cardinality(b) \in Nat BY FS_CardinalityType
<1> HIDE DEF D
<1>4. IsFiniteSet(D \cap a) /\ Cardinality(D \cap a) \in Nat
  BY <1>2, FS_Intersection, FS_CardinalityType
<1>5. /\ IsFiniteSet(D \cup a)
      /\ Cardinality(D \cup a) = Cardinality(D) + Cardinality(a) - Cardinality(D \cap a)
  BY <1>2, FS_Union
<1>6. Cardinality(b) <= Cardinality(D \cup a) BY <1>1, <1>5, FS_Subset
<1>7. Cardinality(b) <= Cardinality(D) + Cardinality(a)
  BY <1>2, <1>3, <1>4, <1>5, <1>6, SMT
<1> QED BY <1>1, <1>3, <1>7 DEF D

-----------------------------------------------------------------------------
(* The record of the server.                                               *)

Fields == {"up", "refused", "mem", "acked", "state", "buf", "sel", "wstat", "postponed",
           "size", "fsoff", "base", "rsched", "rewbuf", "stop", "bio", "dirty", "before",
           "bstat", "bsched", "child", "faults", "harm", "file", "synced", "rdb"}
ChildFields == {"kind", "snap", "pc", "pipe", "diff", "temp"}

\* The fields the counter is about.
Core == {"up", "mem", "dirty", "before", "child", "rdb"}

IsServer(t) == t = [f \in Fields |-> t[f]]
IsChild(c) == c = [f \in ChildFields |-> c[f]]

Shaped(t) == IsServer(t) /\ IsChild(t.child)

\* The record r differs from t in the other fields only.
Alike(t, r) ==
  /\ IsServer(r)
  /\ r.up = t.up /\ r.mem = t.mem /\ r.dirty = t.dirty /\ r.before = t.before
  /\ r.child = t.child /\ r.rdb = t.rdb

LEMMA AlikeItself == ASSUME NEW t, Shaped(t) PROVE Alike(t, t)
BY DEF Shaped, Alike

LEMMA Touch == ASSUME NEW t, NEW r, Alike(t, r), NEW f \in Fields \ Core, NEW v
               PROVE  Alike(t, [r EXCEPT ![f] = v])
<1> DEFINE q == [r EXCEPT ![f] = v]
<1>1. IsServer(q) BY SMT DEF Alike, IsServer
<1>2. \A g \in Core : q[g] = r[g] BY SMT DEF Alike, IsServer, Fields, Core
<1> HIDE DEF q
<1>3. /\ q["up"] = r["up"] /\ q["mem"] = r["mem"] /\ q["dirty"] = r["dirty"]
      /\ q["before"] = r["before"] /\ q["child"] = r["child"] /\ q["rdb"] = r["rdb"]
  BY <1>2 DEF Core
<1>4. Alike(t, q) BY <1>1, <1>3 DEF Alike
<1> QED BY <1>4 DEF q

\* The core of a record.
Is(r, u, m, d, b, c, x) ==
  /\ IsServer(r) /\ r.up = u /\ r.mem = m /\ r.dirty = d /\ r.before = b
  /\ r.child = c /\ r.rdb = x

LEMMA IsItself == ASSUME NEW t, IsServer(t)
                  PROVE  Is(t, t.up, t.mem, t.dirty, t.before, t.child, t.rdb)
BY DEF Is

LEMMA Set_up ==
  ASSUME NEW r, NEW u, NEW m, NEW d, NEW b, NEW c, NEW x, Is(r, u, m, d, b, c, x), NEW v
  PROVE  Is([r EXCEPT !.up = v], v, m, d, b, c, x)
<1> DEFINE q == [r EXCEPT !.up = v]
<1>1. IsServer(q) /\ q.up = v BY SMT DEF Is, IsServer, Fields
<1>2. /\ q.mem = r.mem /\ q.dirty = r.dirty /\ q.before = r.before
      /\ q.child = r.child /\ q.rdb = r.rdb
  BY SMT DEF Is, IsServer, Fields
<1> QED BY <1>1, <1>2 DEF Is

LEMMA Set_mem ==
  ASSUME NEW r, NEW u, NEW m, NEW d, NEW b, NEW c, NEW x, Is(r, u, m, d, b, c, x), NEW v
  PROVE  Is([r EXCEPT !.mem = v], u, v, d, b, c, x)
<1> DEFINE q == [r EXCEPT !.mem = v]
<1>1. IsServer(q) /\ q.mem = v BY SMT DEF Is, IsServer, Fields
<1>2. /\ q.up = r.up /\ q.dirty = r.dirty /\ q.before = r.before
      /\ q.child = r.child /\ q.rdb = r.rdb
  BY SMT DEF Is, IsServer, Fields
<1> QED BY <1>1, <1>2 DEF Is

LEMMA Set_dirty ==
  ASSUME NEW r, NEW u, NEW m, NEW d, NEW b, NEW c, NEW x, Is(r, u, m, d, b, c, x), NEW v
  PROVE  Is([r EXCEPT !.dirty = v], u, m, v, b, c, x)
<1> DEFINE q == [r EXCEPT !.dirty = v]
<1>1. IsServer(q) /\ q.dirty = v BY SMT DEF Is, IsServer, Fields
<1>2. /\ q.up = r.up /\ q.mem = r.mem /\ q.before = r.before
      /\ q.child = r.child /\ q.rdb = r.rdb
  BY SMT DEF Is, IsServer, Fields
<1> QED BY <1>1, <1>2 DEF Is

LEMMA Set_before ==
  ASSUME NEW r, NEW u, NEW m, NEW d, NEW b, NEW c, NEW x, Is(r, u, m, d, b, c, x), NEW v
  PROVE  Is([r EXCEPT !.before = v], u, m, d, v, c, x)
<1> DEFINE q == [r EXCEPT !.before = v]
<1>1. IsServer(q) /\ q.before = v BY SMT DEF Is, IsServer, Fields
<1>2. /\ q.up = r.up /\ q.mem = r.mem /\ q.dirty = r.dirty
      /\ q.child = r.child /\ q.rdb = r.rdb
  BY SMT DEF Is, IsServer, Fields
<1> QED BY <1>1, <1>2 DEF Is

LEMMA Set_child ==
  ASSUME NEW r, NEW u, NEW m, NEW d, NEW b, NEW c, NEW x, Is(r, u, m, d, b, c, x), NEW v
  PROVE  Is([r EXCEPT !.child = v], u, m, d, b, v, x)
<1> DEFINE q == [r EXCEPT !.child = v]
<1>1. IsServer(q) /\ q.child = v BY SMT DEF Is, IsServer, Fields
<1>2. /\ q.up = r.up /\ q.mem = r.mem /\ q.dirty = r.dirty
      /\ q.before = r.before /\ q.rdb = r.rdb
  BY SMT DEF Is, IsServer, Fields
<1> QED BY <1>1, <1>2 DEF Is

LEMMA Set_rdb ==
  ASSUME NEW r, NEW u, NEW m, NEW d, NEW b, NEW c, NEW x, Is(r, u, m, d, b, c, x), NEW v
  PROVE  Is([r EXCEPT !.rdb = v], u, m, d, b, c, v)
<1> DEFINE q == [r EXCEPT !.rdb = v]
<1>1. IsServer(q) /\ q.rdb = v BY SMT DEF Is, IsServer, Fields
<1>2. /\ q.up = r.up /\ q.mem = r.mem /\ q.dirty = r.dirty
      /\ q.before = r.before /\ q.child = r.child
  BY SMT DEF Is, IsServer, Fields
<1> QED BY <1>1, <1>2 DEF Is

LEMMA Set_other ==
  ASSUME NEW r, NEW u, NEW m, NEW d, NEW b, NEW c, NEW x, Is(r, u, m, d, b, c, x),
         NEW f \in Fields \ Core, NEW v
  PROVE  Is([r EXCEPT ![f] = v], u, m, d, b, c, x)
<1>1. Alike(r, r) BY DEF Alike, Is
<1>2. Alike(r, [r EXCEPT ![f] = v]) BY <1>1, Touch
<1> QED BY <1>2 DEF Alike, Is

LEMMA OtherNames ==
  /\ "refused" \in Fields \ Core /\ "acked" \in Fields \ Core /\ "state" \in Fields \ Core
  /\ "buf" \in Fields \ Core /\ "sel" \in Fields \ Core /\ "wstat" \in Fields \ Core
  /\ "postponed" \in Fields \ Core /\ "size" \in Fields \ Core /\ "fsoff" \in Fields \ Core
  /\ "base" \in Fields \ Core /\ "rsched" \in Fields \ Core /\ "rewbuf" \in Fields \ Core
  /\ "stop" \in Fields \ Core /\ "bio" \in Fields \ Core /\ "bstat" \in Fields \ Core
  /\ "bsched" \in Fields \ Core /\ "faults" \in Fields \ Core /\ "file" \in Fields \ Core
  /\ "synced" \in Fields \ Core /\ "harm" \in Fields \ Core
BY SMT DEF Fields, Core

-----------------------------------------------------------------------------
(* The inductive invariant, of one record.                                 *)

\* What a child that saves still has to account for.
Saving(t) ==
  /\ IsFiniteSet(t.child.snap) /\ t.before \in Nat /\ t.before <= t.dirty
  /\ t.child.pc = "dump" => Cardinality(Delta(t.mem, t.child.snap)) <= t.dirty - t.before
  /\ t.child.pc = "exit0" => Cardinality(Delta(t.mem, t.rdb)) <= t.dirty - t.before

Counted(t) ==
  /\ IsFiniteSet(t.mem) /\ t.dirty \in Nat
  /\ Cardinality(Delta(t.mem, t.rdb)) <= t.dirty
  /\ t.child.kind = "rdb" => Saving(t)

\* A server that is down has only its disk.
Covered(t) ==
  /\ Shaped(t) /\ IsFiniteSet(t.rdb)
  /\ t.up => Counted(t)
  /\ ~ t.up => t.dirty = 0 /\ t.child.kind # "rdb"

LEMMA AlikeCovered == ASSUME NEW t, NEW r, Covered(t), Alike(t, r) PROVE Covered(r)
<1>1. Shaped(r) BY DEF Covered, Alike, Shaped
<1>2. r.up => Counted(r)
  <2>1. Counted(t) <=> Counted(r) BY DEF Counted, Saving, Alike
  <2> QED BY <2>1 DEF Covered, Alike
<1> QED BY <1>1, <1>2 DEF Covered, Alike

LEMMA CoveredShaped == ASSUME NEW t, Covered(t) PROVE Shaped(t) /\ Alike(t, t)
BY AlikeItself DEF Covered

\* One other field changes.
LEMMA CoveredTouch == ASSUME NEW t, Covered(t), NEW f \in Fields \ Core, NEW v
                      PROVE  Covered([t EXCEPT ![f] = v])
BY AlikeCovered, CoveredShaped, Touch

\* A new child that does not save, on a server that is up.
LEMMA OtherChild ==
  ASSUME NEW t, Covered(t), NEW c, IsChild(c), c.kind # "rdb"
  PROVE  Covered([t EXCEPT !.child = c])
<1> DEFINE r == [t EXCEPT !.child = c]
<1>1. /\ IsServer(r) /\ r.child = c
      /\ r.up = t.up /\ r.mem = t.mem /\ r.dirty = t.dirty /\ r.rdb = t.rdb
  BY SMT DEF Covered, Shaped, IsServer, Fields
<1> HIDE DEF r
<1>2. Covered(r) BY <1>1 DEF Covered, Shaped, Counted
<1> QED BY <1>2 DEF r

ChildRow(a, b, c, d, e, g) ==
  [kind |-> a, snap |-> b, pc |-> c, pipe |-> d, diff |-> e, temp |-> g]

LEMMA SixFields == ASSUME NEW a, NEW b, NEW c, NEW d, NEW e, NEW g
  PROVE  IsChild(ChildRow(a, b, c, d, e, g))
BY SMT DEF ChildFields, ChildRow, IsChild

LEMMA NoChildShape ==
  /\ IsChild(NoChild)
  /\ NoChild.kind = None
<1>1. NoChild = ChildRow(None, {}, "none", <<>>, <<>>, <<>>) BY DEF NoChild, ChildRow
<1>2. NoChild.kind = None BY SMT DEF NoChild
<1> QED BY <1>1, <1>2, SixFields

Row(a, b, c, d, e, g, h, i, j, k, l, m, n, o, p, q, r, t, u, v, w, x, y, z, aa, bb) ==
  [up |-> a, refused |-> b, mem |-> c, acked |-> d, state |-> e, buf |-> g,
   sel |-> h, wstat |-> i, postponed |-> j, size |-> k, fsoff |-> l, base |-> m,
   rsched |-> n, rewbuf |-> o, stop |-> p, bio |-> q, dirty |-> r, before |-> t,
   bstat |-> u, bsched |-> v, child |-> w, faults |-> x, harm |-> y, file |-> z,
   synced |-> aa, rdb |-> bb]

LEMMA AllFields ==
  ASSUME NEW a, NEW b, NEW c, NEW d, NEW e, NEW g, NEW h, NEW i, NEW j, NEW k, NEW l, NEW m,
         NEW n, NEW o, NEW p, NEW q, NEW r, NEW t, NEW u, NEW v, NEW w, NEW x, NEW y, NEW z, NEW aa,
         NEW bb
  PROVE  IsServer(Row(a, b, c, d, e, g, h, i, j, k, l, m, n, o, p, q, r, t, u, v, w, x, y, z, aa, bb))
BY SMT DEF Fields, Row, IsServer

\* A crash leaves the RDB file.
LEMMA DownCovered == ASSUME None # "rdb", NEW t, IsFiniteSet(t.rdb) PROVE Covered(Down(t))
<1> DEFINE r == Down(t)
<1>1. IsServer(r)
  <2>1. r = Row(FALSE, FALSE, {}, t.acked, "off", <<>>, None, "ok", FALSE, 0, 0, 0,
                FALSE, <<>>, FALSE, <<>>, 0, 0, "ok", FALSE, NoChild, t.faults, t.harm,
                t.file, t.synced, t.rdb)
    BY DEF Down, Row
  <2> HIDE DEF r
  <2> QED BY <2>1, AllFields
<1>2. ~ r.up BY SMT DEF Down
<1>3. r.dirty = 0 /\ r.child = NoChild /\ r.rdb = t.rdb BY SMT DEF Down
<1> HIDE DEF r
<1>4. Covered(r) BY <1>1, <1>2, <1>3, NoChildShape DEF Covered, Shaped
<1> QED BY <1>4 DEF r

-----------------------------------------------------------------------------
(* The append only file leaves the counter alone.                          *)

LEMMA FaultyAlike == ASSUME NEW t, Shaped(t) PROVE Alike(t, Faulty(t))
BY Touch, AlikeItself, OtherNames DEF Faulty

LEMMA FaultyCovered == ASSUME NEW t, Covered(t) PROVE Covered(Faulty(t))
BY FaultyAlike, AlikeCovered, CoveredShaped

LEMMA FeedAlike == ASSUME NEW t, Shaped(t), NEW d, NEW i
                   PROVE  Alike(t, feedAppendOnlyFile(t, d, i))
<1> DEFINE items == Bytes((IF t.sel = d THEN <<>> ELSE <<Item("select", d)>>) \o <<i>>)
           r == [t EXCEPT !.sel = d, !.buf = IF t.state = "on" THEN @ \o items ELSE @]
<1>1. Alike(t, r) BY Touch, AlikeItself, OtherNames
<1>2. feedAppendOnlyFile(t, d, i) \in {t, aofRewriteBufferAppend(r, items), r}
  BY ZenonT(60) DEF feedAppendOnlyFile
<1> HIDE DEF items, r
<1>3. Alike(t, aofRewriteBufferAppend(r, items))
  BY <1>1, Touch, OtherNames DEF aofRewriteBufferAppend
<1> QED BY <1>1, <1>2, <1>3, AlikeItself

LEMMA FeedCovered == ASSUME NEW t, Covered(t), NEW d, NEW i
                     PROVE  Covered(feedAppendOnlyFile(t, d, i))
BY FeedAlike, AlikeCovered, CoveredShaped

LEMMA TryFsyncCovered == ASSUME NEW t, Covered(t), NEW e PROVE Covered(TryFsync(t, e))
<1>1. \A a, b : /\ Alike(t, [t EXCEPT !.synced = a, !.fsoff = b])
                /\ Alike(t, [t EXCEPT !.bio = a, !.fsoff = b])
  BY CoveredShaped, Touch, OtherNames
<1>2. Alike(t, TryFsync(t, e)) BY <1>1, CoveredShaped DEF TryFsync
<1> QED BY <1>2, AlikeCovered

LEMMA FullWriteCovered == ASSUME NEW t, Covered(t) PROVE Covered(FullWrite(t))
<1>1. Alike(t, FullWrite(t)) BY CoveredShaped, Touch, OtherNames DEF FullWrite
<1> QED BY <1>1, AlikeCovered

LEMMA ShortWriteCovered == ASSUME None # "rdb", NEW t, Covered(t), NEW j, NEW cut
                           PROVE  Covered(ShortWrite(t, j, cut))
<1> DEFINE R(a) == [t EXCEPT !.file = a, !.postponed = FALSE]
           Q(a, b, c) == [R(a) EXCEPT !.wstat = "err", !.size = b, !.buf = c]
<1>1. \A a : Alike(t, R(a)) BY CoveredShaped, Touch, OtherNames
<1>2. \A a : Covered(R(a)) BY <1>1, AlikeCovered
<1>3. \A a : Covered(Down(R(a))) BY <1>2, DownCovered DEF Covered
<1> HIDE DEF R
<1>4. \A a, b, c : Alike(t, Q(a, b, c)) BY <1>1, Touch, OtherNames
<1>5. \A a, b, c : Covered(Q(a, b, c)) BY <1>4, AlikeCovered
<1>6. \/ \E a : ShortWrite(t, j, cut) = Down(R(a))
      \/ \E a, b, c : ShortWrite(t, j, cut) = Q(a, b, c)
  BY DEF ShortWrite, R
<1> HIDE DEF Q
<1> QED BY <1>3, <1>5, <1>6

LEMMA ShortWritesCovered == ASSUME None # "rdb", NEW t, Covered(t)
                            PROVE  \A r \in ShortWrites(t) : Covered(r)
<1> SUFFICES ASSUME NEW r \in ShortWrites(t) PROVE Covered(r) OBVIOUS
<1> DEFINE q == [t EXCEPT !.wstat = "err", !.postponed = FALSE]
<1>1. Alike(t, q) BY CoveredShaped, Touch, OtherNames
<1>2. Covered(q) BY <1>1, AlikeCovered
<1>3. r = q \/ \E j, cut : r = ShortWrite(Faulty(t), j, cut) BY DEF ShortWrites
<1> HIDE DEF q
<1> QED BY <1>2, <1>3, FaultyCovered, ShortWriteCovered

LEMMA FlushCovered == ASSUME None # "rdb", NEW t, Covered(t), NEW force
                      PROVE  \A r \in flushAppendOnlyFile(t, force) : Covered(r)
<1> SUFFICES ASSUME NEW r \in flushAppendOnlyFile(t, force) PROVE Covered(r) OBVIOUS
<1> DEFINE q == [t EXCEPT !.postponed = TRUE]
<1>1. Covered(q) BY CoveredTouch, OtherNames
<1>2. \/ r = t \/ r = q \/ r = TryFsync(t, TRUE) \/ r \in ShortWrites(t)
      \/ \E e : r = TryFsync(FullWrite(t), e)
  BY DEF flushAppendOnlyFile
<1> HIDE DEF q
<1> QED BY <1>1, <1>2, ShortWritesCovered, TryFsyncCovered, FullWriteCovered

-----------------------------------------------------------------------------
(* The children.                                                           *)

\* A child that saves the same dataset and got no further, or has failed.
LEMMA FailedChild ==
  ASSUME NEW t, Covered(t), NEW c, IsChild(c), c.kind = t.child.kind, c.snap = t.child.snap,
         c.pc = "dump" => t.child.pc = "dump", c.pc = "exit0" => t.child.pc = "exit0"
  PROVE  Covered([t EXCEPT !.child = c]) /\ [t EXCEPT !.child = c].up = t.up
<1> DEFINE r == [t EXCEPT !.child = c]
<1>1. /\ IsServer(r) /\ r.child = c /\ r.before = t.before
      /\ r.up = t.up /\ r.mem = t.mem /\ r.dirty = t.dirty /\ r.rdb = t.rdb
  BY SMT DEF Covered, Shaped, IsServer, Fields
<1> HIDE DEF r
<1>2. Counted(t) => Counted(r) BY <1>1 DEF Counted, Saving
<1>3. Covered(r) BY <1>1, <1>2 DEF Covered, Shaped
<1> QED BY <1>1, <1>3 DEF r

\* One field of a child changes.
LEMMA Child_kind == ASSUME NEW c, IsChild(c), NEW v
  PROVE  IsChild([c EXCEPT !.kind = v]) /\ [c EXCEPT !.kind = v].kind = v
BY SMT DEF IsChild, ChildFields

LEMMA Child_snap == ASSUME NEW c, IsChild(c), NEW v
  PROVE  IsChild([c EXCEPT !.snap = v]) /\ [c EXCEPT !.snap = v].kind = c.kind /\ [c EXCEPT !.snap = v].snap = v
BY SMT DEF IsChild, ChildFields

LEMMA Child_pc == ASSUME NEW c, IsChild(c), NEW v
  PROVE  /\ IsChild([c EXCEPT !.pc = v]) /\ [c EXCEPT !.pc = v].pc = v
         /\ [c EXCEPT !.pc = v].kind = c.kind /\ [c EXCEPT !.pc = v].snap = c.snap
BY SMT DEF IsChild, ChildFields

LEMMA Child_pipe == ASSUME NEW c, IsChild(c), NEW v
  PROVE  /\ IsChild([c EXCEPT !.pipe = v]) /\ [c EXCEPT !.pipe = v].pc = c.pc
         /\ [c EXCEPT !.pipe = v].kind = c.kind /\ [c EXCEPT !.pipe = v].snap = c.snap
BY SMT DEF IsChild, ChildFields

LEMMA Child_diff == ASSUME NEW c, IsChild(c), NEW v
  PROVE  /\ IsChild([c EXCEPT !.diff = v]) /\ [c EXCEPT !.diff = v].pc = c.pc
         /\ [c EXCEPT !.diff = v].kind = c.kind /\ [c EXCEPT !.diff = v].snap = c.snap
BY SMT DEF IsChild, ChildFields

LEMMA Child_temp == ASSUME NEW c, IsChild(c), NEW v
  PROVE  /\ IsChild([c EXCEPT !.temp = v]) /\ [c EXCEPT !.temp = v].pc = c.pc
         /\ [c EXCEPT !.temp = v].kind = c.kind /\ [c EXCEPT !.temp = v].snap = c.snap
BY SMT DEF IsChild, ChildFields

\* SIGUSR1.
LEMMA KillCovered == ASSUME NEW t, Covered(t)
  PROVE  Covered([t EXCEPT !.child = Kill(t.child)]) /\ [t EXCEPT !.child = Kill(t.child)].up = t.up
<1> DEFINE c == Kill(t.child)
<1>1. IsChild(t.child) BY DEF Covered, Shaped
<1>2. IsChild(c) /\ c.kind = t.child.kind /\ c.snap = t.child.snap
  <2> DEFINE k == [t.child EXCEPT !.pc = "usr1"]
  <2>1. c \in {t.child, k} BY DEF Kill
  <2>2. IsChild(k) /\ k.kind = t.child.kind /\ k.snap = t.child.snap BY <1>1, Child_pc
  <2> HIDE DEF c, k
  <2> QED BY <1>1, <2>1, <2>2
<1>3. (c.pc = "dump" => t.child.pc = "dump") /\ (c.pc = "exit0" => t.child.pc = "exit0")
  <2>1. [t.child EXCEPT !.pc = "usr1"].pc = "usr1" BY <1>1, Child_pc
  <2>2. "usr1" # "dump" /\ "usr1" # "exit0" BY SMT
  <2> QED BY <2>1, <2>2 DEF Kill
<1> HIDE DEF c
<1>4. Covered([t EXCEPT !.child = c]) /\ [t EXCEPT !.child = c].up = t.up
  BY <1>2, <1>3, FailedChild
<1> QED BY <1>4 DEF c

\* The child is gone.
LEMMA NoChildCovered == ASSUME None # "rdb", NEW t, Covered(t)
                        PROVE  Covered([t EXCEPT !.child = NoChild])
BY NoChildShape, OtherChild

LEMMA KillAppendOnlyCovered == ASSUME None # "rdb", NEW t, Covered(t)
                               PROVE  Covered(killAppendOnlyChild(t))
<1>1. Covered(aofRewriteBufferReset(t)) BY CoveredTouch, OtherNames DEF aofRewriteBufferReset
<1>2. Covered(aofClosePipes(aofRewriteBufferReset(t))) BY <1>1, NoChildCovered DEF aofClosePipes
<1> QED BY <1>2 DEF killAppendOnlyChild

\* A new child, which takes the dataset of this moment.
Fresh(c, k, m) == IsChild(c) /\ c.kind = k /\ c.snap = m /\ c.pc = "dump"

LEMMA NewChild == ASSUME NEW k, NEW m
  PROVE  Fresh([NoChild EXCEPT !.kind = k, !.snap = m, !.pc = "dump"], k, m)
<1> DEFINE a == [NoChild EXCEPT !.kind = k]
           b == [a EXCEPT !.snap = m]
           c == [b EXCEPT !.pc = "dump"]
<1>1. IsChild(a) /\ a.kind = k BY NoChildShape, Child_kind
<1> HIDE DEF a
<1>2. IsChild(b) /\ b.kind = k /\ b.snap = m BY <1>1, Child_snap
<1> HIDE DEF b
<1>3. IsChild(c) /\ c.kind = k /\ c.snap = m /\ c.pc = "dump" BY <1>2, Child_pc
<1> QED BY <1>3 DEF Fresh, a, b

LEMMA RewriteCovered ==
  ASSUME None # "rdb", NEW t, Covered(t), NEW r \in rewriteAppendOnlyFileBackground(t)
  PROVE  Covered(r) /\ r.up = t.up
<1> DEFINE p == aofCreatePipes(t)
           c == [NoChild EXCEPT !.kind = "aof", !.snap = t.mem, !.pc = "dump"]
           q == [p EXCEPT !.child = c]
           z == [p EXCEPT !.child = c, !.rsched = FALSE, !.sel = None]
<1>1. r \in {t, z, Faulty(t)} BY DEF rewriteAppendOnlyFileBackground
<1>2. Covered(p) /\ p.up = t.up
  <2> DEFINE a == [t EXCEPT !.stop = FALSE]
             d == [a.child EXCEPT !.pipe = <<>>]
  <2>1. p = [a EXCEPT !.child = d] BY DEF aofCreatePipes
  <2>2. Alike(t, a) BY CoveredShaped, Touch, OtherNames
  <2>3. Covered(a) /\ a.up = t.up BY <2>2, AlikeCovered DEF Alike
  <2> HIDE DEF p, a
  <2>4. IsChild(a.child) BY <2>3 DEF Covered, Shaped
  <2>5. IsChild(d) /\ d.kind = a.child.kind /\ d.snap = a.child.snap /\ d.pc = a.child.pc
    BY <2>4, Child_pipe
  <2> HIDE DEF d
  <2> QED BY <2>1, <2>3, <2>5, FailedChild
<1>3. Fresh(c, "aof", t.mem) BY NewChild
<1> HIDE DEF p, c
<1>4. Covered(q)
  <2>1. "aof" # "rdb" BY SMT
  <2> QED BY <1>2, <1>3, <2>1, OtherChild DEF Fresh
<1>5. q.up = t.up
  <2>1. q.up = p.up BY <1>2, SMT DEF Covered, Shaped, IsServer, Fields
  <2> QED BY <1>2, <2>1
<1>6. Alike(q, z)
  <2> HIDE DEF q
  <2>1. Alike(q, [q EXCEPT !.rsched = FALSE, !.sel = None])
    BY <1>4, CoveredShaped, Touch, OtherNames
  <2> QED BY <2>1 DEF q
<1> HIDE DEF q, z
<1>7. Covered(z) /\ z.up = t.up BY <1>4, <1>5, <1>6, AlikeCovered DEF Alike
<1>8. Covered(Faulty(t)) /\ Faulty(t).up = t.up
  BY FaultyCovered, FaultyAlike, CoveredShaped DEF Alike
<1> QED BY <1>1, <1>7, <1>8

-----------------------------------------------------------------------------
(* The snapshots.                                                          *)

\* A save of this process, while no child saves.
LEMMA SaveCovered == ASSUME NEW t, Covered(t), t.up, t.child.kind # "rdb", NEW r \in rdbSave(t)
                     PROVE  Covered(r)
<1> DEFINE q == [t EXCEPT !.rdb = t.mem, !.dirty = 0, !.bstat = "ok"]
<1>1. r = q \/ r = Faulty(t) BY DEF rdbSave
<1>2. Is(q, t.up, t.mem, 0, t.before, t.child, t.mem)
  BY IsItself, Set_rdb, Set_dirty, Set_other, OtherNames, ZenonT(60) DEF Covered, Shaped
<1> HIDE DEF q
<1>3. 0 \in Nat /\ 0 <= 0 BY SMT
<1>4. Counted(q) BY <1>2, <1>3, DeltaItself DEF Covered, Counted, Is
<1>5. Covered(q) BY <1>2, <1>4 DEF Covered, Counted, Shaped, Is
<1> QED BY <1>1, <1>5, FaultyCovered

LEMMA SaveBackgroundCovered ==
  ASSUME None # "rdb", NEW t, Covered(t), t.up, NEW r \in rdbSaveBackground(t)
  PROVE  Covered(r)
<1>1. CASE HasChild(t)
  <2>1. r = t BY <1>1 DEF rdbSaveBackground
  <2> QED BY <2>1
<1>2. CASE ~ HasChild(t)
  <2> DEFINE b == [t EXCEPT !.before = t.dirty]
             c == [NoChild EXCEPT !.kind = "rdb", !.snap = t.mem, !.pc = "dump"]
             q == [b EXCEPT !.child = c]
             z == Faulty([b EXCEPT !.bstat = "err"])
  <2>1. r = q \/ r = z BY <1>2 DEF rdbSaveBackground
  <2>2. t.child.kind # "rdb" BY <1>2 DEF HasChild
  <2>3. /\ IsServer(b) /\ b.child = t.child /\ b.up = t.up /\ b.mem = t.mem
        /\ b.dirty = t.dirty /\ b.rdb = t.rdb /\ b.before = t.dirty
    BY SMT DEF Covered, Shaped, IsServer, Fields
  <2> HIDE DEF b
  <2>4. Covered(b) BY <2>2, <2>3 DEF Covered, Shaped, Counted
  <2>5. Covered([b EXCEPT !.bstat = "err"]) BY <2>4, CoveredTouch, OtherNames
  <2>6. Covered(z) BY <2>5, FaultyCovered
  <2>7. Fresh(c, "rdb", t.mem) BY NewChild
  <2> HIDE DEF c, z
  <2>8. Is(q, t.up, t.mem, t.dirty, t.dirty, c, t.rdb)
    <3>1. Is(b, t.up, t.mem, t.dirty, t.dirty, t.child, t.rdb) BY <2>3 DEF Is
    <3> QED BY <3>1, Set_child
  <2> HIDE DEF q
  <2>9. t.dirty \in Nat /\ t.dirty <= t.dirty /\ t.dirty - t.dirty = 0 /\ 0 <= 0
    BY SMT DEF Covered, Counted
  <2>10. "dump" # "exit0" BY SMT
  <2>11. Saving(q)
    <3>1. Cardinality(Delta(t.mem, t.mem)) <= t.dirty - t.dirty BY <2>9, DeltaItself
    <3> QED BY <2>7, <2>8, <2>9, <2>10, <3>1 DEF Fresh, Saving, Covered, Counted, Is
  <2>12. Covered(q) BY <2>7, <2>8, <2>11 DEF Fresh, Covered, Shaped, Counted, Is
  <2> QED BY <2>1, <2>6, <2>12
<1> QED BY <1>1, <1>2

\* The child renames its file: what the changes since its start covered of its
\* snapshot they now cover of the RDB file.
LEMMA RenameCovered ==
  ASSUME NEW t, Covered(t), t.up, t.child.kind = "rdb", t.child.pc = "dump"
  PROVE  Covered([t EXCEPT !.rdb = t.child.snap, !.child.pc = "exit0"])
<1> DEFINE c == [t.child EXCEPT !.pc = "exit0"]
           r == [t EXCEPT !.rdb = t.child.snap, !.child = c]
<1>1. IsChild(c) /\ c.kind = t.child.kind /\ c.snap = t.child.snap /\ c.pc = "exit0"
  BY Child_pc, ZenonT(60) DEF Covered, Shaped
<1> HIDE DEF c
<1>2. Is(r, t.up, t.mem, t.dirty, t.before, c, t.child.snap)
  BY IsItself, Set_rdb, Set_child, ZenonT(60) DEF Covered, Shaped
<1>3. Counted(t) /\ Saving(t) BY DEF Covered, Counted
<1> DEFINE n == Cardinality(Delta(t.mem, t.child.snap))
<1>4. n \in Nat BY <1>3, DeltaFinite DEF Counted, Saving
<1>5. /\ t.before \in Nat /\ t.dirty \in Nat /\ t.before <= t.dirty
      /\ n <= t.dirty - t.before
  BY <1>3 DEF Counted, Saving
<1> HIDE DEF r, n
<1>6. n <= t.dirty BY <1>4, <1>5, SMT
<1>7. "exit0" # "dump" BY SMT
<1>8. Saving(r) BY <1>1, <1>2, <1>3, <1>5, <1>7 DEF Saving, n, Is
<1>9. Counted(r) BY <1>2, <1>3, <1>6, <1>8 DEF Counted, n, Is
<1>10. Covered(r) BY <1>1, <1>2, <1>3, <1>9 DEF Covered, Shaped, Saving, Is
<1> QED BY <1>10 DEF r, c

\* The parent hears of the end of the child and takes what was saved off the counter.
LEMMA SaveDoneCovered ==
  ASSUME None # "rdb", NEW t, Covered(t), t.up, t.child.kind = "rdb"
  PROVE  Covered(backgroundSaveDoneHandlerDisk(t))
<1> DEFINE d == IF t.child.pc = "exit0" THEN t.dirty - t.before ELSE t.dirty
           b == CASE t.child.pc = "exit0" -> "ok" [] t.child.pc = "exit1" -> "err"
                  [] t.child.pc = "usr1" -> t.bstat
           r == [t EXCEPT !.dirty = d, !.bstat = b, !.child = NoChild]
<1>1. backgroundSaveDoneHandlerDisk(t) = r BY DEF backgroundSaveDoneHandlerDisk
<1> DEFINE n == Cardinality(Delta(t.mem, t.rdb))
<1>2. Counted(t) /\ Saving(t) BY DEF Covered, Counted
<1>3. /\ t.before \in Nat /\ t.dirty \in Nat /\ t.before <= t.dirty /\ n <= t.dirty
      /\ t.child.pc = "exit0" => n <= t.dirty - t.before
  BY <1>2 DEF Counted, Saving
<1> HIDE DEF n
<1>4. d \in Nat /\ n <= d BY <1>3, SMT
<1> HIDE DEF d, b
<1>5. Is(r, t.up, t.mem, d, t.before, NoChild, t.rdb)
  BY IsItself, Set_dirty, Set_other, Set_child, OtherNames, ZenonT(60) DEF Covered, Shaped
<1> HIDE DEF r
<1>6. Counted(r) BY <1>2, <1>4, <1>5, NoChildShape DEF Counted, n, Is
<1>7. Covered(r) BY <1>5, <1>6, NoChildShape DEF Covered, Shaped, Is
<1> QED BY <1>1, <1>7

\* FLUSHALL: the child that saved the old dataset is gone, unless its file is
\* already in place, and the counter grows by more than the dataset held.
LEMMA KillEnds == ASSUME NEW c, IsChild(c)
  PROVE  /\ IsChild(Kill(c)) /\ Kill(c).kind = c.kind /\ Kill(c).snap = c.snap
         /\ Kill(c).pc # "dump" /\ (Kill(c).pc = "exit0" => c.pc = "exit0")
<1> DEFINE k == [c EXCEPT !.pc = "usr1"]
<1>1. IsChild(k) /\ k.kind = c.kind /\ k.snap = c.snap /\ k.pc = "usr1" BY Child_pc
<1> HIDE DEF k
<1>2. Kill(c) = IF c.pc \in {"dump", "asked", "acked"} THEN k ELSE c BY DEF Kill, k
<1>3. "usr1" # "dump" /\ "usr1" # "exit0" BY SMT
<1> QED BY <1>1, <1>2, <1>3

LEMMA FlushAllCovered == ASSUME NEW t, Covered(t), t.up, NEW z \in flushallCommand(t)
                         PROVE  Covered(z)
<1> DEFINE n == Cardinality(t.mem)
           c == IF t.child.kind = "rdb" THEN Kill(t.child) ELSE t.child
           r == [t EXCEPT !.mem = {}, !.dirty = t.dirty + n, !.child = c]
<1>1. \E q \in rdbSave(r) \cup {r} : z = [q EXCEPT !.dirty = r.dirty + 1]
  BY DEF flushallCommand
<1>2. Counted(t) /\ Shaped(t) /\ IsFiniteSet(t.rdb) BY DEF Covered
<1> HIDE DEF n
<1>3. /\ IsChild(c) /\ c.kind = t.child.kind /\ c.snap = t.child.snap
      /\ c.kind = "rdb" => c.pc # "dump" /\ (c.pc = "exit0" => t.child.pc = "exit0")
  BY <1>2, KillEnds DEF Shaped
<1> HIDE DEF c
<1> DEFINE d == t.dirty + n
<1>4. Is(r, t.up, {}, d, t.before, c, t.rdb)
  BY <1>2, IsItself, Set_mem, Set_dirty, Set_child, ZenonT(60) DEF Shaped
<1> HIDE DEF r, d
<1>5. \E x \in {t.rdb, {}} : Is(z, t.up, {}, d + 1, t.before, c, x)
  <2>1. PICK q \in rdbSave(r) \cup {r} : z = [q EXCEPT !.dirty = r.dirty + 1] BY <1>1
  <2> DEFINE w == [r EXCEPT !.rdb = r.mem, !.dirty = 0, !.bstat = "ok"]
  <2>2. q = r \/ q = w \/ q = Faulty(r) BY <2>1 DEF rdbSave
  <2>3. Is(w, t.up, {}, 0, t.before, c, {})
    <3>1. r.mem = {} BY <1>4 DEF Is
    <3> QED BY <1>4, <3>1, Set_rdb, Set_dirty, Set_other, OtherNames, ZenonT(60)
  <2>4. Is(Faulty(r), t.up, {}, d, t.before, c, t.rdb)
    BY <1>4, Set_other, OtherNames DEF Faulty
  <2>5. r.dirty = d BY <1>4 DEF Is
  <2> HIDE DEF w
  <2>6. \E x \in {t.rdb, {}} : \E e : Is(q, t.up, {}, e, t.before, c, x)
    BY <1>4, <2>2, <2>3, <2>4
  <2> QED BY <2>1, <2>5, <2>6, Set_dirty
<1>6. PICK x \in {t.rdb, {}} : Is(z, t.up, {}, d + 1, t.before, c, x) BY <1>5
<1> DEFINE a == Cardinality(Delta(t.mem, t.rdb))
           b == Cardinality(Delta({}, x))
<1>7. a \in Nat /\ a <= t.dirty /\ t.dirty \in Nat BY <1>2, DeltaFinite DEF Counted
<1>8. IsFiniteSet({}) /\ IsFiniteSet(x) BY <1>2, <1>6, FS_EmptySet
<1>9. n \in Nat /\ b \in Nat /\ b <= a + n
  <2>1. n \in Nat /\ Cardinality(Delta({}, t.rdb)) <= a + n
    BY <1>2, FlushMoves DEF Counted, n
  <2>2. Cardinality(Delta({}, {})) = 0 BY DeltaItself
  <2>3. 0 <= a + n BY <1>7, <2>1, SMT
  <2>4. b \in Nat BY <1>8, DeltaFinite
  <2> QED BY <1>6, <2>1, <2>2, <2>3, <2>4
<1> HIDE DEF a, b
<1>10. d + 1 \in Nat /\ b <= d + 1 BY <1>7, <1>9, SMT DEF d
<1>11. ASSUME c.kind = "rdb" PROVE Saving(z)
  <2>1. Saving(t) BY <1>2, <1>3, <1>11 DEF Counted
  <2>2. /\ t.before \in Nat /\ t.before <= t.dirty
        /\ (t.child.pc = "exit0" => a <= t.dirty - t.before)
    BY <2>1 DEF Saving, a
  <2>3. t.before <= d + 1 BY <1>7, <1>9, <2>2, SMT DEF d
  <2>4. t.child.pc = "exit0" => b <= (d + 1) - t.before
    <3> SUFFICES ASSUME t.child.pc = "exit0" PROVE b <= (d + 1) - t.before OBVIOUS
    <3>1. a <= t.dirty - t.before BY <2>2
    <3> QED BY <1>7, <1>9, <2>2, <3>1, SMT DEF d
  <2>5. IsFiniteSet(c.snap) BY <1>3, <2>1 DEF Saving
  <2>6. z.child = c /\ z.before = t.before /\ z.dirty = d + 1 /\ z.mem = {} /\ z.rdb = x
    BY <1>6 DEF Is
  <2>7. c.pc # "dump" BY <1>3, <1>11
  <2>8. c.pc = "exit0" => b <= (d + 1) - t.before BY <1>3, <1>11, <2>4
  <2>9. z.child.pc = "exit0" => Cardinality(Delta(z.mem, z.rdb)) <= z.dirty - z.before
    BY <2>6, <2>8 DEF b
  <2> QED BY <2>2, <2>3, <2>5, <2>6, <2>7, <2>9 DEF Saving
<1>12. Counted(z) BY <1>6, <1>8, <1>10, <1>11 DEF Counted, Is, b
<1> QED BY <1>3, <1>6, <1>8, <1>12 DEF Covered, Shaped, Is

-----------------------------------------------------------------------------
(* serverCron, CONFIG SET appendonly and SHUTDOWN.                          *)

LEMMA CleanupCovered == ASSUME None # "rdb", NEW t, Covered(t) PROVE Covered(RewriteCleanup(t))
<1> DEFINE a == aofClosePipes(t)
           b == aofRewriteBufferReset(a)
<1>1. Covered(a) BY NoChildCovered DEF aofClosePipes
<1> HIDE DEF a
<1>2. Covered(b) BY <1>1, CoveredTouch, OtherNames DEF aofRewriteBufferReset
<1>3. \E v : RewriteCleanup(t) = [b EXCEPT !.rsched = v] BY DEF RewriteCleanup, a
<1> HIDE DEF b
<1>4. \A v : Covered([b EXCEPT !.rsched = v]) BY <1>2, CoveredTouch, OtherNames
<1> QED BY <1>3, <1>4

LEMMA SwitchCovered == ASSUME NEW t, Covered(t), NEW data PROVE Covered(SwitchFile(t, data))
<1>1. Alike(t, [t EXCEPT !.file = data, !.synced = Len(t.child.temp)])
  BY CoveredShaped, Touch, OtherNames
<1>2. \A a, b : Alike(t, [t EXCEPT !.file = data, !.synced = a, !.bio = b, !.sel = None,
                                   !.size = Len(data), !.base = Len(data), !.fsoff = Len(data),
                                   !.buf = <<>>, !.state = "on"])
  BY CoveredShaped, Touch, OtherNames
<1>3. Alike(t, SwitchFile(t, data)) BY <1>1, <1>2 DEF SwitchFile
<1> QED BY <1>3, AlikeCovered

LEMMA RewriteDoneCovered ==
  ASSUME None # "rdb", NEW t, Covered(t), NEW r \in backgroundRewriteDoneHandler(t)
  PROVE  Covered(r)
<1> DEFINE data == t.child.temp \o t.rewbuf
           D(j) == [Faulty(t) EXCEPT !.file = SubSeq(data, 1, j), !.synced = j,
                                       !.harm = @ \cup {"switch"}]
<1>1. \/ r = RewriteCleanup(t) \/ r = RewriteCleanup(SwitchFile(t, data))
      \/ r = RewriteCleanup(Faulty(t)) \/ \E j : r = Down(D(j))
  BY DEF backgroundRewriteDoneHandler
<1>2. Covered(Faulty(t)) BY FaultyCovered
<1> HIDE DEF data
<1>3. \A j : Alike(Faulty(t), D(j)) BY <1>2, CoveredShaped, Touch, OtherNames
<1>4. \A j : Covered(D(j)) BY <1>2, <1>3, AlikeCovered
<1> HIDE DEF D
<1>5. \A j : Covered(Down(D(j))) BY <1>4, DownCovered DEF Covered
<1> QED BY <1>1, <1>2, <1>5, CleanupCovered, SwitchCovered

LEMMA ReapCovered == ASSUME None # "rdb", NEW t, Covered(t), t.up, NEW r \in ReapChild(t)
                     PROVE  Covered(r)
BY SaveDoneCovered, RewriteDoneCovered DEF ReapChild

LEMMA SavePointsCovered == ASSUME None # "rdb", NEW t, Covered(t), t.up, NEW r \in SavePoints(t)
                           PROVE  Covered(r)
<1>1. PICK q \in {t} \cup rdbSaveBackground(t) : r \in {q} \cup rewriteAppendOnlyFileBackground(q)
  BY DEF SavePoints
<1>2. Covered(q) BY <1>1, SaveBackgroundCovered
<1> QED BY <1>1, <1>2, RewriteCovered

LEMMA RetryCovered == ASSUME None # "rdb", NEW t, Covered(t), NEW r \in RetryFlush(t)
                      PROVE  Covered(r)
BY FlushCovered DEF RetryFlush

LEMMA BgsaveCovered == ASSUME None # "rdb", NEW t, Covered(t), NEW r \in ScheduledBgsave(t)
                       PROVE  Covered(r)
<1>1. CASE r = t BY <1>1
<1>2. CASE r # t
  <2>1. t.up /\ \E q \in rdbSaveBackground(t) : r = q \/ r = [q EXCEPT !.bsched = FALSE]
    BY <1>2 DEF ScheduledBgsave
  <2>2. PICK q \in rdbSaveBackground(t) : r = q \/ r = [q EXCEPT !.bsched = FALSE] BY <2>1
  <2>3. Covered(q) BY <2>1, SaveBackgroundCovered
  <2>4. Covered([q EXCEPT !.bsched = FALSE]) BY <2>3, CoveredTouch, OtherNames
  <2> QED BY <2>2, <2>3, <2>4
<1> QED BY <1>1, <1>2

LEMMA CronCovered == ASSUME None # "rdb", NEW t, Covered(t), t.up, NEW r \in serverCron(t)
                     PROVE  Covered(r)
<1>1. PICK p \in ScheduledRewrite(t) :
        r \in UNION {UNION {ScheduledBgsave(z) : z \in RetryFlush(q)}
                       : q \in IF HasChild(p) THEN ReapChild(p) ELSE SavePoints(p)}
  BY DEF serverCron
<1>2. PICK q \in ReapChild(p) \cup SavePoints(p) :
        r \in UNION {ScheduledBgsave(z) : z \in RetryFlush(q)}
  BY <1>1
<1>3. PICK z \in RetryFlush(q) : r \in ScheduledBgsave(z) BY <1>2
<1>4. Covered(p) /\ p.up BY <1>1, RewriteCovered DEF ScheduledRewrite
<1>5. Covered(q) BY <1>2, <1>4, ReapCovered, SavePointsCovered
<1>6. Covered(z) BY <1>3, <1>5, RetryCovered
<1> QED BY <1>3, <1>6, BgsaveCovered

LEMMA StopCovered == ASSUME None # "rdb", NEW t, Covered(t), NEW r \in stopAppendOnly(t)
                     PROVE  Covered(r)
<1>1. PICK q \in flushAppendOnlyFile(t, TRUE) :
        r = q \/ r = killAppendOnlyChild([q EXCEPT !.synced = Len(q.file), !.sel = None,
                                                   !.state = "off"])
  BY DEF stopAppendOnly
<1>2. Covered(q) BY <1>1, FlushCovered
<1>3. Alike(q, [q EXCEPT !.synced = Len(q.file), !.sel = None, !.state = "off"])
  BY <1>2, CoveredShaped, Touch, OtherNames
<1>4. Covered([q EXCEPT !.synced = Len(q.file), !.sel = None, !.state = "off"])
  BY <1>2, <1>3, AlikeCovered
<1> QED BY <1>1, <1>2, <1>4, KillAppendOnlyCovered

LEMMA StartCovered == ASSUME None # "rdb", NEW t, Covered(t), NEW r \in startAppendOnly(t)
                      PROVE  Covered(r)
<1> DEFINE a == [t EXCEPT !.state = "wait", !.rsched = TRUE]
<1>1. Alike(t, a) BY CoveredShaped, Touch, OtherNames
<1>2. Covered(a) BY <1>1, AlikeCovered
<1>3. \/ r = a
      \/ \E q \in rewriteAppendOnlyFileBackground(killAppendOnlyChild(t)) :
           r = q \/ r = [q EXCEPT !.state = "wait"]
  BY DEF startAppendOnly
<1> HIDE DEF a
<1>4. CASE r = a BY <1>2, <1>4
<1>5. ASSUME NEW q \in rewriteAppendOnlyFileBackground(killAppendOnlyChild(t)),
             r = q \/ r = [q EXCEPT !.state = "wait"]
      PROVE  Covered(r)
  <2>1. Covered(q) BY KillAppendOnlyCovered, RewriteCovered
  <2>2. Covered([q EXCEPT !.state = "wait"]) BY <2>1, CoveredTouch, OtherNames
  <2> QED BY <1>5, <2>1, <2>2
<1> QED BY <1>3, <1>4, <1>5

Saved(t, a, b, c) == [t EXCEPT !.rdb = a, !.dirty = b, !.bstat = c]

LEMMA SameFaults == ASSUME NEW t, IsServer(t), NEW a, NEW b, NEW c
                    PROVE  Saved(t, a, b, c).faults = t.faults
BY SMT DEF Saved, IsServer, Fields

\* A shutdown that is refused leaves the child killed and the counter as it was.
LEMMA ShutdownCovered ==
  ASSUME None # "rdb", NEW t, Covered(t), NEW save, NEW z \in prepareForShutdown(t, save)
  PROVE  Covered(z)
<1> DEFINE r == [t EXCEPT !.child = IF t.child.kind = "rdb" THEN Kill(t.child) ELSE t.child]
           a == [r EXCEPT !.child = IF r.child.kind = "aof" THEN Kill(r.child) ELSE r.child]
           P(q) == IF q.state = "off" THEN q ELSE [q EXCEPT !.synced = Len(q.file)]
           Ends(q) == IF ~q.up THEN {q}
                      ELSE IF save THEN {IF y.faults = P(q).faults THEN Down(y) ELSE y : y \in rdbSave(P(q))}
                      ELSE {Down(P(q))}
           Qs == IF r.state = "off" THEN {r} ELSE flushAppendOnlyFile(a, TRUE)
<1>1. z = r \/ \E q \in {r} \cup flushAppendOnlyFile(a, TRUE) : z \in Ends(q)
  <2>1. prepareForShutdown(t, save) =
          IF r.state = "wait" /\ r.child.kind = "aof" THEN {r} ELSE UNION {Ends(q) : q \in Qs}
    BY DEF prepareForShutdown
  <2>2. Qs \subseteq {r} \cup flushAppendOnlyFile(a, TRUE) OBVIOUS
  <2> HIDE DEF Qs, Ends, r, a
  <2> QED BY <2>1, <2>2
<1>2. \A x : Covered(x) => Covered([x EXCEPT !.child = x.child])
  <2> SUFFICES ASSUME NEW x, Covered(x) PROVE Covered([x EXCEPT !.child = x.child]) OBVIOUS
  <2>1. IsChild(x.child) BY DEF Covered, Shaped
  <2> QED BY <2>1, FailedChild
<1>3. Covered(r) BY <1>2, KillCovered
<1> HIDE DEF r
<1>4. Covered(a) BY <1>2, <1>3, KillCovered
<1> HIDE DEF a
<1>5. ASSUME NEW q, Covered(q), z \in Ends(q) PROVE Covered(z)
  <2>1. CASE ~ q.up BY <1>5, <2>1
  <2>2. CASE q.up
    <3> DEFINE p == P(q)
    <3>1. z = Down(p) \/ \E y \in rdbSave(p) : z = IF y.faults = p.faults THEN Down(y) ELSE y
      BY <1>5, <2>2
    <3>2. Alike(q, [q EXCEPT !.synced = Len(q.file)]) /\ Alike(q, q)
      BY <1>5, CoveredShaped, Touch, OtherNames
    <3>3. Alike(q, p) BY <3>2
    <3> HIDE DEF p, P, Ends
    <3>4. Covered(p) /\ p.up BY <1>5, <2>2, <3>3, AlikeCovered DEF Alike
    <3>5. IsServer(p) /\ IsFiniteSet(p.mem) /\ IsFiniteSet(p.rdb)
      BY <3>4 DEF Covered, Shaped, Counted
    <3>6. CASE z = Down(p) BY <3>5, <3>6, DownCovered
    <3>7. ASSUME NEW y \in rdbSave(p), z = IF y.faults = p.faults THEN Down(y) ELSE y
          PROVE  Covered(z)
      <4> DEFINE w == Saved(p, p.mem, 0, "ok")
      <4>1. y = w \/ y = Faulty(p) BY <3>7 DEF rdbSave, Saved
      <4>2. w.faults = p.faults BY <3>5, SameFaults, ZenonT(60)
      <4>3. Is(w, p.up, p.mem, 0, p.before, p.child, p.mem)
        BY <3>5, IsItself, Set_rdb, Set_dirty, Set_other, OtherNames DEF Saved
      <4> HIDE DEF w
      <4>4. Covered(Down(w)) BY <3>5, <4>3, DownCovered DEF Is
      <4>5. Covered(Faulty(p)) BY <3>4, FaultyCovered
      <4>6. Covered(Down(Faulty(p))) BY <4>5, DownCovered DEF Covered
      <4>7. CASE y = w BY <3>7, <4>2, <4>4, <4>7
      <4>8. CASE y = Faulty(p) BY <3>7, <4>5, <4>6, <4>8
      <4> QED BY <4>1, <4>7, <4>8
    <3> QED BY <3>1, <3>6, <3>7
  <2> QED BY <2>1, <2>2
<1> HIDE DEF Ends
<1> QED BY <1>1, <1>3, <1>4, <1>5, FlushCovered

-----------------------------------------------------------------------------
(* The steps.                                                              *)

\* One write.
LEMMA WrittenCovered ==
  ASSUME NEW t, Covered(t), t.up, NEW n, NEW d
  PROVE  LET r == [t EXCEPT !.mem = Invert(t.mem, n, d), !.dirty = t.dirty + 1]
         IN  Covered(r) /\ r.up = t.up
<1> DEFINE m == Invert(t.mem, n, d)
           r == [t EXCEPT !.mem = m, !.dirty = t.dirty + 1]
<1> SUFFICES Covered(r) /\ r.up = t.up OBVIOUS
<1>1. Counted(t) /\ Shaped(t) /\ IsFiniteSet(t.rdb) BY DEF Covered
<1>2. /\ IsFiniteSet(m)
      /\ Cardinality(Delta(m, t.rdb)) <= Cardinality(Delta(t.mem, t.rdb)) + 1
      /\ IsFiniteSet(t.child.snap) =>
           Cardinality(Delta(m, t.child.snap)) <= Cardinality(Delta(t.mem, t.child.snap)) + 1
  BY <1>1, InvertMoves DEF Counted
<1> HIDE DEF m
<1>3. Is(r, t.up, m, t.dirty + 1, t.before, t.child, t.rdb)
  BY <1>1, IsItself, Set_mem, Set_dirty DEF Shaped
<1> HIDE DEF r
<1> DEFINE a == Cardinality(Delta(t.mem, t.rdb))
           b == Cardinality(Delta(m, t.rdb))
<1>4. a \in Nat /\ b \in Nat BY <1>1, <1>2, DeltaFinite DEF Counted
<1>5. a <= t.dirty /\ t.dirty \in Nat /\ b <= a + 1 BY <1>1, <1>2 DEF Counted
<1>6. ASSUME t.child.kind = "rdb" PROVE Saving(r)
  <2>1. Saving(t) BY <1>1, <1>6 DEF Counted
  <2> DEFINE g == Cardinality(Delta(t.mem, t.child.snap))
             h == Cardinality(Delta(m, t.child.snap))
  <2>2. g \in Nat /\ h \in Nat BY <1>1, <1>2, <2>1, DeltaFinite DEF Counted, Saving
  <2>3. t.before \in Nat /\ t.before <= t.dirty BY <2>1 DEF Saving
  <2>4. t.child.pc = "dump" => g <= t.dirty - t.before BY <2>1 DEF Saving
  <2>5. t.child.pc = "exit0" => a <= t.dirty - t.before BY <2>1 DEF Saving
  <2>6. h <= g + 1 BY <1>2, <2>1 DEF Saving
  <2>7. r.before = t.before /\ r.dirty = t.dirty + 1 /\ r.child = t.child /\ r.rdb = t.rdb /\ r.mem = m
    BY <1>3 DEF Is
  <2>8. t.before <= t.dirty + 1 BY <1>5, <2>3, SMT
  <2> HIDE DEF a, b, g, h
  <2>9. t.child.pc = "dump" => h <= (t.dirty + 1) - t.before
    BY <1>5, <2>2, <2>3, <2>4, <2>6, SMT
  <2>10. t.child.pc = "exit0" => b <= (t.dirty + 1) - t.before
    BY <1>4, <1>5, <2>3, <2>5, SMT
  <2> QED BY <2>1, <2>3, <2>7, <2>8, <2>9, <2>10 DEF Saving, h, b
<1> HIDE DEF a, b
<1>7. t.dirty + 1 \in Nat /\ b <= t.dirty + 1 BY <1>4, <1>5, SMT
<1>8. Counted(r) BY <1>2, <1>3, <1>6, <1>7 DEF Counted, Is, b
<1> QED BY <1>1, <1>3, <1>8 DEF Covered, Shaped, Is

\* With the AOF configured a restart loads the AOF, and the RDB file is not what
\* the dataset is compared with.
DirtyInv == ~ AppendOnly => Covered(s)

LEMMA DirtyInit == ASSUME None # "rdb", ~ AppendOnly, Init PROVE Covered(s)
<1> DEFINE i == [faults |-> 0, harm |-> {}, acked |-> {}, file |-> <<>>, synced |-> 0, rdb |-> {}]
           t == Down(i)
           u == [t EXCEPT !.up = TRUE]
           w == [u EXCEPT !.state = "off"]
<1>1. s = w BY DEF Init
<1>2. i.rdb = {} BY SMT
<1> HIDE DEF i
<1>3. Covered(t) BY <1>2, DownCovered, FS_EmptySet
<1>4. t.mem = {} /\ t.dirty = 0 /\ t.child = NoChild /\ t.rdb = i.rdb BY SMT DEF Down
<1> HIDE DEF t
<1>5. Is(u, TRUE, {}, 0, t.before, NoChild, {})
  <2>1. Is(t, t.up, {}, 0, t.before, NoChild, {})
    BY <1>2, <1>3, <1>4, IsItself DEF Covered, Shaped
  <2> QED BY <2>1, Set_up
<1> HIDE DEF u
<1>6. Is(w, TRUE, {}, 0, t.before, NoChild, {}) BY <1>5, Set_other, OtherNames
<1> HIDE DEF w
<1>7. 0 \in Nat /\ 0 <= 0 BY SMT
<1>8. Counted(w) BY <1>6, <1>7, FS_EmptySet, DeltaItself, NoChildShape DEF Is, Counted
<1>9. Covered(w) BY <1>6, <1>8, FS_EmptySet, NoChildShape DEF Is, Covered, Shaped
<1> QED BY <1>1, <1>9

LEMMA WriteKeeps == ASSUME Covered(s), NEW d \in Dbs, Write(d) PROVE Covered(s')
<1> DEFINE r == [s EXCEPT !.mem = Invert(s.mem, next, d), !.dirty = s.dirty + 1]
<1>1. s.up /\ s' = feedAppendOnlyFile(r, d, Item("cmd", next)) BY DEF Write
<1>2. Covered(r) BY <1>1, WrittenCovered
<1> HIDE DEF r
<1> QED BY <1>1, <1>2, FeedCovered

LEMMA TransactionKeeps ==
  ASSUME Covered(s), NEW d \in Dbs, NEW e \in Dbs, Transaction(d, e) PROVE Covered(s')
<1> DEFINE m == Invert(s.mem, next, d)
           n == Invert(m, next + 1, e)
           a == [s EXCEPT !.mem = m, !.dirty = s.dirty + 1]
           b == [a EXCEPT !.mem = Invert(a.mem, next + 1, e), !.dirty = a.dirty + 1]
           r == [s EXCEPT !.mem = n, !.dirty = s.dirty + 2]
           f == feedAppendOnlyFile(feedAppendOnlyFile(r, d, Item("multi", d)), d, Item("cmd", next))
<1>1. /\ s.up
      /\ s' = feedAppendOnlyFile(feedAppendOnlyFile(f, e, Item("cmd", next + 1)), e, Item("exec", d))
  BY DEF Transaction
<1>2. Covered(a) /\ a.up BY <1>1, WrittenCovered
<1>3. Is(a, s.up, m, s.dirty + 1, s.before, s.child, s.rdb)
  BY IsItself, Set_mem, Set_dirty DEF Covered, Shaped
<1> HIDE DEF a
<1>4. Covered(b) BY <1>2, WrittenCovered
<1>5. Is(b, s.up, n, (s.dirty + 1) + 1, s.before, s.child, s.rdb)
  <2>1. a.mem = m /\ a.dirty = s.dirty + 1 BY <1>3 DEF Is
  <2> QED BY <1>3, <2>1, Set_mem, Set_dirty
<1> HIDE DEF b, m, n
<1>6. Is(r, s.up, n, s.dirty + 2, s.before, s.child, s.rdb)
  BY IsItself, Set_mem, Set_dirty DEF Covered, Shaped
<1>7. (s.dirty + 1) + 1 = s.dirty + 2 BY <1>1, SMT DEF Covered, Counted
<1>8. Alike(b, r) BY <1>5, <1>6, <1>7 DEF Alike, Is
<1> HIDE DEF r
<1>9. Covered(r) BY <1>4, <1>8, AlikeCovered
<1>10. Covered(f) BY <1>9, FeedCovered
<1> HIDE DEF f
<1> QED BY <1>1, <1>10, FeedCovered

LEMMA FlushAllKeeps == ASSUME Covered(s), FlushAll PROVE Covered(s')
<1>1. s.up BY DEF FlushAll
<1>2. PICK r \in flushallCommand(s) :
        s' = [feedAppendOnlyFile(r, 0, Item("flush", None)) EXCEPT !.acked = {}]
  BY DEF FlushAll
<1>3. Covered(r) BY <1>1, <1>2, FlushAllCovered
<1>4. Covered(feedAppendOnlyFile(r, 0, Item("flush", None))) BY <1>3, FeedCovered
<1> HIDE DEF feedAppendOnlyFile
<1>5. Covered([feedAppendOnlyFile(r, 0, Item("flush", None)) EXCEPT !.acked = {}])
  BY <1>4, CoveredTouch, OtherNames
<1> QED BY <1>2, <1>5

LEMMA BeforeSleepKeeps == ASSUME None # "rdb", Covered(s), BeforeSleep PROVE Covered(s')
<1>1. PICK r \in flushAppendOnlyFile(s, FALSE) :
        s' = IF r.up THEN [r EXCEPT !.acked = r.mem] ELSE r
  BY DEF BeforeSleep
<1>2. Covered(r) BY <1>1, FlushCovered
<1>3. Covered([r EXCEPT !.acked = r.mem]) BY <1>2, CoveredTouch, OtherNames
<1> QED BY <1>1, <1>2, <1>3

\* CONFIG SET, SHUTDOWN and the orders to save and to rewrite.
LEMMA CommandsKeep ==
  ASSUME None # "rdb", Covered(s),
         \/ ConfigSetAppendonly \/ bgrewriteaofCommand \/ saveCommand \/ bgsaveCommand
         \/ shutdownCommand
  PROVE  Covered(s')
<1>1. Covered(Faulty(s)) BY FaultyCovered
<1>2. CASE ConfigSetAppendonly
  <2>1. s' \in startAppendOnly(Faulty(s)) \/ s' \in stopAppendOnly(Faulty(s))
    BY <1>2 DEF ConfigSetAppendonly
  <2> QED BY <1>1, <2>1, StartCovered, StopCovered
<1>3. CASE bgrewriteaofCommand
  <2>1. s' = [s EXCEPT !.rsched = TRUE] \/ s' \in rewriteAppendOnlyFileBackground(s)
    BY <1>3 DEF bgrewriteaofCommand
  <2>2. Covered([s EXCEPT !.rsched = TRUE]) BY CoveredTouch, OtherNames
  <2> QED BY <2>1, <2>2, RewriteCovered
<1>4. CASE saveCommand BY <1>4, SaveCovered DEF saveCommand
<1>5. CASE bgsaveCommand
  <2>1. s.up /\ (s' = [s EXCEPT !.bsched = TRUE] \/ s' \in rdbSaveBackground(s))
    BY <1>5 DEF bgsaveCommand
  <2>2. Covered([s EXCEPT !.bsched = TRUE]) BY CoveredTouch, OtherNames
  <2> QED BY <2>1, <2>2, SaveBackgroundCovered
<1>6. CASE shutdownCommand
  <2>1. \E save : s' \in prepareForShutdown(Faulty(s), save) BY <1>6 DEF shutdownCommand
  <2> QED BY <1>1, <2>1, ShutdownCovered
<1> QED BY <1>2, <1>3, <1>4, <1>5, <1>6

\* A child of a rewrite changes.
LEMMA RewriteChildKeeps ==
  ASSUME Covered(s), s.child.kind = "aof",
         aofChildWriteDiffData \/ aofChildPipeReadable \/ rewriteAppendOnlyFile
  PROVE  Covered(s')
<1>1. "aof" # "rdb" BY SMT
<1>2. IsChild(s.child) BY DEF Covered, Shaped
<1>3. CASE aofChildWriteDiffData
  <2>1. PICK p, w : s' = [s EXCEPT !.child.pipe = p, !.rewbuf = w]
    BY <1>3, ZenonT(60) DEF aofChildWriteDiffData
  <2> DEFINE c == [s.child EXCEPT !.pipe = p]
  <2>2. IsChild(c) /\ c.kind = "aof" BY <1>2, Child_pipe
  <2>3. s' = [[s EXCEPT !.child = c] EXCEPT !.rewbuf = w] BY <2>1
  <2> HIDE DEF c
  <2>4. Covered([s EXCEPT !.child = c]) BY <1>1, <2>2, OtherChild
  <2> DEFINE q == [s EXCEPT !.child = c]
  <2> HIDE DEF q
  <2>5. Covered([q EXCEPT !.rewbuf = w]) BY <2>4, CoveredTouch, OtherNames DEF q
  <2> QED BY <2>3, <2>5 DEF q
<1>4. CASE aofChildPipeReadable
  <2> DEFINE q == [s EXCEPT !.stop = TRUE]
             c == [s.child EXCEPT !.pc = "acked"]
  <2>1. s' = [q EXCEPT !.child = [q.child EXCEPT !.pc = "acked"]] BY <1>4 DEF aofChildPipeReadable
  <2>2. Alike(s, q) BY CoveredShaped, Touch, OtherNames
  <2>3. Covered(q) /\ q.child = s.child BY <2>2, AlikeCovered DEF Alike
  <2>4. IsChild(c) /\ c.kind = "aof" BY <1>2, Child_pc
  <2> HIDE DEF q, c
  <2>5. Covered([q EXCEPT !.child = c]) BY <1>1, <2>3, <2>4, OtherChild
  <2> QED BY <2>1, <2>3, <2>5 DEF c
<1>5. CASE rewriteAppendOnlyFile
  <2> DEFINE A(d) == [s.child EXCEPT !.pc = "asked", !.diff = d, !.pipe = <<>>]
             B(d, m) == [s.child EXCEPT !.pc = "exit0", !.diff = d, !.pipe = <<>>, !.temp = m]
             f == s.child.diff \o s.child.pipe
             g == Dump(s.child.snap) \o f
  <2>1. s' = [s EXCEPT !.child = A(f)] \/ s' = [s EXCEPT !.child = B(f, g)]
    BY <1>5 DEF rewriteAppendOnlyFile
  <2>2. ASSUME NEW v PROVE \A d : LET a == [s.child EXCEPT !.pc = v, !.diff = d]
                                  IN  IsChild(a) /\ a.kind = "aof"
    <3> SUFFICES ASSUME NEW d PROVE LET a == [s.child EXCEPT !.pc = v, !.diff = d]
                                    IN  IsChild(a) /\ a.kind = "aof"
      OBVIOUS
    <3> DEFINE k == [s.child EXCEPT !.pc = v]
    <3>1. IsChild(k) /\ k.kind = "aof" BY <1>2, Child_pc
    <3> HIDE DEF k
    <3>2. IsChild([k EXCEPT !.diff = d]) /\ [k EXCEPT !.diff = d].kind = "aof" BY <3>1, Child_diff
    <3> QED BY <3>2 DEF k
  <2>3. ASSUME NEW v, NEW d PROVE LET a == [s.child EXCEPT !.pc = v, !.diff = d, !.pipe = <<>>]
                                  IN  IsChild(a) /\ a.kind = "aof"
    <3> DEFINE k == [s.child EXCEPT !.pc = v, !.diff = d]
    <3>1. IsChild(k) /\ k.kind = "aof" BY <2>2
    <3> HIDE DEF k
    <3>2. IsChild([k EXCEPT !.pipe = <<>>]) /\ [k EXCEPT !.pipe = <<>>].kind = "aof"
      BY <3>1, Child_pipe
    <3> QED BY <3>2 DEF k
  <2>4. \A d : IsChild(A(d)) /\ A(d).kind = "aof" BY <2>3
  <2>5. \A d, m : IsChild(B(d, m)) /\ B(d, m).kind = "aof"
    <3> SUFFICES ASSUME NEW d, NEW m PROVE IsChild(B(d, m)) /\ B(d, m).kind = "aof" OBVIOUS
    <3> DEFINE k == [s.child EXCEPT !.pc = "exit0", !.diff = d, !.pipe = <<>>]
    <3>1. IsChild(k) /\ k.kind = "aof" BY <2>3
    <3> HIDE DEF k
    <3>2. IsChild([k EXCEPT !.temp = m]) /\ [k EXCEPT !.temp = m].kind = "aof" BY <3>1, Child_temp
    <3> QED BY <3>2 DEF k
  <2> HIDE DEF A, B, f, g
  <2>6. Covered([s EXCEPT !.child = A(f)]) BY <1>1, <2>4, OtherChild
  <2>7. Covered([s EXCEPT !.child = B(f, g)]) BY <1>1, <2>5, OtherChild
  <2> QED BY <2>1, <2>6, <2>7
<1> QED BY <1>3, <1>4, <1>5

LEMMA RestKeeps ==
  ASSUME None # "rdb", ~ AppendOnly, Covered(s),
         RdbChild \/ ChildFails \/ BioFsync \/ Crash \/ loadDataFromDisk \/ FixFile
  PROVE  Covered(s')
<1>1. CASE RdbChild BY <1>1, RenameCovered DEF RdbChild
<1>2. CASE ChildFails
  <2> DEFINE c == [s.child EXCEPT !.pc = "exit1"]
             q == [s EXCEPT !.child = c]
  <2>1. s' = Faulty(q) BY <1>2 DEF ChildFails
  <2>2. IsChild(c) /\ c.pc = "exit1" /\ c.kind = s.child.kind /\ c.snap = s.child.snap
    BY Child_pc DEF Covered, Shaped
  <2> HIDE DEF c
  <2>3. "exit1" # "dump" /\ "exit1" # "exit0" BY SMT
  <2>4. Covered(q) BY <2>2, <2>3, FailedChild
  <2> QED BY <2>1, <2>4, FaultyCovered
<1>3. CASE BioFsync
  <2>1. PICK a, b : s' = [s EXCEPT !.bio = a, !.synced = b] BY <1>3 DEF BioFsync
  <2>2. Alike(s, [s EXCEPT !.bio = a, !.synced = b]) BY CoveredShaped, Touch, OtherNames
  <2> QED BY <2>1, <2>2, AlikeCovered
<1>4. CASE Crash
  <2> DEFINE F(a, b) == [Faulty(s) EXCEPT !.file = a, !.synced = b]
  <2>1. s' = Down(Faulty(s)) \/ \E a, b : s' = Down(F(a, b)) BY <1>4 DEF Crash
  <2>2. Covered(Faulty(s)) BY FaultyCovered
  <2>3. \A a, b : Alike(Faulty(s), F(a, b)) BY <2>2, CoveredShaped, Touch, OtherNames
  <2>4. \A a, b : Covered(F(a, b)) BY <2>2, <2>3, AlikeCovered
  <2> HIDE DEF F
  <2> QED BY <2>1, <2>2, <2>4, DownCovered DEF Covered
<1>5. CASE loadDataFromDisk
  <2> DEFINE r == [s EXCEPT !.up = TRUE, !.mem = s.rdb]
  <2>1. ~ s.up /\ s' = r BY <1>5 DEF loadDataFromDisk
  <2>2. Is(r, TRUE, s.rdb, s.dirty, s.before, s.child, s.rdb)
    BY IsItself, Set_up, Set_mem DEF Covered, Shaped
  <2>3. s.dirty = 0 /\ s.child.kind # "rdb" /\ IsFiniteSet(s.rdb) /\ Shaped(s)
    BY <2>1 DEF Covered
  <2> HIDE DEF r
  <2>4. 0 \in Nat /\ 0 <= 0 BY SMT
  <2>5. Counted(r) BY <2>2, <2>3, <2>4, DeltaItself DEF Counted, Is
  <2>6. Covered(r) BY <2>2, <2>3, <2>5 DEF Covered, Shaped, Is
  <2> QED BY <2>1, <2>6
<1>6. CASE FixFile
  <2>1. PICK a, b : s' = [s EXCEPT !.refused = FALSE, !.file = a, !.synced = b]
    BY <1>6 DEF FixFile
  <2>2. Alike(s, [s EXCEPT !.refused = FALSE, !.file = a, !.synced = b])
    BY CoveredShaped, Touch, OtherNames
  <2> QED BY <2>1, <2>2, AlikeCovered
<1> QED BY <1>1, <1>2, <1>3, <1>4, <1>5, <1>6

LEMMA DirtyNext == ASSUME None # "rdb", ~ AppendOnly, Covered(s), Next PROVE Covered(s')
<1>1. CASE ServerCron BY <1>1, CronCovered DEF ServerCron
<1>2. CASE aofChildWriteDiffData \/ aofChildPipeReadable \/ rewriteAppendOnlyFile
  <2>1. s.child.kind = "aof"
    BY <1>2 DEF aofChildWriteDiffData, aofChildPipeReadable, rewriteAppendOnlyFile
  <2> QED BY <1>2, <2>1, RewriteChildKeeps
<1> QED BY <1>1, <1>2, WriteKeeps, TransactionKeeps, FlushAllKeeps, BeforeSleepKeeps,
           CommandsKeep, RestKeeps DEF Next

-----------------------------------------------------------------------------
\* The counter of unsaved changes never falls below the number of keys in which the
\* dataset and the RDB file differ (server.dirty, dirty_before_bgsave in rdb.c),
\* through writes during a background save, failing saves, FLUSHALL, refused
\* shutdowns, crashes and restarts: a save point with changes owed is not missed.
THEOREM DirtyCorrect == ASSUME None # "rdb" PROVE Spec => []DirtyCoversUnsaved
<1>1. Init => DirtyInv BY DirtyInit DEF DirtyInv
<1>2. DirtyInv /\ [Next]_vars => DirtyInv'
  <2>1. ASSUME DirtyInv, Next PROVE DirtyInv' BY <2>1, DirtyNext DEF DirtyInv
  <2>2. ASSUME DirtyInv, UNCHANGED vars PROVE DirtyInv' BY <2>2 DEF DirtyInv, vars
  <2> QED BY <2>1, <2>2
<1>3. DirtyInv => DirtyCoversUnsaved
  BY DEF DirtyInv, Covered, Counted, Delta, DirtyCoversUnsaved
<1> QED BY <1>1, <1>2, <1>3, PTL DEF Spec
=============================================================================
