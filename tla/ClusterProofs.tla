--------------------------- MODULE ClusterProofs ---------------------------
(***************************************************************************)
(* The nodes of a Redis Cluster, for any number of nodes: a node that says *)
(* the cluster is up reaches a majority of the masters it knows, failure   *)
(* reports point to nodes in the table, and with a membership that does    *)
(* not change FAIL takes the suspicion of a majority.                      *)
(***************************************************************************)
EXTENDS ClusterMembers, FiniteSetTheorems, TLAPS

\* Most leaves are first-order reasoning; those that compute ask for SMT.
USE Zenon

TableType ==
  [known : [Nodes -> Entry \cup {None}], hs : [Nodes -> {"no", "meet", "plain", "linked"}],
   black : SUBSET Nodes, state : {"ok", "fail"}, size : Nat]

Links == {q \in Nodes \X Nodes : q[1] # q[2]}

\* Types, and a node is not in its own table.
MembersType ==
  /\ tab \in [Nodes -> TableType]
  /\ mail \in [Links -> {"no", "ping", "meet", "pong"}]
  /\ fails \subseteq Nodes \X Nodes \X Nodes
  /\ suspected \subseteq Nodes \X Nodes
  /\ \A n \in Nodes : tab[n].known[n] = None

\* The table t shows its owner n a majority of the masters in it.
Reaches(t, n) == Cardinality(Reachable(t, n)) >= Cardinality(Serving(t, n)) \div 2 + 1

\* Every report about a node in t comes from a node in t.
Closed(t) == \A m \in Known(t) : t.known[m].reports \subseteq Known(t)

--------------------------------------------------------------------------
(* The operators on tables *)

LEMMA NodeSets ==
  ASSUME NEW t \in TableType, NEW n \in Nodes
  PROVE  /\ Known(t) \subseteq Nodes
         /\ Serving(t, n) \subseteq Nodes /\ IsFiniteSet(Serving(t, n))
         /\ Cardinality(Serving(t, n)) \in Nat /\ n \in Serving(t, n)
         /\ Reachable(t, n) \subseteq Serving(t, n) /\ IsFiniteSet(Reachable(t, n))
<1>1. /\ Known(t) \subseteq Nodes /\ Serving(t, n) \subseteq Nodes /\ n \in Serving(t, n)
      /\ Reachable(t, n) \subseteq Serving(t, n)
  BY DEF Known, Serving, Reachable
<1> QED
  BY <1>1, MembersAssumption, FS_Subset, FS_CardinalityType

LEMMA SameKnown ==
  ASSUME NEW t, NEW u, NEW n, u.known = t.known
  PROVE  /\ Known(u) = Known(t) /\ Serving(u, n) = Serving(t, n)
         /\ Reachable(u, n) = Reachable(t, n) /\ (Reaches(u, n) <=> Reaches(t, n))
         /\ (Closed(u) <=> Closed(t))
BY DEF Known, Serving, Reachable, Reaches, Closed

\* clusterUpdateState() sets the size and says "ok" only with a majority.
Updated(t, n, u) ==
  /\ u \in TableType /\ u.known = t.known /\ u.hs = t.hs /\ u.black = t.black
  /\ u.size = Cardinality(Serving(t, n))
  /\ u.state = "ok" => Reaches(u, n)

LEMMA UpdateState ==
  ASSUME NEW t \in TableType, NEW n \in Nodes, NEW delay \in BOOLEAN
  PROVE  Updated(t, n, clusterUpdateState(t, n, delay))
<1> DEFINE size == Cardinality(Serving(t, n))
           covered == FullCoverage =>
                        /\ Joined \subseteq Serving(t, n)
                        /\ \A m \in Serving(t, n) \ {n} : ~t.known[m].fail
           good == covered /\ Cardinality(Reachable(t, n)) >= size \div 2 + 1
           new == IF good THEN "ok" ELSE "fail"
           state == IF new = "ok" /\ delay THEN t.state ELSE new
           u == [t EXCEPT !.size = size, !.state = state]
<1>1. clusterUpdateState(t, n, delay) = u
  BY SMT DEF clusterUpdateState
<1>2. size \in Nat
  BY NodeSets
<1> HIDE DEF size, good
<1>3. state \in {"ok", "fail"} /\ (state = "ok" => good)
  <2>1. t.state \in {"ok", "fail"} BY DEF TableType
  <2> QED BY <2>1
<1> HIDE DEF state
<1>4. /\ u \in TableType /\ u.known = t.known /\ u.hs = t.hs /\ u.black = t.black
      /\ u.size = size /\ u.state = state
  BY <1>2, <1>3 DEF TableType
<1>5. Reaches(u, n) <=> Reaches(t, n)
  BY <1>4, SameKnown
<1>6. good => Reaches(t, n)
  BY DEF good, size, Reaches
<1> QED
  BY <1>1, <1>3, <1>4, <1>5, <1>6 DEF size, Updated

--------------------------------------------------------------------------
(* Gossip *)

LEMMA InTable ==
  ASSUME NEW t \in TableType
  PROVE  /\ \A m \in Known(t) : m \in Nodes /\ t.known[m] \in Entry
         /\ \A m \in Nodes \ Known(t) : t.known[m] = None
BY MembersAssumption DEF Known, TableType

\* The table t with the entry x for m.
Put(t, m, x) == [t EXCEPT !.known[m] = x]

LEMMA PutEntry ==
  ASSUME NEW t \in TableType, NEW m \in Nodes, NEW x \in Entry
  PROVE  /\ Put(t, m, x) \in TableType /\ Put(t, m, x).known[m] = x
         /\ Put(t, m, x).hs = t.hs /\ Put(t, m, x).black = t.black
         /\ Put(t, m, x).state = t.state /\ Put(t, m, x).size = t.size
BY DEF TableType, Put

\* What PutEntry says of u = Put(t, m, x), under one name.
PutShape(t, m, x, u) ==
  /\ u \in TableType /\ u.known[m] = x
  /\ u.hs = t.hs /\ u.black = t.black /\ u.state = t.state /\ u.size = t.size

LEMMA PutShaped ==
  ASSUME NEW t \in TableType, NEW m \in Nodes, NEW x \in Entry
  PROVE  PutShape(t, m, x, Put(t, m, x))
BY PutEntry DEF PutShape

LEMMA PutOthers ==
  ASSUME NEW t \in TableType, NEW m \in Nodes, NEW x \in Entry, NEW k \in Nodes \ {m}
  PROVE  Put(t, m, x).known[k] = t.known[k]
BY DEF TableType, Put

LEMMA SetReports ==
  ASSUME NEW e \in Entry, NEW R \in SUBSET Nodes
  PROVE  LET x == [e EXCEPT !.reports = R] IN
         /\ x \in Entry /\ x.reports = R /\ x.slots = e.slots
         /\ x.pfail = e.pfail /\ x.fail = e.fail
BY DEF Entry

LEMMA SetFlags ==
  ASSUME NEW e \in Entry, NEW p \in BOOLEAN, NEW f \in BOOLEAN
  PROVE  LET x == [e EXCEPT !.pfail = p, !.fail = f] IN
         /\ x \in Entry /\ x.reports = e.reports /\ x.slots = e.slots
         /\ x.pfail = p /\ x.fail = f
BY DEF Entry

LEMMA SetSlots ==
  ASSUME NEW e \in Entry, NEW b \in BOOLEAN
  PROVE  LET x == [e EXCEPT !.slots = b] IN
         /\ x \in Entry /\ x.reports = e.reports /\ x.slots = b
         /\ x.pfail = e.pfail /\ x.fail = e.fail
BY DEF Entry

\* What n may hold of m after a step that read a report of a node in S: the
\* flag FAIL is new only with a quorum of reports, the node's own included.
Judged(e, x, S, q) ==
  /\ x \in Entry /\ x.slots = e.slots
  /\ x.reports \subseteq e.reports \cup S
  /\ x.pfail => e.pfail
  /\ x.fail => e.fail \/ (e.pfail /\ Cardinality(x.reports) + 1 >= q)

\* The entry x counts for as much as e when the state of the cluster is computed.
SameFlags(e, x) == x.slots = e.slots /\ x.pfail = e.pfail /\ x.fail = e.fail

LEMMA Mark ==
  ASSUME NEW t \in TableType, NEW m \in Known(t), NEW old \in SUBSET Nodes
  PROVE  LET r == markNodeAsFailingIfNeeded(t, m, old) IN
         /\ Judged(t.known[m], r[1].known[m], {}, NeededQuorum(t))
         /\ r[2] \in BOOLEAN /\ (r[2] => r[1].known[m].fail)
         /\ ~r[2] => SameFlags(t.known[m], r[1].known[m])
         /\ r[1].hs = t.hs
<1> DEFINE e == t.known[m]
           R == e.reports \ old
           x == [e EXCEPT !.reports = R]
           y == [x EXCEPT !.pfail = FALSE, !.fail = TRUE]
           u == Put(t, m, x)
           v == Put(t, m, y)
           r == markNodeAsFailingIfNeeded(t, m, old)
<1>1. m \in Nodes
  BY InTable
<1>e. e \in Entry
  BY InTable
<1>2. /\ R \in SUBSET Nodes /\ R \subseteq e.reports
      /\ e.pfail \in BOOLEAN /\ e.fail \in BOOLEAN
  BY <1>e DEF Entry
<1>3. clusterNodeCleanupFailureReports(t, m, old) = u
  BY <1>1 DEF clusterNodeCleanupFailureReports, Put, TableType
<1>4. x \in Entry /\ x.reports = R /\ x.pfail = e.pfail /\ x.fail = e.fail /\ x.slots = e.slots
  BY <1>e, <1>2, SetReports
<1> HIDE DEF e, x, R
<1>5. y \in Entry /\ y.reports = R /\ ~y.pfail /\ y.fail /\ y.slots = e.slots
  BY <1>4, SetFlags
<1>a. [u EXCEPT !.known[m].pfail = FALSE, !.known[m].fail = TRUE] = v
  BY <1>1 DEF Put, TableType
<1>b. x \in Entry /\ y \in Entry
  BY <1>4, <1>5
<1> HIDE DEF y
<1>6. u.known[m] = x /\ u.hs = t.hs /\ u.size = t.size
  BY <1>1, <1>b, PutEntry
<1>7. v.known[m] = y /\ v.hs = t.hs
  BY <1>1, <1>b, PutEntry
<1> HIDE DEF u, v
<1>8. \/ r = <<t, FALSE>>
      \/ r = <<u, FALSE>>
      \/ r = <<v, TRUE>> /\ e.pfail /\ ~(Cardinality(R) + 1 < NeededQuorum(t))
  <2> DEFINE w == clusterNodeCleanupFailureReports(t, m, old)
             f == Cardinality(w.known[m].reports) + 1
  <2>1. w = u /\ f = Cardinality(R) + 1 /\ NeededQuorum(w) = NeededQuorum(t)
    BY <1>3, <1>4, <1>6 DEF NeededQuorum
  <2>2. r = IF ~t.known[m].pfail \/ t.known[m].fail THEN <<t, FALSE>>
            ELSE IF f < NeededQuorum(w) THEN <<w, FALSE>>
            ELSE <<[w EXCEPT !.known[m].pfail = FALSE, !.known[m].fail = TRUE], TRUE>>
    BY DEF markNodeAsFailingIfNeeded
  <2> HIDE DEF w, f, r
  <2> QED
    BY <1>a, <2>1, <2>2 DEF e
<1> HIDE DEF r, e
<1>9. CASE r = <<t, FALSE>>
  <2>1. r[1] = t /\ r[2] = FALSE BY <1>9, SMT
  <2> QED BY <1>e, <2>1 DEF Judged, SameFlags, r, e
<1>10. CASE r = <<u, FALSE>>
  <2>1. r[1] = u /\ r[2] = FALSE BY <1>10, SMT
  <2> QED BY <1>2, <1>4, <1>6, <2>1 DEF Judged, SameFlags, r, e
<1>11. CASE r = <<v, TRUE>> /\ e.pfail /\ ~(Cardinality(R) + 1 < NeededQuorum(t))
  <2>0. r[1] = v /\ r[2] = TRUE BY <1>11, SMT
  <2>1. Cardinality(R) \in Nat
    BY <1>2, MembersAssumption, FS_Subset, FS_CardinalityType
  <2>2. NeededQuorum(t) \in Nat
    BY SMT DEF NeededQuorum, TableType
  <2>3. Cardinality(R) + 1 >= NeededQuorum(t)
    BY <1>11, <2>1, <2>2, SMT
  <2> QED
    BY <1>2, <1>5, <1>7, <1>11, <2>0, <2>3 DEF Judged, r, e
<1> QED
  BY <1>8, <1>9, <1>10, <1>11

\* The sender s, if it reports m as failing.
Reports(s, m) == {k \in {s} : tab[s].known[m].pfail \/ tab[s].known[m].fail}

Reading(t, n, s, old) ==
  t \in TableType /\ n \in Nodes /\ s \in Nodes /\ old \in SUBSET Nodes

Noted(t, E, s, m) ==
  /\ Judged(t.known[m], E[1].known[m], Reports(s, m), NeededQuorum(t))
  /\ E[2] => E[1].known[m].fail
  /\ ~E[2] => SameFlags(t.known[m], E[1].known[m])
  /\ E[1].hs = t.hs

Skipped(t, E, m, n) ==
  /\ E[1].known = t.known /\ E[2] = FALSE
  /\ E[1].hs \in [Nodes -> {"no", "meet", "plain", "linked"}]
  /\ m = n => E[1].hs = t.hs

\* What one entry about m does when m is in the table: the sender is added to
\* the reports or taken out of them.
LEMMA EntryKnown ==
  ASSUME NEW t, NEW n, NEW s, NEW old, Reading(t, n, s, old), NEW m \in Known(t), m # n
  PROVE  Noted(t, GossipEntry(t, n, s, m, old), s, m)
<1> DEFINE e == t.known[m]
           E == GossipEntry(t, n, s, m, old)
           bad == tab[s].known[m].pfail \/ tab[s].known[m].fail
           A == e.reports \cup {s}
           D == e.reports \ {s}
           a == [e EXCEPT !.reports = A]
           d == [e EXCEPT !.reports = D]
           u == Put(t, m, a)
           v == Put(t, m, d)
<1>0. t \in TableType /\ n \in Nodes /\ s \in Nodes /\ old \in SUBSET Nodes
  BY DEF Reading
<1>1. m \in Nodes
  BY <1>0, InTable
<1>e. e \in Entry
  BY <1>0, InTable
<1>2. A \in SUBSET Nodes /\ D \in SUBSET Nodes
  BY <1>0, <1>e DEF Entry
<1>3. /\ clusterNodeAddFailureReport(t, m, s) = u
      /\ clusterNodeDelFailureReport(t, m, s) = v
  BY <1>0, <1>1 DEF clusterNodeAddFailureReport, clusterNodeDelFailureReport, Put, TableType
<1>4. a \in Entry /\ a.reports = A /\ a.pfail = e.pfail /\ a.fail = e.fail /\ a.slots = e.slots
  BY <1>e, <1>2, SetReports
<1>5. d \in Entry /\ d.reports = D /\ d.pfail = e.pfail /\ d.fail = e.fail /\ d.slots = e.slots
  BY <1>e, <1>2, SetReports
<1>6. E = IF bad THEN markNodeAsFailingIfNeeded(u, m, old) ELSE <<v, FALSE>>
  <2>1. t.known[m] # None
    BY DEF Known
  <2> HIDE DEF u, v
  <2> QED
    BY <1>3, <2>1 DEF GossipEntry
<1>b. a \in Entry /\ d \in Entry
  BY <1>4, <1>5
<1> HIDE DEF a, d, E, e, bad, A, D
<1>c. \A x \in Entry : /\ Put(t, m, x) \in TableType /\ Put(t, m, x).known[m] = x
                         /\ Put(t, m, x).hs = t.hs /\ Put(t, m, x).size = t.size
  BY <1>0, <1>1, PutEntry
<1>7. u \in TableType /\ u.known[m] = a /\ u.hs = t.hs /\ u.size = t.size
  BY <1>b, <1>c
<1>8. v \in TableType /\ v.known[m] = d /\ v.hs = t.hs
  BY <1>b, <1>c
<1> HIDE DEF u, v
<1>9. CASE bad
  <2>1. m \in Known(u)
    BY <1>1, <1>4, <1>7, MembersAssumption DEF Known
  <2> DEFINE r == markNodeAsFailingIfNeeded(u, m, old)
  <2>2. /\ Judged(a, r[1].known[m], {}, NeededQuorum(u))
        /\ r[2] \in BOOLEAN /\ (r[2] => r[1].known[m].fail) /\ r[1].hs = u.hs
        /\ ~r[2] => SameFlags(a, r[1].known[m])
    BY <1>0, <1>7, <2>1, Mark
  <2>3. E = r
    BY <1>6, <1>9
  <2> HIDE DEF r
  <2>4. NeededQuorum(u) = NeededQuorum(t)
    BY <1>7 DEF NeededQuorum
  <2>5. Judged(e, r[1].known[m], {s}, NeededQuorum(t))
    BY <1>4, <2>2, <2>4 DEF Judged, A
  <2>6. ~r[2] => SameFlags(e, r[1].known[m])
    BY <1>4, <2>2 DEF SameFlags
  <2> QED
    BY <1>7, <1>9, <2>2, <2>3, <2>5, <2>6 DEF E, e, bad, Reports, Noted
<1>10. CASE ~bad
  <2>1. E[1] = v /\ E[2] = FALSE
    BY <1>6, <1>10, SMT
  <2>2. Judged(e, d, {}, NeededQuorum(t))
    BY <1>5 DEF Judged, D
  <2>3. SameFlags(e, d)
    BY <1>5 DEF SameFlags
  <2> QED
    BY <1>8, <1>10, <2>1, <2>2, <2>3 DEF E, e, bad, Reports, Noted
<1> QED
  BY <1>9, <1>10

\* An entry about an unknown node starts a handshake at most; one about the
\* reader itself is skipped.
LEMMA EntryUnknown ==
  ASSUME NEW t, NEW n, NEW s, NEW old, Reading(t, n, s, old), NEW m \in Nodes,
         m = n \/ m \notin Known(t)
  PROVE  Skipped(t, GossipEntry(t, n, s, m, old), m, n)
<1> DEFINE E == GossipEntry(t, n, s, m, old)
           w == [t EXCEPT !.hs[m] = "meet"]
<1>1. t.hs \in [Nodes -> {"no", "meet", "plain", "linked"}]
      /\ w.known = t.known /\ w.hs \in [Nodes -> {"no", "meet", "plain", "linked"}]
  BY DEF Reading, TableType
<1>2. E = <<t, FALSE>> \/ (m # n /\ E = <<w, FALSE>>)
  BY DEF GossipEntry, Known, clusterStartHandshake
<1> HIDE DEF E, w
<1>3. E[2] = FALSE /\ (E[1] = t \/ (m # n /\ E[1] = w))
  <2>1. CASE E = <<t, FALSE>>
    BY <2>1, SMT
  <2>2. CASE m # n /\ E = <<w, FALSE>>
    BY <2>2, SMT
  <2> QED
    BY <1>2, <2>1, <2>2
<1> QED
  BY <1>1, <1>3 DEF E, Skipped

\* The whole section: the nodes in the table stay in it, and each is judged.
Heard(t, u, s, g) ==
  /\ u \in TableType /\ u.black = t.black /\ u.state = t.state /\ u.size = t.size
  /\ Known(u) = Known(t)
  /\ \A m \in Known(t) :
       \/ u.known[m] = t.known[m]
       \/ m \in g /\ Judged(t.known[m], u.known[m], Reports(s, m), NeededQuorum(t))

\* No node in the table t counts for more or less in u.
Unmarked(t, u) == \A m \in Known(t) : SameFlags(t.known[m], u.known[m])

SectionRead(t, n, s, g, r) ==
  /\ Heard(t, r[1], s, g)
  /\ r[2] = {} => Unmarked(t, r[1])
  /\ r[2] \subseteq g \cap Known(t) /\ \A m \in r[2] : r[1].known[m].fail
  /\ g \subseteq Known(t) \cup {n} => r[1].hs = t.hs

LEMMA Section ==
  ASSUME NEW t \in TableType, NEW n \in Nodes, NEW s \in Nodes, t.known[n] = None,
         NEW g \in SUBSET Nodes, NEW old \in SUBSET Nodes
  PROVE  SectionRead(t, n, s, g, clusterProcessGossipSection(t, n, s, g, old))
<1> DEFINE E(m) == GossipEntry(t, n, s, m, old)
           known == [m \in Nodes |-> IF m \in g THEN E(m)[1].known[m] ELSE t.known[m]]
           hs == [m \in Nodes |-> IF m \in g THEN E(m)[1].hs[m] ELSE t.hs[m]]
           u == [t EXCEPT !.known = known, !.hs = hs]
           B == {m \in g : E(m)[2]}
           r == clusterProcessGossipSection(t, n, s, g, old)
<1>0. n \notin Known(t) /\ Known(t) \subseteq Nodes
  BY DEF Known
<1>r. Reading(t, n, s, old)
  BY DEF Reading
<1>1. r = <<u, B>>
  BY DEF clusterProcessGossipSection
<1>k. \A m \in Known(t) : Noted(t, E(m), s, m)
  BY <1>0, <1>r, EntryKnown
<1>s. \A m \in Nodes \ Known(t) : Skipped(t, E(m), m, n)
  BY <1>r, EntryUnknown
<1> HIDE DEF E, r
<1>2. \A m \in Known(t) :
        /\ Judged(t.known[m], E(m)[1].known[m], Reports(s, m), NeededQuorum(t))
        /\ E(m)[2] => E(m)[1].known[m].fail
        /\ ~E(m)[2] => SameFlags(t.known[m], E(m)[1].known[m])
        /\ E(m)[1].hs = t.hs
  BY <1>k DEF Noted
<1>3. \A m \in Nodes \ Known(t) :
        /\ E(m)[1].known = t.known /\ E(m)[2] = FALSE
        /\ E(m)[1].hs \in [Nodes -> {"no", "meet", "plain", "linked"}]
        /\ m = n => E(m)[1].hs = t.hs
  BY <1>s DEF Skipped
<1>4. t.known \in [Nodes -> Entry \cup {None}] /\ t.hs \in [Nodes -> {"no", "meet", "plain", "linked"}]
  BY DEF TableType
<1>5. \A m \in Known(t) : IF m \in g THEN Judged(t.known[m], known[m], Reports(s, m), NeededQuorum(t))
                                     ELSE known[m] = t.known[m]
  BY <1>0, <1>2
<1>6. \A m \in Nodes \ Known(t) : known[m] = None
  BY <1>3 DEF Known
<1>7. known \in [Nodes -> Entry \cup {None}]
  <2>1. \A m \in Nodes : known[m] \in Entry \cup {None}
    BY <1>4, <1>5, <1>6 DEF Judged
  <2> QED
    BY <2>1
<1>8. hs \in [Nodes -> {"no", "meet", "plain", "linked"}]
  <2>1. \A m \in Nodes : hs[m] \in {"no", "meet", "plain", "linked"}
    BY <1>2, <1>3, <1>4
  <2> QED
    BY <2>1
<1>9. g \subseteq Known(t) \cup {n} => hs = t.hs
  <2> SUFFICES ASSUME g \subseteq Known(t) \cup {n} PROVE hs = t.hs
    OBVIOUS
  <2>1. \A m \in Nodes : hs[m] = t.hs[m]
    BY <1>0, <1>2, <1>3
  <2> QED
    BY <1>4, <2>1
<1>10. \A m \in B : m \in Known(t) /\ known[m].fail
  BY <1>0, <1>2, <1>3
<1>16. B = {} => \A m \in Known(t) : SameFlags(t.known[m], known[m])
  <2> SUFFICES ASSUME B = {}, NEW m \in Known(t) PROVE SameFlags(t.known[m], known[m])
    OBVIOUS
  <2>1. CASE m \in g
    BY <1>0, <1>2, <2>1
  <2>2. CASE m \notin g
    BY <1>0, <2>2 DEF SameFlags
  <2> QED
    BY <2>1, <2>2
<1> HIDE DEF known, hs, B
<1>11. /\ u \in TableType /\ u.known = known /\ u.hs = hs
       /\ u.black = t.black /\ u.state = t.state /\ u.size = t.size
  BY <1>7, <1>8 DEF TableType
<1> HIDE DEF u
<1>12. Known(u) = Known(t)
  <2>1. \A m \in Known(t) : known[m] # None
    BY <1>5, MembersAssumption DEF Judged, Known
  <2> QED
    BY <1>0, <1>6, <1>11, <2>1 DEF Known
<1>13. Heard(t, u, s, g)
  BY <1>5, <1>11, <1>12 DEF Heard
<1>14. r[1] = u /\ r[2] = B
  BY <1>1, SMT
<1>15. B \subseteq g
  BY DEF B
<1>17. B = {} => Unmarked(t, u)
  BY <1>11, <1>16 DEF Unmarked
<1> QED
  BY <1>9, <1>10, <1>11, <1>13, <1>14, <1>15, <1>17 DEF r, SectionRead

\* The sender is alive and has slots: flags are only cleared.
Calmed(t, u) ==
  /\ u \in TableType /\ u.hs = t.hs /\ u.black = t.black /\ u.state = t.state /\ u.size = t.size
  /\ Known(u) = Known(t)
  /\ \A m \in Known(t) :
       /\ u.known[m].reports = t.known[m].reports
       /\ u.known[m].pfail => t.known[m].pfail
       /\ u.known[m].fail => t.known[m].fail
       /\ t.known[m].slots => u.known[m].slots

LEMMA PutCalmed ==
  ASSUME NEW t \in TableType, NEW m \in Known(t), NEW x \in Entry,
         x.reports = t.known[m].reports, x.pfail => t.known[m].pfail,
         x.fail => t.known[m].fail, t.known[m].slots => x.slots
  PROVE  Calmed(t, Put(t, m, x)) /\ Put(t, m, x).known[m] = x
<1>1. m \in Nodes /\ Known(t) \subseteq Nodes
  BY DEF Known
<1> DEFINE u == Put(t, m, x)
<1>s. PutShape(t, m, x, u)
  BY <1>1, PutShaped
<1>3. \A k \in Nodes \ {m} : u.known[k] = t.known[k]
  BY <1>1, PutOthers
<1> HIDE DEF u
<1>2. /\ u \in TableType /\ u.known[m] = x /\ u.hs = t.hs /\ u.black = t.black
      /\ u.state = t.state /\ u.size = t.size
  BY <1>s DEF PutShape
<1>4. Known(u) = Known(t)
  BY <1>1, <1>2, <1>3, MembersAssumption DEF Known
<1> QED
  BY <1>1, <1>2, <1>3, <1>4 DEF Calmed, u

\* A handler that has the table r[1] in place of t asks for an update of the state
\* with r[2] unless every node counts for as much as before.
Learnt(t, r) == Calmed(t, r[1]) /\ r[2] \in BOOLEAN /\ (r[2] \/ Unmarked(t, r[1]))

LEMMA FromKnownLearnt ==
  ASSUME NEW t \in TableType, NEW s \in Known(t)
  PROVE  Learnt(t, FromKnown(t, s))
<1> DEFINE e == t.known[s]
           x == [e EXCEPT !.slots = TRUE]
<1>1. s \in Nodes
  BY InTable
<1>2. e \in Entry
  BY InTable
<1> DEFINE r == FromKnown(t, s)
<1>3. r[1] = Put(t, s, x) /\ r[2] = ~e.slots
  <2>1. [t EXCEPT !.known[s].slots = TRUE] = Put(t, s, x)
    BY <1>1 DEF Put, TableType
  <2>2. r[1] = [t EXCEPT !.known[s].slots = TRUE] /\ r[2] = ~e.slots
    BY SMT DEF FromKnown
  <2> QED
    BY <2>1, <2>2
<1>4. /\ x \in Entry /\ x.reports = e.reports /\ x.slots
      /\ x.pfail = e.pfail /\ x.fail = e.fail
  BY <1>2, SetSlots
<1>b. e.slots \in BOOLEAN /\ x.slots = TRUE
  BY <1>2, <1>4 DEF Entry
<1> HIDE DEF x, r
<1>5. Calmed(t, Put(t, s, x)) /\ Put(t, s, x).known[s] = x
  BY <1>4, PutCalmed
<1>6. \A k \in Known(t) \ {s} : Put(t, s, x).known[k] = t.known[k]
  BY <1>1, <1>4, PutOthers DEF Known
<1>7. e.slots => Unmarked(t, Put(t, s, x))
  BY <1>4, <1>5, <1>6, <1>b DEF Unmarked, SameFlags
<1> QED
  BY <1>3, <1>5, <1>7, <1>b DEF Learnt, r

LEMMA AliveLearnt ==
  ASSUME NEW t \in TableType, NEW m \in Known(t), NEW undo \in BOOLEAN
  PROVE  Learnt(t, Alive(t, m, undo))
<1> DEFINE e == t.known[m]
           x == [e EXCEPT !.pfail = FALSE]
           y == [e EXCEPT !.fail = FALSE]
           r == Alive(t, m, undo)
<1>1. m \in Nodes
  BY InTable
<1>2. e \in Entry
  BY InTable
<1>3. /\ x \in Entry /\ x.reports = e.reports /\ x.slots = e.slots
      /\ ~x.pfail /\ x.fail = e.fail
  BY <1>2 DEF Entry
<1>4. /\ y \in Entry /\ y.reports = e.reports /\ y.slots = e.slots
      /\ y.pfail = e.pfail /\ ~y.fail
  BY <1>2 DEF Entry
<1>5. /\ [t EXCEPT !.known[m].pfail = FALSE] = Put(t, m, x)
      /\ [t EXCEPT !.known[m].fail = FALSE] = Put(t, m, y)
  BY <1>1 DEF Put, TableType
<1>6. r \in {<<t, FALSE>>, <<Put(t, m, x), TRUE>>, <<Put(t, m, y), TRUE>>}
  BY <1>5 DEF Alive, clearNodeFailureIfNeeded
<1> HIDE DEF x, y, r
<1>7. Calmed(t, Put(t, m, x))
  BY <1>3, PutCalmed
<1>8. Calmed(t, Put(t, m, y))
  BY <1>4, PutCalmed
<1>9. Calmed(t, t) /\ Unmarked(t, t)
  BY DEF Calmed, Unmarked, SameFlags
<1>10. \/ r[1] = t /\ r[2] = FALSE
       \/ r[1] = Put(t, m, x) /\ r[2] = TRUE
       \/ r[1] = Put(t, m, y) /\ r[2] = TRUE
  <2> DEFINE a == Put(t, m, x)
             b == Put(t, m, y)
  <2>1. r = <<t, FALSE>> \/ r = <<a, TRUE>> \/ r = <<b, TRUE>>
    BY <1>6
  <2> HIDE DEF a, b
  <2>2. CASE r = <<t, FALSE>>
    BY <2>2, SMT
  <2>3. CASE r = <<a, TRUE>>
    <3>1. r[1] = a /\ r[2] = TRUE
      BY <2>3, SMT
    <3> QED
      BY <3>1 DEF a
  <2>4. CASE r = <<b, TRUE>>
    <3>1. r[1] = b /\ r[2] = TRUE
      BY <2>4, SMT
    <3> QED
      BY <3>1 DEF b
  <2> QED
    BY <2>1, <2>2, <2>3, <2>4
<1> QED
  BY <1>7, <1>8, <1>9, <1>10 DEF Learnt, r

LEMMA LearntAgain ==
  ASSUME NEW t, NEW r, NEW q, Learnt(t, r), Learnt(r[1], q)
  PROVE  Learnt(t, <<q[1], r[2] \/ q[2]>>)
<1>1. Calmed(t, q[1])
  BY DEF Learnt, Calmed
<1>2. r[2] \/ q[2] \/ Unmarked(t, q[1])
  <2>1. Known(r[1]) = Known(t)
    BY DEF Learnt, Calmed
  <2>2. CASE Unmarked(t, r[1]) /\ Unmarked(r[1], q[1])
    BY <2>1, <2>2 DEF Unmarked, SameFlags
  <2> QED
    BY <2>2 DEF Learnt
<1> DEFINE x == <<q[1], r[2] \/ q[2]>>
<1>3. x[1] = q[1] /\ x[2] = (r[2] \/ q[2])
  BY SMT
<1>4. (r[2] \/ q[2]) \in BOOLEAN
  BY DEF Learnt
<1> HIDE DEF x
<1> QED
  BY <1>1, <1>2, <1>3, <1>4 DEF Learnt, x

LEMMA LearntPair ==
  ASSUME NEW t, NEW u, NEW todo, Learnt(t, <<u, todo>>)
  PROVE  Calmed(t, u) /\ todo \in BOOLEAN /\ (todo \/ Unmarked(t, u))
<1> DEFINE r == <<u, todo>>
<1>1. r[1] = u /\ r[2] = todo
  BY SMT
<1> HIDE DEF r
<1> QED
  BY <1>1 DEF Learnt, r

LEMMA UnmarkedSame ==
  ASSUME NEW t, NEW u, NEW n, Unmarked(t, u), Known(u) = Known(t)
  PROVE  Serving(u, n) = Serving(t, n) /\ (Reaches(u, n) <=> Reaches(t, n))
<1>1. Serving(u, n) = Serving(t, n)
  BY DEF Unmarked, SameFlags, Serving
<1>2. Reachable(u, n) = Reachable(t, n)
  BY <1>1 DEF Unmarked, SameFlags, Serving, Reachable
<1> QED
  BY <1>1, <1>2 DEF Reaches

--------------------------------------------------------------------------
(* What a step does to the table of one node *)

\* Node n has the table u now, and the other tables are as they were.
Only(n, u) == tab' = [tab EXCEPT ![n] = u]

\* The parts of MembersType that speak of tables and links.
LEMMA OnlyTable ==
  ASSUME MembersType, NEW n \in Nodes, NEW u \in TableType, u.known[n] = None, Only(n, u)
  PROVE  /\ tab' \in [Nodes -> TableType]
         /\ \A k \in Nodes : tab'[k].known[k] = None
         /\ tab'[n] = u /\ \A k \in Nodes \ {n} : tab'[k] = tab[k]
BY DEF MembersType, Only

MembersInv == MembersType /\ OkMeansMajority /\ ReportsOfKnown

\* The table w a packet leaves behind: node n, whose table had become t, has
\* heard gossip g of the sender s and updated the state of the cluster if it had to.
AfterRead(n, t, s, g, u, w) ==
  /\ Heard(t, u, s, g) /\ w \in TableType /\ w.known = u.known /\ w.hs = u.hs
  /\ w.black = tab[n].black /\ w.size \in {Cardinality(Serving(w, n)), tab[n].size}
  /\ w.state = "ok" => Reaches(w, n)
  /\ g \subseteq Known(t) \cup {n} => u.hs = tab[n].hs
  /\ Only(n, w)
  /\ \A p \in fails' : p \in fails \/ (p \in {n} \X Known(t) \X Known(t) /\ u.known[p[3]].fail)

LEMMA ReadTable ==
  ASSUME MembersInv, NEW n \in Nodes, NEW t, NEW todo, Learnt(tab[n], <<t, todo>>),
         NEW s \in Known(tab[n]), NEW g \in SUBSET Known(tab[s]), NEW old \in SUBSET Nodes,
         NEW delay \in BOOLEAN, ReadGossip(t, n, s, g, old, todo, delay)
  PROVE  \E u, w : AfterRead(n, t, s, g, u, w)
<1>0. Calmed(tab[n], t) /\ todo \in BOOLEAN /\ (todo \/ Unmarked(tab[n], t))
  BY LearntPair, SMT
<1>1. t \in TableType /\ s \in Nodes /\ g \in SUBSET Nodes /\ Known(t) = Known(tab[n])
      /\ t.hs = tab[n].hs /\ t.black = tab[n].black
      /\ t.state = tab[n].state /\ t.size = tab[n].size
  BY <1>0 DEF Calmed, Known
<1>2. t.known[n] = None
  BY <1>1 DEF MembersInv, MembersType, Known
<1> DEFINE r == clusterProcessGossipSection(t, n, s, g, old)
           u == r[1]
           flag == todo \/ r[2] # {}
           w == clusterBeforeSleep(u, n, flag, delay)
<1>3. /\ Heard(t, u, s, g) /\ (r[2] = {} => Unmarked(t, u))
      /\ r[2] \subseteq g \cap Known(t) /\ \A m \in r[2] : u.known[m].fail
      /\ g \subseteq Known(t) \cup {n} => u.hs = t.hs
  <2>1. SectionRead(t, n, s, g, r)
    BY <1>1, <1>2, Section
  <2> QED
    BY <2>1 DEF SectionRead
<1>4. Only(n, w) /\ fails' = fails \cup FailPackets(t, n, r[2])
  BY DEF ReadGossip, Only
<1> HIDE DEF r
<1>5. /\ u \in TableType /\ u.black = t.black /\ u.state = t.state /\ u.size = t.size
      /\ Known(u) = Known(t)
  BY <1>3 DEF Heard
<1>6. /\ w \in TableType /\ w.known = u.known /\ w.hs = u.hs /\ w.black = u.black
      /\ w.size \in {Cardinality(Serving(u, n)), tab[n].size}
      /\ w.state = "ok" => Reaches(w, n)
  <2>1. CASE flag
    <3>1. Updated(u, n, w)
      BY <1>5, <2>1, UpdateState DEF clusterBeforeSleep
    <3> QED
      BY <3>1 DEF Updated
  <2>2. CASE ~flag
    <3>1. w = u
      BY <2>2 DEF clusterBeforeSleep
    <3>2. Unmarked(tab[n], t) /\ Unmarked(t, u)
      BY <1>0, <1>3, <2>2
    <3>3. Reaches(u, n) <=> Reaches(tab[n], n)
      BY <1>1, <1>5, <3>2, UnmarkedSame
    <3>4. tab[n].state = "ok" => Reaches(tab[n], n)
      BY DEF MembersInv, OkMeansMajority, Reaches
    <3> HIDE DEF w, u
    <3> QED
      BY <1>1, <1>5, <3>1, <3>3, <3>4
  <2> QED
    BY <2>1, <2>2
<1> HIDE DEF u, w
<1>7. Serving(w, n) = Serving(u, n)
  BY <1>6, SameKnown
<1>8. \A p \in fails' : p \in fails \/ (p \in {n} \X Known(t) \X Known(t) /\ u.known[p[3]].fail)
  BY <1>3, <1>4 DEF FailPackets
<1>9. AfterRead(n, t, s, g, u, w)
  BY <1>1, <1>3, <1>4, <1>5, <1>6, <1>7, <1>8 DEF AfterRead
<1> QED
  BY <1>9

--------------------------------------------------------------------------
(* The majority and the reports, whatever operators do *)

LEMMA OnlyKeeps ==
  ASSUME MembersInv, NEW n \in Nodes, NEW u \in TableType, Only(n, u), u.known[n] = None,
         u.state = "ok" => Reaches(u, n), Closed(u),
         mail' \in [Links -> {"no", "ping", "meet", "pong"}],
         fails' \subseteq Nodes \X Nodes \X Nodes, suspected' \subseteq Nodes \X Nodes
  PROVE  MembersInv'
<1>1. MembersType' /\ tab'[n] = u /\ \A k \in Nodes \ {n} : tab'[k] = tab[k]
  BY OnlyTable DEF MembersInv, MembersType
<1>2. OkMeansMajority'
  BY <1>1 DEF MembersInv, OkMeansMajority, Reaches
<1>3. ReportsOfKnown'
  <2>1. \A k \in Nodes : Closed(tab[k])
    BY DEF MembersInv, ReportsOfKnown, Closed
  <2>2. \A k \in Nodes : Closed(tab'[k])
    BY <1>1, <2>1
  <2> QED
    BY <2>2 DEF ReportsOfKnown, Closed
<1> QED
  BY <1>1, <1>2, <1>3 DEF MembersInv

\* A step that leaves the nodes, their flags and the state alone.
LEMMA QuietKeeps ==
  ASSUME MembersInv, NEW n \in Nodes, NEW u \in TableType, Only(n, u),
         u.known = tab[n].known, u.state = tab[n].state,
         mail' \in [Links -> {"no", "ping", "meet", "pong"}], UNCHANGED <<fails, suspected>>
  PROVE  MembersInv'
<1>1. u.known[n] = None /\ Closed(u)
  BY SameKnown DEF MembersInv, MembersType, ReportsOfKnown, Closed
<1>2. u.state = "ok" => Reaches(u, n)
  BY SameKnown DEF MembersInv, OkMeansMajority, Reaches
<1> QED
  BY <1>1, <1>2, OnlyKeeps DEF MembersInv, MembersType

LEMMA ReadKeeps ==
  ASSUME MembersInv, NEW n \in Nodes, NEW t, NEW todo, Learnt(tab[n], <<t, todo>>),
         NEW s \in Known(tab[n]), NEW g \in SUBSET Known(tab[s]), NEW old \in SUBSET Nodes,
         NEW delay \in BOOLEAN, ReadGossip(t, n, s, g, old, todo, delay),
         mail' \in [Links -> {"no", "ping", "meet", "pong"}], UNCHANGED suspected
  PROVE  MembersInv'
<1>c. Calmed(tab[n], t)
  BY LearntPair
<1>0. PICK u, w : AfterRead(n, t, s, g, u, w)
  BY ReadTable
<1>1. /\ Heard(t, u, s, g) /\ w \in TableType /\ w.known = u.known
      /\ w.state = "ok" => Reaches(w, n)
      /\ Only(n, w)
      /\ \A p \in fails' : p \in fails \/ p \in {n} \X Known(t) \X Known(t)
  BY <1>0 DEF AfterRead
<1>2. Known(u) = Known(tab[n]) /\ Known(t) = Known(tab[n]) /\ Known(w) = Known(u)
  BY <1>1, <1>c, SameKnown DEF Heard, Calmed
<1>3. w.known[n] = None
  <2>1. n \notin Known(w)
    BY <1>2 DEF MembersInv, MembersType, Known
  <2> QED
    BY <2>1 DEF Known
<1>4. Closed(w)
  <2>1. \A m \in Known(t) : t.known[m].reports \subseteq Known(t)
    BY <1>2, <1>c DEF MembersInv, ReportsOfKnown, Calmed
  <2>2. \A m \in Known(t) : u.known[m].reports \subseteq t.known[m].reports \cup {s}
    BY <1>1 DEF Heard, Judged, Reports
  <2> QED
    BY <1>1, <1>2, <2>1, <2>2 DEF Closed
<1>5. fails' \subseteq Nodes \X Nodes \X Nodes
  BY <1>1 DEF MembersInv, MembersType, Known
<1> QED
  BY <1>1, <1>3, <1>4, <1>5, OnlyKeeps DEF MembersInv, MembersType

LEMMA PingKeeps ==
  ASSUME MembersInv, NEW n \in Nodes, NEW m \in Nodes, n # m,
         NEW first \in BOOLEAN, NEW g \in GossipSection(n), NEW old \in SUBSET Nodes,
         NEW delay \in BOOLEAN, ReceivePing(n, m, first, g, old, delay)
  PROVE  MembersInv'
<1> DEFINE t == tab[m]
<1>1. t \in TableType /\ g \in SUBSET Known(tab[n]) /\ UNCHANGED suspected
      /\ <<n, m>> \in Links
  BY DEF MembersInv, MembersType, GossipSection, ReceivePing, Links
<1>2. mail' \in [Links -> {"no", "ping", "meet", "pong"}]
  BY <1>1 DEF MembersInv, MembersType, ReceivePing
<1>3. CASE t.known[n] # None
  <2>1. n \in Known(t)
    BY <1>3 DEF Known
  <2> DEFINE x == FromKnown(t, n)
  <2>2. Learnt(t, <<x[1], x[2]>>)
    BY <1>1, <2>1, FromKnownLearnt DEF FromKnown
  <2>3. ReadGossip(x[1], m, n, g, old, x[2], delay)
    BY <1>3 DEF ReceivePing
  <2> HIDE DEF x
  <2> QED
    BY <1>1, <1>2, <2>1, <2>2, <2>3, ReadKeeps
<1>4. CASE t.known[n] = None
  <2> DEFINE u == [t EXCEPT !.hs[n] = "plain"]
  <2>1. u \in TableType /\ u.known = t.known /\ u.state = t.state
    BY <1>1 DEF TableType
  <2>2. UNCHANGED fails /\ (Only(m, u) \/ tab' = tab)
    BY <1>4 DEF ReceivePing, Only, MembersInv, MembersType
  <2>3. CASE Only(m, u)
    <3> HIDE DEF u
    <3> QED BY <1>1, <1>2, <2>1, <2>2, <2>3, QuietKeeps
  <2>4. CASE tab' = tab
    <3>1. Only(m, t)
      BY <2>4 DEF Only, MembersInv, MembersType
    <3> QED
      BY <1>1, <1>2, <2>2, <3>1, QuietKeeps
  <2> QED
    BY <2>2, <2>3, <2>4
<1> QED
  BY <1>3, <1>4

\* The table the PONG of a known node m makes of t, and whether the state of the
\* cluster is to be updated.
Ponged(t, m, undo) ==
  LET y == Alive(t, m, undo)
      x == FromKnown(y[1], m)
  IN  <<x[1], y[2] \/ x[2]>>

LEMMA PongLearnt ==
  ASSUME NEW t \in TableType, NEW m \in Known(t), NEW undo \in BOOLEAN
  PROVE  Learnt(t, Ponged(t, m, undo))
<1> DEFINE y == Alive(t, m, undo)
           x == FromKnown(y[1], m)
<1>1. Learnt(t, y)
  BY AliveLearnt
<1> HIDE DEF y
<1>2. y[1] \in TableType /\ m \in Known(y[1])
  BY <1>1 DEF Learnt, Calmed
<1>3. Learnt(y[1], x)
  BY <1>2, FromKnownLearnt
<1> HIDE DEF x
<1> QED
  BY <1>1, <1>3, LearntAgain DEF Ponged, x, y

LEMMA PongKeeps ==
  ASSUME MembersInv, NEW n \in Nodes, NEW m \in Nodes, n # m,
         NEW g \in GossipSection(m), NEW old \in SUBSET Nodes, NEW delay \in BOOLEAN,
         NEW undo \in BOOLEAN, ReceivePong(n, m, g, old, delay, undo)
  PROVE  MembersInv'
<1> DEFINE y == Alive(tab[n], m, undo)
           x == FromKnown(y[1], m)
<1>1. tab[n] \in TableType /\ g \in SUBSET Known(tab[m]) /\ m \in Known(tab[n])
  BY DEF MembersInv, MembersType, GossipSection, ReceivePong, Known
<1>2. /\ mail' \in [Links -> {"no", "ping", "meet", "pong"}] /\ UNCHANGED suspected
      /\ ReadGossip(x[1], n, m, g, old, y[2] \/ x[2], delay)
  BY DEF MembersInv, MembersType, ReceivePong
<1>3. Learnt(tab[n], <<x[1], y[2] \/ x[2]>>)
  BY <1>1, PongLearnt DEF Ponged
<1> HIDE DEF x, y
<1> QED
  BY <1>1, <1>2, <1>3, ReadKeeps

LEMMA HandshakeKeeps ==
  ASSUME MembersInv, NEW n \in Nodes, NEW m \in Nodes, n # m, HandshakePong(n, m)
  PROVE  MembersInv'
<1> DEFINE t == tab[n]
<1>1. t \in TableType /\ UNCHANGED suspected /\ <<n, m>> \in Links
  BY DEF MembersInv, MembersType, HandshakePong, Links
<1>2. mail' \in [Links -> {"no", "ping", "meet", "pong"}]
  BY <1>1 DEF MembersInv, MembersType, HandshakePong
<1>4. CASE t.known[m] # None
  <2> DEFINE u == [t EXCEPT !.hs[m] = "no"]
  <2>1. u \in TableType /\ u.known = t.known /\ u.state = t.state
    BY <1>1 DEF TableType
  <2>2. UNCHANGED fails /\ Only(n, u)
    BY <1>4 DEF HandshakePong, Only
  <2> HIDE DEF u
  <2> QED BY <1>1, <1>2, <2>1, <2>2, QuietKeeps
<1>5. CASE t.known[m] = None
  <2> DEFINE u == clusterRenameNode(t, m)
  <2>0. NewNode \in Entry /\ NewNode.reports = {} /\ ~NewNode.slots
    BY DEF NewNode, Entry
  <2>1. /\ u \in TableType /\ u.state = t.state /\ u.known[m] = NewNode
        /\ \A k \in Nodes \ {m} : u.known[k] = t.known[k]
    BY <1>1, <2>0 DEF TableType, clusterRenameNode
  <2>2. UNCHANGED fails /\ Only(n, u)
    BY <1>5 DEF HandshakePong, Only
  <2>3. u.known[n] = None
    BY <2>1 DEF MembersInv, MembersType
  <2> HIDE DEF u
  <2>4. m \notin Known(t) /\ Known(u) = Known(t) \cup {m}
    BY <1>5, <2>0, <2>1, MembersAssumption DEF Known
  <2>5. Closed(u)
    <3>1. \A k \in Known(t) : u.known[k].reports \subseteq Known(t)
      BY <2>1, <2>4 DEF MembersInv, ReportsOfKnown, Known
    <3> QED
      BY <2>0, <2>1, <2>4, <3>1 DEF Closed
  <2>6. Serving(u, n) = Serving(t, n)
    BY <2>0, <2>1, <2>4 DEF Serving, Known
  <2>7. Reachable(u, n) = Reachable(t, n)
    <3>1. m \notin Serving(t, n) /\ Serving(t, n) \subseteq Nodes
      BY <2>4, <1>1, NodeSets DEF Serving
    <3> QED
      BY <2>1, <2>6, <3>1 DEF Reachable
  <2>8. u.state = "ok" => Reaches(u, n)
    BY <2>1, <2>6, <2>7 DEF MembersInv, OkMeansMajority, Reaches
  <2> QED
    BY <1>1, <1>2, <2>1, <2>2, <2>3, <2>5, <2>8, OnlyKeeps DEF MembersInv, MembersType
<1> QED
  BY <1>4, <1>5

\* The table with the FAIL flag of m set.
Failed(t, m) == [t EXCEPT !.known[m].fail = TRUE, !.known[m].pfail = FALSE]

Flagged(t, m, u) ==
  /\ u \in TableType /\ Known(u) = Known(t) /\ u.hs = t.hs
  /\ \A k \in Known(t) \ {m} : u.known[k] = t.known[k]
  /\ u.known[m].reports = t.known[m].reports
  /\ u.known[m].slots = t.known[m].slots
  /\ ~u.known[m].pfail

LEMMA FailedTable ==
  ASSUME NEW t \in TableType, NEW m \in Known(t)
  PROVE  Flagged(t, m, Failed(t, m))
<1> DEFINE e == t.known[m]
           x == [e EXCEPT !.fail = TRUE, !.pfail = FALSE]
           u == Put(t, m, x)
<1>1. m \in Nodes /\ Known(t) \subseteq Nodes
  BY DEF Known
<1>2. e \in Entry
  BY InTable
<1>3. x \in Entry /\ x.reports = e.reports /\ x.slots = e.slots /\ ~x.pfail
  BY <1>2 DEF Entry
<1>4. Failed(t, m) = u
  BY <1>1 DEF Failed, Put, TableType
<1> HIDE DEF x
<1>5. u \in TableType /\ u.known[m] = x /\ u.hs = t.hs
  BY <1>1, <1>3, PutEntry
<1>6. \A k \in Nodes \ {m} : u.known[k] = t.known[k]
  BY <1>1, <1>3, PutOthers
<1> HIDE DEF u
<1>7. Known(u) = Known(t)
  BY <1>1, <1>3, <1>5, <1>6, MembersAssumption DEF Known
<1> QED
  BY <1>1, <1>3, <1>4, <1>5, <1>6, <1>7 DEF Flagged

LEMMA FailKeeps ==
  ASSUME MembersInv, NEW p \in fails, NEW delay \in BOOLEAN, ReceiveFail(p, delay)
  PROVE  MembersInv'
<1> DEFINE n == p[2]
           m == p[3]
           t == tab[n]
           counts == /\ t.known[p[1]] # None /\ m # n
                     /\ t.known[m] # None /\ ~t.known[m].fail
           v == Failed(t, m)
           u == clusterUpdateState(v, n, delay)
<1>1. n \in Nodes /\ m \in Nodes /\ fails' \subseteq fails /\ UNCHANGED <<mail, suspected>>
  BY DEF MembersInv, MembersType, ReceiveFail
<1>2. t \in TableType
  BY <1>1 DEF MembersInv, MembersType
<1>3. /\ mail' \in [Links -> {"no", "ping", "meet", "pong"}]
      /\ fails' \subseteq Nodes \X Nodes \X Nodes /\ suspected' \subseteq Nodes \X Nodes
  BY <1>1 DEF MembersInv, MembersType
<1>4. CASE ~counts
  <2>1. Only(n, t)
    BY <1>1, <1>4 DEF ReceiveFail, Only, MembersInv, MembersType
  <2>2. t.known[n] = None /\ Closed(t) /\ (t.state = "ok" => Reaches(t, n))
    BY <1>1 DEF MembersInv, MembersType, ReportsOfKnown, OkMeansMajority, Closed, Reaches
  <2> QED
    BY <1>1, <1>2, <1>3, <2>1, <2>2, OnlyKeeps
<1>5. CASE counts
  <2>1. Only(n, u)
    BY <1>5 DEF ReceiveFail, Only, Failed, clusterBeforeSleep
  <2>2. m \in Known(t) /\ n \notin Known(t)
    BY <1>1, <1>5 DEF MembersInv, MembersType, Known
  <2>3. v \in TableType /\ Known(v) = Known(t)
        /\ \A k \in Known(t) : v.known[k].reports = t.known[k].reports
    <3>1. Flagged(t, m, v)
      BY <1>2, <2>2, FailedTable
    <3> QED
      BY <3>1 DEF Flagged
  <2> HIDE DEF v
  <2>4. u \in TableType /\ u.known = v.known /\ (u.state = "ok" => Reaches(u, n))
    <3>1. Updated(v, n, u)
      BY <1>1, <2>3, UpdateState
    <3> QED
      BY <3>1 DEF Updated
  <2> HIDE DEF u
  <2>5. Known(u) = Known(t)
    BY <2>3, <2>4, SameKnown
  <2>6. u.known[n] = None
    BY <1>1, <2>2, <2>5 DEF Known
  <2>7. Closed(u)
    BY <1>1, <2>3, <2>4, <2>5 DEF Closed, MembersInv, ReportsOfKnown
  <2> QED
    BY <1>1, <1>3, <2>1, <2>4, <2>6, <2>7, OnlyKeeps
<1> QED
  BY <1>4, <1>5

\* The table of the cron before it updates the state.
Late(t, late) == [m \in Nodes |-> IF m \in late THEN [t.known[m] EXCEPT !.pfail = TRUE]
                                  ELSE t.known[m]]

LEMMA LateTable ==
  ASSUME NEW t \in TableType, NEW late \in SUBSET Known(t)
  PROVE  /\ Late(t, late) \in [Nodes -> Entry \cup {None}]
         /\ \A m \in Nodes : Late(t, late)[m] # None <=> m \in Known(t)
         /\ \A m \in Known(t) : /\ Late(t, late)[m].reports = t.known[m].reports
                                /\ Late(t, late)[m].slots = t.known[m].slots
                                /\ Late(t, late)[m].fail = t.known[m].fail
         /\ \A m \in Nodes \ late : Late(t, late)[m] = t.known[m]
<1> DEFINE x(m) == [t.known[m] EXCEPT !.pfail = TRUE]
           L == Late(t, late)
<1>1. \A m \in Known(t) : m \in Nodes /\ t.known[m] \in Entry
  BY InTable
<1>2. \A m \in Known(t) : /\ x(m) \in Entry /\ x(m).reports = t.known[m].reports
                          /\ x(m).slots = t.known[m].slots /\ x(m).fail = t.known[m].fail
  BY <1>1 DEF Entry
<1>3. \A m \in Nodes : L[m] = IF m \in late THEN x(m) ELSE t.known[m]
  BY DEF Late
<1> HIDE DEF x
<1>4. \A m \in Nodes \ Known(t) : t.known[m] = None
  BY DEF Known
<1>5. \A m \in Nodes : L[m] \in Entry \cup {None} /\ (L[m] # None <=> m \in Known(t))
  BY <1>1, <1>2, <1>3, <1>4, MembersAssumption
<1>6. L \in [Nodes -> Entry \cup {None}]
  <2>1. L = [m \in Nodes |-> L[m]]
    BY DEF Late
  <2> HIDE DEF L
  <2> QED
    BY <1>5, <2>1
<1> HIDE DEF L
<1>7. \A m \in Known(t) : L[m].reports = t.known[m].reports /\ L[m].slots = t.known[m].slots
                          /\ L[m].fail = t.known[m].fail
  BY <1>1, <1>2, <1>3
<1>8. \A m \in Nodes \ late : L[m] = t.known[m]
  BY <1>3
<1> QED
  BY <1>5, <1>6, <1>7, <1>8 DEF L

LEMMA CronKeeps ==
  ASSUME MembersInv, NEW n \in Nodes, Cron(n)
  PROVE  MembersInv'
<1> DEFINE t == tab[n]
<1>1. PICK gone \in SUBSET Nodes, late \in SUBSET Known(t), delay \in BOOLEAN :
        clusterCron(n, gone, late, delay)
  BY DEF Cron, Known
<1> DEFINE hs == [m \in Nodes |-> IF m \in gone THEN "no"
                                  ELSE IF t.hs[m] # "no" THEN "linked" ELSE "no"]
           v == [t EXCEPT !.hs = hs, !.known = Late(t, late)]
           u == CronState(v, n, late, delay)
<1>2. t \in TableType
  BY DEF MembersInv, MembersType
<1>3. /\ Only(n, u) /\ UNCHANGED fails /\ suspected' = suspected \cup ({n} \X late)
      /\ mail' = [p \in DOMAIN mail |->
                    IF p[1] # n \/ hs[p[2]] = t.hs[p[2]] THEN mail[p]
                    ELSE IF hs[p[2]] = "no" THEN "no"
                    ELSE IF t.hs[p[2]] = "meet" THEN "meet" ELSE "ping"]
  BY <1>1 DEF clusterCron, Only, Late
<1>4. mail' \in [Links -> {"no", "ping", "meet", "pong"}]
  <2>1. DOMAIN mail = Links /\ \A p \in Links : mail[p] \in {"no", "ping", "meet", "pong"}
    BY DEF MembersInv, MembersType
  <2> HIDE DEF hs
  <2> QED
    BY <1>3, <2>1
<1>5. fails' \subseteq Nodes \X Nodes \X Nodes /\ suspected' \subseteq Nodes \X Nodes
  BY <1>3 DEF MembersInv, MembersType, Known
<1>6. hs \in [Nodes -> {"no", "meet", "plain", "linked"}]
  OBVIOUS
<1> HIDE DEF hs
<1> DEFINE L == Late(t, late)
<1>7. /\ L \in [Nodes -> Entry \cup {None}]
      /\ \A m \in Nodes : L[m] # None <=> m \in Known(t)
      /\ \A m \in Known(t) : L[m].reports = t.known[m].reports
      /\ \A m \in Nodes \ late : L[m] = t.known[m]
  BY <1>2, LateTable
<1> HIDE DEF L
<1>8. v \in TableType /\ v.known = L /\ v.state = t.state
  BY <1>2, <1>6, <1>7 DEF TableType, L
<1> HIDE DEF v
<1>9. Known(v) = Known(t)
  BY <1>7, <1>8 DEF Known
<1>10. CASE late # {} \/ v.state = "fail"
  <2>1. u = clusterUpdateState(v, n, delay)
    BY <1>10 DEF CronState
  <2>2. u \in TableType /\ u.known = v.known /\ (u.state = "ok" => Reaches(u, n))
    <3>1. Updated(v, n, u)
      BY <1>8, <2>1, UpdateState
    <3> QED
      BY <3>1 DEF Updated
  <2> HIDE DEF u
  <2>3. Known(u) = Known(t)
    BY <1>9, <2>2, SameKnown
  <2>4. u.known[n] = None
    BY <2>3 DEF MembersInv, MembersType, Known
  <2>5. Closed(u)
    BY <1>7, <1>8, <2>2, <2>3, ZenonT(60) DEF Closed, MembersInv, ReportsOfKnown
  <2> QED
    BY <1>3, <1>4, <1>5, <2>2, <2>4, <2>5, OnlyKeeps
<1>11. CASE late = {} /\ v.state # "fail"
  <2>1. u = v
    BY <1>11 DEF CronState
  <2>2. L = t.known
    <3>1. \A m \in Nodes : L[m] = t.known[m]
      BY <1>7, <1>11
    <3>2. t.known \in [Nodes -> Entry \cup {None}]
      BY <1>2 DEF TableType
    <3> QED
      BY <1>7, <3>1, <3>2, SMT
  <2>3. suspected' = suspected
    BY <1>3, <1>11
  <2> HIDE DEF u
  <2> QED
    BY <1>3, <1>4, <1>8, <2>1, <2>2, <2>3, QuietKeeps
<1> QED
  BY <1>10, <1>11

LEMMA MeetKeeps ==
  ASSUME MembersInv, NEW n \in Nodes, NEW m \in Nodes, Meet(n, m)
  PROVE  MembersInv'
<1> DEFINE t == tab[n]
           u == clusterStartHandshake(t, m)
<1>1. t \in TableType
  BY DEF MembersInv, MembersType
<1>2. u \in TableType /\ u.known = t.known /\ u.state = t.state
  BY <1>1 DEF clusterStartHandshake, TableType
<1>3. Only(n, u) /\ UNCHANGED <<mail, fails, suspected>>
  BY DEF Meet, Only
<1> HIDE DEF u
<1>4. mail' \in [Links -> {"no", "ping", "meet", "pong"}]
  BY <1>3 DEF MembersInv, MembersType
<1> QED
  BY <1>2, <1>3, <1>4, QuietKeeps

\* What is left of the table t when m is taken out.
Removed(t, m, v) ==
  /\ v \in TableType /\ Known(v) = Known(t) \ {m}
  /\ \A k \in Known(v) : v.known[k].reports = t.known[k].reports \ {m}

LEMMA Remove ==
  ASSUME NEW t \in TableType, NEW m \in Nodes
  PROVE  Removed(t, m, [clusterDelNode(t, m) EXCEPT !.black = @ \cup {m}])
<1> DEFINE x(k) == [t.known[k] EXCEPT !.reports = @ \ {m}]
           L == [k \in Nodes |-> IF k = m \/ t.known[k] = None THEN None ELSE x(k)]
           v == [t EXCEPT !.known = L, !.black = @ \cup {m}]
<1>1. [clusterDelNode(t, m) EXCEPT !.black = @ \cup {m}] = v
  <2>1. clusterDelNode(t, m) = [t EXCEPT !.known = L]
    BY DEF clusterDelNode
  <2> HIDE DEF L
  <2> QED
    BY <2>1, SMT DEF TableType
<1>2. \A k \in Known(t) : x(k) \in Entry /\ x(k).reports = t.known[k].reports \ {m}
  BY InTable DEF Entry
<1>3. \A k \in Known(t) : x(k) # None
  BY <1>2, MembersAssumption
<1> HIDE DEF x
<1>4. L \in [Nodes -> Entry \cup {None}]
  BY <1>2 DEF Known
<1>5. \A k \in Nodes : L[k] = IF k = m \/ t.known[k] = None THEN None ELSE x(k)
  OBVIOUS
<1> HIDE DEF L
<1>6. v \in TableType /\ v.known = L
  BY <1>4 DEF TableType
<1> HIDE DEF v
<1>7. Known(v) = Known(t) \ {m}
  BY <1>3, <1>5, <1>6 DEF Known
<1>8. \A k \in Known(v) : v.known[k] = x(k)
  BY <1>5, <1>6, <1>7 DEF Known
<1>9. \A k \in Known(v) : v.known[k].reports = t.known[k].reports \ {m}
  BY <1>2, <1>7, <1>8
<1> QED
  BY <1>1, <1>6, <1>7, <1>9 DEF Removed

LEMMA ForgetKeeps ==
  ASSUME MembersInv, NEW n \in Nodes, NEW m \in Nodes, n # m, NEW delay \in BOOLEAN,
         Forget(n, m, delay)
  PROVE  MembersInv'
<1> DEFINE t == tab[n]
           v == [clusterDelNode(t, m) EXCEPT !.black = @ \cup {m}]
           u == clusterUpdateState(v, n, delay)
<1>1. t \in TableType /\ Closed(t) /\ t.known[n] = None
  BY DEF MembersInv, MembersType, ReportsOfKnown, Closed
<1>2. Only(n, u) /\ UNCHANGED <<fails, suspected>> /\ mail' = [mail EXCEPT ![<<n, m>>] = "no"]
  BY DEF Forget, Only, clusterBeforeSleep
<1>3. mail' \in [Links -> {"no", "ping", "meet", "pong"}]
  BY <1>2 DEF MembersInv, MembersType
<1>4. Removed(t, m, v)
  BY <1>1, Remove
<1> HIDE DEF v
<1>5. v \in TableType /\ Known(v) = Known(t) \ {m}
      /\ \A k \in Known(v) : v.known[k].reports = t.known[k].reports \ {m}
  BY <1>4 DEF Removed
<1>6. Updated(v, n, u)
  BY <1>5, UpdateState
<1>7. u \in TableType /\ u.known = v.known /\ (u.state = "ok" => Reaches(u, n))
  BY <1>6 DEF Updated
<1> HIDE DEF u
<1>8. Known(u) = Known(v) /\ (Closed(u) <=> Closed(v))
  BY <1>7, SameKnown
<1>9. u.known[n] = None
  BY <1>1, <1>5, <1>7, <1>8 DEF Known
<1>10. Closed(v)
  BY <1>1, <1>5 DEF Closed
<1> QED
  BY <1>2, <1>3, <1>7, <1>8, <1>9, <1>10, OnlyKeeps DEF MembersInv, MembersType

LEMMA BlackKeeps ==
  ASSUME MembersInv, NEW n \in Nodes, NEW m \in Nodes, clusterBlacklistCleanup(n, m)
  PROVE  MembersInv'
<1> DEFINE t == tab[n]
           u == [t EXCEPT !.black = @ \ {m}]
<1>1. t \in TableType
  BY DEF MembersInv, MembersType
<1>2. u \in TableType /\ u.known = t.known /\ u.state = t.state
  BY <1>1 DEF TableType
<1>3. Only(n, u) /\ UNCHANGED <<mail, fails, suspected>>
  BY DEF clusterBlacklistCleanup, Only
<1> HIDE DEF u
<1>4. mail' \in [Links -> {"no", "ping", "meet", "pong"}]
  BY <1>3 DEF MembersInv, MembersType
<1> QED
  BY <1>2, <1>3, <1>4, QuietKeeps

LEMMA LossKeeps ==
  ASSUME MembersInv, NEW n \in Nodes, NEW m \in Nodes, handleLinkIOError(n, m)
  PROVE  MembersInv'
<1>1. mail' \in [Links -> {"no", "ping", "meet", "pong"}] /\ UNCHANGED <<tab, fails, suspected>>
  BY DEF handleLinkIOError, MembersInv, MembersType
<1>2. MembersType'
  BY <1>1 DEF MembersInv, MembersType
<1>3. OkMeansMajority' /\ ReportsOfKnown'
  BY <1>1 DEF MembersInv, OkMeansMajority, ReportsOfKnown
<1> QED
  BY <1>2, <1>3 DEF MembersInv

LEMMA MembersNext ==
  ASSUME MembersInv, [Next]_vars
  PROVE  MembersInv'
<1>1. CASE UNCHANGED vars
  BY <1>1 DEF vars, MembersInv, MembersType, OkMeansMajority, ReportsOfKnown, Known
<1>2. ASSUME NEW n \in Nodes, Cron(n) PROVE MembersInv'
  BY <1>2, CronKeeps
<1>3. ASSUME NEW p \in fails, NEW delay \in BOOLEAN, ReceiveFail(p, delay) PROVE MembersInv'
  BY <1>3, FailKeeps
<1>4. ASSUME NEW p \in DOMAIN mail,
             \/ Packet(p[1], p[2])
             \/ handleLinkIOError(p[1], p[2])
             \/ Meet(p[1], p[2])
             \/ \E delay \in BOOLEAN : Forget(p[1], p[2], delay)
             \/ clusterBlacklistCleanup(p[1], p[2])
      PROVE  MembersInv'
  <2>1. p[1] \in Nodes /\ p[2] \in Nodes /\ p[1] # p[2]
    <3>1. p \in Links
      BY DEF MembersInv, MembersType
    <3> QED
      BY <3>1 DEF Links
  <2>2. CASE Packet(p[1], p[2])
    <3>1. {} \in SUBSET Nodes /\ Nodes \in SUBSET Nodes
      OBVIOUS
    <3>2. \/ HandshakePong(p[1], p[2])
          \/ \E delay \in BOOLEAN, old \in SUBSET Nodes :
              \/ \E first \in BOOLEAN, g \in GossipSection(p[1]) :
                    ReceivePing(p[1], p[2], first, g, old, delay)
              \/ \E g \in GossipSection(p[2]), undo \in BOOLEAN :
                    ReceivePong(p[1], p[2], g, old, delay, undo)
      BY <2>2, <3>1 DEF Packet
    <3> QED
      BY <2>1, <3>2, HandshakeKeeps, PingKeeps, PongKeeps
  <2> QED
    BY <1>4, <2>1, <2>2, LossKeeps, MeetKeeps, ForgetKeeps, BlackKeeps
<1> QED
  BY <1>1, <1>2, <1>3, <1>4 DEF Next

LEMMA HalfOfSome ==
  ASSUME NEW S, IsFiniteSet(S), S # {}
  PROVE  Cardinality(S) \in Nat /\ Cardinality(S) >= Cardinality(S) \div 2 + 1
<1>1. Cardinality(S) \in Nat /\ Cardinality(S) # 0
  BY FS_CardinalityType, FS_EmptySet
<1> QED
  BY <1>1, SMT

\* The entry of a node that was in the cluster from the start.
Member == [NewNode EXCEPT !.slots = TRUE]

LEMMA MemberEntry ==
  /\ Member \in Entry /\ Member # None
  /\ ~Member.pfail /\ ~Member.fail /\ Member.slots /\ Member.reports = {}
<1>1. /\ Member \in Entry
      /\ ~Member.pfail /\ ~Member.fail /\ Member.slots /\ Member.reports = {}
  BY DEF Member, NewNode, Entry
<1> QED
  BY <1>1, MembersAssumption

LEMMA FirstTable ==
  ASSUME NEW n \in Nodes
  PROVE  /\ Table(n) \in TableType /\ Table(n).known[n] = None
         /\ Table(n).hs = [m \in Nodes |-> "no"]
         /\ Table(n).size = IF n \in Joined THEN Cardinality(Joined) ELSE 1
         /\ \A m \in Nodes : Table(n).known[m] =
              IF {n, m} \subseteq Joined /\ n # m THEN Member ELSE None
<1> DEFINE size == IF n \in Joined THEN Cardinality(Joined) ELSE 1
           known == [m \in Nodes |-> IF {n, m} \subseteq Joined /\ n # m THEN Member ELSE None]
           hs == [m \in Nodes |-> "no"]
<1>1. size \in Nat
  BY MembersAssumption, FS_Subset, FS_CardinalityType, SMT
<1>2. Table(n) = [known |-> known, hs |-> hs, black |-> {}, state |-> "ok", size |-> size]
  BY DEF Table, Member
<1> HIDE DEF size
<1>3. known \in [Nodes -> Entry \cup {None}] /\ known[n] = None
  BY MemberEntry
<1>4. \A m \in Nodes : known[m] = IF {n, m} \subseteq Joined /\ n # m THEN Member ELSE None
  OBVIOUS
<1> HIDE DEF known
<1>5. hs \in [Nodes -> {"no", "meet", "plain", "linked"}]
  OBVIOUS
<1> HIDE DEF hs
<1>6. Table(n) \in TableType /\ Table(n).known = known /\ Table(n).hs = hs /\ Table(n).size = size
  BY <1>1, <1>2, <1>3, <1>5, SMT DEF TableType
<1> QED
  BY <1>3, <1>4, <1>6 DEF hs, size

LEMMA MembersInit == Init => MembersInv
<1> SUFFICES ASSUME Init PROVE MembersInv
  OBVIOUS
<1>1. \A n \in Nodes : tab[n] = Table(n)
  BY DEF Init
<1>2. MembersType
  <2>1. tab \in [Nodes -> TableType]
    BY FirstTable DEF Init
  <2>2. mail \in [Links -> {"no", "ping", "meet", "pong"}]
    BY DEF Init, Links
  <2> QED
    BY <1>1, <2>1, <2>2, FirstTable DEF MembersType, Init
<1>3. \A n \in Nodes : \A m \in Known(Table(n)) :
        /\ ~Table(n).known[m].pfail /\ ~Table(n).known[m].fail
        /\ Table(n).known[m].reports = {}
  <2>1. \A n \in Nodes : \A m \in Known(Table(n)) : Table(n).known[m] = Member
    BY FirstTable, ZenonT(60) DEF Known
  <2> QED
    BY <2>1, MemberEntry
<1>4. ReportsOfKnown
  BY <1>1, <1>3 DEF ReportsOfKnown
<1>5. ASSUME NEW n \in Nodes PROVE Reaches(Table(n), n)
  <2>1. Reachable(Table(n), n) = Serving(Table(n), n)
    BY <1>3 DEF Reachable, Serving
  <2>2. IsFiniteSet(Serving(Table(n), n)) /\ n \in Serving(Table(n), n)
    BY FirstTable, NodeSets
  <2> QED
    BY <2>1, <2>2, HalfOfSome DEF Reaches
<1> QED
  BY <1>1, <1>2, <1>4, <1>5 DEF MembersInv, OkMeansMajority, Reaches

LEMMA MembersCorrect == Spec => []MembersInv
<1>1. Init => MembersInv
  BY MembersInit
<1>2. MembersInv /\ [Next]_vars => MembersInv'
  BY MembersNext
<1> QED
  BY <1>1, <1>2, PTL DEF Spec

\* For any nodes, whatever operators meet and forget and whichever packets are
\* lost: a node says that the cluster is up only while it reaches a majority
\* of the masters it knows.  Every change of a flag or of the table leads to
\* clusterUpdateState(), or adds a node without slots (clusterRenameNode()).
THEOREM OkMeansMajorityCorrect == Spec => []OkMeansMajority
<1>1. MembersInv => OkMeansMajority
  BY DEF MembersInv
<1> QED
  BY <1>1, MembersCorrect, PTL

\* For any nodes: no failure report is left of a node that clusterDelNode() has
\* freed, so reports are counted of nodes in the table alone.
THEOREM ReportsOfKnownCorrect == Spec => []ReportsOfKnown
<1>1. MembersInv => ReportsOfKnown
  BY DEF MembersInv
<1> QED
  BY <1>1, MembersCorrect, PTL

--------------------------------------------------------------------------
(* FAIL takes a majority, when the membership does not change *)

\* Operators neither add nor remove nodes.
Fixed == MeetPairs = {} /\ Forgets = {}

\* The nodes that had m in PFAIL state themselves, by the history S.
Suspects(S, m) == {k \in Nodes : <<k, m>> \in S}

Majority(S, m) == Cardinality(Suspects(S, m)) >= Cardinality(Joined) \div 2 + 1

\* What the entry x of m in the table of n says is backed by the history S:
\* m has its slots, n has suspected m if it has it in PFAIL state, a majority
\* has if it is in FAIL state, and reports come from nodes that suspected m,
\* unless a majority has.
Backed(n, m, x, S) ==
  /\ x.slots
  /\ x.pfail => n \in Suspects(S, m)
  /\ x.fail => Majority(S, m)
  /\ x.reports \subseteq Suspects(S, m) \/ Majority(S, m)

\* The table t of n has the members and no handshake, and its size makes the
\* quorum that of all members.
Believes(n, t, S) ==
  /\ Known(t) = IF n \in Joined THEN Joined \ {n} ELSE {}
  /\ t.hs = [m \in Nodes |-> "no"]
  /\ n \in Joined => t.size = Cardinality(Joined)
  /\ \A m \in Known(t) : Backed(n, m, t.known[m], S)

FixedInv ==
  /\ MembersInv
  /\ \A n \in Nodes : Believes(n, tab[n], suspected)
  /\ \A p \in Links : mail[p] = "no"
  /\ \A p \in fails : Majority(suspected, p[3])

LEMMA SuspectsFinite ==
  ASSUME NEW S, NEW m
  PROVE  /\ IsFiniteSet(Suspects(S, m)) /\ Cardinality(Suspects(S, m)) \in Nat
         /\ Cardinality(Joined) \in Nat
<1>1. Suspects(S, m) \subseteq Nodes
  BY DEF Suspects
<1> QED
  BY <1>1, MembersAssumption, FS_Subset, FS_CardinalityType

\* Suspicions are never taken back.
LEMMA MoreSuspects ==
  ASSUME NEW S, NEW T, S \subseteq T, NEW m, Majority(S, m)
  PROVE  Majority(T, m)
<1>1. Suspects(S, m) \subseteq Suspects(T, m)
  BY DEF Suspects
<1>2. Cardinality(Suspects(S, m)) <= Cardinality(Suspects(T, m))
  BY <1>1, SuspectsFinite, FS_Subset
<1> DEFINE a == Cardinality(Suspects(S, m))
           b == Cardinality(Suspects(T, m))
           q == Cardinality(Joined)
<1>3. a \in Nat /\ b \in Nat /\ q \in Nat
  BY SuspectsFinite
<1>4. a >= q \div 2 + 1 /\ a <= b
  BY <1>2 DEF Majority
<1> HIDE DEF a, b, q
<1>5. b >= q \div 2 + 1
  BY <1>3, <1>4, SMT
<1> QED
  BY <1>5 DEF Majority, b, q

LEMMA StillBelieves ==
  ASSUME NEW S, NEW T, S \subseteq T, NEW n, NEW t, Believes(n, t, S)
  PROVE  Believes(n, t, T)
<1>1. \A m : Suspects(S, m) \subseteq Suspects(T, m)
  BY DEF Suspects
<1>2. \A m : Majority(S, m) => Majority(T, m)
  BY MoreSuspects
<1> QED
  BY <1>1, <1>2 DEF Believes, Backed

\* The reports of a quorum and the node's own suspicion make a majority.
LEMMA QuorumMajority ==
  ASSUME NEW S, NEW m, NEW n, NEW R, R \subseteq Suspects(S, m), n \in Suspects(S, m),
         n \notin R, Cardinality(R) + 1 >= Cardinality(Joined) \div 2 + 1
  PROVE  Majority(S, m)
<1>1. IsFiniteSet(R) /\ IsFiniteSet(R \cup {n}) /\ Cardinality(R \cup {n}) = Cardinality(R) + 1
  BY SuspectsFinite, FS_Subset, FS_AddElement
<1>2. Cardinality(R \cup {n}) <= Cardinality(Suspects(S, m))
  BY SuspectsFinite, FS_Subset
<1> DEFINE a == Cardinality(Suspects(S, m))
           b == Cardinality(R)
           q == Cardinality(Joined)
<1>3. a \in Nat /\ b \in Nat /\ q \in Nat
  BY <1>1, SuspectsFinite, FS_CardinalityType
<1>4. b + 1 <= a /\ b + 1 >= q \div 2 + 1
  BY <1>1, <1>2
<1> HIDE DEF a, b, q
<1>5. a >= q \div 2 + 1
  BY <1>3, <1>4, SMT
<1> QED
  BY <1>5 DEF Majority, a, q

LEMMA AllServe ==
  ASSUME NEW t, NEW n \in Joined, Known(t) = Joined \ {n}, \A m \in Known(t) : t.known[m].slots
  PROVE  Serving(t, n) = Joined
BY DEF Serving

\* A step of node n alone that leaves no packet of a handshake behind.
LEMMA FixedOnly ==
  ASSUME FixedInv, MembersInv', NEW n \in Nodes, NEW u, Only(n, u),
         Believes(n, u, suspected'), suspected \subseteq suspected',
         \A p \in Links : mail'[p] = "no", \A p \in fails' : Majority(suspected', p[3])
  PROVE  FixedInv'
<1>1. tab'[n] = u /\ \A k \in Nodes \ {n} : tab'[k] = tab[k]
  BY DEF FixedInv, MembersInv, MembersType, Only
<1>2. \A k \in Nodes : Believes(k, tab[k], suspected')
  BY StillBelieves DEF FixedInv
<1>3. \A k \in Nodes : Believes(k, tab'[k], suspected')
  BY <1>1, <1>2
<1> QED
  BY <1>3 DEF FixedInv

\* What n believes of m after gossip of s, when it changes.
LEMMA JudgedBelieves ==
  ASSUME FixedInv, NEW n \in Nodes, NEW s \in Known(tab[n]), NEW m \in Known(tab[n]),
         m \in Known(tab[s]), NEW e, NEW x,
         e.reports = tab[n].known[m].reports, e.pfail => tab[n].known[m].pfail,
         e.fail => tab[n].known[m].fail, e.slots,
         Judged(e, x, Reports(s, m), Cardinality(Joined) \div 2 + 1)
  PROVE  Backed(n, m, x, suspected)
<1> DEFINE S == Suspects(suspected, m)
           M == Majority(suspected, m)
<1>1. s \in Nodes /\ n \notin Known(tab[n])
  BY DEF Known, FixedInv, MembersInv, MembersType
<1>2. /\ tab[n].known[m].pfail => n \in S
      /\ tab[n].known[m].fail => M
      /\ tab[n].known[m].reports \subseteq S \/ M
  BY DEF FixedInv, Believes, Backed
<1>3. /\ tab[s].known[m].pfail => s \in S
      /\ tab[s].known[m].fail => M
  BY <1>1 DEF FixedInv, Believes, Backed
<1>4. /\ x.slots = e.slots /\ x.reports \subseteq e.reports \cup Reports(s, m)
      /\ x.pfail => e.pfail
  BY DEF Judged
<1>5. x.fail => e.fail \/ (e.pfail /\ Cardinality(x.reports) + 1 >= Cardinality(Joined) \div 2 + 1)
  BY DEF Judged
<1>6. Reports(s, m) \subseteq S \/ M
  BY <1>3 DEF Reports
<1>7. n \notin x.reports
  <2>1. e.reports \subseteq Known(tab[n])
    BY DEF FixedInv, MembersInv, ReportsOfKnown
  <2>2. Reports(s, m) \subseteq Known(tab[n])
    BY DEF Reports
  <2> QED
    BY <1>1, <1>4, <2>1, <2>2
<1> HIDE DEF S, M
<1>8. x.reports \subseteq S \/ M
  BY <1>2, <1>4, <1>6
<1>9. x.fail => M
  BY <1>2, <1>5, <1>7, <1>8, QuorumMajority DEF S, M
<1> QED
  BY <1>2, <1>4, <1>8, <1>9 DEF S, M, Backed

LEMMA ReadFixed ==
  ASSUME FixedInv, MembersInv', NEW n \in Nodes, NEW t, NEW todo, Learnt(tab[n], <<t, todo>>),
         NEW s \in Known(tab[n]), NEW g \in SUBSET Known(tab[s]), NEW old \in SUBSET Nodes,
         NEW delay \in BOOLEAN, ReadGossip(t, n, s, g, old, todo, delay),
         UNCHANGED <<mail, suspected>>
  PROVE  FixedInv'
<1>c. Calmed(tab[n], t)
  BY LearntPair
<1>0. PICK u, w : AfterRead(n, t, s, g, u, w)
  BY ReadTable DEF FixedInv
<1>1. /\ Heard(t, u, s, g) /\ w \in TableType /\ w.known = u.known /\ w.hs = u.hs
      /\ w.size \in {Cardinality(Serving(w, n)), tab[n].size} /\ Only(n, w)
  BY <1>0 DEF AfterRead
<1>2. g \subseteq Known(t) \cup {n} => u.hs = tab[n].hs
  BY <1>0 DEF AfterRead
<1>3. \A p \in fails' : p \in fails \/ (p \in {n} \X Known(t) \X Known(t) /\ u.known[p[3]].fail)
  BY <1>0 DEF AfterRead
<1>4. Believes(n, tab[n], suspected) /\ Believes(s, tab[s], suspected) /\ s \in Nodes
  BY DEF FixedInv, Known
<1>5. /\ n \in Joined /\ s \in Joined /\ Known(tab[n]) = Joined \ {n}
      /\ Known(tab[s]) = Joined \ {s} /\ tab[n].size = Cardinality(Joined)
      /\ tab[n].hs = [m \in Nodes |-> "no"]
  BY <1>4 DEF Believes
<1>6. /\ Known(t) = Known(tab[n]) /\ t.size = tab[n].size /\ Known(u) = Known(t)
      /\ Known(w) = Known(u)
  BY <1>1, <1>c, SameKnown DEF Heard, Calmed
<1>7. NeededQuorum(t) = Cardinality(Joined) \div 2 + 1
  BY <1>5, <1>6 DEF NeededQuorum
<1>8. ASSUME NEW m \in Known(t) PROVE Backed(n, m, u.known[m], suspected)
  <2> DEFINE e == t.known[m]
             x == u.known[m]
  <2>1. Backed(n, m, tab[n].known[m], suspected)
    BY <1>4, <1>6 DEF Believes
  <2>2. /\ e.reports = tab[n].known[m].reports
        /\ e.pfail => tab[n].known[m].pfail
        /\ e.fail => tab[n].known[m].fail
        /\ e.slots
    BY <1>6, <1>c, <2>1 DEF Calmed, Backed
  <2>3. CASE x = e
    BY <2>1, <2>2, <2>3 DEF Backed
  <2>4. CASE m \in g /\ Judged(e, x, Reports(s, m), NeededQuorum(t))
    <3>1. Judged(e, x, Reports(s, m), Cardinality(Joined) \div 2 + 1) /\ m \in Known(tab[s])
          /\ m \in Known(tab[n])
      BY <1>6, <1>7, <2>4
    <3> HIDE DEF e, x
    <3>2. Backed(n, m, x, suspected)
      BY <2>2, <3>1, JudgedBelieves
    <3> QED
      BY <3>2 DEF x
  <2> QED
    BY <1>1, <2>3, <2>4 DEF Heard
<1>9. Believes(n, w, suspected)
  <2>1. \A m \in Known(w) : Backed(n, m, w.known[m], suspected)
    BY <1>1, <1>6, <1>8
  <2>2. Serving(w, n) = Joined
    <3>1. \A m \in Known(w) : w.known[m].slots
      BY <2>1 DEF Backed
    <3>2. Known(w) = Joined \ {n} /\ n \in Joined
      BY <1>5, <1>6
    <3> QED
      BY <3>1, <3>2, AllServe
  <2>3. g \subseteq Known(t) \cup {n}
    BY <1>5, <1>6
  <2> QED
    BY <1>1, <1>2, <1>5, <1>6, <2>1, <2>2, <2>3 DEF Believes
<1>10. \A p \in fails' : Majority(suspected, p[3])
  <2>1. \A p \in {n} \X Known(t) \X Known(t) : p[3] \in Known(t)
    OBVIOUS
  <2> QED
    BY <1>3, <1>8, <2>1 DEF Backed, FixedInv
<1> QED
  BY <1>1, <1>9, <1>10, FixedOnly DEF FixedInv

LEMMA PacketFixed ==
  ASSUME FixedInv, MembersInv', NEW n \in Nodes, NEW m \in Nodes, n # m, Packet(n, m)
  PROVE  FixedInv'
<1>1. /\ tab[n] \in TableType /\ tab[m] \in TableType
      /\ mail[<<n, m>>] = "no" /\ tab[n].hs[m] = "no"
  BY ZenonT(60) DEF FixedInv, MembersInv, MembersType, Links, Believes
<1>2. m \in Known(tab[n]) <=> n \in Known(tab[m])
  BY DEF FixedInv, Believes
<1>3. ASSUME NEW first \in BOOLEAN, NEW g \in GossipSection(n), NEW old \in SUBSET Nodes,
             NEW delay \in BOOLEAN, ReceivePing(n, m, first, g, old, delay)
      PROVE  FixedInv'
  <2> DEFINE x == FromKnown(tab[m], n)
  <2>1. n \in Known(tab[m]) /\ m \in Known(tab[n]) /\ ~first
    BY <1>1, <1>2, <1>3 DEF ReceivePing, Known
  <2>2. g \in SUBSET Known(tab[n])
    BY DEF GossipSection
  <2>3. ReadGossip(x[1], m, n, g, old, x[2], delay) /\ UNCHANGED <<mail, suspected>>
    BY <1>3, <2>1 DEF ReceivePing, Known
  <2>4. Learnt(tab[m], <<x[1], x[2]>>)
    BY <1>1, <2>1, FromKnownLearnt DEF FromKnown
  <2> HIDE DEF x
  <2> QED
    BY <2>1, <2>2, <2>3, <2>4, ReadFixed
<1>4. ASSUME NEW g \in GossipSection(m), NEW old \in SUBSET Nodes, NEW delay \in BOOLEAN,
             NEW undo \in BOOLEAN, ReceivePong(n, m, g, old, delay, undo)
      PROVE  FixedInv'
  <2> DEFINE y == Alive(tab[n], m, undo)
             x == FromKnown(y[1], m)
  <2>1. /\ m \in Known(tab[n]) /\ ReadGossip(x[1], n, m, g, old, y[2] \/ x[2], delay)
        /\ UNCHANGED <<mail, suspected>>
    BY <1>1, <1>4 DEF ReceivePong, Known
  <2>2. g \in SUBSET Known(tab[m])
    BY DEF GossipSection
  <2>3. Learnt(tab[n], <<x[1], y[2] \/ x[2]>>)
    BY <1>1, <2>1, PongLearnt DEF Ponged
  <2> HIDE DEF x, y
  <2> QED
    BY <2>1, <2>2, <2>3, ReadFixed
<1>5. ~HandshakePong(n, m)
  BY <1>1 DEF HandshakePong
<1>6. {} \in SUBSET Nodes /\ Nodes \in SUBSET Nodes
  OBVIOUS
<1> QED
  BY <1>3, <1>4, <1>5, <1>6 DEF Packet

LEMMA UpdateBelieves ==
  ASSUME NEW n \in Nodes, NEW v, NEW u, NEW S, Believes(n, v, S), Updated(v, n, u)
  PROVE  Believes(n, u, S)
<1>1. u.known = v.known /\ u.hs = v.hs /\ u.size = Cardinality(Serving(v, n))
  BY DEF Updated
<1>2. Known(u) = Known(v)
  BY <1>1, SameKnown
<1>3. n \in Joined => Serving(v, n) = Joined
  <2>1. \A m \in Known(v) : v.known[m].slots
    BY DEF Believes, Backed
  <2> QED
    BY <2>1, AllServe DEF Believes
<1> QED
  BY <1>1, <1>2, <1>3 DEF Believes

LEMMA FailFixed ==
  ASSUME FixedInv, MembersInv', NEW p \in fails, NEW delay \in BOOLEAN, ReceiveFail(p, delay)
  PROVE  FixedInv'
<1> DEFINE n == p[2]
           m == p[3]
           t == tab[n]
           counts == /\ t.known[p[1]] # None /\ m # n
                     /\ t.known[m] # None /\ ~t.known[m].fail
           v == Failed(t, m)
           u == clusterUpdateState(v, n, delay)
<1>1. n \in Nodes /\ m \in Nodes /\ fails' \subseteq fails /\ UNCHANGED <<mail, suspected>>
  BY DEF FixedInv, MembersInv, MembersType, ReceiveFail
<1>2. t \in TableType /\ Believes(n, t, suspected) /\ Majority(suspected, m)
  BY <1>1 DEF FixedInv, MembersInv, MembersType
<1>3. /\ \A q \in Links : mail'[q] = "no"
      /\ \A q \in fails' : Majority(suspected', q[3])
  BY <1>1 DEF FixedInv
<1>4. CASE ~counts
  <2>1. Only(n, t)
    BY <1>1, <1>4 DEF ReceiveFail, Only, FixedInv, MembersInv, MembersType
  <2> QED
    BY <1>1, <1>2, <1>3, <2>1, FixedOnly
<1>5. CASE counts
  <2>1. Only(n, u)
    BY <1>5 DEF ReceiveFail, Only, Failed, clusterBeforeSleep
  <2>2. m \in Known(t)
    BY <1>1, <1>5 DEF Known
  <2>3. Flagged(t, m, v) /\ v.size = t.size
    BY <1>1, <1>2, <2>2, FailedTable DEF Failed, TableType
  <2> HIDE DEF v
  <2>4. v \in TableType /\ Known(v) = Known(t) /\ v.hs = t.hs
    BY <2>3 DEF Flagged
  <2>5. \A k \in Known(t) : Backed(n, k, v.known[k], suspected)
    BY <1>2, <2>2, <2>3 DEF Believes, Backed, Flagged
  <2>6. Believes(n, v, suspected)
    BY <1>2, <2>3, <2>4, <2>5 DEF Believes
  <2>7. Updated(v, n, u)
    BY <1>1, <2>4, UpdateState
  <2> HIDE DEF u
  <2>8. Believes(n, u, suspected)
    BY <1>1, <2>6, <2>7, UpdateBelieves
  <2> QED
    BY <1>1, <1>3, <2>1, <2>8, FixedOnly
<1> QED
  BY <1>4, <1>5

LEMMA CronFixed ==
  ASSUME FixedInv, MembersInv', NEW n \in Nodes, Cron(n)
  PROVE  FixedInv'
<1> DEFINE t == tab[n]
<1>1. PICK gone \in SUBSET Nodes, late \in SUBSET Known(t), delay \in BOOLEAN :
        clusterCron(n, gone, late, delay)
  BY DEF Cron, Known
<1> DEFINE hs == [m \in Nodes |-> IF m \in gone THEN "no"
                                  ELSE IF t.hs[m] # "no" THEN "linked" ELSE "no"]
           L == Late(t, late)
           v == [t EXCEPT !.hs = hs, !.known = L]
           u == CronState(v, n, late, delay)
<1>2. t \in TableType /\ Believes(n, t, suspected)
  BY DEF FixedInv, MembersInv, MembersType
<1>3. /\ Only(n, u) /\ UNCHANGED fails /\ suspected' = suspected \cup ({n} \X late)
      /\ mail' = [p \in DOMAIN mail |->
                    IF p[1] # n \/ hs[p[2]] = t.hs[p[2]] THEN mail[p]
                    ELSE IF hs[p[2]] = "no" THEN "no"
                    ELSE IF t.hs[p[2]] = "meet" THEN "meet" ELSE "ping"]
  BY <1>1 DEF clusterCron, Only, Late
<1>4. hs = [m \in Nodes |-> "no"] /\ t.hs = [m \in Nodes |-> "no"]
  BY <1>2 DEF Believes
<1>5. \A p \in Links : mail'[p] = "no"
  <2>1. DOMAIN mail = Links /\ \A p \in Links : mail[p] = "no" /\ p[2] \in Nodes
    BY DEF FixedInv, MembersInv, MembersType, Links
  <2> HIDE DEF hs
  <2> QED
    BY <1>3, <1>4, <2>1
<1>6. suspected \subseteq suspected' /\ \A m \in late : n \in Suspects(suspected', m)
  BY <1>3 DEF Suspects
<1>7. \A p \in fails' : Majority(suspected', p[3])
  <2>1. \A m : Majority(suspected, m) => Majority(suspected', m)
    BY <1>6, MoreSuspects
  <2> QED
    BY <1>3, <2>1 DEF FixedInv
<1>8. Believes(n, t, suspected')
  BY <1>2, <1>6, StillBelieves
<1>9. /\ L \in [Nodes -> Entry \cup {None}]
      /\ \A m \in Nodes : L[m] # None <=> m \in Known(t)
      /\ \A m \in Known(t) : /\ L[m].reports = t.known[m].reports
                             /\ L[m].slots = t.known[m].slots /\ L[m].fail = t.known[m].fail
      /\ \A m \in Nodes \ late : L[m] = t.known[m]
  BY <1>2, LateTable
<1> HIDE DEF hs, L
<1>10. hs \in [Nodes -> {"no", "meet", "plain", "linked"}]
  BY <1>4
<1>11. v \in TableType /\ v.known = L /\ v.hs = hs /\ v.size = t.size
  BY <1>2, <1>9, <1>10 DEF TableType
<1> HIDE DEF v
<1>12. Known(v) = Known(t) /\ Known(t) \subseteq Nodes
  BY <1>9, <1>11 DEF Known
<1>13. ASSUME NEW m \in Known(t) PROVE Backed(n, m, v.known[m], suspected')
  <2>1. Backed(n, m, t.known[m], suspected')
    BY <1>8 DEF Believes
  <2>2. CASE m \in late
    BY <1>6, <1>9, <1>11, <2>1, <2>2 DEF Backed
  <2>3. CASE m \notin late
    BY <1>9, <1>11, <1>12, <2>1, <2>3
  <2> QED
    BY <2>2, <2>3
<1>14. Believes(n, v, suspected')
  BY <1>4, <1>8, <1>11, <1>12, <1>13 DEF Believes
<1>15. u = v \/ Updated(v, n, u)
  BY <1>11, UpdateState DEF CronState
<1> HIDE DEF u
<1>16. Believes(n, u, suspected')
  BY <1>14, <1>15, UpdateBelieves
<1> QED
  BY <1>3, <1>5, <1>6, <1>7, <1>16, FixedOnly

LEMMA BlackFixed ==
  ASSUME FixedInv, MembersInv', NEW n \in Nodes, NEW m \in Nodes, clusterBlacklistCleanup(n, m)
  PROVE  FixedInv'
<1> DEFINE t == tab[n]
           u == [t EXCEPT !.black = @ \ {m}]
<1>1. t \in TableType /\ Believes(n, t, suspected)
  BY DEF FixedInv, MembersInv, MembersType
<1>2. u.known = t.known /\ u.hs = t.hs /\ u.size = t.size
  BY <1>1 DEF TableType
<1>3. Only(n, u) /\ UNCHANGED <<mail, fails, suspected>>
  BY DEF clusterBlacklistCleanup, Only
<1> HIDE DEF u
<1>4. Known(u) = Known(t)
  BY <1>2, SameKnown
<1>5. Believes(n, u, suspected)
  BY <1>1, <1>2, <1>4 DEF Believes
<1> QED
  BY <1>3, <1>5, FixedOnly DEF FixedInv

LEMMA FixedNext ==
  ASSUME Fixed, FixedInv, [Next]_vars
  PROVE  FixedInv'
<1>0. MembersInv'
  BY MembersNext DEF FixedInv
<1>1. CASE UNCHANGED vars
  <2>1. tab' = tab /\ mail' = mail /\ fails' = fails /\ suspected' = suspected
    BY <1>1 DEF vars
  <2> QED
    BY <1>0, <2>1 DEF FixedInv
<1>2. ASSUME NEW n \in Nodes, Cron(n) PROVE FixedInv'
  BY <1>0, <1>2, CronFixed
<1>3. ASSUME NEW p \in fails, NEW delay \in BOOLEAN, ReceiveFail(p, delay) PROVE FixedInv'
  BY <1>0, <1>3, FailFixed
<1>4. ASSUME NEW p \in DOMAIN mail,
             \/ Packet(p[1], p[2])
             \/ handleLinkIOError(p[1], p[2])
             \/ Meet(p[1], p[2])
             \/ \E delay \in BOOLEAN : Forget(p[1], p[2], delay)
             \/ clusterBlacklistCleanup(p[1], p[2])
      PROVE  FixedInv'
  <2>1. /\ p \in Links /\ p = <<p[1], p[2]>>
        /\ p[1] \in Nodes /\ p[2] \in Nodes /\ p[1] # p[2]
    <3>1. p \in Links
      BY DEF FixedInv, MembersInv, MembersType
    <3>2. p[1] \in Nodes /\ p[2] \in Nodes /\ p[1] # p[2]
      BY <3>1 DEF Links
    <3>3. p = <<p[1], p[2]>>
      BY <3>1, SMT DEF Links
    <3> QED
      BY <3>1, <3>2, <3>3
  <2>2. CASE Packet(p[1], p[2])
    BY <1>0, <2>1, <2>2, PacketFixed
  <2>3. ~handleLinkIOError(p[1], p[2])
    <3>1. mail[<<p[1], p[2]>>] = "no"
      BY <2>1 DEF FixedInv
    <3> QED
      BY <3>1 DEF handleLinkIOError
  <2>4. ~Meet(p[1], p[2]) /\ \A delay \in BOOLEAN : ~Forget(p[1], p[2], delay)
    BY DEF Meet, Forget, Fixed
  <2> QED
    BY <1>0, <1>4, <2>1, <2>2, <2>3, <2>4, BlackFixed
<1> QED
  BY <1>1, <1>2, <1>3, <1>4 DEF Next

LEMMA FixedInit == Init => FixedInv
<1> SUFFICES ASSUME Init PROVE FixedInv
  OBVIOUS
<1>1. MembersInv /\ \A n \in Nodes : tab[n] = Table(n)
  BY MembersInit DEF Init
<1>2. ASSUME NEW n \in Nodes PROVE Believes(n, Table(n), suspected)
  <2>1. \A m \in Known(Table(n)) : Table(n).known[m] = Member
    BY FirstTable, ZenonT(60) DEF Known
  <2>2. \A m : Backed(n, m, Member, suspected)
    BY MemberEntry DEF Backed
  <2>3. Known(Table(n)) = IF n \in Joined THEN Joined \ {n} ELSE {}
    <3>1. \A m \in Nodes : m \in Known(Table(n)) <=> {n, m} \subseteq Joined /\ n # m
      BY FirstTable, MemberEntry, ZenonT(60) DEF Known
    <3>2. Known(Table(n)) \subseteq Nodes /\ Joined \subseteq Nodes
      BY MembersAssumption DEF Known
    <3> QED
      BY <3>1, <3>2
  <2>4. Table(n).hs = [m \in Nodes |-> "no"]
    BY FirstTable
  <2>5. n \in Joined => Table(n).size = Cardinality(Joined)
    BY FirstTable
  <2> QED
    BY <2>1, <2>2, <2>3, <2>4, <2>5 DEF Believes
<1>3. (\A p \in Links : mail[p] = "no") /\ fails = {}
  BY DEF Init, Links
<1> QED
  BY <1>1, <1>2, <1>3 DEF FixedInv

\* For any number of nodes: while operators neither add nor remove nodes, a node
\* has another in FAIL state only if a majority of the masters had that node
\* in PFAIL state themselves.  markNodeAsFailingIfNeeded() counts reports, a
\* report is hearsay of a PFAIL or of a FAIL, and a FAIL packet comes from a
\* node that counted; the argument is that each of them leads back to a
\* majority, however old reports are and whatever was cleared since.
THEOREM FailNeedsMajorityCorrect ==
  ASSUME Fixed
  PROVE  Spec => []FailNeedsMajority
<1>1. Init => FixedInv
  BY FixedInit
<1>2. FixedInv /\ [Next]_vars => FixedInv'
  BY FixedNext
<1>3. FixedInv => FailNeedsMajority
  BY DEF FixedInv, FailNeedsMajority, Believes, Backed, Majority, Suspects, Known
<1> QED
  BY <1>1, <1>2, <1>3, PTL DEF Spec
=============================================================================
