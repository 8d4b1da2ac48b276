--------------------------- MODULE ClusterMembers ---------------------------
(***************************************************************************)
(* Who belongs to a Redis Cluster and who is failing: handshakes started   *)
(* by CLUSTER MEET and by gossip, the table of nodes each node keeps, the  *)
(* failure reports and the PFAIL and FAIL flags, CLUSTER FORGET and its    *)
(* black list, and the state of the cluster as each node computes it       *)
(* (src/redis-stable/src/cluster.c).                                       *)
(*                                                                         *)
(* All nodes are masters that own slots.  A node keeps its address, so a   *)
(* handshake is named by the node it leads to.  Nodes that know each other *)
(* may exchange PING and PONG at any time; the first packet of a handshake *)
(* waits on its link.  Packets are read when they are delivered.  Clocks   *)
(* are nondeterministic choices.  Slots, epochs and replicas are the       *)
(* business of ClusterConfig.                                              *)
(***************************************************************************)
EXTENDS Naturals, FiniteSets

CONSTANTS
    Nodes,     \* the nodes, all of them masters with slots
    Joined,    \* the nodes that form a cluster at the start
    MeetPairs, \* the CLUSTER MEET commands an operator may send
    Forgets,   \* the nodes an operator may remove with CLUSTER FORGET
    FullCoverage, \* cluster-require-full-coverage
    Silent,    \* the nodes that may fail to answer
    None       \* no entry in a table

VARIABLES
    tab,       \* what each node has in server.cluster
    mail,      \* mail[<<n, m>>]: the first packet on the link of n to m
    fails,     \* FAIL packets in flight, <<sender, receiver, about>>
    suspected  \* history: <<n, m>> when n had m in PFAIL state

vars == <<tab, mail, fails, suspected>>

\* What a table says of another node (clusterNode).
Entry == [pfail : BOOLEAN, fail : BOOLEAN, reports : SUBSET Nodes, slots : BOOLEAN]

ASSUME MembersAssumption ==
    IsFiniteSet(Nodes) /\ Joined \subseteq Nodes /\ None \notin Entry

NewNode == [pfail |-> FALSE, fail |-> FALSE, reports |-> {}, slots |-> FALSE]

Known(t) == {m \in Nodes : t.known[m] # None}

\* The masters with slots that a table shows, its owner n included.
Serving(t, n) == {n} \cup {m \in Known(t) : t.known[m].slots}

Reachable(t, n) ==
    {n} \cup {m \in Serving(t, n) \ {n} : ~t.known[m].pfail /\ ~t.known[m].fail}

\* delay: the node waits before it rejoins the majority.  No node restarts here, so
\* the wait after a restart, which would leave the size as it was, is over.
clusterUpdateState(t, n, delay) ==
    LET size == Cardinality(Serving(t, n))
        covered == FullCoverage =>
                      /\ Joined \subseteq Serving(t, n)
                      /\ \A m \in Serving(t, n) \ {n} : ~t.known[m].fail
        new == IF covered /\ Cardinality(Reachable(t, n)) >= size \div 2 + 1
               THEN "ok" ELSE "fail"
    IN  [t EXCEPT !.size = size,
                  !.state = IF new = "ok" /\ delay THEN @ ELSE new]

\* todo: a handler has set CLUSTER_TODO_UPDATE_STATE.
clusterBeforeSleep(t, n, todo, delay) ==
    IF todo THEN clusterUpdateState(t, n, delay) ELSE t

--------------------------------------------------------------------------
(* Failure reports *)

clusterNodeAddFailureReport(t, m, sender) ==
    [t EXCEPT !.known[m].reports = @ \cup {sender}]

\* old: the reports that are no longer valid.
clusterNodeCleanupFailureReports(t, m, old) ==
    [t EXCEPT !.known[m].reports = @ \ old]

clusterNodeDelFailureReport(t, m, sender) ==
    [t EXCEPT !.known[m].reports = @ \ {sender}]

\* The quorum is computed from the size at the last clusterUpdateState().
NeededQuorum(t) == t.size \div 2 + 1

\* Mutant: the node itself need not suspect the other.
markNodeAsFailingIfNeeded_Unsuspected(t, m, old) ==
    LET u == clusterNodeCleanupFailureReports(t, m, old)
        failures == Cardinality(u.known[m].reports) + 1
    IN  IF t.known[m].fail THEN <<t, FALSE>>
        ELSE IF failures < NeededQuorum(u) THEN <<u, FALSE>>
        ELSE <<[u EXCEPT !.known[m].pfail = FALSE, !.known[m].fail = TRUE], TRUE>>

\* A table, and whether the node is flagged: then FAIL is broadcast, and the state
\* of the cluster is to be updated.
markNodeAsFailingIfNeeded(t, m, old) ==
    LET u == clusterNodeCleanupFailureReports(t, m, old)
        failures == Cardinality(u.known[m].reports) + 1
    IN  IF ~t.known[m].pfail \/ t.known[m].fail THEN <<t, FALSE>>
        ELSE IF failures < NeededQuorum(u) THEN <<u, FALSE>>
        ELSE <<[u EXCEPT !.known[m].pfail = FALSE, !.known[m].fail = TRUE], TRUE>>

\* undo: the FAIL flag of a master with slots is old enough to be cleared.  A table,
\* and whether the state of the cluster is to be updated.
clearNodeFailureIfNeeded(t, m, undo) ==
    IF ~t.known[m].slots \/ undo THEN <<[t EXCEPT !.known[m].fail = FALSE], TRUE>>
    ELSE <<t, FALSE>>

--------------------------------------------------------------------------
(* The table of nodes *)

clusterDelNode(t, m) ==
    [t EXCEPT !.known = [k \in Nodes |->
        IF k = m \/ t.known[k] = None THEN None
        ELSE [t.known[k] EXCEPT !.reports = @ \ {m}]]]

\* A handshake with m, unless there is one: the node will be met.
clusterStartHandshake(t, m) ==
    IF t.hs[m] # "no" THEN t ELSE [t EXCEPT !.hs[m] = "meet"]

\* The node learns its true name from the first PONG.
clusterRenameNode(t, m) == [t EXCEPT !.hs[m] = "no", !.known[m] = NewNode]

\* Mutant: the black list is not looked at.
clusterBlacklistExists_Never(t, m) == FALSE

clusterBlacklistExists(t, m) == m \in t.black

\* The gossip section of a packet of n: some of the nodes it knows.  Entries
\* have separate effects, so one entry or none is enough.
GossipSection(n) == {{}} \cup {{m} : m \in Known(tab[n])}

\* One entry about m, as sender s shows it, in the table t of node n.
GossipEntry(t, n, s, m, old) ==
    LET e == tab[s].known[m]
        bad == e.pfail \/ e.fail
    IN  IF m = n THEN <<t, FALSE>>
        ELSE IF t.known[m] # None
             THEN IF bad THEN markNodeAsFailingIfNeeded(
                                  clusterNodeAddFailureReport(t, m, s), m, old)
                  ELSE <<clusterNodeDelFailureReport(t, m, s), FALSE>>
             ELSE <<IF clusterBlacklistExists(t, m) THEN t
                    ELSE clusterStartHandshake(t, m), FALSE>>

\* The whole section g, read by n from the known sender s: the entries are
\* independent of each other.  The second part are the nodes found failing.
clusterProcessGossipSection(t, n, s, g, old) ==
    LET E(m) == GossipEntry(t, n, s, m, old) IN
    <<[t EXCEPT !.known = [m \in Nodes |-> IF m \in g THEN E(m)[1].known[m] ELSE @[m]],
                !.hs = [m \in Nodes |-> IF m \in g THEN E(m)[1].hs[m] ELSE @[m]]],
      {m \in g : E(m)[2]}>>

\* clusterSendFail(): to every node the sender has a link with.
FailPackets(t, n, bad) == {n} \X Known(t) \X bad

--------------------------------------------------------------------------
(* Packets *)

\* A packet of a node that is known: its slots are known too, and if they are new
\* the state of the cluster is to be updated.
FromKnown(t, s) == <<[t EXCEPT !.known[s].slots = TRUE], ~t.known[s].slots>>

\* Node n reads gossip g of the known sender s into its table t; todo: the packet
\* has already led to an update of the state.
ReadGossip(t, n, s, g, old, todo, delay) ==
    LET r == clusterProcessGossipSection(t, n, s, g, old) IN
    /\ delay => tab[n].state = "fail"
    /\ old # {} => \E k \in Known(t) : t.known[k].reports # {}
    /\ tab' = [tab EXCEPT ![n] = clusterBeforeSleep(r[1], n, todo \/ r[2] # {}, delay)]
    /\ fails' = fails \cup FailPackets(t, n, r[2])

\* Node m reads a PING or MEET of n and answers: an unknown node that meets us
\* is added in handshake state, other unknown nodes are ignored.  first: the
\* packet came on the link of a handshake.
ReceivePing(n, m, first, g, old, delay) ==
    LET t == tab[m]
        x == FromKnown(t, n)
    IN  /\ IF first THEN mail[<<n, m>>] \in {"ping", "meet"} ELSE tab[n].known[m] # None
        /\ mail' = IF first THEN [mail EXCEPT ![<<n, m>>] = "pong"] ELSE mail
        /\ IF t.known[n] # None THEN ReadGossip(x[1], m, n, g, old, x[2], delay)
           ELSE /\ g = {} /\ old = {} /\ ~delay
                /\ tab' = IF first /\ mail[<<n, m>>] = "meet" /\ t.hs[n] = "no"
                          THEN [tab EXCEPT ![m].hs[n] = "plain"] ELSE tab
                /\ UNCHANGED fails
        /\ UNCHANGED suspected

\* What the PONG of a known node proves.  A table, and whether the state of the
\* cluster is to be updated.
Alive(t, m, undo) ==
    IF t.known[m].pfail THEN <<[t EXCEPT !.known[m].pfail = FALSE], TRUE>>
    ELSE IF t.known[m].fail THEN clearNodeFailureIfNeeded(t, m, undo) ELSE <<t, FALSE>>

\* Node n reads the PONG that ends a handshake with m, of which only the name is
\* used.
HandshakePong(n, m) ==
    LET t == tab[n] IN
    /\ t.hs[m] = "linked" /\ mail[<<n, m>>] = "pong"
    /\ tab' = [tab EXCEPT ![n] = IF t.known[m] # None THEN [t EXCEPT !.hs[m] = "no"]
                                 ELSE clusterRenameNode(t, m)]
    /\ mail' = [mail EXCEPT ![<<n, m>>] = "no"]
    /\ UNCHANGED <<fails, suspected>>

\* Node n reads a PONG of the known node m: the proof that m is alive.
ReceivePong(n, m, g, old, delay, undo) ==
    LET y == Alive(tab[n], m, undo)
        x == FromKnown(y[1], m)
    IN  /\ tab[n].known[m] # None
        /\ undo => tab[n].known[m].fail
        /\ ReadGossip(x[1], n, m, g, old, y[2] \/ x[2], delay)
        /\ UNCHANGED <<mail, suspected>>

Packet(n, m) ==
    \/ HandshakePong(n, m)
    \/ \E delay \in BOOLEAN, old \in {{}, Nodes} :
         \/ \E first \in BOOLEAN, g \in GossipSection(n) :
               ReceivePing(n, m, first, g, old, delay)
         \/ \E g \in GossipSection(m), undo \in BOOLEAN :
               ReceivePong(n, m, g, old, delay, undo)

\* The packet, or the connection, is lost.
handleLinkIOError(n, m) ==
    /\ mail[<<n, m>>] # "no"
    /\ mail' = [mail EXCEPT ![<<n, m>>] = "no"]
    /\ UNCHANGED <<tab, fails, suspected>>

\* A FAIL packet counts when both its sender and the failing node are known.
ReceiveFail(p, delay) ==
    LET t == tab[p[2]]
        counts == /\ t.known[p[1]] # None /\ p[3] # p[2]
                  /\ t.known[p[3]] # None /\ ~t.known[p[3]].fail
    IN  /\ p \in fails
        /\ fails' = fails \ {p}
        /\ tab' = IF counts
                  THEN [tab EXCEPT ![p[2]] = clusterBeforeSleep(
                           [t EXCEPT !.known[p[3]].fail = TRUE, !.known[p[3]].pfail = FALSE],
                           p[2], TRUE, delay)]
                  ELSE tab
        /\ UNCHANGED <<mail, suspected>>

--------------------------------------------------------------------------
(* The cron and the commands *)

CronState(t, n, late, delay) ==
    IF late # {} \/ t.state = "fail" THEN clusterUpdateState(t, n, delay) ELSE t

\* gone: handshakes that took too long; late: nodes that did not answer for
\* the node timeout.  A handshake that has no link gets one, and a packet.
clusterCron(n, gone, late, delay) ==
    LET t == tab[n]
        hs == [m \in Nodes |-> IF m \in gone THEN "no"
                               ELSE IF t.hs[m] # "no" THEN "linked" ELSE "no"]
        known == [m \in Nodes |-> IF m \in late THEN [t.known[m] EXCEPT !.pfail = TRUE]
                                  ELSE t.known[m]]
    IN  /\ tab' = [tab EXCEPT ![n] = CronState([t EXCEPT !.hs = hs, !.known = known],
                                               n, late, delay)]
        /\ mail' = [p \in DOMAIN mail |->
                      IF p[1] # n \/ hs[p[2]] = t.hs[p[2]] THEN mail[p]
                      ELSE IF hs[p[2]] = "no" THEN "no"
                      ELSE IF t.hs[p[2]] = "meet" THEN "meet" ELSE "ping"]
        /\ suspected' = suspected \cup ({n} \X late)
        /\ UNCHANGED fails

Cron(n) ==
    \E gone \in SUBSET {m \in Nodes : tab[n].hs[m] # "no"},
       delay \in {tab[n].state = "fail", FALSE},
       late \in SUBSET {m \in Known(tab[n]) \cap Silent :
                          ~tab[n].known[m].pfail /\ ~tab[n].known[m].fail} :
        clusterCron(n, gone, late, delay)

\* CLUSTER MEET
Meet(n, m) ==
    /\ <<n, m>> \in MeetPairs
    /\ tab' = [tab EXCEPT ![n] = clusterStartHandshake(tab[n], m)]
    /\ UNCHANGED <<mail, fails, suspected>>

\* Mutant: the handler does not ask for an update of the state.
Forget_NoUpdate(n, m, delay) ==
    /\ m \in Forgets /\ m # n /\ tab[n].known[m] # None
    /\ delay => tab[n].state = "fail"
    /\ tab' = [tab EXCEPT ![n] = clusterBeforeSleep(
                   [clusterDelNode(tab[n], m) EXCEPT !.black = @ \cup {m}], n, FALSE, delay)]
    /\ mail' = [mail EXCEPT ![<<n, m>>] = "no"]
    /\ UNCHANGED <<fails, suspected>>

\* CLUSTER FORGET: the link and its packets go with the node.
Forget(n, m, delay) ==
    /\ m \in Forgets /\ m # n /\ tab[n].known[m] # None
    /\ delay => tab[n].state = "fail"
    /\ tab' = [tab EXCEPT ![n] = clusterBeforeSleep(
                   [clusterDelNode(tab[n], m) EXCEPT !.black = @ \cup {m}], n, TRUE, delay)]
    /\ mail' = [mail EXCEPT ![<<n, m>>] = "no"]
    /\ UNCHANGED <<fails, suspected>>

\* A node stays in the black list for a minute.
clusterBlacklistCleanup(n, m) ==
    /\ m \in tab[n].black
    /\ tab' = [tab EXCEPT ![n].black = @ \ {m}]
    /\ UNCHANGED <<mail, fails, suspected>>

--------------------------------------------------------------------------
Table(n) ==
    [known |-> [m \in Nodes |-> IF {n, m} \subseteq Joined /\ n # m
                                THEN [NewNode EXCEPT !.slots = TRUE] ELSE None],
     hs |-> [m \in Nodes |-> "no"], black |-> {}, state |-> "ok",
     size |-> IF n \in Joined THEN Cardinality(Joined) ELSE 1]

Init ==
    /\ tab = [n \in Nodes |-> Table(n)]
    /\ mail = [p \in {q \in Nodes \X Nodes : q[1] # q[2]} |-> "no"]
    /\ fails = {}
    /\ suspected = {}

Next ==
    \/ \E n \in Nodes : Cron(n)
    \/ \E p \in DOMAIN mail :
          \/ Packet(p[1], p[2])
          \/ handleLinkIOError(p[1], p[2])
          \/ Meet(p[1], p[2])
          \/ \E delay \in BOOLEAN : Forget(p[1], p[2], delay)
          \/ clusterBlacklistCleanup(p[1], p[2])
    \/ \E p \in fails, delay \in BOOLEAN : ReceiveFail(p, delay)

Spec == Init /\ [][Next]_vars

--------------------------------------------------------------------------
(* Properties *)

TypeOK ==
    /\ \A n \in Nodes :
         /\ tab[n].hs \in [Nodes -> {"no", "meet", "plain", "linked"}]
         /\ tab[n].black \subseteq Nodes /\ tab[n].state \in {"ok", "fail"}
         /\ tab[n].size \in 1..Cardinality(Nodes)
         /\ tab[n].known[n] = None
    /\ \A p \in DOMAIN mail : mail[p] \in {"no", "ping", "meet", "pong"}

\* With a membership that does not change, a node is in FAIL state for anyone
\* only when a majority of the masters had suspected it themselves
\* (markNodeAsFailingIfNeeded() adds its own suspicion to the reports, and a
\* report or a FAIL packet goes back to nodes that suspected it).
FailNeedsMajority ==
    \A n, m \in Nodes :
      tab[n].known[m] # None /\ tab[n].known[m].fail =>
        Cardinality({k \in Nodes : <<k, m>> \in suspected})
            >= Cardinality(Joined) \div 2 + 1

\* A failure report points to a node that is still in the table: clusterDelNode()
\* leaves no pointer to a freed node behind.
ReportsOfKnown ==
    \A n \in Nodes : \A m \in Known(tab[n]) : tab[n].known[m].reports \subseteq Known(tab[n])

\* A node that a node has forgotten is not added again by gossip as long as it
\* is in the black list, whoever still knows it.
ForgottenStaysOut ==
    \A n \in Nodes : tab[n].black \cap Known(tab[n]) = {}

\* A node says the cluster is up only while it reaches a majority of the
\* masters it knows: every handler that changes a flag asks for
\* clusterUpdateState() before it sleeps (clusterBeforeSleep()).
OkMeansMajority ==
    \A n \in Nodes : tab[n].state = "ok" =>
      Cardinality(Reachable(tab[n], n)) >= Cardinality(Serving(tab[n], n)) \div 2 + 1
=============================================================================
