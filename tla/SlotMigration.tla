--------------------------- MODULE SlotMigration ---------------------------
(***************************************************************************)
(* The live migration of one hash slot between the masters of a Redis      *)
(* Cluster (cluster.c), driven by redis-cli (redis-cli.c), while a client  *)
(* goes on reading and writing its keys.                                   *)
(*                                                                         *)
(* redis-cli is a program of commands, `prog', that are sent one at a      *)
(* time: a command that is answered with an error ends the program, and    *)
(* redis-cli may die between any two of them, after which `fix' is run.    *)
(* The client may ask any node, with whatever slot table it has; only an   *)
(* -ASK redirection it has yet to follow is state.                         *)
(*                                                                         *)
(* Every master is taken to serve other slots as well, so losing this one  *)
(* never turns it into a replica, and the configuration epochs the nodes   *)
(* know of each other are taken to be current.  The cluster is taken to be *)
(* up for every node, also while nobody serves the slot, and no client is  *)
(* served by a replica.  A value is the number of the write that stored    *)
(* it, 0 for a key that does not exist.                                    *)
(***************************************************************************)
EXTENDS Integers, Sequences, FiniteSets, SequencesExt, FiniteSetsExt

CONSTANTS
    Masters,        \* the masters, in the order redis-cli lists them: a sequence
    Keys,           \* the keys of the slot, in the order GETKEYSINSLOT lists them
    Volatile,       \* the keys with a time to live
    MaxWrites,      \* bound on the writes of the client
    MaxMoves,       \* bound on the slot moves that are started
    MaxDeaths,      \* bound on the deaths of redis-cli
    Unanswered,     \* may a RESTORE be applied and its reply be lost?
    Restarts,       \* may a node restart from an old snapshot?
    Tools,          \* the commands of redis-cli that are run: "reshard", "fix", "owners"
    None

VARIABLES
    node,     \* what each master knows of the slot, and its keys
    rdb,      \* the keys of its last snapshot
    prog,     \* the commands redis-cli has yet to send
    ask,      \* the request of an -ASK redirection the client has yet to follow
    acked,    \* the last write of each key that was acknowledged
    tool      \* [writes, moves, deaths, run, good, asked, done]: bounds, what redis-cli
              \* runs, its result so far, whether an -ASK was followed since it was
              \* started, and how it ended

vars == <<node, rdb, prog, ask, acked, tool>>

MasterNodes == Range(Masters)
KeySet == Range(Keys)
Version == 0..MaxWrites
NoKeys == [k \in KeySet |-> 0]

\* KeysIn(n): countKeysInSlot of node record n, as a set
KeysIn(n) == {k \in KeySet : n.kv[k] # 0}

Open(n) == n.mig # None \/ n.imp # None

-----------------------------------------------------------------------------
(* The commands of a node: each takes the table of all nodes, and yields    *)
(* [node, err].                                                             *)

Ok(t) == [node |-> t, err |-> "no"]
Fails(t, e) == [node |-> t, err |-> e]

MaxEpoch(t) == Max({t[n].epoch : n \in MasterNodes})

clusterBumpConfigEpochWithoutConsensus(t, n) ==
    IF t[n].epoch = 0 \/ t[n].epoch # MaxEpoch(t)
    THEN [t EXCEPT ![n].epoch = MaxEpoch(t) + 1] ELSE t

SetSlotMigrating(t, n, to) ==
    IF t[n].owner # n THEN Fails(t, "not the owner")
    ELSE Ok([t EXCEPT ![n].mig = to])

SetSlotImporting(t, n, from) ==
    IF t[n].owner = n THEN Fails(t, "already the owner")
    ELSE Ok([t EXCEPT ![n].imp = from])

SetSlotStable(t, n) == Ok([t EXCEPT ![n].mig = None, ![n].imp = None])


SetSlotNode(t, n, owner) ==
    IF t[n].owner = n /\ owner # n /\ KeysIn(t[n]) # {} THEN Fails(t, "holds keys")
    ELSE LET closed == IF KeysIn(t[n]) = {} THEN [t EXCEPT ![n].mig = None] ELSE t
             bumped == IF owner = n /\ t[n].imp # None
                       THEN [clusterBumpConfigEpochWithoutConsensus(closed, n)
                                 EXCEPT ![n].imp = None]
                       ELSE closed
         IN Ok([bumped EXCEPT ![n].owner = owner])

DelSlots(t, n) ==
    IF t[n].owner = None THEN Fails(t, "unassigned")
    ELSE Ok([t EXCEPT ![n].owner = None, ![n].imp = None])

AddSlots(t, n) ==
    IF t[n].owner # None THEN Fails(t, "busy")
    ELSE Ok([t EXCEPT ![n].owner = n, ![n].imp = None])

-----------------------------------------------------------------------------
(* Who serves a request                                                     *)

\* Mutant: a missing key of a migrating slot is created here, without -ASK.
getNodeByQuery_NoAsk(t, n, ks, asking) ==
    IF t[n].owner = None THEN [to |-> None, code |-> "DOWN_UNBOUND"]
    ELSE IF t[n].owner # n /\ t[n].imp # None /\ asking
    THEN IF Cardinality(ks) > 1 /\ ks \ KeysIn(t[n]) # {}
         THEN [to |-> None, code |-> "UNSTABLE"] ELSE [to |-> n, code |-> "NONE"]
    ELSE [to |-> t[n].owner, code |-> IF t[n].owner = n THEN "NONE" ELSE "MOVED"]

getNodeByQuery(t, n, ks, asking) ==
    LET migrating == t[n].owner = n /\ t[n].mig # None
        importing == ~migrating /\ t[n].imp # None
        missing   == ks \ KeysIn(t[n]) # {}
    IN CASE t[n].owner = None     -> [to |-> None, code |-> "DOWN_UNBOUND"]
         [] t[n].owner # None /\ migrating /\ missing
                                  -> [to |-> t[n].mig, code |-> "ASK"]
         [] t[n].owner # None /\ importing /\ asking
                -> IF Cardinality(ks) > 1 /\ missing
                   THEN [to |-> None, code |-> "UNSTABLE"]
                   ELSE [to |-> n, code |-> "NONE"]
         [] OTHER -> [to |-> t[n].owner,
                      code |-> IF t[n].owner = n THEN "NONE" ELSE "MOVED"]

\* MIGRATE runs on a node that migrates or imports the slot, or owns it.
MigrateRunsAt(t, n) ==
    /\ t[n].owner # None
    /\ t[n].owner = n \/ t[n].imp # None

-----------------------------------------------------------------------------
(* MIGRATE: the source is blocked throughout.  `ks' are the keys asked for, *)
(* `gone' those that expire between the lookup and the serialization.       *)

\* RESTORE-ASKING of value v for key k at node `dst'
restoreCommand(t, dst, k, v, replace) ==
    LET q == getNodeByQuery(t, dst, {k}, TRUE) IN
    IF q.code # "NONE" THEN Fails(t, IF q.code = "DOWN_UNBOUND" THEN "not served" ELSE "moved")
    ELSE IF t[dst].kv[k] # 0 /\ ~replace THEN Fails(t, "BUSYKEY")
    ELSE Ok([t EXCEPT ![dst].kv[k] = v])

\* One attempt: the first `sent' of the pairs <<key, value>> are applied by the
\* target, and the replies of the first `read' of them are read.  A key whose
\* reply is positive is deleted; the error reported is the first one.
Attempt(t, src, dst, pairs, replace, sent, read) ==
    LET Restore(i, a) ==
            LET r == restoreCommand(a.node, dst, pairs[i][1], pairs[i][2], replace)
            IN [node |-> IF r.err = "no" /\ i <= read
                         THEN [r.node EXCEPT ![src].kv[pairs[i][1]] = 0] ELSE r.node,
                err  |-> IF a.err = "no" /\ i <= read THEN r.err ELSE a.err]
        F[i \in 0..Len(pairs)] ==
            IF i = 0 THEN Ok(t) ELSE IF i > sent THEN F[i - 1] ELSE Restore(i, F[i - 1])
    IN F[Len(pairs)]

\* How far an attempt over n keys gets: a write error or a lost reply leaves some
\* keys unsent and, when replies may be lost, some applied but unanswered.
\* errno says whether it was a timeout; the first socket may be a stale cached one.
Outcomes(n) ==
    {o \in [sent : 0..n, read : 0..n, timeout : BOOLEAN] :
        /\ o.read <= o.sent
        /\ o.read < o.sent => Unanswered
        /\ o.read = n => ~o.timeout}

\* The pairs of the first attempt: every key with its own value.
FirstPairs(t, src, ks, gone) ==
    LET kv == SelectSeq(ks, LAMBDA k : k \notin gone)
    IN [i \in 1..Len(kv) |-> <<kv[i], t[src].kv[kv[i]]>>]

\* The pairs of a retry: kv[] was compacted over the keys that had expired, while
\* ov[] still holds the objects of the keys first looked up.
RetryPairs(t, src, ks, gone) ==
    LET kv == SelectSeq(ks, LAMBDA k : k \notin gone)
    IN [i \in 1..Len(kv) |-> <<kv[i], t[src].kv[ks[i]]>>]

\* MIGRATE of the keys ks that exist.  A retry is made once, when nothing was
\* answered and the error was no timeout. 
migrateCommand(t, src, dst, ks, replace, gone, o1, o2) ==
    LET n     == Len(SelectSeq(ks, LAMBDA k : k \notin gone))
        first == Attempt(t, src, dst, FirstPairs(t, src, ks, gone), replace, o1.sent, o1.read)
        again == Attempt(first.node, src, dst, RetryPairs(t, src, ks, gone), replace,
                         o2.sent, o2.read)
        End(r, o) == IF r.err # "no" THEN r
                     ELSE IF o.read < n THEN Fails(r.node, "IOERR") ELSE r
    IN IF t[src].owner = None THEN Fails(t, "not served")
       ELSE IF ~MigrateRunsAt(t, src) THEN Fails(t, "moved")
       ELSE IF o1.read = 0 /\ n > 0 /\ ~o1.timeout THEN End(again, o2)
       ELSE End(first, o1)

-----------------------------------------------------------------------------
(* The programs of redis-cli                                                *)

Cmd(op, n, m) == [op |-> op, n |-> n, m |-> m, ks |-> <<>>, replace |-> FALSE, fix |-> FALSE,
                  seen |-> None]
ForEach(seq, Op(_)) == FlattenSeq([i \in 1..Len(seq) |-> Op(seq[i])])
Without(seq, n) == SelectSeq(seq, LAMBDA x : x # n)

MigrateKeysInSlot(src, dst, fix) == <<[Cmd("getkeys", src, dst) EXCEPT !.fix = fix]>>

MoveSlot(src, dst, cold, fix) ==
    IF cold THEN MigrateKeysInSlot(src, dst, fix)
    ELSE <<Cmd("importing", dst, src), Cmd("migrating", src, dst)>>
         \o MigrateKeysInSlot(src, dst, fix)
         \o ForEach(Masters, LAMBDA n : <<Cmd("node", n, dst)>>)

\* The first of the masters `seq' with the most keys.
GetNodeWithMostKeysInSlot(t, seq) ==
    LET Count(n) == Cardinality(KeysIn(t[n]))
    IN seq[CHOOSE i \in 1..Len(seq) :
            /\ \A j \in 1..Len(seq) : Count(seq[j]) <= Count(seq[i])
            /\ \A j \in 1..(i - 1) : Count(seq[j]) < Count(seq[i])]

\* The owners of the slot as redis-cli sees them: the masters that claim it, and
\* those that hold keys of it.
Owners(t) == SelectSeq(Masters, LAMBDA n : t[n].owner = n \/ KeysIn(t[n]) # {})

Unfixable == <<Cmd("fail", None, None)>>

\* The four cases that can be closed, by the masters that migrate and import the slot;
\* to[n] is the node n migrates it to.
CloseSlot(t, owner, migrating, importing, to) ==
    LET src == migrating[1]
        Stable(seq) == ForEach(seq, LAMBDA n : <<Cmd("stable", n, None)>>)
    IN CASE Len(migrating) = 1 /\ Len(importing) = 1 ->
                MoveSlot(src, importing[1], FALSE, TRUE)
         [] Len(migrating) = 0 /\ Len(importing) > 0 ->
                ForEach(Without(importing, owner), LAMBDA n :
                    MoveSlot(n, owner, TRUE, TRUE) \o <<Cmd("stable", n, None)>>)
                \o ForEach(Without(Masters, owner), LAMBDA n : <<Cmd("node", n, owner)>>)
         [] Len(migrating) = 1 /\ Len(importing) > 1 ->
                IF \E n \in Range(importing) : KeysIn(t[n]) # {} THEN Unfixable
                ELSE IF to[src] \in Range(importing)
                THEN MoveSlot(src, to[src], FALSE, TRUE) \o Stable(Without(importing, to[src]))
                ELSE Stable(<<src>> \o importing)
         [] Len(migrating) = 1 /\ Len(importing) = 0 ->
                IF owner = src \/ KeysIn(t[src]) = {} THEN Stable(<<src>>) ELSE Unfixable
         [] OTHER -> Unfixable

\* What redis-cli has seen of an open slot: the states of the nodes as they were when
\* it loaded them, and the owners.
FixOpenSlot(t) ==
    <<[Cmd("list", None, None) EXCEPT !.seen =
         [owners |-> Owners(t),
          mig |-> SelectSeq(Masters, LAMBDA n : t[n].mig # None),
          imp |-> SelectSeq(Masters, LAMBDA n : t[n].mig = None /\ t[n].imp # None),
          to |-> [n \in MasterNodes |-> t[n].mig]]]>>

\* A node with keys that is neither the owner nor open passes for an importing one.
\* Here and below the keys are counted anew.
ListImporting(t, s) ==
    LET owner == IF Len(s.owners) = 1 THEN s.owners[1] ELSE None
        more  == {n \in MasterNodes \ (Range(s.mig) \cup {owner}) : KeysIn(t[n]) # {}}
        seen  == [s EXCEPT !.imp = SelectSeq(Masters, LAMBDA n : n \in Range(@) \cup more)]
    IN <<[Cmd(IF owner = None THEN "choose" ELSE "close", owner, None) EXCEPT !.seen = seen]>>

\* Nobody is the only owner: one is chosen, and every other node that may pass for
\* one is made to import the slot from it.
ChooseOwner(t, s) ==
    LET owner == GetNodeWithMostKeysInSlot(t, Masters)
        extra == IF Len(s.owners) > 1 THEN Without(s.owners, owner) ELSE <<>>
        Left(seq) == SelectSeq(seq, LAMBDA n : n # owner /\ n \notin Range(extra))
        seen  == [s EXCEPT !.mig = Left(@), !.imp = Left(@) \o extra]
    IN <<Cmd("stable", owner, None), Cmd("own", owner, None), Cmd("bump", owner, None)>>
       \o ForEach(extra, LAMBDA n : <<Cmd("del", n, None), Cmd("node", n, owner),
                                       Cmd("importing", n, owner)>>)
       \o <<[Cmd("close", owner, None) EXCEPT !.seen = seen]>>

\* Nobody claims the slot; a master picked at random takes a slot without keys.
FixSlotsCoverage(t, random) ==
    LET holders == SelectSeq(Masters, LAMBDA n : KeysIn(t[n]) # {})
        target  == GetNodeWithMostKeysInSlot(t, holders)
    IN IF holders = <<>> THEN <<Cmd("own", random, None)>>
       ELSE IF Len(holders) = 1 THEN <<Cmd("own", target, None)>>
       ELSE <<Cmd("ownclear", target, None)>>
            \o ForEach(Without(holders, target), LAMBDA n :
                   <<Cmd("node", n, target), Cmd("importing", n, target)>>
                   \o MoveSlot(n, target, TRUE, TRUE) \o <<Cmd("stable", n, None)>>)

FixMultipleSlotOwners(t) ==
    LET owner == GetNodeWithMostKeysInSlot(t, Owners(t))
    IN <<Cmd("own", owner, None)>>
       \o ForEach(Without(Masters, owner), LAMBDA n :
              <<Cmd("del", n, None), Cmd("node", n, owner)>> \o MoveSlot(n, owner, TRUE, TRUE))

\* What `--cluster check' finds.
AnyOpen(t) == \E n \in MasterNodes : Open(t[n])
Covered(t) == \E n \in MasterNodes : t[n].owner = n
Consistent(t) == \A n, m \in MasterNodes : t[n].owner = t[m].owner

\* --cluster fix is run when the cluster needs it: open slots are fixed first, then
\* the coverage, as the slot table redis-cli has in memory shows it, and with
\* --cluster-search-multiple-owners the owners; "fixed" makes good an earlier error.
FixNeeded(t) ==
    AnyOpen(t) \/ ~Covered(t) \/ ("owners" \in Tools /\ Len(Owners(t)) > 1)
FixProgram(t) ==
    (IF AnyOpen(t) THEN FixOpenSlot(t) ELSE <<>>)
    \o (IF Covered(t) \/ (AnyOpen(t) /\ Len(Owners(t)) # 1) THEN <<>> ELSE <<Cmd("coverage", None, None)>>)
    \o (IF "owners" \in Tools THEN <<Cmd("owners", None, None)>> ELSE <<>>)

-----------------------------------------------------------------------------
(* redis-cli                                                                *)

Ends(run, how) == [tool EXCEPT !.run = "no", !.good = TRUE, !.done = <<run, how>>]

\* A command answered with or without an error, then the next one.
Continues(rest, good) ==
    /\ prog' = rest
    /\ tool' = IF rest = <<>> THEN Ends(tool.run, IF good THEN "ok" ELSE "failed")
               ELSE [tool EXCEPT !.good = good]

Goes(rest) == Continues(rest, tool.good)

\* After an error the rest is skipped, up to the next check of --cluster fix.
Stops == Continues(SelectSeq(prog, LAMBDA c : c.op \in {"coverage", "owners"}), FALSE)

Applied(r, ignore) ==
    /\ node' = r.node
    /\ IF r.err = "no" \/ ignore THEN Goes(Tail(prog)) ELSE Stops

\* The transaction of clusterManagerSetSlotOwner
SetSlotOwner(t, n, clear) ==
    LET added == AddSlots(DelSlots(t, n).node, n).node
    IN clusterBumpConfigEpochWithoutConsensus(
           IF clear THEN SetSlotStable(added, n).node ELSE added, n)

Command(c) ==
    /\ c.op \notin {"getkeys", "migrate", "list", "choose", "close", "coverage", "owners", "fixed"}
    /\ CASE c.op = "importing" -> Applied(SetSlotImporting(node, c.n, c.m), FALSE)
         [] c.op = "migrating" -> Applied(SetSlotMigrating(node, c.n, c.m), FALSE)
         [] c.op = "node"      -> Applied(SetSlotNode(node, c.n, c.m), FALSE)
         [] c.op = "nodeignore" -> Applied(SetSlotNode(node, c.n, c.m), TRUE)
         [] c.op = "stable"    -> Applied(SetSlotStable(node, c.n), FALSE)
         [] c.op = "del"       -> Applied(DelSlots(node, c.n), TRUE)
         [] c.op = "own"       -> Applied(Ok(SetSlotOwner(node, c.n, FALSE)), FALSE)
         [] c.op = "ownclear"  -> Applied(Ok(SetSlotOwner(node, c.n, TRUE)), FALSE)
         [] c.op = "bump"      ->
                Applied(Ok(clusterBumpConfigEpochWithoutConsensus(node, c.n)), FALSE)
         [] c.op = "fail"      -> Applied(Fails(node, "can't fix"), FALSE)
    /\ UNCHANGED <<rdb, ask, acked>>

\* CLUSTER GETKEYSINSLOT: the loop ends when there are no more keys.
GetKeys(c) ==
    /\ c.op = "getkeys"
    /\ LET ks == SelectSeq(Keys, LAMBDA k : k \in KeysIn(node[c.n]))
       IN IF ks = <<>> THEN Goes(Tail(prog))
          ELSE prog' = <<[c EXCEPT !.op = "migrate", !.ks = ks]>> \o prog /\ UNCHANGED tool
    /\ UNCHANGED <<node, rdb, ask, acked>>

Expired(t, gone) ==
    [n \in MasterNodes |-> [t[n] EXCEPT !.kv = [k \in KeySet |-> IF k \in gone THEN 0 ELSE @[k]]]]

\* MIGRATE, and for a program of fix one more with REPLACE after BUSYKEY.
Migrate(c) ==
    /\ c.op = "migrate"
    /\ LET ks == SelectSeq(c.ks, LAMBDA k : k \in KeysIn(node[c.n])) IN
       \E gone \in SUBSET (Range(ks) \cap Volatile) :
          \E o1, o2 \in Outcomes(Len(ks) - Cardinality(gone)) :
            LET r == migrateCommand(node, c.n, c.m, ks, c.replace, gone, o1, o2) IN
            /\ node' = Expired(r.node, gone)
            /\ acked' = [k \in KeySet |-> IF k \in gone THEN 0 ELSE acked[k]]
            /\ IF r.err = "no" THEN Goes(Tail(prog))
               ELSE IF c.fix /\ r.err \in {"BUSYKEY", "not served"}
               THEN /\ prog' = (IF r.err = "not served" THEN <<Cmd("nodeignore", c.n, c.m)>>
                                ELSE <<>>)
                               \o <<[c EXCEPT !.replace = r.err = "BUSYKEY", !.fix = FALSE]>>
                               \o Tail(prog)
                    /\ UNCHANGED tool
               ELSE Stops
    /\ UNCHANGED <<rdb, ask>>

\* The rounds of counting in an open slot
Round(c) ==
    /\ \/ c.op = "list" /\ Goes(ListImporting(node, c.seen) \o Tail(prog))
       \/ c.op = "choose" /\ Goes(ChooseOwner(node, c.seen) \o Tail(prog))
       \/ /\ c.op = "close"
          /\ Goes(CloseSlot(node, c.n, c.seen.mig, c.seen.imp, c.seen.to) \o Tail(prog))
    /\ UNCHANGED <<node, rdb, ask, acked>>

\* The later checks of --cluster fix
Check(c) ==
    LET fixed == <<Cmd("fixed", None, None)>> IN
    /\ \/ /\ c.op = "coverage"
          /\ \E random \in MasterNodes :
                Goes(FixSlotsCoverage(node, random) \o fixed \o Tail(prog))
       \/ /\ c.op = "owners"
          /\ Goes((IF Len(Owners(node)) > 1 THEN FixMultipleSlotOwners(node) \o fixed ELSE <<>>)
                  \o Tail(prog))
       \/ c.op = "fixed" /\ Continues(Tail(prog), TRUE)
    /\ UNCHANGED <<node, rdb, ask, acked>>

Tool ==
    /\ prog # <<>>
    /\ \/ Command(Head(prog)) \/ GetKeys(Head(prog)) \/ Migrate(Head(prog))
       \/ Round(Head(prog)) \/ Check(Head(prog))

Starts(run, p, good) ==
    /\ prog = <<>> /\ run \in Tools /\ tool.moves < MaxMoves
    /\ prog' = p
    /\ tool' = [tool EXCEPT !.run = run, !.good = good, !.asked = FALSE, !.done = <<>>,
                             !.moves = @ + 1]

\* --cluster reshard of the slot, which refuses a cluster that needs fixing.
Reshard ==
    /\ ~AnyOpen(node) /\ Covered(node) /\ Consistent(node)
    /\ \E dst \in MasterNodes \ {node[Masters[1]].owner} :
          Starts("reshard", MoveSlot(node[Masters[1]].owner, dst, FALSE, FALSE), TRUE)
    /\ UNCHANGED <<node, rdb, ask, acked>>

Fix ==
    /\ FixNeeded(node)
    /\ Starts("fix", FixProgram(node), Consistent(node) \/ AnyOpen(node))
    /\ UNCHANGED <<node, rdb, ask, acked>>

ToolDies ==
    /\ prog # <<>> /\ tool.deaths < MaxDeaths
    /\ prog' = <<>>
    /\ tool' = [tool EXCEPT !.deaths = @ + 1, !.run = "no", !.good = TRUE, !.done = <<>>]
    /\ UNCHANGED <<node, rdb, ask, acked>>

-----------------------------------------------------------------------------
(* Clients, gossip and restarts                                             *)

Write(n, ks, v) ==
    /\ node' = [node EXCEPT ![n].kv = [k \in KeySet |-> IF k \in ks THEN v ELSE @[k]]]
    /\ acked' = [k \in KeySet |-> IF k \in ks THEN v ELSE acked[k]]

\* A request for the keys ks at node n.  A write stores a new value; a deletion
\* stores 0.  -MOVED, -TRYAGAIN and -CLUSTERDOWN leave the client to start again.
Request(n, ks, del) ==
    LET q == getNodeByQuery(node, n, ks, FALSE)
        v == IF del THEN 0 ELSE tool.writes + 1
    IN /\ tool.writes < MaxWrites
       /\ \/ q.code = "NONE" /\ Write(n, ks, v) /\ UNCHANGED ask
          \/ q.code = "ASK" /\ ask = None /\ ask' = [to |-> q.to, ks |-> ks, v |-> v]
             /\ UNCHANGED <<node, acked>>
       /\ tool' = [tool EXCEPT !.writes = @ + 1]
       /\ UNCHANGED <<rdb, prog>>

\* ASKING, then the request again, at the node the -ASK named.
FollowAsk ==
    /\ ask # None
    /\ LET q == getNodeByQuery(node, ask.to, ask.ks, TRUE)
       IN IF q.code = "NONE" THEN Write(ask.to, ask.ks, ask.v) /\ ask' = None
          ELSE /\ ask' = IF q.code = "ASK" THEN [ask EXCEPT !.to = q.to] ELSE None
               /\ UNCHANGED <<node, acked>>
    /\ tool' = [tool EXCEPT !.asked = TRUE]
    /\ UNCHANGED <<rdb, prog>>

Expire(k) ==
    /\ k \in Volatile /\ \E n \in MasterNodes : node[n].kv[k] # 0
    /\ node' = Expired(node, {k}) /\ acked' = [acked EXCEPT ![k] = 0]
    /\ UNCHANGED <<rdb, prog, ask, tool>>

\* m hears that n claims the slot: clusterUpdateSlotsConfigWith.
Gossip(n, m) ==
    /\ n # m /\ node[n].owner = n /\ node[m].owner # n
    /\ node[m].imp = None
    /\ node[m].owner # None => node[node[m].owner].epoch < node[n].epoch
    /\ node' = [node EXCEPT ![m].owner = n,
                            ![m].kv = IF node[m].owner = m THEN NoKeys ELSE @]
    /\ UNCHANGED <<rdb, prog, ask, acked, tool>>

\* A snapshot, and a restart from it with verifyClusterConfigWithData; redis-cli
\* loses its connection, and what it reported is history.
Save(n) ==
    /\ Restarts /\ rdb[n] # node[n].kv
    /\ rdb' = [rdb EXCEPT ![n] = node[n].kv]
    /\ UNCHANGED <<node, prog, ask, acked, tool>>

verifyClusterConfigWithData(r, n) ==
    IF KeysIn(r) = {} \/ r.owner = n \/ r.imp # None THEN r
    ELSE IF r.owner = None THEN [r EXCEPT !.owner = n]
    ELSE [r EXCEPT !.imp = r.owner]

Restart(n) ==
    /\ Restarts /\ rdb[n] # node[n].kv
    /\ node' = [node EXCEPT ![n] = verifyClusterConfigWithData([@ EXCEPT !.kv = rdb[n]], n)]
    /\ prog' = <<>> /\ tool' = [tool EXCEPT !.run = "no", !.good = TRUE, !.done = <<>>]
    /\ UNCHANGED <<rdb, ask, acked>>

-----------------------------------------------------------------------------

Init ==
    /\ node = [n \in MasterNodes |-> [owner |-> Masters[1], mig |-> None, imp |-> None,
                               epoch |-> CHOOSE i \in 1..Len(Masters) : Masters[i] = n,
                               kv |-> NoKeys]]
    /\ rdb = [n \in MasterNodes |-> NoKeys]
    /\ prog = <<>> /\ ask = None /\ acked = NoKeys
    /\ tool = [writes |-> 0, moves |-> 0, deaths |-> 0, run |-> "no", good |-> TRUE,
               asked |-> FALSE, done |-> <<>>]

Next ==
    \/ Tool \/ Reshard \/ Fix \/ ToolDies \/ FollowAsk
    \/ \E n \in MasterNodes, ks \in SUBSET KeySet \ {{}}, del \in BOOLEAN : Request(n, ks, del)
    \/ \E k \in KeySet : Expire(k)
    \/ \E n, m \in MasterNodes : Gossip(n, m)
    \/ \E n \in MasterNodes : Save(n) \/ Restart(n)

Spec == Init /\ [][Next]_vars

-----------------------------------------------------------------------------
(* Properties                                                               *)

NodeOrNone == MasterNodes \cup {None}

\* Every variable has its type: owners and states of the slot are nodes, values are
\* write numbers, and the program of redis-cli is a sequence of commands.
TypeOK ==
    /\ \A n \in MasterNodes : /\ node[n].owner \in NodeOrNone /\ node[n].mig \in NodeOrNone
                         /\ node[n].imp \in NodeOrNone /\ node[n].epoch \in Nat
                         /\ node[n].kv \in [KeySet -> Version]
    /\ rdb \in [MasterNodes -> [KeySet -> Version]] /\ acked \in [KeySet -> Version]
    /\ \A i \in DOMAIN prog : prog[i].n \in NodeOrNone /\ prog[i].ks \in Seq(KeySet)
    /\ ask # None => ask.to \in MasterNodes
    /\ tool.run \in {"no", "reshard", "fix"} /\ (prog # <<>>) <=> (tool.run # "no")

\* Whichever node a client asks, a key that is served, by that node or by the node
\* its -ASK names, has the value of the last acknowledged write: getNodeByQuery and
\* the steps of clusterManagerMoveSlot never let two nodes answer differently.
ServesLastWrite ==
    \A n \in MasterNodes, k \in KeySet :
        LET q == getNodeByQuery(node, n, {k}, FALSE) IN
        /\ q.code = "NONE" => node[n].kv[k] = acked[k]
        /\ q.code = "ASK" /\ getNodeByQuery(node, q.to, {k}, TRUE).code = "NONE"
              => node[q.to].kv[k] = acked[k]

\* The value of the last acknowledged write of a key is held by some node, whatever
\* becomes of redis-cli: MIGRATE deletes a key only once the target has it.
NoWriteLost == \A k \in KeySet : acked[k] # 0 => \E n \in MasterNodes : node[n].kv[k] = acked[k]

=============================================================================
