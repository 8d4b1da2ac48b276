------------------------------ MODULE Sentinel ------------------------------
(***************************************************************************)
(* Several Sentinel processes watching one master and its replicas: the    *)
(* subjective and the objective detection of a failed master, the election *)
(* of the Sentinel that runs the failover, the failover state machine, the *)
(* hello messages that spread a new configuration, and the configuration   *)
(* file a Sentinel restarts from (src/redis-stable/src/sentinel.c).        *)
(*                                                                         *)
(* Every test of a clock is a nondeterministic choice.  A connection       *)
(* carries one is-master-down-by-addr request at a time, and the answer    *)
(* comes with it or is lost.  All Sentinels know each other and all        *)
(* replicas from the start; SENTINEL RESET, MONITOR and REMOVE, which      *)
(* change that, are not modelled.                                          *)
(***************************************************************************)
EXTENDS Naturals, FiniteSets, FiniteSetsExt

CONSTANTS
    Sentinels,     \* the Sentinel processes
    Instances,     \* the monitored instances
    FirstMaster,   \* the instance that is the master at first
    Quorum,        \* the quorum of "sentinel monitor"
    ParallelSyncs, \* parallel-syncs
    Promotable,    \* the instances whose slave-priority is not 0
    MaxEpoch,      \* bound on the epochs of the model
    Forced,        \* whether an operator may send SENTINEL FAILOVER
    Crashing,      \* the Sentinels that may crash
    Watching,      \* the Sentinels that may see the master as down
    Heals,         \* whether a master seen as down may be seen as up again
    Tilts,         \* whether a Sentinel may be in tilt mode
    Lossy,         \* whether a connection between two Sentinels may break
    Retries,       \* whether the time between two failovers may pass
    None           \* NULL

ASSUME SentinelAssumption ==
    /\ IsFiniteSet(Sentinels) /\ None \notin Sentinels
    /\ FirstMaster \in Instances /\ None \notin Instances

VARIABLES
    sen,     \* what each Sentinel has in memory
    disk,    \* what each Sentinel has in its configuration file
    link,    \* the request in flight between two Sentinels
    redis,   \* the instance each instance replicates from, None for a master
    votes,   \* history: every vote given, <<voter, epoch, candidate>>
    elected  \* history: every election won, <<failover epoch, epoch counted, winner>>

vars == <<sen, disk, link, redis, votes, elected>>

Others(s) == Sentinels \ {s}

\* The states of a failover in the order the code compares them.
StateNumber == [none |-> 0, wait_start |-> 1, select_slave |-> 2,
                send_slaveof_noone |-> 3, wait_promotion |-> 4,
                reconf_slaves |-> 5, update_config |-> 6]

NoReply == [down |-> FALSE, leader |-> None, leader_epoch |-> 0]

\* No replica has been told to replicate from the promoted one.
NoReconf == [i \in Instances |-> "no"]

sentinelResetMaster(x) ==
    [x EXCEPT !.leader = None, !.sdown = FALSE, !.odown = FALSE, !.state = "none",
              !.forced = FALSE, !.promoted = None, !.delayed = FALSE,
              !.reconf = NoReconf]

CreateState == [current_epoch |-> 0, addr |-> FirstMaster, config_epoch |-> 0,
                leader |-> None, leader_epoch |-> 0, sdown |-> FALSE,
                odown |-> FALSE, state |-> "none", forced |-> FALSE,
                failover_epoch |-> 0, promoted |-> None, delayed |-> FALSE,
                reconf |-> NoReconf,
                reply |-> [t \in Sentinels |-> NoReply]]

sentinelGetCurrentMasterAddress(x) ==
    IF x.promoted # None /\ StateNumber[x.state] >= StateNumber["reconf_slaves"]
    THEN x.promoted ELSE x.addr

\* What rewriteConfigSentinelOption() writes of the state: not the vote, only
\* the epoch of the last one.
Saved(x) == [current_epoch |-> x.current_epoch, config_epoch |-> x.config_epoch,
             addr |-> sentinelGetCurrentMasterAddress(x),
             leader_epoch |-> x.leader_epoch]

\* What sentinelHandleConfiguration() makes of the file at a restart.
Loaded(f) ==
    [CreateState EXCEPT
       !.current_epoch = IF f.config_epoch > f.current_epoch THEN f.config_epoch
                         ELSE f.current_epoch,
       !.config_epoch = f.config_epoch, !.addr = f.addr,
       !.leader_epoch = f.leader_epoch]

\* What an event handler of Sentinel s works on: its memory x and its file f,
\* the instances r, the votes v and the elections e; and what it leaves.
Local(s) == [x |-> sen[s], f |-> disk[s], r |-> redis, v |-> votes, e |-> elected]

Leave(s, m) ==
    /\ sen' = [sen EXCEPT ![s] = m.x]
    /\ disk' = [disk EXCEPT ![s] = m.f]
    /\ redis' = m.r
    /\ votes' = m.v
    /\ elected' = m.e

\* Where the code calls sentinelFlushConfig().
sentinelFlushConfig(m) == [m EXCEPT !.f = Saved(m.x)]

--------------------------------------------------------------------------
(* Votes *)

\* Sentinel s votes for runid in its current epoch.
Voted(m, s, runid) ==
    LET x == [m.x EXCEPT !.leader = runid, !.leader_epoch = m.x.current_epoch,
                         !.delayed = IF runid = s THEN @ ELSE TRUE]
    IN  [m EXCEPT !.x = x, !.v = m.v \cup {<<s, m.x.current_epoch, runid>>}]

sentinelVoteLeader(m, s, epoch, runid) ==
    LET a == IF epoch > m.x.current_epoch
             THEN sentinelFlushConfig([m EXCEPT !.x.current_epoch = epoch]) ELSE m
    IN  IF a.x.leader_epoch < epoch /\ a.x.current_epoch <= epoch
        THEN sentinelFlushConfig(Voted(a, s, runid)) ELSE a

\* The votes the replies of the other Sentinels hold for c.
sentinelLeaderIncr(x, s, c) ==
    Cardinality({t \in Others(s) : /\ x.reply[t].leader = c
                                   /\ x.reply[t].leader_epoch = x.current_epoch})

\* Mutant: the majority of the Sentinels is not required.
Elects_QuorumOnly(n) == n >= Quorum

\* The winner needs the majority of the Sentinels and the quorum.
Elects(n) == n >= Cardinality(Sentinels) \div 2 + 1 /\ n >= Quorum

\* The outcomes of counting the votes: the memory after the own vote, and the
\* winner.  A hash table gives one of the candidates with most votes.
sentinelGetLeader(m, s, epoch) ==
    LET count == [c \in Sentinels |-> sentinelLeaderIncr(m.x, s, c)]
        most  == Max({count[c] : c \in Sentinels})
        first == IF most = 0 THEN {None} ELSE {c \in Sentinels : count[c] = most}
        Outcome(w) ==
            LET a    == sentinelVoteLeader(m, s, epoch, IF w = None THEN s ELSE w)
                mine == IF a.x.leader_epoch = epoch THEN a.x.leader ELSE None
                n    == IF mine = None THEN 0 ELSE count[mine] + 1
                best == IF n > most THEN mine ELSE w
            IN  <<a, IF best # None /\ Elects(IF n > most THEN n ELSE most)
                     THEN best ELSE None>>
    IN  {Outcome(w) : w \in first}

--------------------------------------------------------------------------
(* The failover state machine *)

\* Mutant: the promoted replica stays marked.
sentinelAbortFailover_KeepsPromoted(x) ==
    [x EXCEPT !.forced = FALSE, !.state = "none"]

sentinelAbortFailover(x) ==
    [x EXCEPT !.forced = FALSE, !.state = "none", !.promoted = None]

\* The replicas are those of the configuration: all but the master.
Slaves(x) == Instances \ {x.addr}

sentinelResetMasterAndChangeAddress(m, addr) ==
    sentinelFlushConfig([m EXCEPT !.x = [sentinelResetMaster(@) EXCEPT !.addr = addr]])

sentinelStartFailover(x) ==
    [x EXCEPT !.state = "wait_start", !.current_epoch = @ + 1,
              !.failover_epoch = x.current_epoch + 1, !.delayed = TRUE]

\* SLAVEOF reaches the instance at once.
sentinelSendSlaveOf(m, i, master) == [m EXCEPT !.r[i] = master]

sentinelFailoverWaitStart(m, s, late) ==
    {LET a == o[1]
         x == a.x
     IN  IF o[2] = s \/ x.forced
         THEN [a EXCEPT !.x.state = "select_slave",
                        !.e = IF o[2] = s
                              THEN @ \cup {<<x.failover_epoch, m.x.current_epoch, s>>}
                              ELSE @]
         ELSE IF late THEN [a EXCEPT !.x = sentinelAbortFailover(x)] ELSE a
     : o \in sentinelGetLeader(m, s, m.x.failover_epoch)}

\* Which replica is the best depends on priorities, offsets and run ids, and
\* whether there is one at all on the replicas' links.
sentinelSelectSlave(x) == (Slaves(x) \cap Promotable) \cup {None}

sentinelFailoverSelectSlave(m) ==
    {IF i = None THEN [m EXCEPT !.x = sentinelAbortFailover(m.x)]
     ELSE [m EXCEPT !.x.promoted = i, !.x.state = "send_slaveof_noone"]
     : i \in sentinelSelectSlave(m.x)}

sentinelFailoverSendSlaveOfNoOne(m, late) ==
    {[sentinelSendSlaveOf(m, m.x.promoted, None) EXCEPT !.x.state = "wait_promotion"]}
    \cup (IF late THEN {[m EXCEPT !.x = sentinelAbortFailover(m.x)]} ELSE {m})

sentinelFailoverWaitPromotion(m, late) ==
    {IF late THEN [m EXCEPT !.x = sentinelAbortFailover(m.x)] ELSE m}

\* sdown are the replicas seen as down, conn those with a connection.
sentinelFailoverDetectEnd(m, sdown, conn, late) ==
    LET x == m.x
        left == {i \in Slaves(x) \ {x.promoted} : x.reconf[i] # "done"} \ sdown
        best == {i \in conn \cap Slaves(x) : x.reconf[i] \notin {"done", "sent"}}
    IN  IF x.promoted \in sdown THEN m
        ELSE IF late
             THEN [m EXCEPT !.x.state = "update_config",
                      !.x.reconf = [i \in Instances |-> IF i \in best THEN "sent" ELSE @[i]],
                      !.r = [i \in Instances |-> IF i \in best THEN x.promoted ELSE @[i]]]
             ELSE IF left = {} THEN [m EXCEPT !.x.state = "update_config"] ELSE m

sentinelFailoverReconfNextSlave(m, sdown, conn, late) ==
    LET x == m.x
        old  == IF late THEN {i \in Slaves(x) : x.reconf[i] = "sent"} ELSE {}
        busy == Cardinality({i \in Slaves(x) : x.reconf[i] \in {"sent", "inprog"}})
        y == IF busy < ParallelSyncs
             THEN [x EXCEPT !.reconf = [i \in Instances |->
                                            IF i \in old THEN "done" ELSE @[i]]]
             ELSE x
        todo == {i \in (conn \cap Slaves(y)) \ {y.promoted} : y.reconf[i] = "no"}
        room == IF busy < ParallelSyncs THEN ParallelSyncs - busy ELSE 0
        now  == {c \in SUBSET todo : Cardinality(c) = Min({room, Cardinality(todo)})}
        Sent(c) == [m EXCEPT !.x = [y EXCEPT !.reconf = [i \in Instances |->
                                        IF i \in c THEN "sent" ELSE @[i]]],
                             !.r = [i \in Instances |->
                                        IF i \in c THEN y.promoted ELSE @[i]]]
    IN  {sentinelFailoverDetectEnd(Sent(c), sdown, conn, late) : c \in now}

\* One call, on a failover that is in progress.
sentinelFailoverStateMachine(m, s, sdown, conn, late) ==
    IF m.x.state = "wait_start" THEN sentinelFailoverWaitStart(m, s, late)
    ELSE IF m.x.state = "select_slave" THEN sentinelFailoverSelectSlave(m)
    ELSE IF m.x.state = "send_slaveof_noone"
    THEN sentinelFailoverSendSlaveOfNoOne(m, late)
    ELSE IF m.x.state = "wait_promotion" THEN sentinelFailoverWaitPromotion(m, late)
    ELSE IF m.x.state = "reconf_slaves"
    THEN sentinelFailoverReconfNextSlave(m, sdown, conn, late)
    ELSE {m}

--------------------------------------------------------------------------
(* What a Sentinel does in sentinelTimer() *)

\* A reply is forgotten when no other came for five periods.
ForgetReplies(x, old) ==
    [x EXCEPT !.reply = [t \in Sentinels |->
        IF t \in old THEN [@[t] EXCEPT !.down = FALSE, !.leader = None] ELSE @[t]]]

\* The request to another Sentinel: a vote is asked for during a failover.
Request(x, s) == [addr |-> x.addr, epoch |-> x.current_epoch,
                  runid |-> IF x.state = "none" THEN None ELSE s]

\* sdown: the instances that did not answer for too long, or a master that
\* reports itself as a replica for too long.
sentinelCheckSubjectivelyDown(x, sdown) == [x EXCEPT !.sdown = x.addr \in sdown]

sentinelCheckObjectivelyDown(x, s) ==
    [x EXCEPT !.odown = /\ x.sdown
                        /\ 1 + Cardinality({t \in Others(s) : x.reply[t].down}) >= Quorum]

sentinelStartFailoverIfNeeded(x) ==
    IF x.odown /\ x.state = "none" /\ ~x.delayed /\ x.current_epoch < MaxEpoch
    THEN sentinelStartFailover(x) ELSE x

\* The master as the timer finds it before the failover state machine.
Checked(x, s, sdown) ==
    sentinelStartFailoverIfNeeded(
        sentinelCheckObjectivelyDown(sentinelCheckSubjectivelyDown(x, sdown), s))

sentinelFailoverSwitchToPromotedSlave(m) ==
    IF m.x.state = "update_config"
    THEN sentinelResetMasterAndChangeAddress(m, m.x.promoted) ELSE m

\* The timer of Sentinel s: the master, then the switch to the promoted
\* replica.  sdown is the set of instances it sees as down, conn those it is
\* connected to, old the Sentinels whose replies are too old.
sentinelTimer(s, sdown, conn, old, late) ==
    LET x1 == Checked(sen[s], s, sdown)
    IN  \E m \in sentinelFailoverStateMachine([Local(s) EXCEPT !.x = x1],
                                              s, sdown, conn, late) :
          /\ Leave(s, sentinelFailoverSwitchToPromotedSlave(
                          [m EXCEPT !.x = ForgetReplies(@, old)]))
          /\ link' = [p \in DOMAIN link |->
                        IF x1.sdown /\ p[1] = s /\ link[p] = None
                        THEN Request(m.x, s) ELSE link[p]]

\* The choices the clocks and the links make, where they matter.
Timer(s) ==
    LET x == sen[s]
        acting == x.state = "reconf_slaves"
        slaves == IF acting THEN Slaves(x) ELSE {}
    IN  \E sdown \in SUBSET (slaves \cup (IF s \in Watching THEN {x.addr} ELSE {})),
           conn \in SUBSET slaves,
           late \in IF x.state = "none" THEN {FALSE} ELSE BOOLEAN,
           old \in {{}, IF Heals THEN {t \in Others(s) : x.reply[t] # NoReply} ELSE {}} :
          /\ Heals \/ (x.sdown => x.addr \in sdown)
          /\ sentinelTimer(s, sdown, conn, old, late)

\* More than twice the failover timeout went by since the last start or vote.
DelayPasses(s) ==
    /\ Retries /\ sen[s].delayed /\ sen[s].state = "none"
    /\ sen' = [sen EXCEPT ![s].delayed = FALSE]
    /\ UNCHANGED <<disk, link, redis, votes, elected>>

\* SENTINEL FAILOVER, accepted when there is a replica to promote.
FailoverCommand(s) ==
    /\ Forced /\ sen[s].state = "none" /\ sen[s].current_epoch < MaxEpoch
    /\ sen' = [sen EXCEPT ![s] = [sentinelStartFailover(sen[s]) EXCEPT !.forced = TRUE]]
    /\ UNCHANGED <<disk, link, redis, votes, elected>>

--------------------------------------------------------------------------
(* Messages between Sentinels *)

\* t answers SENTINEL IS-MASTER-DOWN-BY-ADDR: whether it sees the master down
\* (never in tilt mode), and the vote it gave.
IsMasterDownByAddr(q, m, t, tilt) ==
    LET known == q.addr = m.x.addr
        a == IF known /\ q.runid # None
             THEN sentinelVoteLeader(m, t, q.epoch, q.runid) ELSE m
        told == known /\ q.runid # None /\ a.x.leader # None
    IN  <<a, [down |-> ~tilt /\ known /\ m.x.sdown,
              leader |-> IF told THEN a.x.leader ELSE None,
              leader_epoch |-> IF told THEN a.x.leader_epoch ELSE 0]>>

sentinelReceiveIsMasterDownReply(x, t, a) ==
    [x EXCEPT !.reply[t] = IF a.leader = None THEN [@ EXCEPT !.down = a.down] ELSE a]

\* The request of s reaches t, and t's answer s, unless it is lost.
Answer(s, t, tilt, lost) ==
    LET q == link[<<s, t>>]
        o == IsMasterDownByAddr(q, Local(t), t, tilt)
    IN  /\ q # None
        /\ sen' = [sen EXCEPT ![t] = o[1].x,
                              ![s] = IF lost THEN @
                                     ELSE sentinelReceiveIsMasterDownReply(@, t, o[2])]
        /\ disk' = [disk EXCEPT ![t] = o[1].f]
        /\ votes' = o[1].v
        /\ link' = [link EXCEPT ![<<s, t>>] = None]
        /\ UNCHANGED <<redis, elected>>

\* The connection breaks: the request is lost.
LinkBreaks(s, t) ==
    /\ Lossy /\ link[<<s, t>>] # None
    /\ link' = [link EXCEPT ![<<s, t>>] = None]
    /\ UNCHANGED <<sen, disk, redis, votes, elected>>

\* What a hello message of a Sentinel says.
sentinelSendHello(x) == [current_epoch |-> x.current_epoch,
                         config_epoch |-> x.config_epoch,
                         addr |-> sentinelGetCurrentMasterAddress(x)]

\* Mutant: a configuration is taken over whatever its epoch.
Supersedes_Any(h, x) == h.config_epoch # x.config_epoch

Supersedes(h, x) == h.config_epoch > x.config_epoch

\* The epoch of a hello message h, then its configuration.
LearnEpoch(h, m) ==
    IF h.current_epoch > m.x.current_epoch
    THEN sentinelFlushConfig([m EXCEPT !.x.current_epoch = h.current_epoch]) ELSE m

LearnConfig(h, m) ==
    IF ~Supersedes(h, m.x) THEN m
    ELSE IF h.addr = m.x.addr THEN [m EXCEPT !.x.config_epoch = h.config_epoch]
    ELSE sentinelResetMasterAndChangeAddress(
             [m EXCEPT !.x.config_epoch = h.config_epoch], h.addr)

\* Sentinel s reads a hello message of t.
sentinelProcessHelloMessage(s, t) ==
    LET h == sentinelSendHello(sen[t])
    IN  Leave(s, LearnConfig(h, LearnEpoch(h, Local(s)))) /\ UNCHANGED link

--------------------------------------------------------------------------
(* The INFO replies of the replicas *)

\* What an instance says of itself in INFO: its role, and its master.
InfoReply(i) == [role |-> IF redis[i] = None THEN "master" ELSE "slave",
                 master |-> redis[i]]

sentinelMasterLooksSane(x) == ~x.sdown /\ ~x.odown /\ InfoReply(x.addr).role = "master"

\* A replica that was told to replicate from the promoted one, and then does.
Reconfigured(x, i, up) ==
    LET inprog == x.reconf[i] = "sent" /\ redis[i] = x.promoted
    IN  IF (inprog \/ x.reconf[i] = "inprog") /\ up THEN "done"
        ELSE IF inprog THEN "inprog" ELSE x.reconf[i]

\* The promoted replica has become a master: the failover has its epoch.
Promoted(m) ==
    sentinelFlushConfig([m EXCEPT !.x.config_epoch = m.x.failover_epoch,
                                  !.x.state = "reconf_slaves"])

\* Instance i tells s its role and whom it replicates from.  sure: enough time
\* passed to correct a role or a master that is not the configured one; up:
\* the replica's link with its master is up.
sentinelRefreshInstanceInfo(s, i, sure, up) ==
    LET x == sen[s]
        info == InfoReply(i)
        corrects == /\ sure /\ sentinelMasterLooksSane(x)
                    /\ IF info.role = "master" THEN i # x.promoted
                                               ELSE info.master # x.addr
        m == IF corrects THEN sentinelSendSlaveOf(Local(s), i, x.addr) ELSE Local(s)
    IN  /\ sure => corrects
        /\ up => x.reconf[i] \in {"sent", "inprog"}
        /\ Leave(s, IF info.role = "slave"
                    THEN [m EXCEPT !.x.reconf[i] = Reconfigured(x, i, up)]
                    ELSE IF i = x.promoted /\ x.state = "wait_promotion"
                    THEN Promoted(m) ELSE m)
        /\ UNCHANGED link

--------------------------------------------------------------------------
(* Crashes *)

\* The process dies, by itself or by SENTINEL SIMULATE-FAILURE, and starts
\* again from its configuration file.
Restart(s) ==
    /\ s \in Crashing
    /\ sen' = [sen EXCEPT ![s] = Loaded(disk[s])]
    /\ link' = [p \in DOMAIN link |-> IF s \in {p[1], p[2]} THEN None ELSE link[p]]
    /\ UNCHANGED <<disk, redis, votes, elected>>

Init ==
    /\ sen = [s \in Sentinels |-> CreateState]
    /\ disk = [s \in Sentinels |-> Saved(CreateState)]
    /\ link = [p \in {q \in Sentinels \X Sentinels : q[1] # q[2]} |-> None]
    /\ redis = [i \in Instances |-> IF i = FirstMaster THEN None ELSE FirstMaster]
    /\ votes = {}
    /\ elected = {}

Next ==
    \E s \in Sentinels :
      \/ Timer(s)
      \/ DelayPasses(s)
      \/ FailoverCommand(s)
      \/ Restart(s)
      \/ \E i \in Slaves(sen[s]), sure, up \in BOOLEAN :
            sentinelRefreshInstanceInfo(s, i, sure, up)
      \/ \E t \in Others(s) :
            \/ \E tilt, lost \in BOOLEAN :
                  (tilt => Tilts) /\ (lost => Lossy) /\ Answer(s, t, tilt, lost)
            \/ LinkBreaks(s, t)
            \/ sentinelProcessHelloMessage(s, t)

Spec == Init /\ [][Next]_vars

--------------------------------------------------------------------------
(* Properties *)

TypeOK ==
    /\ \A s \in Sentinels :
         /\ sen[s].current_epoch \in 0..MaxEpoch /\ sen[s].config_epoch \in 0..MaxEpoch
         /\ sen[s].leader_epoch \in 0..MaxEpoch /\ sen[s].failover_epoch \in 0..MaxEpoch
         /\ sen[s].addr \in Instances /\ sen[s].promoted \in Instances \cup {None}
         /\ sen[s].leader \in Sentinels \cup {None}
         /\ sen[s].state \in DOMAIN StateNumber
         /\ sen[s].reconf \in [Instances -> {"no", "sent", "inprog", "done"}]
         /\ disk[s].addr \in Instances
    /\ redis \in [Instances -> Instances \cup {None}]
    /\ votes \subseteq Sentinels \X (1..MaxEpoch) \X Sentinels
    /\ elected \subseteq (1..MaxEpoch) \X (1..MaxEpoch) \X Sentinels

\* A Sentinel gives one vote in an epoch, also when it crashes and restarts
\* between two requests (sentinelVoteLeader() and its flush).
OneVotePerEpoch ==
    \A u, v \in votes : u[1] = v[1] /\ u[2] = v[2] => u[3] = v[3]

\* Two Sentinels are never both elected in one epoch among those that counted the
\* votes of the epoch their failover was started in (sentinelGetLeader()).  One that
\* learnt of a later epoch in wait_start counts the votes of that epoch and adds its
\* own of the earlier one: such an election is recorded and is not unique.
OneLeaderPerEpoch ==
    \A a, b \in elected : a[1] = a[2] /\ b[1] = b[2] /\ a[1] = b[1] => a[3] = b[3]

\* The same of every election.  It does not hold: see above.
OneLeaderAtAll == \A a, b \in elected : a[1] = b[1] => a[3] = b[3]

\* The failover code never follows a NULL promoted_slave: it is set from the
\* choice of the replica to the end of the failover and at no other time, and
\* no replica is marked as being reconfigured without it.
PromotedWhileNeeded ==
    \A s \in Sentinels :
      /\ sen[s].promoted # None <=> StateNumber[sen[s].state] >= 3
      /\ (\E i \in Instances : sen[s].reconf[i] # "no") => sen[s].promoted # None
      /\ sen[s].promoted # sen[s].addr

\* A Sentinel that takes over the configuration of another one, or that
\* restarts, announces another master only with a greater configuration epoch.
\* The one other way to a new master is the failover it leads itself, which
\* stands for the epoch it was started in (sentinelProcessHelloMessage(),
\* rewriteConfigSentinelOption(), sentinelRefreshInstanceInfo()).
MasterMovesForward ==
    [][\A s \in Sentinels :
         sentinelGetCurrentMasterAddress(sen'[s]) # sentinelGetCurrentMasterAddress(sen[s])
         => \/ sen'[s].config_epoch > sen[s].config_epoch
            \/ /\ sen[s].state = "wait_promotion" /\ sen'[s].state = "reconf_slaves"
               /\ sen'[s].addr = sen[s].addr
               /\ sen'[s].config_epoch = sen[s].failover_epoch]_vars

\* The SLAVEOF sent at the end of a failover goes to the replicas that are
\* still to be reconfigured, so no instance is told to replicate from itself.
NeverReplicaOfItself == \A i \in Instances : redis[i] # i
=============================================================================
