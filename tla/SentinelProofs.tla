--------------------------- MODULE SentinelProofs ---------------------------
(***************************************************************************)
(* For any number of Sentinels and instances, any quorum and any number of *)
(* epochs, crashes and lost messages: a Sentinel votes once in an epoch    *)
(* (sentinelVoteLeader()), two Sentinels that counted the votes of one     *)
(* epoch are not both elected in it (sentinelGetLeader(),                  *)
(* sentinelFailoverWaitStart()), the failover code never meets a missing   *)
(* promoted replica, and the announced master only changes with a newer    *)
(* configuration or the Sentinel's own failover.  SentinelInv is the       *)
(* inductive invariant.                                                    *)
(***************************************************************************)
EXTENDS Sentinel, FiniteSetTheorems, TLAPS

\* Most leaves are first-order reasoning; those that compute ask for SMT.
USE Zenon

(* The inductive invariant, and what the functions of sentinel.c do to it. *)

States == {"none", "wait_start", "select_slave", "send_slaveof_noone",
           "wait_promotion", "reconf_slaves", "update_config"}

\* The states with a promoted replica, and those that tell the others of it.
Chosen == {"send_slaveof_noone", "wait_promotion", "reconf_slaves", "update_config"}
Telling == {"reconf_slaves", "update_config"}

Reply == [down : BOOLEAN, leader : Sentinels \cup {None}, leader_epoch : Nat]

Memory == [current_epoch : Nat, addr : Instances, config_epoch : Nat,
           leader : Sentinels \cup {None}, leader_epoch : Nat, sdown : BOOLEAN,
           odown : BOOLEAN, state : States, forced : BOOLEAN,
           failover_epoch : Nat, promoted : Instances \cup {None},
           delayed : BOOLEAN,
           reconf : [Instances -> {"no", "sent", "inprog", "done"}],
           reply : [Sentinels -> Reply]]

File == [current_epoch : Nat, config_epoch : Nat, addr : Instances,
         leader_epoch : Nat]

Vote == Sentinels \X Nat \X Sentinels
Work == [x : Memory, f : File, r : [Instances -> Instances \cup {None}],
         v : SUBSET Vote, e : SUBSET (Nat \X Nat \X Sentinels)]

Pairs == {q \in Sentinels \X Sentinels : q[1] # q[2]}
Asked == [addr : Instances, epoch : Nat, runid : Sentinels \cup {None}]

Types ==
    /\ sen \in [Sentinels -> Memory]
    /\ disk \in [Sentinels -> File]
    /\ link \in [Pairs -> Asked \cup {None}]
    /\ redis \in [Instances -> Instances \cup {None}]
    /\ votes \in SUBSET Vote
    /\ elected \in SUBSET (Nat \X Nat \X Sentinels)

\* What Sentinel s remembers of votes was voted, and it voted in no epoch after
\* the last one it remembers.
Ballots(s, x, v) ==
    /\ x.failover_epoch <= x.current_epoch
    /\ x.leader # None => <<s, x.leader_epoch, x.leader>> \in v
    /\ \A t \in Sentinels : x.reply[t].leader # None
         => <<t, x.reply[t].leader_epoch, x.reply[t].leader>> \in v
    /\ \A u \in v : u[1] = s => u[2] <= x.leader_epoch

\* The file holds the epoch of the last vote and the announced master.
FileAgrees(x, f) ==
    /\ f.leader_epoch = x.leader_epoch
    /\ f.addr = sentinelGetCurrentMasterAddress(x)

Shape(x) ==
    /\ x.promoted # None <=> x.state \in Chosen
    /\ \A i \in Instances : x.reconf[i] # "no" => x.state \in Telling
    /\ x.promoted # x.addr

\* One vote of a Sentinel in an epoch, and an election by a majority, of every
\* winner that counted the votes of the epoch its failover was started in.
Unique(v) == \A a, b \in v : a[1] = b[1] /\ a[2] = b[2] => a[3] = b[3]

Majority(Q) == Q \in SUBSET Sentinels /\ Cardinality(Q) >= Cardinality(Sentinels) \div 2 + 1

Backed(e, v) ==
    \A w \in e : w[1] = w[2] => \E Q \in SUBSET Sentinels :
      Majority(Q) /\ \A q \in Q : <<q, w[1], w[3]>> \in v

SentinelInv ==
    /\ Types
    /\ \A s \in Sentinels : /\ Ballots(s, sen[s], votes)
                            /\ FileAgrees(sen[s], disk[s])
                            /\ Shape(sen[s])
    /\ Unique(votes)
    /\ Backed(elected, votes)

\* The part of it that a handler of Sentinel s works on.
Sound(s, m) == /\ m \in Work
               /\ Ballots(s, m.x, m.v) /\ FileAgrees(m.x, m.f) /\ Shape(m.x)
               /\ Unique(m.v) /\ Backed(m.e, m.v)

\* From m to n no vote is lost, and only s votes.
Grows(s, m, n) == m.v \subseteq n.v /\ \A u \in n.v \ m.v : u[1] = s

-----------------------------------------------------------------------------
\* The announced master, with the numbers of the states decoded.
LEMMA AnnouncedIs ==
  ASSUME NEW x \in Memory
  PROVE  /\ sentinelGetCurrentMasterAddress(x)
              = IF x.promoted # None /\ x.state \in Telling THEN x.promoted ELSE x.addr
         /\ sentinelGetCurrentMasterAddress(x) \in Instances
<1>1. x.state \in States /\ x.promoted \in Instances \cup {None} /\ x.addr \in Instances
  BY DEF Memory
<1>2. StateNumber[x.state] >= StateNumber["reconf_slaves"] <=> x.state \in Telling
  BY <1>1, SMT DEF States, Telling, StateNumber
<1> QED BY <1>1, <1>2 DEF sentinelGetCurrentMasterAddress

\* sentinelFlushConfig() only writes the file, and makes it agree.
LEMMA Flushes ==
  ASSUME NEW m \in Work
  PROVE  /\ sentinelFlushConfig(m) \in Work
         /\ sentinelFlushConfig(m) = [x |-> m.x, f |-> Saved(m.x), r |-> m.r, v |-> m.v, e |-> m.e]
         /\ FileAgrees(m.x, Saved(m.x))
<1>1. m.x \in Memory BY DEF Work
<1>2. Saved(m.x) \in File BY <1>1, AnnouncedIs DEF Saved, File, Memory
<1>3. FileAgrees(m.x, Saved(m.x)) BY DEF FileAgrees, Saved
<1> QED BY <1>2, <1>3, SMT DEF sentinelFlushConfig, Work

\* From memory x to y, nothing is remembered of votes that was not.
NoNewBallots(x, y) ==
    /\ y.failover_epoch <= y.current_epoch
    /\ y.leader \in {None, x.leader} /\ y.leader_epoch = x.leader_epoch
    /\ \A t \in Sentinels : y.reply[t].leader # None => y.reply[t] = x.reply[t]

LEMMA BallotsKept ==
  ASSUME NEW s, NEW x, NEW y, NEW v, Ballots(s, x, v), NoNewBallots(x, y)
  PROVE  Ballots(s, y, v)
BY DEF Ballots, NoNewBallots

\* sentinelVoteLeader(): one vote at most, only in an epoch after the last one,
\* written to the file before it is told to anybody.
LEMMA VoteKeeps ==
  ASSUME NEW s \in Sentinels, NEW m, Sound(s, m), NEW epoch \in Nat, NEW c \in Sentinels
  PROVE  LET n == sentinelVoteLeader(m, s, epoch, c)
         IN  /\ Sound(s, n) /\ Grows(s, m, n)
             /\ n.r = m.r /\ n.e = m.e
             /\ n.x.reply = m.x.reply /\ n.x.failover_epoch = m.x.failover_epoch
             /\ n.x.state = m.x.state /\ n.x.promoted = m.x.promoted
             /\ n.x.addr = m.x.addr /\ n.x.config_epoch = m.x.config_epoch
             /\ n.x.reconf = m.x.reconf
             /\ epoch <= m.x.current_epoch => n.x.current_epoch = m.x.current_epoch
<1> DEFINE a == IF epoch > m.x.current_epoch
                THEN sentinelFlushConfig([m EXCEPT !.x.current_epoch = epoch]) ELSE m
           y == [a.x EXCEPT !.leader = c, !.leader_epoch = a.x.current_epoch,
                            !.delayed = IF c = s THEN @ ELSE TRUE]
           w == a.v \cup {<<s, a.x.current_epoch, c>>}
           b == [a EXCEPT !.x = y, !.v = w]
           n == sentinelVoteLeader(m, s, epoch, c)
<1>m. m \in Work /\ m.x \in Memory /\ m.v \subseteq Vote BY DEF Sound, Work
<1>1. /\ a \in Work /\ a.v = m.v /\ a.r = m.r /\ a.e = m.e
      /\ a.x = [m.x EXCEPT !.current_epoch = a.x.current_epoch]
      /\ a.x.current_epoch = IF epoch > m.x.current_epoch THEN epoch ELSE m.x.current_epoch
      /\ FileAgrees(a.x, a.f)
  <2>1. CASE epoch > m.x.current_epoch
    <3> DEFINE k == [m EXCEPT !.x.current_epoch = epoch]
    <3>1. /\ k \in Work /\ k.x = [m.x EXCEPT !.current_epoch = epoch]
          /\ k.v = m.v /\ k.r = m.r /\ k.e = m.e
      BY <1>m DEF Work, Memory
    <3>2. a = sentinelFlushConfig(k) BY <2>1
    <3> HIDE DEF k, a
    <3>3. /\ a \in Work /\ a = [x |-> k.x, f |-> Saved(k.x), r |-> k.r, v |-> k.v, e |-> k.e]
          /\ FileAgrees(k.x, Saved(k.x))
      BY <3>1, <3>2, Flushes
    <3>4. /\ a.x = k.x /\ a.v = k.v /\ a.r = k.r /\ a.e = k.e /\ a.f = Saved(k.x)
      BY <3>3
    <3>5. k.x.current_epoch = epoch BY <3>1, <1>m DEF Memory
    <3> QED BY <3>1, <3>3, <3>4, <3>5, <2>1
  <2>2. CASE ~(epoch > m.x.current_epoch)
    BY <2>2, <1>m DEF Memory, Sound
  <2> QED BY <2>1, <2>2
<1>2. a.x \in Memory /\ NoNewBallots(m.x, a.x) /\ Shape(a.x)
  <2>1. a.x \in Memory BY <1>1 DEF Work
  <2>2. m.x.current_epoch \in Nat /\ m.x.failover_epoch \in Nat BY <1>m DEF Memory
  <2>5. m.x.failover_epoch <= a.x.current_epoch BY <1>1, <2>2, SMT DEF Sound, Ballots
  <2>6. /\ a.x.failover_epoch = m.x.failover_epoch /\ a.x.leader = m.x.leader
        /\ a.x.leader_epoch = m.x.leader_epoch /\ a.x.reply = m.x.reply
    BY <1>1, <1>m DEF Memory
  <2>3. NoNewBallots(m.x, a.x) BY <2>5, <2>6 DEF NoNewBallots
  <2>4. Shape(a.x) BY <1>1, <1>m, SMT DEF Shape, Sound, Memory
  <2> QED BY <2>1, <2>3, <2>4
<1>3. Sound(s, a)
  <2>1. Ballots(s, a.x, a.v) BY <1>1, <1>2, <1>m, BallotsKept DEF Sound
  <2> QED BY <1>1, <1>2, <2>1 DEF Sound
<1>4. CASE ~(a.x.leader_epoch < epoch /\ a.x.current_epoch <= epoch)
  <2>1. n = a BY <1>4 DEF sentinelVoteLeader
  <2> HIDE DEF n, a
  <2>2. /\ a.x.reply = m.x.reply /\ a.x.failover_epoch = m.x.failover_epoch
        /\ a.x.state = m.x.state /\ a.x.promoted = m.x.promoted
        /\ a.x.addr = m.x.addr /\ a.x.config_epoch = m.x.config_epoch
        /\ a.x.reconf = m.x.reconf
    BY <1>1, <1>m DEF Memory
  <2>3. epoch <= m.x.current_epoch => a.x.current_epoch = m.x.current_epoch
    <3>1. m.x.current_epoch \in Nat BY <1>m DEF Memory
    <3> QED BY <3>1, <1>1, SMT
  <2>4. Grows(s, m, n) BY <2>1, <1>1 DEF Grows
  <2> QED BY <2>1, <2>2, <2>3, <2>4, <1>1, <1>3 DEF n
<1>5. CASE a.x.leader_epoch < epoch /\ a.x.current_epoch <= epoch
  <2>1. n = sentinelFlushConfig(b) BY <1>5 DEF sentinelVoteLeader, Voted
  <2>2. a.x.current_epoch = epoch
    <3>1. m.x.current_epoch \in Nat BY <1>m DEF Memory
    <3> QED BY <1>1, <1>5, <3>1, SMT
  <2>3. /\ b \in Work /\ b.v = m.v \cup {<<s, epoch, c>>} /\ b.r = m.r /\ b.e = m.e
        /\ b.x.leader = c /\ b.x.leader_epoch = epoch /\ b.x.reply = m.x.reply
        /\ b.x.failover_epoch = m.x.failover_epoch /\ b.x.current_epoch = epoch
        /\ b.x.state = m.x.state /\ b.x.promoted = m.x.promoted
        /\ b.x.addr = m.x.addr /\ b.x.config_epoch = m.x.config_epoch
        /\ b.x.reconf = m.x.reconf
    <3>1. <<s, epoch, c>> \in Vote BY DEF Vote
    <3> DEFINE d == IF c = s THEN a.x.delayed ELSE TRUE
    <3>2. d \in BOOLEAN BY <1>2 DEF Memory
    <3> HIDE DEF a
    <3>a. y = [a.x EXCEPT !.leader = c, !.leader_epoch = epoch, !.delayed = d]
      BY <2>2
    <3>c. w = a.v \cup {<<s, epoch, c>>} BY <2>2
    <3>d. a \in Work BY <1>1
    <3>e. b = [a EXCEPT !.x = y, !.v = w] OBVIOUS
    <3> HIDE DEF y, w, b
    <3>b. b = [x |-> y, f |-> a.f, r |-> a.r, v |-> w, e |-> a.e]
      BY <3>d, <3>e DEF Work
    <3>3. /\ b.x = [a.x EXCEPT !.leader = c, !.leader_epoch = epoch, !.delayed = d]
          /\ b = [x |-> b.x, f |-> a.f, r |-> a.r, v |-> a.v \cup {<<s, epoch, c>>}, e |-> a.e]
      BY <3>a, <3>b, <3>c
    <3> HIDE DEF d
    <3>4. b.x \in Memory BY <1>2, <3>3, <3>2, ZenonT(60) DEF Memory
    <3>5. /\ b.v = a.v \cup {<<s, epoch, c>>} /\ b.r = a.r /\ b.e = a.e /\ b.f = a.f
      BY <3>3, SMT
    <3>6. b \in Work BY <3>3, <3>4, <3>1, <1>1, SMT DEF Work
    <3>7. /\ b.x.leader = c /\ b.x.leader_epoch = epoch /\ b.x.reply = a.x.reply
          /\ b.x.failover_epoch = a.x.failover_epoch /\ b.x.current_epoch = a.x.current_epoch
          /\ b.x.state = a.x.state /\ b.x.promoted = a.x.promoted
          /\ b.x.addr = a.x.addr /\ b.x.config_epoch = a.x.config_epoch
          /\ b.x.reconf = a.x.reconf
      BY <3>3, <1>2 DEF Memory
    <3>8. /\ a.x.reply = m.x.reply /\ a.x.failover_epoch = m.x.failover_epoch
          /\ a.x.state = m.x.state /\ a.x.promoted = m.x.promoted
          /\ a.x.addr = m.x.addr /\ a.x.config_epoch = m.x.config_epoch
          /\ a.x.reconf = m.x.reconf
      BY <1>1, <1>m DEF Memory
    <3> QED BY <3>5, <3>6, <3>7, <3>8, <1>1, <2>2
  <2> HIDE DEF a, b, n, y, w
  <2>4. /\ n \in Work /\ n.x = b.x /\ n.v = b.v /\ n.r = b.r /\ n.e = b.e
        /\ FileAgrees(n.x, n.f)
    BY <2>1, <2>3, Flushes, SMT
  <2>5. \A u \in m.v : u[1] = s => u[2] < epoch
    <3>1. \A u \in m.v : u[1] = s => u[2] <= m.x.leader_epoch BY DEF Sound, Ballots
    <3>2. m.x.leader_epoch < epoch BY <1>5, <1>1, <1>m DEF Memory
    <3>3. \A u \in m.v : u[2] \in Nat BY <1>m DEF Vote
    <3>4. m.x.leader_epoch \in Nat BY <1>m DEF Memory
    <3> QED BY <3>1, <3>2, <3>3, <3>4, SMT
  <2>6. Ballots(s, n.x, n.v)
    <3>1. m.x.failover_epoch <= epoch
      <4>1. m.x.failover_epoch \in Nat /\ m.x.current_epoch \in Nat BY <1>m DEF Memory
      <4>2. m.x.current_epoch <= epoch BY <1>1, <2>2, <4>1, SMT
      <4> QED BY <4>1, <4>2, SMT DEF Sound, Ballots
    <3>2. \A t \in Sentinels : m.x.reply[t].leader # None
            => <<t, m.x.reply[t].leader_epoch, m.x.reply[t].leader>> \in m.v
      BY DEF Sound, Ballots
    <3>3. \A u \in n.v : u[1] = s => u[2] <= epoch
      <4>1. \A u \in m.v : u[2] \in Nat BY <1>m DEF Vote
      <4> QED BY <2>3, <2>4, <2>5, <4>1, SMT
    <3> QED BY <2>3, <2>4, <3>1, <3>2, <3>3 DEF Ballots
  <2>7. Unique(n.v)
    <3>1. Unique(m.v) BY DEF Sound
    <3>2. \A u \in m.v : u[1] = s => u[2] # epoch
      <4>1. \A u \in m.v : u[2] \in Nat BY <1>m DEF Vote
      <4> QED BY <2>5, <4>1, SMT
    <3> QED BY <3>1, <3>2, <2>3, <2>4, SMT DEF Unique
  <2>8. Backed(n.e, n.v) BY <2>3, <2>4 DEF Sound, Backed
  <2>9. Shape(n.x) BY <2>3, <2>4 DEF Shape, Sound
  <2>10. Grows(s, m, n) BY <2>3, <2>4, SMT DEF Grows
  <2>11. epoch <= m.x.current_epoch => n.x.current_epoch = m.x.current_epoch
    <3>1. m.x.current_epoch \in Nat BY <1>m DEF Memory
    <3> QED BY <1>1, <2>2, <2>3, <2>4, <3>1, SMT
  <2> QED BY <2>3, <2>4, <2>6, <2>7, <2>8, <2>9, <2>10, <2>11 DEF Sound, n
<1> QED BY <1>4, <1>5

\* What an operator that votes at most once leaves alone.
Votes(s, m, n) == /\ Sound(s, n) /\ Grows(s, m, n)
                  /\ n.r = m.r /\ n.e = m.e
                  /\ n.x.reply = m.x.reply /\ n.x.failover_epoch = m.x.failover_epoch
                  /\ n.x.state = m.x.state /\ n.x.promoted = m.x.promoted
                  /\ n.x.addr = m.x.addr /\ n.x.config_epoch = m.x.config_epoch
                  /\ n.x.reconf = m.x.reconf

\* sentinelGetLeader(): whoever wins the epoch the replies are counted for has
\* the votes of a majority, its own included when it is needed.
LEMMA LeaderHasMajority ==
  ASSUME NEW s \in Sentinels, NEW m, Sound(s, m), NEW epoch \in Nat,
         epoch <= m.x.current_epoch, NEW o \in sentinelGetLeader(m, s, epoch)
  PROVE  /\ Votes(s, m, o[1])
         /\ o[1].x.current_epoch = m.x.current_epoch
         /\ o[2] = s /\ epoch = m.x.current_epoch
            => \E Q \in SUBSET Sentinels :
                 Majority(Q) /\ \A q \in Q : <<q, epoch, s>> \in o[1].v
<1> DEFINE For(c) == {t \in Others(s) : /\ m.x.reply[t].leader = c
                                        /\ m.x.reply[t].leader_epoch = m.x.current_epoch}
           count == [c \in Sentinels |-> sentinelLeaderIncr(m.x, s, c)]
           most == Max({count[c] : c \in Sentinels})
           first == IF most = 0 THEN {None} ELSE {c \in Sentinels : count[c] = most}
           vote(w) == sentinelVoteLeader(m, s, epoch, IF w = None THEN s ELSE w)
           mine(w) == IF vote(w).x.leader_epoch = epoch THEN vote(w).x.leader ELSE None
           n(w) == IF mine(w) = None THEN 0 ELSE count[mine(w)] + 1
           best(w) == IF n(w) > most THEN mine(w) ELSE w
<1>1. PICK w \in first :
        o = <<vote(w), IF best(w) # None /\ Elects(IF n(w) > most THEN n(w) ELSE most)
                       THEN best(w) ELSE None>>
  BY ZenonT(60) DEF sentinelGetLeader
<1>2. w \in Sentinels \cup {None} BY <1>1
<1>3. Votes(s, m, vote(w)) /\ vote(w).x.current_epoch = m.x.current_epoch
  <2>1. (IF w = None THEN s ELSE w) \in Sentinels BY <1>2
  <2> QED BY <2>1, VoteKeeps, SMT DEF Votes
<1>4. ASSUME o[2] = s, epoch = m.x.current_epoch
      PROVE  \E Q \in SUBSET Sentinels :
               Majority(Q) /\ \A q \in Q : <<q, epoch, s>> \in vote(w).v
  <2>1. s # None BY SentinelAssumption
  <2>2. best(w) = s /\ Elects(IF n(w) > most THEN n(w) ELSE most)
    BY <1>1, <1>4, <2>1
  <2>3. /\ count[s] = Cardinality(For(s)) /\ For(s) \in SUBSET Sentinels
        /\ IsFiniteSet(For(s)) /\ Cardinality(For(s)) \in Nat /\ s \notin For(s)
    BY SentinelAssumption, FS_Subset, FS_CardinalityType DEF sentinelLeaderIncr, Others
  <2>4. \A t \in For(s) : <<t, epoch, s>> \in vote(w).v
    <3>1. \A t \in For(s) : <<t, epoch, s>> \in m.v
      BY <1>4, <2>1 DEF Sound, Ballots, Others
    <3> QED BY <3>1, <1>3 DEF Votes, Grows
  <2>5. CASE n(w) > most
    <3>1. mine(w) = s BY <2>2, <2>5
    <3>2. vote(w).x.leader_epoch = epoch /\ vote(w).x.leader = s BY <3>1, <2>1
    <3>3. <<s, epoch, s>> \in vote(w).v
      <4> HIDE DEF vote
      <4>1. Ballots(s, vote(w).x, vote(w).v) BY <1>3 DEF Votes, Sound
      <4> QED BY <4>1, <3>2, <2>1 DEF Ballots
    <3>4. n(w) = count[s] + 1 BY <3>1, <2>1
    <3>5. Cardinality(For(s) \cup {s}) = count[s] + 1 BY <2>3, FS_AddElement
    <3>6. Majority(For(s) \cup {s})
      <4> HIDE DEF For, count, most, vote, n
      <4>1. n(w) >= Cardinality(Sentinels) \div 2 + 1 BY <2>2, <2>5 DEF Elects
      <4> QED BY <4>1, <3>4, <3>5, <2>3 DEF Majority
    <3> QED BY <3>6, <3>3, <2>4, <2>3, SMT
  <2>6. CASE ~(n(w) > most)
    <3>1. w = s BY <2>2, <2>6
    <3>2. count[s] = most BY <3>1, <1>1, <2>1
    <3>3. Majority(For(s))
      <4> HIDE DEF For, count, most, vote, n
      <4>1. most >= Cardinality(Sentinels) \div 2 + 1 BY <2>2, <2>6 DEF Elects
      <4> QED BY <4>1, <3>2, <2>3 DEF Majority
    <3> QED BY <3>3, <2>4, <2>3
  <2> QED BY <2>5, <2>6
<1>5. o[1] = vote(w) BY <1>1
<1> QED BY <1>3, <1>4, <1>5

-----------------------------------------------------------------------------
\* From m to n the Sentinel goes on announcing the same master.
Steps(s, m, n) ==
    /\ Sound(s, n) /\ Grows(s, m, n)
    /\ sentinelGetCurrentMasterAddress(n.x) = sentinelGetCurrentMasterAddress(m.x)

LEMMA StepsCompose ==
  ASSUME NEW s, NEW m, NEW n, NEW k, Steps(s, m, n), Steps(s, n, k)
  PROVE  Steps(s, m, k)
BY DEF Steps, Grows

LEMMA StepsBy ==
  ASSUME NEW s, NEW m, Sound(s, m), NEW n \in Work,
         n.f = m.f, n.v = m.v, n.e = m.e, NoNewBallots(m.x, n.x), Shape(n.x),
         sentinelGetCurrentMasterAddress(n.x) = sentinelGetCurrentMasterAddress(m.x)
  PROVE  Steps(s, m, n)
<1>1. Ballots(s, n.x, n.v) BY BallotsKept DEF Sound
<1>2. FileAgrees(n.x, n.f) BY DEF Sound, FileAgrees, NoNewBallots
<1> QED BY <1>1, <1>2 DEF Steps, Sound, Grows

LEMMA VotesIsStep ==
  ASSUME NEW s, NEW m, Sound(s, m), NEW n, Votes(s, m, n)
  PROVE  Steps(s, m, n)
<1>1. m.x \in Memory /\ n.x \in Memory BY DEF Votes, Sound, Work
<1> QED BY <1>1, AnnouncedIs DEF Votes, Steps

\* sentinelAbortFailover(), from any state before the replica was promoted.
LEMMA AbortKeeps ==
  ASSUME NEW s, NEW m, Sound(s, m), m.x.state \notin Telling
  PROVE  Steps(s, m, [m EXCEPT !.x = sentinelAbortFailover(m.x)])
<1> DEFINE y == sentinelAbortFailover(m.x)
<1>m. m \in Work /\ m.x \in Memory BY DEF Sound, Work
<1>1. /\ y \in Memory
      /\ y.state = "none" /\ y.promoted = None /\ y.addr = m.x.addr
      /\ y.reconf = m.x.reconf /\ y.failover_epoch = m.x.failover_epoch
      /\ y.current_epoch = m.x.current_epoch /\ y.leader = m.x.leader
      /\ y.leader_epoch = m.x.leader_epoch /\ y.reply = m.x.reply
  BY <1>m DEF sentinelAbortFailover, Memory, States
<1>2. NoNewBallots(m.x, y) BY <1>1 DEF NoNewBallots, Sound, Ballots
<1>3. Shape(y)
  <2>1. y.addr # None BY <1>1, SentinelAssumption DEF Memory
  <2> QED BY <1>1, <2>1 DEF Shape, Sound, Chosen, Telling
<1>4. sentinelGetCurrentMasterAddress(y) = sentinelGetCurrentMasterAddress(m.x)
  BY <1>1, <1>m, AnnouncedIs DEF Telling
<1> HIDE DEF y
<1>5. /\ [m EXCEPT !.x = y] \in Work /\ [m EXCEPT !.x = y].x = y
      /\ [m EXCEPT !.x = y].f = m.f /\ [m EXCEPT !.x = y].v = m.v
      /\ [m EXCEPT !.x = y].e = m.e
  BY <1>m, <1>1 DEF Work
<1>6. Steps(s, m, [m EXCEPT !.x = y]) BY <1>2, <1>3, <1>4, <1>5, StepsBy
<1> QED BY <1>6 DEF y

\* sentinelFailoverWaitStart(): whoever goes on as the leader of the epoch it
\* started was elected by a majority.
LEMMA WaitStartKeeps ==
  ASSUME NEW s \in Sentinels, NEW m, Sound(s, m), m.x.state = "wait_start",
         NEW late, NEW n \in sentinelFailoverWaitStart(m, s, late)
  PROVE  Steps(s, m, n)
<1>m. m \in Work /\ m.x \in Memory BY DEF Sound, Work
<1>1. m.x.failover_epoch \in Nat /\ m.x.failover_epoch <= m.x.current_epoch
  BY <1>m DEF Sound, Ballots, Memory
<1>2. PICK o \in sentinelGetLeader(m, s, m.x.failover_epoch) :
        n = IF o[2] = s \/ o[1].x.forced
            THEN [o[1] EXCEPT !.x.state = "select_slave",
                    !.e = IF o[2] = s
                          THEN @ \cup {<<o[1].x.failover_epoch, m.x.current_epoch, s>>}
                          ELSE @]
            ELSE IF late THEN [o[1] EXCEPT !.x = sentinelAbortFailover(o[1].x)] ELSE o[1]
  BY DEF sentinelFailoverWaitStart
<1> DEFINE a == o[1]
<1>3. /\ Votes(s, m, a) /\ a.x.current_epoch = m.x.current_epoch
      /\ o[2] = s /\ m.x.failover_epoch = m.x.current_epoch
         => \E Q \in SUBSET Sentinels :
              Majority(Q) /\ \A q \in Q : <<q, m.x.failover_epoch, s>> \in a.v
  BY <1>1, <1>2, LeaderHasMajority, SMT
<1>4. Steps(s, m, a) /\ a \in Work /\ a.x \in Memory /\ a.x.state = "wait_start"
  BY <1>3, VotesIsStep DEF Votes, Sound, Work
<1> HIDE DEF a
<1>5. CASE o[2] = s \/ a.x.forced
  <2> DEFINE y == [a.x EXCEPT !.state = "select_slave"]
             e == IF o[2] = s THEN a.e \cup {<<a.x.failover_epoch, m.x.current_epoch, s>>}
                              ELSE a.e
  <2>1. n = [x |-> y, f |-> a.f, r |-> a.r, v |-> a.v, e |-> e]
    BY <1>2, <1>4, <1>5 DEF a, Work
  <2>2. /\ y \in Memory
        /\ y.state = "select_slave" /\ y.promoted = a.x.promoted /\ y.addr = a.x.addr
        /\ y.reconf = a.x.reconf /\ y.failover_epoch = a.x.failover_epoch
        /\ y.current_epoch = a.x.current_epoch /\ y.leader = a.x.leader
        /\ y.leader_epoch = a.x.leader_epoch /\ y.reply = a.x.reply
    BY <1>4 DEF Memory, States
  <2> HIDE DEF y
  <2>3. e \in SUBSET (Nat \X Nat \X Sentinels)
    BY <1>m, <1>4, SMT DEF Work, Memory
  <2>4. Sound(s, a) BY <1>3 DEF Votes
  <2>5. Backed(e, a.v)
    <3>1. Backed(a.e, a.v) BY <2>4 DEF Sound
    <3>2. ASSUME o[2] = s, a.x.failover_epoch = m.x.current_epoch
          PROVE  \E Q \in SUBSET Sentinels :
                   Majority(Q) /\ \A q \in Q : <<q, a.x.failover_epoch, s>> \in a.v
      BY <3>2, <1>3 DEF Votes
    <3> QED BY <3>1, <3>2, SMT DEF Backed
  <2>6. Shape(y) BY <2>2, <2>4, <1>4 DEF Shape, Sound, Chosen, Telling
  <2>7. Ballots(s, y, a.v) BY <2>2, <2>4 DEF Sound, Ballots
  <2>8. sentinelGetCurrentMasterAddress(y) = sentinelGetCurrentMasterAddress(a.x)
    BY <2>2, <1>4, AnnouncedIs DEF Telling
  <2>9. FileAgrees(y, a.f) BY <2>2, <2>4, <2>8 DEF Sound, FileAgrees
  <2> HIDE DEF e
  <2>10. Sound(s, n)
    <3>1. n \in Work BY <2>1, <2>2, <2>3, <1>4 DEF Work
    <3> QED BY <3>1, <2>1, <2>4, <2>5, <2>6, <2>7, <2>9 DEF Sound
  <2>11. Steps(s, a, n) BY <2>1, <2>10, <2>8 DEF Steps, Grows
  <2> QED BY <1>4, <2>11, StepsCompose
<1>6. CASE ~(o[2] = s \/ a.x.forced) /\ late
  <2>1. n = [a EXCEPT !.x = sentinelAbortFailover(a.x)] BY <1>2, <1>6 DEF a
  <2>2. Steps(s, a, n) BY <2>1, <1>3, <1>4, AbortKeeps DEF Votes, Telling
  <2> QED BY <1>4, <2>2, StepsCompose
<1>7. CASE ~(o[2] = s \/ a.x.forced) /\ ~late
  BY <1>2, <1>4, <1>7 DEF a
<1> QED BY <1>5, <1>6, <1>7

LEMMA MovesType ==
  ASSUME NEW x \in Memory, NEW st \in States, NEW p \in Instances \cup {None},
         NEW g \in [Instances -> {"no", "sent", "inprog", "done"}]
  PROVE  [x EXCEPT !.state = st, !.promoted = p, !.reconf = g] \in Memory
BY DEF Memory

\* A step that only changes the state, the promoted replica and the marks.
LEMMA Moves ==
  ASSUME NEW s, NEW m, Sound(s, m), NEW n,
         NEW st \in States, NEW p \in Instances \cup {None},
         NEW g \in [Instances -> {"no", "sent", "inprog", "done"}],
         n.x = [m.x EXCEPT !.state = st, !.promoted = p, !.reconf = g],
         NEW q \in [Instances -> Instances \cup {None}],
         n = [x |-> n.x, f |-> m.f, r |-> q, v |-> m.v, e |-> m.e],
         p # None <=> st \in Chosen, p # m.x.addr,
         \A i \in Instances : g[i] # "no" => st \in Telling,
         IF m.x.state \in Telling THEN st \in Telling /\ p = m.x.promoted ELSE st \notin Telling
  PROVE  Steps(s, m, n)
<1>m. m \in Work /\ m.x \in Memory BY DEF Sound, Work
<1>1. /\ n.x \in Memory
      /\ n.x.state = st /\ n.x.promoted = p /\ n.x.addr = m.x.addr
      /\ n.x.reconf = g /\ n.x.failover_epoch = m.x.failover_epoch
      /\ n.x.current_epoch = m.x.current_epoch /\ n.x.leader = m.x.leader
      /\ n.x.leader_epoch = m.x.leader_epoch /\ n.x.reply = m.x.reply
  <2> DEFINE y == [m.x EXCEPT !.state = st, !.promoted = p, !.reconf = g]
  <2>1. y \in Memory
    BY <1>m, MovesType
  <2>2. /\ y.state = st /\ y.promoted = p /\ y.addr = m.x.addr
        /\ y.reconf = g /\ y.failover_epoch = m.x.failover_epoch
        /\ y.current_epoch = m.x.current_epoch /\ y.leader = m.x.leader
        /\ y.leader_epoch = m.x.leader_epoch /\ y.reply = m.x.reply
    BY <1>m, SMT DEF Memory
  <2> QED
    BY <2>1, <2>2
<1>2. NoNewBallots(m.x, n.x) BY <1>1 DEF NoNewBallots, Sound, Ballots
<1>3. Shape(n.x) BY <1>1 DEF Shape
<1>4. sentinelGetCurrentMasterAddress(n.x) = sentinelGetCurrentMasterAddress(m.x)
  <2>1. CASE m.x.state \in Telling
    <3>1. m.x.promoted # None BY <2>1 DEF Sound, Shape, Chosen, Telling
    <3>2. sentinelGetCurrentMasterAddress(m.x) = m.x.promoted BY <2>1, <3>1, <1>m, AnnouncedIs
    <3>3. n.x.state \in Telling /\ n.x.promoted = m.x.promoted BY <2>1, <1>1
    <3>4. sentinelGetCurrentMasterAddress(n.x) = n.x.promoted BY <3>1, <3>3, <1>1, AnnouncedIs
    <3> QED BY <3>2, <3>3, <3>4
  <2>2. CASE m.x.state \notin Telling
    <3>1. sentinelGetCurrentMasterAddress(m.x) = m.x.addr BY <2>2, <1>m, AnnouncedIs
    <3>2. n.x.state \notin Telling BY <2>2, <1>1
    <3>3. sentinelGetCurrentMasterAddress(n.x) = n.x.addr BY <3>2, <1>1, AnnouncedIs
    <3> QED BY <3>1, <3>3, <1>1
  <2> QED BY <2>1, <2>2
<1>5. n \in Work BY <1>m, <1>1, SMT DEF Work
<1> QED BY <1>2, <1>3, <1>4, <1>5, StepsBy

\* sentinelFailoverSelectSlave()
LEMMA SelectKeeps ==
  ASSUME NEW s \in Sentinels, NEW m, Sound(s, m), m.x.state = "select_slave",
         NEW n \in sentinelFailoverSelectSlave(m)
  PROVE  Steps(s, m, n)
<1>m. m \in Work /\ m.x \in Memory BY DEF Sound, Work
<1>1. PICK i \in sentinelSelectSlave(m.x) :
        n = IF i = None THEN [m EXCEPT !.x = sentinelAbortFailover(m.x)]
            ELSE [m EXCEPT !.x.promoted = i, !.x.state = "send_slaveof_noone"]
  BY DEF sentinelFailoverSelectSlave
<1>2. CASE i = None BY <1>1, <1>2, AbortKeeps DEF Telling
<1>3. CASE i # None
  <2>1. i \in Instances /\ i # m.x.addr BY <1>1, <1>3 DEF sentinelSelectSlave, Slaves
  <2>2. n.x = [m.x EXCEPT !.state = "send_slaveof_noone", !.promoted = i, !.reconf = m.x.reconf]
    BY <1>1, <1>3, <1>m DEF Work, Memory
  <2>3. n = [x |-> n.x, f |-> m.f, r |-> m.r, v |-> m.v, e |-> m.e]
    BY <1>1, <1>3, <1>m DEF Work
  <2>4. /\ m.x.reconf \in [Instances -> {"no", "sent", "inprog", "done"}]
        /\ m.r \in [Instances -> Instances \cup {None}]
    BY <1>m DEF Work, Memory
  <2>5. \A j \in Instances : m.x.reconf[j] # "no" => "send_slaveof_noone" \in Telling
    BY DEF Sound, Shape, Telling
  <2>6. /\ "send_slaveof_noone" \in States
        /\ i # None <=> "send_slaveof_noone" \in Chosen
        /\ IF m.x.state \in Telling
           THEN "send_slaveof_noone" \in Telling /\ i = m.x.promoted
           ELSE "send_slaveof_noone" \notin Telling
    BY <1>3 DEF States, Chosen, Telling
  <2>7. i \in Instances \cup {None} BY <2>1
  <2> QED BY <2>1, <2>2, <2>3, <2>4, <2>5, <2>6, <2>7, Moves
<1> QED BY <1>2, <1>3

\* sentinelFailoverSendSlaveOfNoOne()
LEMMA SendKeeps ==
  ASSUME NEW s \in Sentinels, NEW m, Sound(s, m), m.x.state = "send_slaveof_noone",
         NEW late, NEW n \in sentinelFailoverSendSlaveOfNoOne(m, late)
  PROVE  Steps(s, m, n)
<1>m. m \in Work /\ m.x \in Memory BY DEF Sound, Work
<1>1. CASE n = [sentinelSendSlaveOf(m, m.x.promoted, None) EXCEPT !.x.state = "wait_promotion"]
  <2>1. m.x.promoted \in Instances /\ m.x.promoted # None /\ m.x.promoted # m.x.addr
    BY <1>m DEF Sound, Shape, Chosen, Memory
  <2>2. n.x = [m.x EXCEPT !.state = "wait_promotion", !.promoted = m.x.promoted, !.reconf = m.x.reconf]
    BY <1>1, <1>m DEF Work, Memory, sentinelSendSlaveOf
  <2>3. n = [x |-> n.x, f |-> m.f, r |-> [m.r EXCEPT ![m.x.promoted] = None], v |-> m.v, e |-> m.e]
    BY <1>1, <1>m DEF Work, sentinelSendSlaveOf
  <2>4. /\ m.x.reconf \in [Instances -> {"no", "sent", "inprog", "done"}]
        /\ [m.r EXCEPT ![m.x.promoted] = None] \in [Instances -> Instances \cup {None}]
    BY <1>m DEF Work, Memory
  <2>5. \A j \in Instances : m.x.reconf[j] # "no" => "wait_promotion" \in Telling
    BY DEF Sound, Shape, Telling
  <2>6. /\ "wait_promotion" \in States
        /\ m.x.promoted # None <=> "wait_promotion" \in Chosen
        /\ IF m.x.state \in Telling
           THEN "wait_promotion" \in Telling /\ m.x.promoted = m.x.promoted
           ELSE "wait_promotion" \notin Telling
    BY <2>1 DEF States, Chosen, Telling
  <2>7. m.x.promoted \in Instances \cup {None} BY <2>1
  <2> QED BY <2>1, <2>2, <2>3, <2>4, <2>5, <2>6, <2>7, Moves
<1>2. CASE n = [m EXCEPT !.x = sentinelAbortFailover(m.x)]
  BY <1>2, AbortKeeps DEF Telling
<1>3. CASE n = m
  BY <1>3 DEF Steps, Grows
<1> QED BY <1>1, <1>2, <1>3 DEF sentinelFailoverSendSlaveOfNoOne

\* sentinelFailoverDetectEnd()
LEMMA DetectKeeps ==
  ASSUME NEW s \in Sentinels, NEW m, Sound(s, m), m.x.state = "reconf_slaves",
         NEW sdown, NEW conn, NEW late
  PROVE  Steps(s, m, sentinelFailoverDetectEnd(m, sdown, conn, late))
<1> DEFINE n == sentinelFailoverDetectEnd(m, sdown, conn, late)
           best == {i \in conn \cap Slaves(m.x) : m.x.reconf[i] \notin {"done", "sent"}}
           g == [i \in Instances |-> IF i \in best THEN "sent" ELSE m.x.reconf[i]]
           q == [i \in Instances |-> IF i \in best THEN m.x.promoted ELSE m.r[i]]
<1>m. m \in Work /\ m.x \in Memory BY DEF Sound, Work
<1>1. m.x.promoted \in Instances /\ m.x.promoted # None /\ m.x.promoted # m.x.addr
  BY <1>m DEF Sound, Shape, Chosen, Memory
<1>2. /\ "update_config" \in States /\ "update_config" \in Chosen
      /\ "update_config" \in Telling /\ m.x.state \in Telling
  BY DEF States, Chosen, Telling
<1>3. m.x.reconf \in [Instances -> {"no", "sent", "inprog", "done"}] /\ m.r \in [Instances -> Instances \cup {None}]
  BY <1>m DEF Work, Memory
<1>4. CASE n = m BY <1>4 DEF Steps, Grows
<1>5. CASE n = [m EXCEPT !.x.state = "update_config"]
  <2> HIDE DEF n
  <2>1. n.x = [m.x EXCEPT !.state = "update_config", !.promoted = m.x.promoted, !.reconf = m.x.reconf]
    BY <1>5, <1>m DEF Work, Memory
  <2>2. n = [x |-> n.x, f |-> m.f, r |-> m.r, v |-> m.v, e |-> m.e]
    BY <1>5, <1>m DEF Work
  <2>3. Steps(s, m, n) BY <2>1, <2>2, <1>1, <1>2, <1>3, Moves
  <2> QED BY <2>3 DEF n
<1>6. CASE n = [m EXCEPT !.x.state = "update_config",
                  !.x.reconf = [i \in Instances |-> IF i \in best THEN "sent" ELSE @[i]],
                  !.r = [i \in Instances |-> IF i \in best THEN m.x.promoted ELSE @[i]]]
  <2>0. g \in [Instances -> {"no", "sent", "inprog", "done"}] /\ q \in [Instances -> Instances \cup {None}]
    BY <1>1, <1>3
  <2> HIDE DEF n
  <2>1. n.x = [m.x EXCEPT !.state = "update_config", !.promoted = m.x.promoted, !.reconf = g]
    <3>1. m.x.reconf = [i \in Instances |-> m.x.reconf[i]] BY <1>3
    <3>2. n.x = [m.x EXCEPT !.state = "update_config", !.reconf = g]
      BY <1>6, <1>m DEF Work
    <3> HIDE DEF g
    <3> QED BY <3>2, <1>m DEF Memory
  <2>2. n = [x |-> n.x, f |-> m.f, r |-> q, v |-> m.v, e |-> m.e]
    BY <1>6, <1>m DEF Work
  <2> HIDE DEF g, q
  <2>3. Steps(s, m, n) BY <2>0, <2>1, <2>2, <1>1, <1>2, Moves
  <2> QED BY <2>3 DEF n
<1> QED BY <1>4, <1>5, <1>6 DEF sentinelFailoverDetectEnd

\* sentinelFailoverReconfNextSlave()
LEMMA ReconfKeeps ==
  ASSUME NEW s \in Sentinels, NEW m, Sound(s, m), m.x.state = "reconf_slaves",
         NEW sdown, NEW conn, NEW late,
         NEW n \in sentinelFailoverReconfNextSlave(m, sdown, conn, late)
  PROVE  Steps(s, m, n)
<1> DEFINE Marks == {"no", "sent", "inprog", "done"}
           old == IF late THEN {i \in Slaves(m.x) : m.x.reconf[i] = "sent"} ELSE {}
           busy == Cardinality({i \in Slaves(m.x) : m.x.reconf[i] \in {"sent", "inprog"}})
           h == [i \in Instances |-> IF i \in old THEN "done" ELSE m.x.reconf[i]]
           y == IF busy < ParallelSyncs
                THEN [m.x EXCEPT !.reconf = [i \in Instances |->
                                               IF i \in old THEN "done" ELSE @[i]]]
                ELSE m.x
           Sent(c) == [m EXCEPT !.x = [y EXCEPT !.reconf = [i \in Instances |->
                                         IF i \in c THEN "sent" ELSE @[i]]],
                                !.r = [i \in Instances |->
                                         IF i \in c THEN y.promoted ELSE @[i]]]
<1>m. m \in Work /\ m.x \in Memory BY DEF Sound, Work
<1>1. \E c : n = sentinelFailoverDetectEnd(Sent(c), sdown, conn, late)
  BY DEF sentinelFailoverReconfNextSlave
<1>2. PICK c : n = sentinelFailoverDetectEnd(Sent(c), sdown, conn, late) BY <1>1
<1>3. m.x.reconf \in [Instances -> Marks] /\ m.r \in [Instances -> Instances \cup {None}]
  BY <1>m DEF Work, Memory
<1>4. m.x.promoted \in Instances /\ m.x.promoted # None /\ m.x.promoted # m.x.addr
  BY <1>m DEF Sound, Shape, Chosen, Memory
<1>5. /\ y \in Memory /\ y.promoted = m.x.promoted
      /\ \E g \in [Instances -> Marks] : y = [m.x EXCEPT !.reconf = g]
  <2>1. h \in [Instances -> Marks] BY <1>3
  <2>2. CASE busy < ParallelSyncs
    <3>1. y = [m.x EXCEPT !.reconf = h] BY <2>2
    <3> HIDE DEF h, y
    <3> QED BY <3>1, <2>1, <1>m DEF Memory
  <2>3. CASE ~(busy < ParallelSyncs)
    <3>1. y = m.x BY <2>3
    <3> HIDE DEF y
    <3>2. y = [m.x EXCEPT !.reconf = m.x.reconf] BY <3>1, <1>m DEF Memory
    <3> QED BY <3>1, <3>2, <1>3, <1>m
  <2> HIDE DEF busy, y
  <2> QED BY <2>2, <2>3
<1> DEFINE g == [i \in Instances |-> IF i \in c THEN "sent" ELSE y.reconf[i]]
           q == [i \in Instances |-> IF i \in c THEN y.promoted ELSE m.r[i]]
           k == Sent(c)
<1>6. k = [m EXCEPT !.x = [y EXCEPT !.reconf = g], !.r = q] OBVIOUS
<1> HIDE DEF y, k
<1>7. g \in [Instances -> Marks] /\ q \in [Instances -> Instances \cup {None}]
  BY <1>3, <1>4, <1>5 DEF Memory
<1> HIDE DEF g, q
<1>8. k.x = [m.x EXCEPT !.state = "reconf_slaves", !.promoted = m.x.promoted, !.reconf = g]
  <2>1. k.x = [y EXCEPT !.reconf = g] BY <1>6, <1>m DEF Work
  <2>2. k.x = [m.x EXCEPT !.reconf = g] BY <2>1, <1>5, <1>m DEF Memory
  <2> QED BY <2>2, <1>m DEF Memory
<1>9. k = [x |-> k.x, f |-> m.f, r |-> q, v |-> m.v, e |-> m.e]
  BY <1>6, <1>m DEF Work
<1>10. /\ "reconf_slaves" \in States /\ "reconf_slaves" \in Chosen
       /\ "reconf_slaves" \in Telling /\ m.x.state \in Telling
  BY DEF States, Chosen, Telling
<1>11. Steps(s, m, k) BY <1>4, <1>7, <1>8, <1>9, <1>10, Moves
<1>12. Sound(s, k) /\ k.x.state = "reconf_slaves" BY <1>11, <1>8, <1>m DEF Steps, Memory
<1>13. Steps(s, k, n) BY <1>12, <1>2, DetectKeeps DEF k
<1> QED BY <1>11, <1>13, StepsCompose

\* sentinelFailoverStateMachine(), in whatever state the failover is.
LEMMA MachineKeeps ==
  ASSUME NEW s \in Sentinels, NEW m, Sound(s, m), NEW sdown, NEW conn, NEW late,
         NEW n \in sentinelFailoverStateMachine(m, s, sdown, conn, late)
  PROVE  Steps(s, m, n)
<1>1. CASE m.x.state = "wait_start"
  BY <1>1, WaitStartKeeps DEF sentinelFailoverStateMachine
<1>2. CASE m.x.state = "select_slave"
  BY <1>2, SelectKeeps DEF sentinelFailoverStateMachine
<1>3. CASE m.x.state = "send_slaveof_noone"
  BY <1>3, SendKeeps DEF sentinelFailoverStateMachine
<1>4. CASE m.x.state = "wait_promotion"
  <2>1. n = [m EXCEPT !.x = sentinelAbortFailover(m.x)] \/ n = m
    BY <1>4 DEF sentinelFailoverStateMachine, sentinelFailoverWaitPromotion
  <2>2. m.x.state \notin Telling BY <1>4 DEF Telling
  <2>3. CASE n = [m EXCEPT !.x = sentinelAbortFailover(m.x)] BY <2>2, <2>3, AbortKeeps
  <2>4. CASE n = m BY <2>4 DEF Steps, Grows
  <2> QED BY <2>1, <2>3, <2>4
<1>5. CASE m.x.state = "reconf_slaves"
  BY <1>5, ReconfKeeps DEF sentinelFailoverStateMachine
<1>6. CASE m.x.state \notin {"wait_start", "select_slave", "send_slaveof_noone",
                             "wait_promotion", "reconf_slaves"}
  <2>1. n = m BY <1>6 DEF sentinelFailoverStateMachine
  <2> QED BY <2>1 DEF Steps, Grows
<1> QED BY <1>1, <1>2, <1>3, <1>4, <1>5, <1>6

\* Old replies are forgotten.
LEMMA ForgetKeeps ==
  ASSUME NEW s \in Sentinels, NEW m, Sound(s, m), NEW old
  PROVE  Steps(s, m, [m EXCEPT !.x = ForgetReplies(m.x, old)])
<1> DEFINE y == ForgetReplies(m.x, old)
           p == [t \in Sentinels |-> IF t \in old
                   THEN [m.x.reply[t] EXCEPT !.down = FALSE, !.leader = None]
                   ELSE m.x.reply[t]]
<1>m. m \in Work /\ m.x \in Memory BY DEF Sound, Work
<1>1. m.x.reply \in [Sentinels -> Reply] BY <1>m DEF Memory
<1>2. p \in [Sentinels -> Reply] BY <1>1 DEF Reply
<1>3. \A t \in Sentinels : p[t].leader # None => p[t] = m.x.reply[t]
  BY <1>1 DEF Reply
<1>4. y = [m.x EXCEPT !.reply = p] BY DEF ForgetReplies
<1> HIDE DEF y, p
<1>5. /\ y \in Memory /\ y.reply = p
      /\ y.state = m.x.state /\ y.promoted = m.x.promoted /\ y.addr = m.x.addr
      /\ y.reconf = m.x.reconf /\ y.failover_epoch = m.x.failover_epoch
      /\ y.current_epoch = m.x.current_epoch /\ y.leader = m.x.leader
      /\ y.leader_epoch = m.x.leader_epoch
  BY <1>m, <1>2, <1>4 DEF Memory
<1>6. NoNewBallots(m.x, y) BY <1>3, <1>5 DEF NoNewBallots, Sound, Ballots
<1>7. Shape(y) BY <1>5 DEF Shape, Sound
<1>8. sentinelGetCurrentMasterAddress(y) = sentinelGetCurrentMasterAddress(m.x)
  BY <1>5 DEF sentinelGetCurrentMasterAddress
<1>9. /\ [m EXCEPT !.x = y] \in Work /\ [m EXCEPT !.x = y].x = y
      /\ [m EXCEPT !.x = y].f = m.f /\ [m EXCEPT !.x = y].v = m.v
      /\ [m EXCEPT !.x = y].e = m.e
  BY <1>m, <1>5 DEF Work
<1>10. Steps(s, m, [m EXCEPT !.x = y]) BY <1>6, <1>7, <1>8, <1>9, StepsBy
<1> QED BY <1>10 DEF y

\* sentinelResetMasterAndChangeAddress(): the Sentinel announces the new address.
LEMMA ResetKeeps ==
  ASSUME NEW s \in Sentinels, NEW m, Sound(s, m), NEW addr \in Instances
  PROVE  LET n == sentinelResetMasterAndChangeAddress(m, addr)
         IN  /\ Sound(s, n) /\ n.v = m.v
             /\ n.x.config_epoch = m.x.config_epoch
             /\ sentinelGetCurrentMasterAddress(n.x) = addr
<1> DEFINE z == [m.x EXCEPT !.leader = None, !.sdown = FALSE, !.odown = FALSE, !.state = "none",
                            !.forced = FALSE, !.promoted = None, !.delayed = FALSE,
                            !.reconf = NoReconf]
           y == [z EXCEPT !.addr = addr]
           k == [m EXCEPT !.x = y]
           n == sentinelResetMasterAndChangeAddress(m, addr)
<1>m. m \in Work /\ m.x \in Memory BY DEF Sound, Work
<1>0. NoReconf \in [Instances -> {"no", "sent", "inprog", "done"}] BY DEF NoReconf
<1>1. n = sentinelFlushConfig(k)
  BY <1>m DEF sentinelResetMasterAndChangeAddress, sentinelResetMaster, Work
<1>2. /\ z \in Memory
      /\ z.state = "none" /\ z.promoted = None /\ z.leader = None
      /\ z.reconf = NoReconf /\ z.failover_epoch = m.x.failover_epoch
      /\ z.current_epoch = m.x.current_epoch /\ z.config_epoch = m.x.config_epoch
      /\ z.leader_epoch = m.x.leader_epoch /\ z.reply = m.x.reply
  BY <1>m, <1>0 DEF Memory, States
<1> HIDE DEF z
<1>3. /\ y \in Memory
      /\ y.state = "none" /\ y.promoted = None /\ y.addr = addr /\ y.leader = None
      /\ y.reconf = NoReconf /\ y.failover_epoch = m.x.failover_epoch
      /\ y.current_epoch = m.x.current_epoch /\ y.config_epoch = m.x.config_epoch
      /\ y.leader_epoch = m.x.leader_epoch /\ y.reply = m.x.reply
  BY <1>2 DEF Memory
<1> HIDE DEF y
<1>4. k \in Work /\ k.x = y /\ k.v = m.v /\ k.r = m.r /\ k.e = m.e BY <1>m, <1>3 DEF Work
<1> HIDE DEF k, n
<1>5. /\ n \in Work /\ n = [x |-> k.x, f |-> Saved(k.x), r |-> k.r, v |-> k.v, e |-> k.e]
      /\ FileAgrees(k.x, Saved(k.x))
  BY <1>1, <1>4, Flushes
<1>6. n.x = y /\ n.v = m.v /\ n.e = m.e /\ FileAgrees(n.x, n.f) BY <1>4, <1>5
<1>7. Ballots(s, n.x, n.v)
  <2>1. NoNewBallots(m.x, y) BY <1>3 DEF NoNewBallots, Sound, Ballots
  <2> QED BY <2>1, <1>6, BallotsKept DEF Sound
<1>8. Shape(n.x)
  <2>1. addr # None BY SentinelAssumption
  <2>2. \A i \in Instances : NoReconf[i] = "no" BY DEF NoReconf
  <2> QED BY <1>3, <1>6, <2>1, <2>2 DEF Shape, Chosen
<1>9. sentinelGetCurrentMasterAddress(n.x) = addr
  BY <1>3, <1>6, AnnouncedIs
<1> QED BY <1>3, <1>5, <1>6, <1>7, <1>8, <1>9 DEF Sound, n

\* sentinelFailoverSwitchToPromotedSlave() announces what was announced before.
LEMMA SwitchKeeps ==
  ASSUME NEW s \in Sentinels, NEW m, Sound(s, m)
  PROVE  Steps(s, m, sentinelFailoverSwitchToPromotedSlave(m))
<1>m. m \in Work /\ m.x \in Memory BY DEF Sound, Work
<1>1. CASE m.x.state = "update_config"
  <2>1. m.x.promoted \in Instances /\ m.x.promoted # None
    BY <1>1, <1>m DEF Sound, Shape, Chosen, Memory
  <2>2. sentinelGetCurrentMasterAddress(m.x) = m.x.promoted
    BY <1>1, <1>m, <2>1, AnnouncedIs DEF Telling
  <2> QED BY <1>1, <2>1, <2>2, ResetKeeps
          DEF sentinelFailoverSwitchToPromotedSlave, Steps, Grows
<1>2. CASE m.x.state # "update_config"
  BY <1>2 DEF sentinelFailoverSwitchToPromotedSlave, Steps, Grows
<1> QED BY <1>1, <1>2

\* The checks before the state machine, with the start of a failover.
LEMMA CheckedKeeps ==
  ASSUME NEW s \in Sentinels, NEW m, Sound(s, m), NEW sdown
  PROVE  Steps(s, m, [m EXCEPT !.x = Checked(m.x, s, sdown)])
<1> DEFINE w == sentinelCheckObjectivelyDown(sentinelCheckSubjectivelyDown(m.x, sdown), s)
           y == Checked(m.x, s, sdown)
<1>m. m \in Work /\ m.x \in Memory BY DEF Sound, Work
<1>1. /\ w \in Memory
      /\ w.state = m.x.state /\ w.promoted = m.x.promoted /\ w.addr = m.x.addr
      /\ w.reconf = m.x.reconf /\ w.failover_epoch = m.x.failover_epoch
      /\ w.current_epoch = m.x.current_epoch /\ w.leader = m.x.leader
      /\ w.leader_epoch = m.x.leader_epoch /\ w.reply = m.x.reply
  <2> DEFINE b == m.x.addr \in sdown
             u == sentinelCheckSubjectivelyDown(m.x, sdown)
             d == u.sdown /\ 1 + Cardinality({t \in Others(s) : u.reply[t].down}) >= Quorum
  <2>1. u = [m.x EXCEPT !.sdown = b] /\ b \in BOOLEAN BY SMT DEF sentinelCheckSubjectivelyDown
  <2>2. w = [u EXCEPT !.odown = d] /\ d \in BOOLEAN BY DEF sentinelCheckObjectivelyDown
  <2> HIDE DEF b, u, d, w
  <2>3. /\ u \in Memory
        /\ u.state = m.x.state /\ u.promoted = m.x.promoted /\ u.addr = m.x.addr
        /\ u.reconf = m.x.reconf /\ u.failover_epoch = m.x.failover_epoch
        /\ u.current_epoch = m.x.current_epoch /\ u.leader = m.x.leader
        /\ u.leader_epoch = m.x.leader_epoch /\ u.reply = m.x.reply
    BY <1>m, <2>1 DEF Memory
  <2>4. /\ w \in Memory
        /\ w.state = u.state /\ w.promoted = u.promoted /\ w.addr = u.addr
        /\ w.reconf = u.reconf /\ w.failover_epoch = u.failover_epoch
        /\ w.current_epoch = u.current_epoch /\ w.leader = u.leader
        /\ w.leader_epoch = u.leader_epoch /\ w.reply = u.reply
    BY <2>3, <2>2 DEF Memory
  <2> QED BY <2>3, <2>4
<1>2. \/ y = w
      \/ w.state = "none" /\ y = sentinelStartFailover(w)
  BY DEF Checked, sentinelStartFailoverIfNeeded
<1> HIDE DEF w, y
<1>3. /\ y \in Memory
      /\ \/ y.state = m.x.state
         \/ m.x.state = "none" /\ y.state = "wait_start"
      /\ y.promoted = m.x.promoted /\ y.addr = m.x.addr /\ y.reconf = m.x.reconf
      /\ y.failover_epoch <= y.current_epoch /\ y.leader = m.x.leader
      /\ y.leader_epoch = m.x.leader_epoch /\ y.reply = m.x.reply
  <2>1. CASE y = w BY <2>1, <1>1 DEF Sound, Ballots
  <2>2. CASE w.state = "none" /\ y = sentinelStartFailover(w)
    <3>1. w.current_epoch \in Nat /\ w.current_epoch + 1 \in Nat BY <1>1, SMT DEF Memory
    <3>2. /\ y \in Memory /\ y.state = "wait_start" /\ y.current_epoch = w.current_epoch + 1
          /\ y.failover_epoch = w.current_epoch + 1
          /\ y.promoted = w.promoted /\ y.addr = w.addr /\ y.reconf = w.reconf
          /\ y.leader = w.leader /\ y.leader_epoch = w.leader_epoch /\ y.reply = w.reply
      BY <1>1, <2>2, <3>1 DEF Memory, sentinelStartFailover, States
    <3> QED BY <1>1, <2>2, <3>1, <3>2, SMT
  <2> QED BY <1>2, <2>1, <2>2
<1>4. NoNewBallots(m.x, y) BY <1>3 DEF NoNewBallots
<1>5. Shape(y) BY <1>3 DEF Shape, Sound, Chosen, Telling
<1>6. sentinelGetCurrentMasterAddress(y) = sentinelGetCurrentMasterAddress(m.x)
  BY <1>3, <1>m, AnnouncedIs DEF Telling
<1>7. /\ [m EXCEPT !.x = y] \in Work /\ [m EXCEPT !.x = y].x = y
      /\ [m EXCEPT !.x = y].f = m.f /\ [m EXCEPT !.x = y].v = m.v
      /\ [m EXCEPT !.x = y].e = m.e
  BY <1>m, <1>3 DEF Work
<1>8. Steps(s, m, [m EXCEPT !.x = y]) BY <1>4, <1>5, <1>6, <1>7, StepsBy
<1> QED BY <1>8 DEF y

-----------------------------------------------------------------------------
(* The actions, and the theorems.                                          *)

\* When the announced master may change.
Forward(s) ==
    sentinelGetCurrentMasterAddress(sen'[s]) # sentinelGetCurrentMasterAddress(sen[s])
    => \/ sen'[s].config_epoch > sen[s].config_epoch
       \/ /\ sen[s].state = "wait_promotion" /\ sen'[s].state = "reconf_slaves"
          /\ sen'[s].addr = sen[s].addr
          /\ sen'[s].config_epoch = sen[s].failover_epoch

LEMMA LocalSound ==
  ASSUME SentinelInv, NEW s \in Sentinels
  PROVE  Sound(s, Local(s)) /\ Local(s) \in Work /\ Local(s).x = sen[s] /\ Local(s).f = disk[s]
         /\ Local(s).r = redis /\ Local(s).v = votes /\ Local(s).e = elected
<1>1. /\ Local(s).x = sen[s] /\ Local(s).f = disk[s]
      /\ Local(s).r = redis /\ Local(s).v = votes /\ Local(s).e = elected
  BY DEF Local
<1>2. Local(s) \in Work BY DEF SentinelInv, Types, Local, Work
<1> QED BY <1>1, <1>2 DEF Sound, SentinelInv

\* What a handler of s leaves keeps the invariant: the others see more votes,
\* but none of their own.
LEMMA LeaveKeeps ==
  ASSUME SentinelInv, NEW s \in Sentinels, NEW n, Sound(s, n), Grows(s, Local(s), n),
         Leave(s, n), link' \in [Pairs -> Asked \cup {None}]
  PROVE  SentinelInv'
<1>1. n \in Work /\ n.x \in Memory /\ n.f \in File BY DEF Sound, Work
<1>2. Types' BY <1>1 DEF Types, SentinelInv, Leave, Work
<1>3. ASSUME NEW t \in Sentinels
      PROVE  Ballots(t, sen'[t], votes') /\ FileAgrees(sen'[t], disk'[t]) /\ Shape(sen'[t])
  <2>1. CASE t = s
    <3>1. sen'[t] = n.x /\ disk'[t] = n.f /\ votes' = n.v
      BY <2>1 DEF Leave, SentinelInv, Types
    <3> QED BY <3>1, <2>1 DEF Sound
  <2>2. CASE t # s
    <3>1. sen'[t] = sen[t] /\ disk'[t] = disk[t] /\ votes' = n.v
      BY <2>2 DEF Leave, SentinelInv, Types
    <3>2. votes \subseteq n.v /\ \A u \in n.v \ votes : u[1] = s BY DEF Grows, Local
    <3>3. Ballots(t, sen[t], votes) BY DEF SentinelInv
    <3>4. Ballots(t, sen[t], n.v) BY <2>2, <3>2, <3>3 DEF Ballots
    <3> QED BY <3>1, <3>4 DEF SentinelInv
  <2> QED BY <2>1, <2>2
<1>4. Unique(votes') /\ Backed(elected', votes') BY DEF Sound, Leave
<1> QED BY <1>2, <1>3, <1>4 DEF SentinelInv

LEMMA TimerKeeps ==
  ASSUME SentinelInv, NEW s \in Sentinels, Timer(s)
  PROVE  SentinelInv' /\ \A t \in Sentinels : Forward(t)
<1>1. PICK sdown, conn, old, late : sentinelTimer(s, sdown, conn, old, late)
  BY DEF Timer
<1> DEFINE l == Local(s)
           y == Checked(sen[s], s, sdown)
           k == [l EXCEPT !.x = y]
<1>2. PICK m \in sentinelFailoverStateMachine(k, s, sdown, conn, late) :
        /\ Leave(s, sentinelFailoverSwitchToPromotedSlave([m EXCEPT !.x = ForgetReplies(@, old)]))
        /\ link' = [p \in DOMAIN link |->
                      IF y.sdown /\ p[1] = s /\ link[p] = None
                      THEN Request(m.x, s) ELSE link[p]]
  BY <1>1 DEF sentinelTimer
<1> DEFINE i == [m EXCEPT !.x = ForgetReplies(m.x, old)]
           n == sentinelFailoverSwitchToPromotedSlave(i)
<1>3. Sound(s, l) /\ l.x = sen[s] BY LocalSound
<1>4. Steps(s, l, k) BY <1>3, CheckedKeeps
<1>5. Steps(s, k, m)
  <2>1. Sound(s, k) BY <1>4 DEF Steps
  <2>2. m \in sentinelFailoverStateMachine(k, s, sdown, conn, late) BY <1>2
  <2> HIDE DEF k
  <2> QED BY <2>1, <2>2, MachineKeeps
<1>6. Sound(s, m) /\ m \in Work /\ m.x \in Memory BY <1>5 DEF Steps, Sound, Work
<1>7. Steps(s, m, i) BY <1>6, ForgetKeeps
<1>8. Steps(s, i, n) BY <1>7, SwitchKeeps DEF Steps
<1>9. Leave(s, n)
  <2>1. [m EXCEPT !.x = ForgetReplies(@, old)] = i BY <1>6
  <2> QED BY <1>2, <2>1
<1> HIDE DEF l, k, i, n, y
<1>10. Steps(s, l, n) BY <1>4, <1>5, <1>7, <1>8, StepsCompose
<1>11. link' \in [Pairs -> Asked \cup {None}]
  <2>1. link \in [Pairs -> Asked \cup {None}] BY DEF SentinelInv, Types
  <2>2. Request(m.x, s) \in Asked BY <1>6 DEF Request, Asked, Memory
  <2> QED BY <1>2, <2>1, <2>2
<1>12. SentinelInv' BY <1>9, <1>10, <1>11, LeaveKeeps DEF Steps, l
<1>13. ASSUME NEW t \in Sentinels PROVE Forward(t)
  <2>1. CASE t = s
    <3>1. sen'[t] = n.x BY <1>9, <2>1 DEF Leave, SentinelInv, Types
    <3> QED BY <3>1, <1>10, <1>3, <2>1 DEF Steps, Forward
  <2>2. CASE t # s
    <3>1. sen'[t] = sen[t] BY <1>9, <2>2 DEF Leave, SentinelInv, Types
    <3> QED BY <3>1 DEF Forward
  <2> QED BY <2>1, <2>2
<1> QED BY <1>12, <1>13

\* A step that changes only the memory of s, and the links.
LEMMA MemoryStep ==
  ASSUME SentinelInv, NEW s \in Sentinels, NEW y \in Memory,
         sen' = [sen EXCEPT ![s] = y], UNCHANGED <<disk, redis, votes, elected>>,
         link' \in [Pairs -> Asked \cup {None}],
         Ballots(s, y, votes), y.leader_epoch = sen[s].leader_epoch, Shape(y),
         sentinelGetCurrentMasterAddress(y) = sentinelGetCurrentMasterAddress(sen[s])
  PROVE  SentinelInv' /\ \A t \in Sentinels : Forward(t)
<1>1. sen'[s] = y /\ \A t \in Sentinels : t # s => sen'[t] = sen[t]
  BY DEF SentinelInv, Types
<1>2. Types' BY DEF SentinelInv, Types
<1>3. ASSUME NEW t \in Sentinels
      PROVE  /\ Ballots(t, sen'[t], votes) /\ FileAgrees(sen'[t], disk[t]) /\ Shape(sen'[t])
             /\ Forward(t)
  <2>1. CASE t = s
    <3>1. FileAgrees(sen[s], disk[s]) BY DEF SentinelInv
    <3>2. FileAgrees(y, disk[s]) BY <3>1 DEF FileAgrees
    <3>3. Forward(s) BY <1>1 DEF Forward
    <3> QED BY <1>1, <2>1, <3>2, <3>3
  <2>2. CASE t # s
    <3>1. sen'[t] = sen[t] BY <1>1, <2>2
    <3> QED BY <3>1 DEF SentinelInv, Forward
  <2> QED BY <2>1, <2>2
<1> QED BY <1>2, <1>3 DEF SentinelInv

LEMMA DelayKeeps ==
  ASSUME SentinelInv, NEW s \in Sentinels, DelayPasses(s)
  PROVE  SentinelInv' /\ \A t \in Sentinels : Forward(t)
<1> DEFINE y == [sen[s] EXCEPT !.delayed = FALSE]
<1>0. sen[s] \in Memory BY DEF SentinelInv, Types
<1>1. /\ y \in Memory /\ y.promoted = sen[s].promoted /\ y.state = sen[s].state
      /\ y.addr = sen[s].addr /\ y.reconf = sen[s].reconf /\ y.leader = sen[s].leader
      /\ y.leader_epoch = sen[s].leader_epoch /\ y.reply = sen[s].reply
      /\ y.failover_epoch = sen[s].failover_epoch /\ y.current_epoch = sen[s].current_epoch
  BY <1>0 DEF Memory
<1>2. sen' = [sen EXCEPT ![s] = y] BY DEF DelayPasses
<1> HIDE DEF y
<1>3. Ballots(s, y, votes) /\ Shape(y) BY <1>1 DEF SentinelInv, Ballots, Shape
<1>4. sentinelGetCurrentMasterAddress(y) = sentinelGetCurrentMasterAddress(sen[s])
  BY <1>1 DEF sentinelGetCurrentMasterAddress
<1>5. link' \in [Pairs -> Asked \cup {None}] BY DEF DelayPasses, SentinelInv, Types
<1> QED BY <1>1, <1>2, <1>3, <1>4, <1>5, MemoryStep DEF DelayPasses

LEMMA CommandKeeps ==
  ASSUME SentinelInv, NEW s \in Sentinels, FailoverCommand(s)
  PROVE  SentinelInv' /\ \A t \in Sentinels : Forward(t)
<1> DEFINE z == sentinelStartFailover(sen[s])
           y == [z EXCEPT !.forced = TRUE]
<1>0. sen[s] \in Memory /\ sen[s].state = "none" BY DEF SentinelInv, Types, FailoverCommand
<1>1. sen[s].current_epoch \in Nat BY <1>0 DEF Memory
<1>2. /\ z \in Memory /\ z.promoted = sen[s].promoted /\ z.state = "wait_start"
      /\ z.addr = sen[s].addr /\ z.reconf = sen[s].reconf /\ z.leader = sen[s].leader
      /\ z.leader_epoch = sen[s].leader_epoch /\ z.reply = sen[s].reply
      /\ z.failover_epoch = z.current_epoch
  <2> DEFINE x == sen[s]
  <2>1. z = [x EXCEPT !.state = "wait_start", !.current_epoch = x.current_epoch + 1,
                      !.failover_epoch = x.current_epoch + 1, !.delayed = TRUE]
    BY <1>0, <1>1 DEF sentinelStartFailover, Memory
  <2>2. x \in Memory /\ x.current_epoch + 1 \in Nat BY <1>0, <1>1, SMT
  <2> HIDE DEF z, x
  <2>3. /\ z \in Memory /\ z.promoted = x.promoted /\ z.state = "wait_start"
        /\ z.addr = x.addr /\ z.reconf = x.reconf /\ z.leader = x.leader
        /\ z.leader_epoch = x.leader_epoch /\ z.reply = x.reply
        /\ z.failover_epoch = z.current_epoch
    BY <2>1, <2>2 DEF Memory, States
  <2> QED BY <2>3 DEF x
<1> HIDE DEF z
<1>3. /\ y \in Memory /\ y.promoted = z.promoted /\ y.state = z.state
      /\ y.addr = z.addr /\ y.reconf = z.reconf /\ y.leader = z.leader
      /\ y.leader_epoch = z.leader_epoch /\ y.reply = z.reply
      /\ y.failover_epoch = z.failover_epoch /\ y.current_epoch = z.current_epoch
  BY <1>2 DEF Memory
<1>4. sen' = [sen EXCEPT ![s] = y] BY DEF FailoverCommand, z
<1> HIDE DEF y
<1>5. y.failover_epoch <= y.current_epoch BY <1>2, <1>3, SMT DEF Memory
<1>6. Ballots(s, y, votes) BY <1>2, <1>3, <1>5 DEF SentinelInv, Ballots
<1>7. Shape(y) BY <1>0, <1>2, <1>3, SMT DEF SentinelInv, Shape, Chosen, Telling
<1>8. sentinelGetCurrentMasterAddress(y) = sentinelGetCurrentMasterAddress(sen[s])
  BY <1>0, <1>2, <1>3, AnnouncedIs DEF Telling
<1>9. link' \in [Pairs -> Asked \cup {None}] BY DEF FailoverCommand, SentinelInv, Types
<1> QED BY <1>2, <1>3, <1>4, <1>6, <1>7, <1>8, <1>9, MemoryStep DEF FailoverCommand

\* After a restart the vote is forgotten, but not its epoch: the Sentinel does
\* not vote again in it.
LEMMA RestartKeeps ==
  ASSUME SentinelInv, NEW s \in Sentinels, Restart(s)
  PROVE  SentinelInv' /\ \A t \in Sentinels : Forward(t)
<1> DEFINE f == disk[s]
           y == Loaded(f)
           c == IF f.config_epoch > f.current_epoch THEN f.config_epoch ELSE f.current_epoch
<1>0. f \in File /\ sen[s] \in Memory /\ FileAgrees(sen[s], f) BY DEF SentinelInv, Types
<1>1. CreateState \in Memory
  BY SentinelAssumption DEF CreateState, Memory, NoReconf, NoReply, Reply, States
<1>2. c \in Nat /\ f.config_epoch \in Nat /\ f.addr \in Instances /\ f.leader_epoch \in Nat
  BY <1>0 DEF File
<1>3. y = [CreateState EXCEPT !.current_epoch = c, !.config_epoch = f.config_epoch,
                              !.addr = f.addr, !.leader_epoch = f.leader_epoch]
  BY DEF Loaded
<1>4. sen' = [sen EXCEPT ![s] = y] BY DEF Restart
<1> HIDE DEF f, y, c
<1>5. /\ y \in Memory /\ y.promoted = None /\ y.state = "none" /\ y.addr = f.addr
      /\ y.reconf = NoReconf /\ y.leader = None /\ y.leader_epoch = f.leader_epoch
      /\ y.reply = [t \in Sentinels |-> NoReply] /\ y.failover_epoch = 0
      /\ y.current_epoch = c
  <2>1. /\ y \in Memory /\ y.promoted = CreateState.promoted /\ y.state = CreateState.state
        /\ y.addr = f.addr /\ y.reconf = CreateState.reconf /\ y.leader = CreateState.leader
        /\ y.leader_epoch = f.leader_epoch /\ y.reply = CreateState.reply
        /\ y.failover_epoch = CreateState.failover_epoch /\ y.current_epoch = c
    BY <1>1, <1>2, <1>3 DEF Memory
  <2> QED BY <2>1 DEF CreateState
<1>6. f.leader_epoch = sen[s].leader_epoch /\ f.addr = sentinelGetCurrentMasterAddress(sen[s])
  BY <1>0 DEF FileAgrees
<1>7. y.failover_epoch <= y.current_epoch BY <1>2, <1>5, SMT
<1>8. \A t \in Sentinels : y.reply[t].leader = None BY <1>5, SMT DEF NoReply
<1>9. Ballots(s, y, votes) BY <1>5, <1>6, <1>7, <1>8 DEF SentinelInv, Ballots
<1>10. Shape(y) BY <1>2, <1>5, SentinelAssumption DEF Shape, NoReconf, Chosen
<1>11. sentinelGetCurrentMasterAddress(y) = f.addr BY <1>5, AnnouncedIs
<1>12. link' \in [Pairs -> Asked \cup {None}] BY DEF Restart, SentinelInv, Types
<1> QED BY <1>4, <1>5, <1>6, <1>9, <1>10, <1>11, <1>12, MemoryStep DEF Restart

LEMMA BreakKeeps ==
  ASSUME SentinelInv, NEW s \in Sentinels, NEW t \in Others(s), LinkBreaks(s, t)
  PROVE  SentinelInv' /\ \A u \in Sentinels : Forward(u)
<1>1. link' \in [Pairs -> Asked \cup {None}] BY DEF LinkBreaks, SentinelInv, Types, Pairs, Others
<1>2. Types' BY <1>1 DEF LinkBreaks, SentinelInv, Types
<1>3. SentinelInv' BY <1>2 DEF LinkBreaks, SentinelInv
<1> QED BY <1>3 DEF LinkBreaks, Forward

-----------------------------------------------------------------------------
\* A step of s that leaves n keeps the invariant, and moves only s.
LEMMA LeaveStep ==
  ASSUME SentinelInv, NEW s \in Sentinels, NEW n, Sound(s, n), Grows(s, Local(s), n),
         Leave(s, n), link' \in [Pairs -> Asked \cup {None}],
         \/ sentinelGetCurrentMasterAddress(n.x) = sentinelGetCurrentMasterAddress(sen[s])
         \/ n.x.config_epoch > sen[s].config_epoch
         \/ /\ sen[s].state = "wait_promotion" /\ n.x.state = "reconf_slaves"
            /\ n.x.addr = sen[s].addr /\ n.x.config_epoch = sen[s].failover_epoch
  PROVE  SentinelInv' /\ \A t \in Sentinels : Forward(t)
<1>1. SentinelInv' BY LeaveKeeps
<1>2. ASSUME NEW t \in Sentinels PROVE Forward(t)
  <2>1. CASE t = s
    <3>1. sen'[t] = n.x BY <2>1 DEF Leave, SentinelInv, Types
    <3> QED BY <3>1, <2>1 DEF Forward
  <2>2. CASE t # s
    <3>1. sen'[t] = sen[t] BY <2>2 DEF Leave, SentinelInv, Types
    <3> QED BY <3>1 DEF Forward
  <2> QED BY <2>1, <2>2
<1> QED BY <1>1, <1>2

\* A hello message: a newer epoch is written down, a newer configuration
\* resets the master, or is only noted when it names the same master.
LEMMA EpochKeeps ==
  ASSUME NEW s \in Sentinels, NEW m, Sound(s, m), NEW h, h.current_epoch \in Nat
  PROVE  Steps(s, m, LearnEpoch(h, m)) /\ LearnEpoch(h, m).x.config_epoch = m.x.config_epoch
         /\ LearnEpoch(h, m).v = m.v
<1>m. m \in Work /\ m.x \in Memory BY DEF Sound, Work
<1>1. CASE h.current_epoch > m.x.current_epoch
  <2> DEFINE y == [m.x EXCEPT !.current_epoch = h.current_epoch]
             a == [m EXCEPT !.x.current_epoch = h.current_epoch]
             n == LearnEpoch(h, m)
  <2>1. y \in Memory /\ y.state = m.x.state /\ y.promoted = m.x.promoted /\ y.addr = m.x.addr
        /\ y.reconf = m.x.reconf /\ y.failover_epoch = m.x.failover_epoch
        /\ y.current_epoch = h.current_epoch /\ y.leader = m.x.leader
        /\ y.leader_epoch = m.x.leader_epoch /\ y.reply = m.x.reply
        /\ y.config_epoch = m.x.config_epoch
    BY <1>m DEF Memory
  <2>2. a \in Work /\ a.x = y /\ a.f = m.f /\ a.v = m.v /\ a.e = m.e /\ a.r = m.r
    BY <1>m, <2>1 DEF Work
  <2>3. n = sentinelFlushConfig(a) BY <1>1 DEF LearnEpoch
  <2> HIDE DEF y, a, n
  <2>4. /\ n \in Work /\ n.x = y /\ n.f = Saved(y) /\ n.v = m.v /\ n.e = m.e
        /\ FileAgrees(y, Saved(y))
    BY <2>2, <2>3, Flushes, SMT
  <2>5. y.failover_epoch <= y.current_epoch
    BY <1>m, <1>1, <2>1, SMT DEF Memory, Sound, Ballots
  <2>6. Ballots(s, y, m.v) BY <2>1, <2>5 DEF Sound, Ballots
  <2>7. Shape(y) BY <2>1 DEF Sound, Shape
  <2>8. sentinelGetCurrentMasterAddress(y) = sentinelGetCurrentMasterAddress(m.x)
    BY <2>1 DEF sentinelGetCurrentMasterAddress
  <2>9. Sound(s, n) BY <2>4, <2>6, <2>7 DEF Sound
  <2>10. Steps(s, m, n) BY <2>4, <2>8, <2>9 DEF Steps, Grows
  <2> QED BY <2>1, <2>4, <2>10 DEF n
<1>2. CASE ~(h.current_epoch > m.x.current_epoch)
  BY <1>2 DEF LearnEpoch, Steps, Grows
<1> QED BY <1>1, <1>2

LEMMA ConfigKeeps ==
  ASSUME NEW s \in Sentinels, NEW m, Sound(s, m), NEW h, h.config_epoch \in Nat,
         h.addr \in Instances
  PROVE  LET n == LearnConfig(h, m)
         IN  /\ Sound(s, n) /\ n.v = m.v
             /\ \/ n.x.config_epoch > m.x.config_epoch
                \/ sentinelGetCurrentMasterAddress(n.x) = sentinelGetCurrentMasterAddress(m.x)
<1> DEFINE n == LearnConfig(h, m)
           y == [m.x EXCEPT !.config_epoch = h.config_epoch]
           a == [m EXCEPT !.x.config_epoch = h.config_epoch]
<1>m. m \in Work /\ m.x \in Memory BY DEF Sound, Work
<1>1. CASE ~Supersedes(h, m.x) BY <1>1 DEF LearnConfig
<1>2. CASE Supersedes(h, m.x)
  <2>1. y \in Memory /\ y.state = m.x.state /\ y.promoted = m.x.promoted /\ y.addr = m.x.addr
        /\ y.reconf = m.x.reconf /\ y.failover_epoch = m.x.failover_epoch
        /\ y.current_epoch = m.x.current_epoch /\ y.leader = m.x.leader
        /\ y.leader_epoch = m.x.leader_epoch /\ y.reply = m.x.reply
        /\ y.config_epoch = h.config_epoch
    BY <1>m DEF Memory
  <2>2. a \in Work /\ a.x = y /\ a.f = m.f /\ a.v = m.v /\ a.e = m.e /\ a.r = m.r
    BY <1>m, <2>1 DEF Work
  <2>3. n = a \/ n = sentinelResetMasterAndChangeAddress(a, h.addr)
    BY <1>2 DEF LearnConfig
  <2> HIDE DEF y, a, n
  <2>4. sentinelGetCurrentMasterAddress(y) = sentinelGetCurrentMasterAddress(m.x)
    BY <2>1 DEF sentinelGetCurrentMasterAddress
  <2>5. Ballots(s, y, m.v) BY <2>1 DEF Sound, Ballots
  <2>6. Shape(y) BY <2>1 DEF Sound, Shape
  <2>7. FileAgrees(y, m.f) BY <2>1, <2>4 DEF Sound, FileAgrees
  <2>8. Sound(s, a) BY <2>2, <2>5, <2>6, <2>7 DEF Sound
  <2>9. CASE n = a
    BY <2>9, <2>8, <2>2, <2>4 DEF n
  <2>10. CASE n = sentinelResetMasterAndChangeAddress(a, h.addr)
    <3>1. Sound(s, n) /\ n.v = a.v /\ n.x.config_epoch = a.x.config_epoch
      BY <2>10, <2>8, ResetKeeps
    <3>2. n.x.config_epoch > m.x.config_epoch BY <3>1, <2>1, <2>2, <1>2 DEF Supersedes
    <3> QED BY <3>1, <3>2, <2>2 DEF n
  <2> QED BY <2>3, <2>9, <2>10
<1> QED BY <1>1, <1>2

LEMMA HelloKeeps ==
  ASSUME SentinelInv, NEW s \in Sentinels, NEW t \in Others(s),
         sentinelProcessHelloMessage(s, t)
  PROVE  SentinelInv' /\ \A u \in Sentinels : Forward(u)
<1> DEFINE h == sentinelSendHello(sen[t])
           l == Local(s)
           m == LearnEpoch(h, l)
           n == LearnConfig(h, m)
<1>1. sen[t] \in Memory BY DEF SentinelInv, Types, Others
<1>2. h.current_epoch \in Nat /\ h.config_epoch \in Nat /\ h.addr \in Instances
  <2>1. sentinelGetCurrentMasterAddress(sen[t]) \in Instances BY <1>1, AnnouncedIs
  <2> QED BY <1>1, <2>1 DEF sentinelSendHello, Memory
<1>3. Leave(s, n) /\ link' = link BY DEF sentinelProcessHelloMessage
<1>4. Sound(s, l) /\ l.x = sen[s] BY LocalSound
<1> HIDE DEF h, l
<1>5. Steps(s, l, m) /\ m.x.config_epoch = l.x.config_epoch /\ m.v = l.v
  BY <1>2, <1>4, EpochKeeps
<1> HIDE DEF m
<1>6. /\ Sound(s, n) /\ n.v = m.v
      /\ \/ n.x.config_epoch > m.x.config_epoch
         \/ sentinelGetCurrentMasterAddress(n.x) = sentinelGetCurrentMasterAddress(m.x)
  BY <1>2, <1>5, ConfigKeeps DEF Steps
<1> HIDE DEF n
<1>7. Grows(s, l, n) BY <1>5, <1>6 DEF Grows
<1>8. \/ sentinelGetCurrentMasterAddress(n.x) = sentinelGetCurrentMasterAddress(sen[s])
      \/ n.x.config_epoch > sen[s].config_epoch
  BY <1>4, <1>5, <1>6 DEF Steps
<1>9. link' \in [Pairs -> Asked \cup {None}] BY <1>3 DEF SentinelInv, Types
<1> QED BY <1>3, <1>6, <1>7, <1>8, <1>9, LeaveStep DEF l


\* An INFO reply: SLAVEOF changes the instances only, a replica moves on from a
\* mark it has, and the promotion of the chosen replica is written down.
LEMMA MarkKeeps ==
  ASSUME NEW s \in Sentinels, NEW m, Sound(s, m), NEW i \in Instances,
         NEW mark \in {"no", "sent", "inprog", "done"},
         mark # "no" => m.x.reconf[i] # "no"
  PROVE  Steps(s, m, [m EXCEPT !.x.reconf[i] = mark])
<1> DEFINE y == [m.x EXCEPT !.reconf[i] = mark]
           n == [m EXCEPT !.x.reconf[i] = mark]
<1>m. m \in Work /\ m.x \in Memory BY DEF Sound, Work
<1>1. y \in Memory /\ y.state = m.x.state /\ y.promoted = m.x.promoted /\ y.addr = m.x.addr
      /\ y.reconf = [m.x.reconf EXCEPT ![i] = mark]
      /\ y.failover_epoch = m.x.failover_epoch
      /\ y.current_epoch = m.x.current_epoch /\ y.leader = m.x.leader
      /\ y.leader_epoch = m.x.leader_epoch /\ y.reply = m.x.reply
  BY <1>m DEF Memory
<1>2. n \in Work /\ n.x = y /\ n.f = m.f /\ n.v = m.v /\ n.e = m.e
  BY <1>m, <1>1 DEF Work
<1> HIDE DEF y, n
<1>3. NoNewBallots(m.x, y) BY <1>1 DEF NoNewBallots, Sound, Ballots
<1>4. Shape(y)
  <2>1. m.x.reconf \in [Instances -> {"no", "sent", "inprog", "done"}] BY <1>m DEF Memory
  <2>2. \A j \in Instances : y.reconf[j] # "no" => m.x.reconf[j] # "no" BY <1>1, <2>1
  <2> QED BY <1>1, <2>2 DEF Sound, Shape
<1>5. sentinelGetCurrentMasterAddress(y) = sentinelGetCurrentMasterAddress(m.x)
  BY <1>1 DEF sentinelGetCurrentMasterAddress
<1>6. Steps(s, m, n) BY <1>2, <1>3, <1>4, <1>5, StepsBy
<1> QED BY <1>6 DEF n

LEMMA PromotedKeeps ==
  ASSUME NEW s \in Sentinels, NEW m, Sound(s, m), m.x.state = "wait_promotion"
  PROVE  LET n == Promoted(m)
         IN  /\ Sound(s, n) /\ n.v = m.v /\ n.x.state = "reconf_slaves"
             /\ n.x.addr = m.x.addr /\ n.x.config_epoch = m.x.failover_epoch
<1> DEFINE y == [m.x EXCEPT !.config_epoch = m.x.failover_epoch, !.state = "reconf_slaves"]
           a == [m EXCEPT !.x.config_epoch = m.x.failover_epoch, !.x.state = "reconf_slaves"]
           n == Promoted(m)
<1>m. m \in Work /\ m.x \in Memory BY DEF Sound, Work
<1>1. m.x.failover_epoch \in Nat BY <1>m DEF Memory
<1>2. y \in Memory /\ y.state = "reconf_slaves" /\ y.promoted = m.x.promoted
      /\ y.addr = m.x.addr /\ y.reconf = m.x.reconf /\ y.failover_epoch = m.x.failover_epoch
      /\ y.current_epoch = m.x.current_epoch /\ y.leader = m.x.leader
      /\ y.leader_epoch = m.x.leader_epoch /\ y.reply = m.x.reply
      /\ y.config_epoch = m.x.failover_epoch
  BY <1>m, <1>1 DEF Memory, States
<1>3. a \in Work /\ a.x = y /\ a.v = m.v /\ a.e = m.e
  BY <1>m, <1>2 DEF Work
<1>4. n = sentinelFlushConfig(a) BY DEF Promoted
<1> HIDE DEF y, a, n
<1>5. /\ n \in Work /\ n.x = y /\ n.f = Saved(y) /\ n.v = m.v /\ n.e = m.e
      /\ FileAgrees(y, Saved(y))
  BY <1>3, <1>4, Flushes, SMT
<1>6. Ballots(s, y, m.v) BY <1>2 DEF Sound, Ballots
<1>7. Shape(y) BY <1>2 DEF Sound, Shape, Chosen, Telling
<1>8. Sound(s, n) BY <1>5, <1>6, <1>7 DEF Sound
<1> QED BY <1>2, <1>5, <1>8 DEF n

LEMMA InfoKeeps ==
  ASSUME SentinelInv, NEW s \in Sentinels, NEW i \in Slaves(sen[s]), NEW sure, NEW up,
         sentinelRefreshInstanceInfo(s, i, sure, up)
  PROVE  SentinelInv' /\ \A t \in Sentinels : Forward(t)
<1> DEFINE l == Local(s)
           x == sen[s]
           told == sentinelSendSlaveOf(l, i, x.addr)
           mark == Reconfigured(x, i, up)
<1>1. PICK m \in {l, told} :
        /\ \/ Leave(s, [m EXCEPT !.x.reconf[i] = mark])
           \/ x.state = "wait_promotion" /\ Leave(s, Promoted(m))
           \/ Leave(s, m)
        /\ link' = link
  BY DEF sentinelRefreshInstanceInfo
<1>2. i \in Instances BY DEF Slaves
<1>3. Sound(s, l) /\ l.x = x /\ l \in Work BY LocalSound
<1>4. x \in Memory BY DEF SentinelInv, Types
<1> HIDE DEF l
<1>5. Sound(s, m) /\ m.x = x /\ m.v = l.v
  <2>1. CASE m = told
    <3>1. m \in Work /\ m.x = l.x /\ m.f = l.f /\ m.v = l.v /\ m.e = l.e
      BY <2>1, <1>2, <1>3, <1>4 DEF sentinelSendSlaveOf, Work, Memory
    <3> QED BY <1>3, <3>1 DEF Sound
  <2>2. CASE m = l BY <1>3, <2>2
  <2> QED BY <2>1, <2>2
<1>6. mark \in {"no", "sent", "inprog", "done"} /\ (mark # "no" => x.reconf[i] # "no")
  BY <1>2, <1>4 DEF Reconfigured, Memory
<1>7. link' \in [Pairs -> Asked \cup {None}] BY <1>1 DEF SentinelInv, Types
<1> HIDE DEF x, mark, told
<1>8. CASE Leave(s, [m EXCEPT !.x.reconf[i] = mark])
  <2> DEFINE n == [m EXCEPT !.x.reconf[i] = mark]
  <2>1. Steps(s, m, n) BY <1>2, <1>5, <1>6, MarkKeeps
  <2> HIDE DEF n
  <2>2. Sound(s, n) /\ Grows(s, l, n) BY <2>1, <1>5 DEF Steps, Grows
  <2>3. sentinelGetCurrentMasterAddress(n.x) = sentinelGetCurrentMasterAddress(x)
    BY <2>1, <1>5 DEF Steps
  <2>4. Leave(s, n) BY <1>8 DEF n
  <2> QED BY <2>2, <2>3, <2>4, <1>7, LeaveStep DEF l, x
<1>9. CASE x.state = "wait_promotion" /\ Leave(s, Promoted(m))
  <2> DEFINE n == Promoted(m)
  <2>1. /\ Sound(s, n) /\ n.v = m.v /\ n.x.state = "reconf_slaves"
        /\ n.x.addr = m.x.addr /\ n.x.config_epoch = m.x.failover_epoch
    BY <1>5, <1>9, PromotedKeeps
  <2>4. Leave(s, n) BY <1>9
  <2> HIDE DEF n
  <2>2. Grows(s, l, n) BY <2>1, <1>5 DEF Grows
  <2>3. /\ x.state = "wait_promotion" /\ n.x.state = "reconf_slaves"
        /\ n.x.addr = x.addr /\ n.x.config_epoch = x.failover_epoch
    BY <2>1, <1>5, <1>9
  <2> QED BY <2>1, <2>2, <2>3, <2>4, <1>7, LeaveStep DEF l, x
<1>10. CASE Leave(s, m)
  <2>1. Grows(s, l, m) BY <1>5 DEF Grows
  <2>2. sentinelGetCurrentMasterAddress(m.x) = sentinelGetCurrentMasterAddress(x) BY <1>5
  <2> QED BY <1>5, <2>1, <2>2, <1>10, <1>7, LeaveStep DEF l, x
<1> QED BY <1>1, <1>8, <1>9, <1>10


\* The answer to is-master-down-by-addr: what it tells of a vote was voted.
LEMMA AnswerSound ==
  ASSUME NEW t \in Sentinels, NEW m, Sound(t, m), NEW q \in Asked, NEW tilt \in BOOLEAN
  PROVE  LET o == IsMasterDownByAddr(q, m, t, tilt)
         IN  /\ Sound(t, o[1]) /\ Grows(t, m, o[1])
             /\ sentinelGetCurrentMasterAddress(o[1].x) = sentinelGetCurrentMasterAddress(m.x)
             /\ o[2] \in Reply
             /\ o[2].leader # None => <<t, o[2].leader_epoch, o[2].leader>> \in o[1].v
<1> DEFINE known == q.addr = m.x.addr
           a == IF known /\ q.runid # None
                THEN sentinelVoteLeader(m, t, q.epoch, q.runid) ELSE m
           told == known /\ q.runid # None /\ a.x.leader # None
           b == [down |-> ~tilt /\ known /\ m.x.sdown,
                 leader |-> IF told THEN a.x.leader ELSE None,
                 leader_epoch |-> IF told THEN a.x.leader_epoch ELSE 0]
           o == IsMasterDownByAddr(q, m, t, tilt)
<1>1. o = <<a, b>> BY DEF IsMasterDownByAddr
<1>2. o[1] = a /\ o[2] = b BY <1>1, SMT
<1>m. m.x \in Memory BY DEF Sound, Work
<1>3. /\ Sound(t, a) /\ Grows(t, m, a)
      /\ a.x.state = m.x.state /\ a.x.promoted = m.x.promoted /\ a.x.addr = m.x.addr
  <2>1. CASE known /\ q.runid # None
    <3>1. q.epoch \in Nat /\ q.runid \in Sentinels BY <2>1 DEF Asked
    <3>2. a = sentinelVoteLeader(m, t, q.epoch, q.runid) BY <2>1
    <3> HIDE DEF a
    <3> QED BY <3>1, <3>2, VoteKeeps, SMT
  <2>2. CASE ~(known /\ q.runid # None) BY <2>2 DEF Grows
  <2> QED BY <2>1, <2>2
<1> HIDE DEF o, a
<1>4. a.x \in Memory BY <1>3 DEF Sound, Work
<1>5. sentinelGetCurrentMasterAddress(a.x) = sentinelGetCurrentMasterAddress(m.x)
  BY <1>3 DEF sentinelGetCurrentMasterAddress
<1>6. b \in Reply BY <1>m, <1>4 DEF Reply, Memory
<1>7. b.leader # None => <<t, b.leader_epoch, b.leader>> \in a.v
  BY <1>3 DEF Sound, Ballots
<1> HIDE DEF b
<1>8. /\ Sound(t, o[1]) /\ Grows(t, m, o[1])
      /\ sentinelGetCurrentMasterAddress(o[1].x) = sentinelGetCurrentMasterAddress(m.x)
      /\ o[2] \in Reply
      /\ o[2].leader # None => <<t, o[2].leader_epoch, o[2].leader>> \in o[1].v
  BY <1>2, <1>3, <1>5, <1>6, <1>7
<1> QED BY <1>8 DEF o

LEMMA ReceiveKeeps ==
  ASSUME NEW s \in Sentinels, NEW t \in Sentinels, NEW x \in Memory, NEW v, NEW b \in Reply,
         Ballots(s, x, v), Shape(x), b.leader # None => <<t, b.leader_epoch, b.leader>> \in v
  PROVE  LET y == sentinelReceiveIsMasterDownReply(x, t, b)
         IN  /\ y \in Memory /\ Ballots(s, y, v) /\ Shape(y)
             /\ y.leader_epoch = x.leader_epoch
             /\ sentinelGetCurrentMasterAddress(y) = sentinelGetCurrentMasterAddress(x)
<1> DEFINE y == sentinelReceiveIsMasterDownReply(x, t, b)
           c == IF b.leader = None THEN [x.reply[t] EXCEPT !.down = b.down] ELSE b
<1>1. x.reply \in [Sentinels -> Reply] BY DEF Memory
<1>2. c \in Reply BY <1>1 DEF Reply
<1>3. c.leader # None => <<t, c.leader_epoch, c.leader>> \in v
  <2>1. x.reply[t] \in Reply BY <1>1
  <2>2. CASE b.leader = None
    <3>1. c.leader = x.reply[t].leader /\ c.leader_epoch = x.reply[t].leader_epoch
      BY <2>1, <2>2 DEF Reply
    <3> QED BY <3>1 DEF Ballots
  <2>3. CASE b.leader # None BY <2>3
  <2> QED BY <2>2, <2>3
<1>4. y = [x EXCEPT !.reply = [x.reply EXCEPT ![t] = c]]
  BY <1>1 DEF sentinelReceiveIsMasterDownReply, Memory
<1> HIDE DEF y, c
<1>5. /\ y \in Memory /\ y.state = x.state /\ y.promoted = x.promoted /\ y.addr = x.addr
      /\ y.reconf = x.reconf /\ y.failover_epoch = x.failover_epoch
      /\ y.current_epoch = x.current_epoch /\ y.leader = x.leader
      /\ y.leader_epoch = x.leader_epoch /\ y.reply = [x.reply EXCEPT ![t] = c]
  BY <1>1, <1>2, <1>4 DEF Memory
<1>6. \A u \in Sentinels : y.reply[u] = IF u = t THEN c ELSE x.reply[u] BY <1>1, <1>5
<1>7. \A u \in Sentinels : y.reply[u].leader # None
        => <<u, y.reply[u].leader_epoch, y.reply[u].leader>> \in v
  BY <1>3, <1>6 DEF Ballots
<1>8. Ballots(s, y, v) BY <1>5, <1>7 DEF Ballots
<1>9. Shape(y) BY <1>5 DEF Shape
<1>10. sentinelGetCurrentMasterAddress(y) = sentinelGetCurrentMasterAddress(x)
  BY <1>5 DEF sentinelGetCurrentMasterAddress
<1> QED BY <1>5, <1>8, <1>9, <1>10 DEF y

LEMMA AnswerKeeps ==
  ASSUME SentinelInv, NEW s \in Sentinels, NEW t \in Others(s), NEW tilt \in BOOLEAN,
         NEW lost \in BOOLEAN, Answer(s, t, tilt, lost)
  PROVE  SentinelInv' /\ \A u \in Sentinels : Forward(u)
<1> DEFINE q == link[<<s, t>>]
           o == IsMasterDownByAddr(q, Local(t), t, tilt)
           a == o[1]
           b == o[2]
           z == IF lost THEN sen[s] ELSE sentinelReceiveIsMasterDownReply(sen[s], t, b)
<1>0. t \in Sentinels /\ t # s BY DEF Others
<1>1. q \in Asked
  <2>1. <<s, t>> \in Pairs BY <1>0 DEF Pairs
  <2> QED BY <2>1 DEF Answer, SentinelInv, Types
<1>2. /\ Sound(t, a) /\ Grows(t, Local(t), a)
      /\ sentinelGetCurrentMasterAddress(a.x) = sentinelGetCurrentMasterAddress(sen[t])
      /\ b \in Reply /\ (b.leader # None => <<t, b.leader_epoch, b.leader>> \in a.v)
  BY <1>0, <1>1, LocalSound, AnswerSound, SMTT(30)
<1>3. Local(t).v = votes BY DEF Local
<1>4. /\ sen' = [sen EXCEPT ![t] = a.x, ![s] = z]
      /\ disk' = [disk EXCEPT ![t] = a.f] /\ votes' = a.v
      /\ link' = [link EXCEPT ![<<s, t>>] = None]
      /\ redis' = redis /\ elected' = elected
  BY <1>0 DEF Answer, SentinelInv, Types
<1> HIDE DEF a, b, o
<1>5. votes \subseteq a.v /\ \A u \in a.v \ votes : u[1] = t BY <1>2, <1>3 DEF Grows
<1>6. a.x \in Memory /\ a.f \in File /\ a.v \in SUBSET Vote BY <1>2 DEF Sound, Work
<1>7. ASSUME NEW u \in Sentinels, u # t PROVE Ballots(u, sen[u], a.v)
  <2>1. Ballots(u, sen[u], votes) BY DEF SentinelInv
  <2> QED BY <2>1, <1>5, <1>7 DEF Ballots
<1>8. /\ z \in Memory /\ Ballots(s, z, a.v) /\ Shape(z) /\ z.leader_epoch = sen[s].leader_epoch
      /\ sentinelGetCurrentMasterAddress(z) = sentinelGetCurrentMasterAddress(sen[s])
  <2>1. sen[s] \in Memory /\ Shape(sen[s]) BY DEF SentinelInv, Types
  <2>2. Ballots(s, sen[s], a.v) BY <1>0, <1>7
  <2>3. CASE lost BY <2>1, <2>2, <2>3
  <2>4. CASE ~lost BY <1>0, <1>2, <2>1, <2>2, <2>4, ReceiveKeeps, SMT
  <2> QED BY <2>3, <2>4
<1> HIDE DEF z
<1>9. Types'
  <2>1. link' \in [Pairs -> Asked \cup {None}] BY <1>4 DEF SentinelInv, Types
  <2>2. sen' \in [Sentinels -> Memory] /\ disk' \in [Sentinels -> File]
    BY <1>4, <1>6, <1>8 DEF SentinelInv, Types
  <2> QED BY <1>4, <1>6, <2>1, <2>2 DEF SentinelInv, Types
<1>10. /\ sen'[t] = a.x /\ sen'[s] = z /\ \A u \in Sentinels \ {s, t} : sen'[u] = sen[u]
       /\ disk'[t] = a.f /\ \A u \in Sentinels \ {t} : disk'[u] = disk[u]
  BY <1>0, <1>4 DEF SentinelInv, Types
<1>11. ASSUME NEW u \in Sentinels
       PROVE  /\ Ballots(u, sen'[u], votes') /\ FileAgrees(sen'[u], disk'[u])
              /\ Shape(sen'[u]) /\ Forward(u)
  <2>0. FileAgrees(sen[u], disk[u]) /\ Shape(sen[u]) BY DEF SentinelInv
  <2>1. CASE u = t
    <3>1. Forward(t) BY <1>2, <1>10 DEF Forward
    <3> QED BY <2>1, <1>2, <1>4, <1>10, <3>1 DEF Sound
  <2>2. CASE u = s
    <3>1. FileAgrees(z, disk[s]) BY <1>8, <2>0, <2>2 DEF FileAgrees
    <3>2. Forward(s) BY <1>8, <1>10 DEF Forward
    <3> QED BY <2>2, <1>0, <1>4, <1>8, <1>10, <3>1, <3>2
  <2>3. CASE u \notin {s, t}
    <3>1. Forward(u) BY <1>10, <2>3 DEF Forward
    <3> QED BY <2>0, <2>3, <1>4, <1>7, <1>10, <3>1
  <2> QED BY <2>1, <2>2, <2>3
<1>12. Unique(votes') /\ Backed(elected', votes')
  <2>1. Local(t).e = elected BY DEF Local
  <2>2. Backed(elected, a.v) BY <1>5 DEF SentinelInv, Backed
  <2> QED BY <1>2, <1>4, <2>2 DEF Sound
<1> QED BY <1>9, <1>11, <1>12 DEF SentinelInv

-----------------------------------------------------------------------------
LEMMA InitSound ==
  ASSUME Init
  PROVE  SentinelInv
<1>1. CreateState \in Memory
  BY SentinelAssumption DEF CreateState, Memory, NoReconf, NoReply, Reply, States
<1>2. sentinelGetCurrentMasterAddress(CreateState) = FirstMaster
  BY <1>1, AnnouncedIs DEF CreateState
<1>3. Saved(CreateState) \in File /\ FileAgrees(CreateState, Saved(CreateState))
  BY <1>1, <1>2, SentinelAssumption DEF Saved, File, FileAgrees, Memory
<1>4. Types BY <1>1, <1>3, SentinelAssumption DEF Init, Types, Pairs
<1>5. Shape(CreateState)
  BY SentinelAssumption DEF Shape, CreateState, NoReconf, Chosen
<1>6. \A s \in Sentinels : Ballots(s, CreateState, {})
  BY SMT DEF Ballots, CreateState, NoReply
<1>7. Unique({}) /\ Backed({}, {}) BY DEF Unique, Backed
<1>8. \A s \in Sentinels : sen[s] = CreateState /\ disk[s] = Saved(CreateState)
  BY DEF Init
<1> QED BY <1>3, <1>4, <1>5, <1>6, <1>7, <1>8 DEF SentinelInv, Init

LEMMA StepSound ==
  ASSUME SentinelInv, [Next]_vars
  PROVE  SentinelInv' /\ \A t \in Sentinels : Forward(t)
<1>1. CASE Next
  <2>1. PICK s \in Sentinels :
          \/ Timer(s) \/ DelayPasses(s) \/ FailoverCommand(s) \/ Restart(s)
          \/ \E i \in Slaves(sen[s]), sure, up \in BOOLEAN :
                sentinelRefreshInstanceInfo(s, i, sure, up)
          \/ \E t \in Others(s) :
                \/ \E tilt, lost \in BOOLEAN : Answer(s, t, tilt, lost)
                \/ LinkBreaks(s, t)
                \/ sentinelProcessHelloMessage(s, t)
    BY <1>1 DEF Next
  <2>2. CASE Timer(s) BY <2>2, TimerKeeps
  <2>3. CASE DelayPasses(s) BY <2>3, DelayKeeps
  <2>4. CASE FailoverCommand(s) BY <2>4, CommandKeeps
  <2>5. CASE Restart(s) BY <2>5, RestartKeeps
  <2>6. CASE \E i \in Slaves(sen[s]), sure, up \in BOOLEAN :
               sentinelRefreshInstanceInfo(s, i, sure, up)
    BY <2>6, InfoKeeps
  <2>7. ASSUME NEW t \in Others(s), NEW tilt \in BOOLEAN, NEW lost \in BOOLEAN,
               Answer(s, t, tilt, lost)
        PROVE  SentinelInv' /\ \A u \in Sentinels : Forward(u)
    BY <2>7, AnswerKeeps
  <2>8. ASSUME NEW t \in Others(s), LinkBreaks(s, t)
        PROVE  SentinelInv' /\ \A u \in Sentinels : Forward(u)
    BY <2>8, BreakKeeps
  <2>9. ASSUME NEW t \in Others(s), sentinelProcessHelloMessage(s, t)
        PROVE  SentinelInv' /\ \A u \in Sentinels : Forward(u)
    BY <2>9, HelloKeeps
  <2> QED BY <2>1, <2>2, <2>3, <2>4, <2>5, <2>6, <2>7, <2>8, <2>9
<1>2. CASE UNCHANGED vars
  <2>1. Types' BY <1>2 DEF vars, SentinelInv, Types
  <2>2. SentinelInv' BY <1>2, <2>1 DEF vars, SentinelInv
  <2> QED BY <1>2, <2>2 DEF vars, Forward
<1> QED BY <1>1, <1>2

\* The inductive invariant holds in every reachable state.
THEOREM SentinelCorrect == Spec => []SentinelInv
<1>1. Init => SentinelInv BY InitSound
<1>2. SentinelInv /\ [Next]_vars => SentinelInv' BY StepSound
<1> QED BY <1>1, <1>2, PTL DEF Spec

\* A Sentinel gives one vote in an epoch, across crashes and lost answers
\* (sentinelVoteLeader() writes the epoch of the vote before it answers).
THEOREM OneVoteCorrect == Spec => []OneVotePerEpoch
<1>1. SentinelInv => OneVotePerEpoch BY DEF SentinelInv, Unique, OneVotePerEpoch
<1> QED BY <1>1, SentinelCorrect, PTL

\* Two Sentinels are never elected in one epoch among those that counted the votes
\* of the epoch their failover was started in, whatever the quorum is set to:
\* sentinelGetLeader() wants a majority of all known Sentinels, two majorities
\* share a Sentinel, and that one voted once.  An election that counted the votes
\* of a later epoch has its winner's own vote of the earlier one in its majority.
THEOREM OneLeaderCorrect == Spec => []OneLeaderPerEpoch
<1>1. ASSUME SentinelInv, NEW a \in elected, NEW b \in elected,
             a[1] = a[2], b[1] = b[2], a[1] = b[1]
      PROVE  a[3] = b[3]
  <2>1. PICK P \in SUBSET Sentinels : Majority(P) /\ \A q \in P : <<q, a[1], a[3]>> \in votes
    BY <1>1 DEF SentinelInv, Backed
  <2>2. PICK Q \in SUBSET Sentinels : Majority(Q) /\ \A q \in Q : <<q, b[1], b[3]>> \in votes
    BY <1>1 DEF SentinelInv, Backed
  <2>3. P \cap Q # {}
    <3>1. IsFiniteSet(Sentinels) BY SentinelAssumption
    <3>2. IsFiniteSet(P) /\ IsFiniteSet(Q) BY <3>1, FS_Subset
    <3>3. /\ Cardinality(P) \in Nat /\ Cardinality(Q) \in Nat
          /\ Cardinality(Sentinels) \in Nat
      BY <3>1, <3>2, FS_CardinalityType
    <3>4. Cardinality(P) + Cardinality(Q) > Cardinality(Sentinels)
      BY <2>1, <2>2, <3>3, SMT DEF Majority
    <3> QED BY <3>1, <3>4, FS_MajoritiesIntersect
  <2>4. PICK q \in P \cap Q : TRUE BY <2>3
  <2>5. <<q, a[1], a[3]>> \in votes /\ <<q, b[1], b[3]>> \in votes BY <2>1, <2>2, <2>4
  <2>6. Unique(votes) BY <1>1 DEF SentinelInv
  <2>7. <<q, a[1], a[3]>>[3] = <<q, b[1], b[3]>>[3]
    BY <1>1, <2>5, <2>6 DEF Unique
  <2> QED BY <2>7
<1>2. SentinelInv => OneLeaderPerEpoch BY <1>1 DEF OneLeaderPerEpoch
<1> QED BY <1>2, SentinelCorrect, PTL

\* The failover code never meets a NULL promoted_slave, and no replica is marked
\* as being reconfigured without one (sentinelFailoverSelectSlave(),
\* sentinelAbortFailover(), sentinelResetMaster()).
THEOREM PromotedCorrect == Spec => []PromotedWhileNeeded
<1>1. ASSUME SentinelInv, NEW s \in Sentinels
      PROVE  /\ sen[s].promoted # None <=> StateNumber[sen[s].state] >= 3
             /\ (\E i \in Instances : sen[s].reconf[i] # "no") => sen[s].promoted # None
             /\ sen[s].promoted # sen[s].addr
  <2>1. sen[s].state \in States BY <1>1 DEF SentinelInv, Types, Memory
  <2>2. StateNumber[sen[s].state] >= 3 <=> sen[s].state \in Chosen
    BY <2>1, SMT DEF States, StateNumber, Chosen
  <2>3. Shape(sen[s]) BY <1>1 DEF SentinelInv
  <2>4. Telling \subseteq Chosen BY DEF Telling, Chosen
  <2> QED BY <2>2, <2>3, <2>4 DEF Shape
<1>2. SentinelInv => PromotedWhileNeeded BY <1>1 DEF PromotedWhileNeeded
<1> QED BY <1>2, SentinelCorrect, PTL

\* The announced master changes only with a greater configuration epoch, or by
\* the failover the Sentinel leads itself; never by a restart, since the file
\* names the announced master (rewriteConfigSentinelOption()).
THEOREM MovesForwardCorrect == Spec => MasterMovesForward
<1>1. SentinelInv /\ [Next]_vars
        => [\A s \in Sentinels : Forward(s)]_vars
  BY StepSound
<1>2. (\A s \in Sentinels : Forward(s)) =>
       \A s \in Sentinels :
         sentinelGetCurrentMasterAddress(sen'[s]) # sentinelGetCurrentMasterAddress(sen[s])
         => \/ sen'[s].config_epoch > sen[s].config_epoch
            \/ /\ sen[s].state = "wait_promotion" /\ sen'[s].state = "reconf_slaves"
               /\ sen'[s].addr = sen[s].addr
               /\ sen'[s].config_epoch = sen[s].failover_epoch
  BY DEF Forward
<1> QED BY <1>1, <1>2, SentinelCorrect, PTL DEF Spec, MasterMovesForward

=============================================================================
