---------------------------- MODULE LimitProofs ----------------------------
(***************************************************************************)
(* The two bounds of the pool, for any number of threads, slots and        *)
(* instances and any policy.  The instance limit holds as long as no       *)
(* instance count is read while another process still acts on its own; the *)
(* last worker stays as long as operators destroy none and no two checks   *)
(* run at once.  LimitInv and PoolInv are the inductive invariants.        *)
(***************************************************************************)
EXTENDS ManagerProofs

\* Most leaves are first-order reasoning; those that compute ask for SMT.
USE Zenon

\* Bounds on both sides of a step.
LEMMA LoadKept ==
  \A a, a2 \in Nat, r \in Int :
    a2 <= a => /\ a <= r => a2 <= r
               /\ \A w \in Nat : a + w <= r => a2 + w <= r
BY SMT

LEMMA LoadUp ==
  \A a, a2, w, w2 \in Nat, r \in Int :
    a2 = a + 1 /\ w > 0 /\ w2 = w - 1 /\ a + w <= r => a2 <= r /\ a2 + w2 <= r
BY SMT

LEMMA StartUp ==
  \A a, a2, s, s2, l \in Nat :
    a2 <= a + 1 /\ s2 = s + 1 =>
      /\ a <= l + (s - 1) => a2 <= l + (s2 - 1)
      /\ \A w \in Nat : a + w <= l + (s - 1) => a2 + w <= l + (s2 - 1)
BY SMT

LEMMA PresentType == Present \in Nat /\ Present' \in Nat
<1>1. \A S : Cardinality(InState(S)) \in Nat
  BY InStateFinite
<1>2. \A S : InState(S)' \subseteq Instance
  BY DEF InState
<1>3. \A S : Cardinality(InState(S)') \in Nat
  BY <1>2, InstanceAssumption, FS_Subset, FS_CardinalityType
<1> QED
  BY <1>1, <1>3 DEF Present, get_non_terminated_instances

\* A step that brings no instance back does not raise their number.
LEMMA PresentShrinks ==
  ASSUME get_non_terminated_instances' \subseteq get_non_terminated_instances
  PROVE  Present' <= Present
BY InStateFinite, FS_Subset DEF Present, get_non_terminated_instances

\* create_instances adds exactly one.
LEMMA PresentGrows ==
  ASSUME TypeOK, NEW i \in Instance, Ec2Create(i)
  PROVE  Present' = Present + 1
<1>1. i \notin get_non_terminated_instances
  BY DEF Ec2Create, get_non_terminated_instances, InState
<1>2. get_non_terminated_instances' = get_non_terminated_instances \cup {i}
  BY DEF Ec2Create, get_non_terminated_instances, InState, TypeOK, CloudTypeOK
<1> QED
  BY <1>1, <1>2, InStateFinite, FS_AddElement
     DEF Present, get_non_terminated_instances

-----------------------------------------------------------------------------
\* Most steps leave every count alone: a process keeps what it has read and
\* still wants, or stops wanting, or goes on towards its count.
Harmless ==
  /\ Present' <= Present
  /\ starts' = starts
  /\ overlapped' = overlapped
  /\ pc'[Main] = "create" => pc[Main] = "create" /\ config' \in {config, None}
  /\ \A p \in Proc :
       \/ pc'[p] = pc[p] /\ want'[p] = want[p] /\ total'[p] = total[p]
       \/ pc'[p] \notin {"create", "enqueue"} \cup CheckPc
       \/ pc[p] \in CheckPc /\ pc'[p] \in CheckPc \ {"cpu"}

LEMMA NumberTypes ==
  ASSUME TypeOK
  PROVE  /\ Load \in Nat /\ Load' \in Nat /\ starts \in Nat /\ Limit \in Nat
         /\ want \in [Proc -> Nat] /\ total \in [Proc -> Nat]
         /\ \A n \in Nat : n + (starts - 1) \in Int
<1>1. starts \in Nat /\ Limit \in Nat
  BY LimitAssumption, BoundsAssumption, SMT DEF TypeOK
<1>2. \A n \in Nat : n + (starts - 1) \in Int
  BY <1>1, SMT
<1>3. want \in [Proc -> Nat] /\ total \in [Proc -> Nat]
  BY DEF TypeOK, TaskTypeOK, LocalTypeOK
<1>4. Load \in Nat
  BY PresentType, SMT DEF Load
<1>5. \A n \in Nat : n + 0 \in Nat /\ n + 1 \in Nat
  BY SMT
<1>6. Load' \in Nat
  BY <1>5, PresentType DEF Load
<1> QED
  BY <1>1, <1>2, <1>3, <1>4, <1>6

\* A process that keeps its label and numbers keeps its room.
LEMMA HarmlessKeeps ==
  ASSUME TypeOK, LimitInv, Harmless
  PROVE  LimitInv'
<1>1. \A p \in Proc : Window(p)' => Window(p)
  BY DEF Window, CheckPc, Harmless
<1>2. QuietBoot'
  BY <1>1, ProcFacts DEF QuietBoot, CheckPc, Harmless, LimitInv
<1>3. OneWindow => OneWindow'
  BY <1>1 DEF OneWindow
<1>4. Load' <= Load
  <2>1. \A a, a2 \in Nat : a2 <= a => a2 + 1 <= a + 1 /\ a2 + 0 <= a + 0 /\ a2 + 0 <= a + 1
    BY SMT
  <2> QED
    BY <2>1, PresentType DEF Load, Harmless
<1>5. ASSUME RoomLeft PROVE RoomLeft'
  <2>0. starts' = starts
    BY DEF Harmless
  <2>1. Load' <= Limit + (starts' - 1)
    BY <1>4, <1>5, <2>0, NumberTypes, LoadKept, SMT DEF RoomLeft
  <2>2. ASSUME NEW p \in Proc \ {Main}, pc'[p] \in {"create", "enqueue"}
        PROVE  Load' + want'[p] <= Limit + (starts' - 1)
    <3>1. pc[p] = pc'[p] /\ want'[p] = want[p]
      BY <2>2 DEF CheckPc, Harmless
    <3>2. Load + want[p] <= Limit + (starts - 1)
      BY <1>5, <2>2, <3>1 DEF RoomLeft
    <3>3. want[p] \in Nat
      BY NumberTypes
    <3> QED
      BY <1>4, <2>0, <3>1, <3>2, <3>3, NumberTypes, LoadKept, SMT
  <2>3. ASSUME NEW p \in Proc \ {Main}, pc'[p] = "cpu"
        PROVE  Load' <= total'[p] + (starts' - 1)
    <3>1. pc[p] = "cpu" /\ total'[p] = total[p]
      BY <2>3 DEF CheckPc, Harmless
    <3>2. Load <= total[p] + (starts - 1)
      BY <1>5, <2>3, <3>1 DEF RoomLeft
    <3>3. total[p] \in Nat
      BY NumberTypes
    <3> QED
      BY <1>4, <2>0, <3>1, <3>2, <3>3, NumberTypes, LoadKept, SMT
  <2> QED
    BY <2>1, <2>2, <2>3 DEF RoomLeft
<1> QED
  BY <1>2, <1>3, <1>5 DEF LimitInv, Harmless

-----------------------------------------------------------------------------
(* The harmless steps.                                                     *)

\* A process that finishes wants nothing.
LEMMA FinishHarmless ==
  ASSUME TypeOK, NEW p \in Proc, NEW l \in {"idle", "exited"}, Finish(p, l),
         Present' <= Present, UNCHANGED <<starts, overlapped, config>>
  PROVE  Harmless
BY SMT DEF Finish, Goto, Forget, TypeOK, TaskTypeOK, PcTypeOK, LocalTypeOK, CheckPc,
       Harmless

\* So does one that goes on to a step that neither counts nor creates.
LEMMA GotoHarmless ==
  ASSUME TypeOK, NEW p \in Proc, NEW l, Goto(p, l),
         \/ l \in {"sample", "deregister", "terminate", "stop", "wait", "register"}
         \/ pc[p] \in CheckPc /\ l \in CheckPc \ {"cpu"},
         \A q \in Proc \ {p} : want'[q] = want[q],
         UNCHANGED total,
         Present' <= Present, UNCHANGED <<starts, overlapped, config>>
  PROVE  Harmless
BY SMT DEF Goto, TypeOK, TaskTypeOK, PcTypeOK, CheckPc, Harmless

LEMMA SamePresent ==
  ASSUME UNCHANGED ec2
  PROVE  Present' <= Present
BY PresentShrinks DEF get_non_terminated_instances, InState

LEMMA DestroyHarmless ==
  ASSUME TypeOK, NEW p \in Proc, UNCHANGED managerVars,
         \/ SampleWorkers(p) \/ Deregister(p) \/ Terminate(p)
         \/ WaitRunning(p) \/ RegisterTarget(p)
  PROVE  Harmless
<1> USE DEF managerVars, scalerVars, cloudVars, localVars
<1>0. want \in [Proc -> Nat] /\ ec2 \in [Instance -> Ec2State]
  BY DEF TypeOK, TaskTypeOK, LocalTypeOK, CloudTypeOK
<1>1. CASE SampleWorkers(p)
  <2>1. Present' <= Present
    BY <1>1, SamePresent DEF SampleWorkers
  <2> QED
    BY <1>0, <1>1, <2>1, FinishHarmless, GotoHarmless DEF SampleWorkers, Return
<1>2. CASE Deregister(p)
  <2>1. Present' <= Present
    BY <1>2, SamePresent DEF Deregister
  <2> QED
    BY <1>2, <2>1, GotoHarmless DEF Deregister
<1>3. CASE Terminate(p)
  <2>1. Present' <= Present
    <3>1. get_non_terminated_instances' \subseteq get_non_terminated_instances
      BY <1>0, <1>3
         DEF Terminate, Ec2Terminate, Live, get_non_terminated_instances, InState
    <3> QED
      BY <3>1, PresentShrinks
  <2> QED
    BY <1>3, <2>1, FinishHarmless, GotoHarmless DEF Terminate, Return
<1>4. CASE WaitRunning(p)
  <2>1. Present' <= Present
    BY <1>4, SamePresent DEF WaitRunning
  <2> QED
    BY <1>4, <2>1, FinishHarmless, GotoHarmless DEF WaitRunning, Return
<1>5. CASE RegisterTarget(p)
  <2>1. Present' <= Present
    BY <1>5, SamePresent DEF RegisterTarget
  <2> QED
    BY <1>5, <2>1, FinishHarmless DEF RegisterTarget, Return
<1> QED
  BY <1>1, <1>2, <1>3, <1>4, <1>5

LEMMA TakeMessageHarmless ==
  ASSUME TypeOK, NEW p \in Slot, NEW i \in Instance, TakeMessage(p, i)
  PROVE  Harmless
<1>1. Present' <= Present
  BY SamePresent DEF TakeMessage, StartRegister, cloudVars
<1> QED
  BY <1>1, GotoHarmless, ProcFacts
     DEF TakeMessage, StartRegister, managerVars, scalerVars

LEMMA AwsHarmless ==
  ASSUME TypeOK, NEW i \in Instance, CloudStep(i) \/ FailHealthCheck(i),
         UNCHANGED <<taskVars, scalerVars, starts>>
  PROVE  Harmless
<1>1. get_non_terminated_instances' \subseteq get_non_terminated_instances
  BY DEF TypeOK, CloudTypeOK, CloudStep, FailHealthCheck, BootInstance,
         ShutDownInstance, ForgetInstance, PassHealthCheck, NoticeStopped,
         get_non_terminated_instances, InState
<1>2. Present' <= Present
  BY <1>1, PresentShrinks
<1> QED
  BY <1>2 DEF taskVars, scalerVars, localVars, Harmless

\* Every view but create_worker.
LEMMA ViewHarmless ==
  ASSUME TypeOK, NEW p \in Thread, View(p), ~create_worker(p)
  PROVE  Harmless
<1> USE DEF scalerVars, cloudVars, localVars
<1>0. want \in [Proc -> Nat] /\ p \in Proc
  BY ProcFacts DEF TypeOK, TaskTypeOK, LocalTypeOK
<1>p. Present' <= Present
  BY SamePresent DEF View, destroy_worker, delete, destroy_all, stop_manager,
     DestroyLoop, StopManagers, apply, turn_on
<1>1. CASE destroy_worker(p)
  BY <1>0, <1>p, <1>1, GotoHarmless DEF View, destroy_worker
<1>2. ASSUME NEW S, NEW who, NEW l, DestroyLoop(p, S, who, l), S = {} => l = "stop"
      PROVE  Harmless
  <2>1. \E m \in {"deregister", "stop"} : Goto(p, m)
    BY <1>2 DEF DestroyLoop
  <2> QED
    BY <1>0, <1>p, <1>2, <2>1, GotoHarmless DEF View, DestroyLoop
<1>3. CASE (\E i \in Instance : delete(p, i)) \/ destroy_all(p) \/ stop_manager(p)
  BY <1>2, <1>3 DEF delete, destroy_all, stop_manager
<1>4. CASE StopManagers(p)
  BY <1>0, <1>p, <1>4, FinishHarmless DEF View, StopManagers, Return
<1>5. CASE (\E f \in Forms : apply(p, f)) \/ turn_on(p)
  BY <1>p, <1>5 DEF View, apply, turn_on, Request, taskVars, Harmless
<1> QED
  BY <1>1, <1>3, <1>4, <1>5 DEF View

-----------------------------------------------------------------------------
(* The steps that count or create.                                         *)

\* create_instances uses up the room of the process that calls it.
LEMMA CreateKeeps ==
  ASSUME TypeOK, LimitInv, NEW p \in Proc, CreateInstance(p), UNCHANGED managerVars
  PROVE  LimitInv'
<1> USE DEF managerVars, scalerVars
<1>0. pc \in [Proc -> MainPc \cup ThreadPc \cup SlotPc] /\ pc[p] = "create"
  BY DEF TypeOK, TaskTypeOK, PcTypeOK, CreateInstance
<1>1. CASE Raise(p) /\ UNCHANGED ec2
  BY <1>1, SamePresent, FinishHarmless, HarmlessKeeps DEF Raise
<1>2. ASSUME NEW i \in Instance, Ec2Create(i),
             want' = [want EXCEPT ![p] = @ - 1], Goto(p, "enqueue"),
             UNCHANGED total
      PROVE  LimitInv'
  <2>1. Present' = Present + 1 /\ Present \in Nat
    BY <1>2, PresentGrows, PresentType
  <2>2. /\ pc'[p] = "enqueue" /\ \A q \in Proc \ {p} : pc'[q] = pc[q]
        /\ want[p] \in Nat /\ want'[p] = want[p] - 1
        /\ \A q \in Proc \ {p} : want'[q] = want[q]
    BY <1>0, <1>2, NumberTypes DEF Goto
  <2>3. want[p] > 0 /\ (p # Main => Window(p))
    BY <1>0 DEF TypeOK, TaskTypeOK, ReadyOK, Window
  <2>4. \A q \in Proc : Window(q)' => Window(q)
    BY <2>2, <2>3 DEF Window
  <2>5. QuietBoot'
    BY <1>0, <2>2, <2>3, <2>4, ProcFacts, SMT DEF LimitInv, QuietBoot, CheckPc
  <2>6. ASSUME OneWindow, RoomLeft PROVE RoomLeft'
    <3>1. CASE p = Main
      <4>1. Load' = Load
        <5>1. \A a, a2 \in Nat : a2 = a + 1 => a2 + 0 = a + 1
          BY SMT
        <5> QED
          BY <1>0, <2>1, <2>2, <3>1, <5>1, PresentType DEF Load
      <4> QED
        BY <1>2, <2>2, <2>6, <3>1, <4>1 DEF RoomLeft
    <3>2. CASE p # Main
      <4>1. Load' = Load + 1
        <5>1. \A a, a2 \in Nat : a2 = a + 1 => a2 + 0 = (a + 0) + 1 /\ a2 + 1 = (a + 1) + 1
          BY SMT
        <5> QED
          BY <1>0, <2>1, <2>2, <3>2, <5>1, PresentType, ProcFacts DEF Load
      <4>2. Load + want[p] <= Limit + (starts - 1)
        BY <1>0, <2>6, <3>2 DEF RoomLeft
      <4>3. want'[p] \in Nat
        BY <2>2, <2>3, SMT
      <4>4. /\ Load' <= Limit + (starts' - 1)
            /\ Load' + want'[p] <= Limit + (starts' - 1)
        BY <2>2, <2>3, <4>1, <4>2, <4>3, NumberTypes, LoadUp, SMT
      <4>5. ASSUME NEW q \in Proc \ {Main}, q # p, pc'[q] \in {"create", "enqueue"}
            PROVE  Load' + want'[q] <= Limit + (starts' - 1)
        <5>1. ~Window(q)
          BY <2>3, <2>6, <3>2, <4>5 DEF OneWindow
        <5>2. want'[q] = want[q] /\ want[q] \in Nat /\ ~(want[q] > 0)
          BY <2>2, <4>5, <5>1, NumberTypes DEF Window
        <5>3. want'[q] = 0
          BY <5>2, SMT
        <5>4. \A n \in Nat : n + 0 = n
          BY SMT
        <5> QED
          BY <4>4, <5>3, <5>4, NumberTypes
      <4>6. ASSUME NEW q \in Proc \ {Main}, pc'[q] = "cpu"
            PROVE  FALSE
        BY <2>2, <2>3, <2>6, <3>2, <4>6 DEF OneWindow, Window
      <4> QED
        BY <4>4, <4>5, <4>6 DEF RoomLeft
    <3> QED
      BY <3>1, <3>2
  <2> QED
    BY <2>4, <2>5, <2>6 DEF LimitInv, OneWindow
<1> QED
  BY <1>1, <1>2 DEF CreateInstance

\* apply_async changes no number; a loop goes back to create_instances.
LEMMA EnqueueKeeps ==
  ASSUME TypeOK, LimitInv, NEW p \in Proc, EnqueueRegister(p), UNCHANGED managerVars
  PROVE  LimitInv'
<1> USE DEF managerVars, scalerVars, cloudVars
<1>0. /\ pc \in [Proc -> MainPc \cup ThreadPc \cup SlotPc] /\ pc[p] = "enqueue"
      /\ UNCHANGED ec2
  BY DEF TypeOK, TaskTypeOK, PcTypeOK, EnqueueRegister
<1>1. CASE Return(p)
  BY <1>0, <1>1, SamePresent, FinishHarmless, HarmlessKeeps DEF Return
<1>2. CASE want[p] > 0 /\ Goto(p, "create") /\ UNCHANGED <<want, total>>
  <2>1. p # Main
    BY <1>0, <1>2, SMT DEF LimitInv, QuietBoot
  <2>2. /\ pc'[p] = "create" /\ \A q \in Proc \ {p} : pc'[q] = pc[q]
        /\ pc'[Main] = pc[Main]
    BY <1>0, <1>2, <2>1, ProcFacts DEF Goto
  <2>3. \A q \in Proc : Window(q)' <=> Window(q)
    BY <1>0, <1>2, <2>2 DEF Window
  <2>4. Load' = Load
    BY <1>0, <2>2 DEF Load, Present, get_non_terminated_instances, InState
  <2>5. QuietBoot'
    BY <1>2, <2>2, <2>3 DEF LimitInv, QuietBoot, CheckPc
  <2>6. RoomLeft => RoomLeft'
    BY <1>0, <1>2, <2>2, <2>4 DEF RoomLeft
  <2> QED
    BY <2>3, <2>5, <2>6 DEF LimitInv, OneWindow
<1> QED
  BY <1>1, <1>2 DEF EnqueueRegister

\* A check is started only once a policy is stored.
LEMMA TakeCheckKeeps ==
  ASSUME TypeOK, LimitInv, NEW p \in Slot, TakeCheck(p)
  PROVE  LimitInv'
<1> USE DEF TakeCheck, StartCheck, cloudVars
<1>0. pc \in [Proc -> MainPc \cup ThreadPc \cup SlotPc] /\ p \in Proc /\ p # Main
  BY ProcFacts DEF TypeOK, TaskTypeOK, PcTypeOK
<1>1. /\ pc'[p] = "pending" /\ \A q \in Proc \ {p} : pc'[q] = pc[q]
      /\ pc'[Main] = pc[Main]
  BY <1>0, ProcFacts DEF Goto
<1>2. \A q \in Proc : Window(q)' <=> Window(q)
  BY <1>0, <1>1 DEF Window
<1>3. Load' = Load
  BY <1>1 DEF Load, Present, get_non_terminated_instances, InState
<1>4. QuietBoot'
  BY <1>1 DEF LimitInv, QuietBoot
<1>5. RoomLeft => RoomLeft'
  BY <1>0, <1>1, <1>3 DEF RoomLeft
<1> QED
  BY <1>2, <1>4, <1>5 DEF LimitInv, OneWindow

\* The count of a check is what there is, but for restarts of run.py.
LEMMA CountTotalKeeps ==
  ASSUME TypeOK, LimitInv, NEW p \in Slot, CountTotal(p), UNCHANGED starts
  PROVE  LimitInv'
<1> USE DEF CountTotal, cloudVars
<1>0. pc \in [Proc -> MainPc \cup ThreadPc \cup SlotPc] /\ p \in Proc /\ p # Main
  BY ProcFacts DEF TypeOK, TaskTypeOK, PcTypeOK
<1>1. /\ pc'[p] = "cpu" /\ \A q \in Proc \ {p} : pc'[q] = pc[q]
      /\ pc'[Main] = pc[Main]
  BY <1>0, ProcFacts DEF Goto
<1>2. \A q \in Proc \ {p} : Window(q)' <=> Window(q)
  BY <1>0, <1>1 DEF Window
<1>3. Load' = Load
  BY <1>1 DEF Load, Present, get_non_terminated_instances, InState
<1>4. ~(starts = 1 /\ pc[Main] = "create")
  BY <1>0 DEF LimitInv, QuietBoot, CheckPc
<1>5. QuietBoot'
  BY <1>1, <1>4 DEF LimitInv, QuietBoot
<1>6. ~overlapped' => OneWindow' /\ ~overlapped
  BY <1>2 DEF CountInstances, OneWindow
<1>7. Load <= Present + (starts - 1)
  BY <1>4, NumberTypes, PresentType, SMT DEF Load, TypeOK
<1>8. total'[p] = Present /\ \A q \in Proc \ {p} : total'[q] = total[q]
  BY <1>0, NumberTypes DEF Present
<1>9. ASSUME RoomLeft PROVE RoomLeft'
  <2>1. ASSUME NEW q \in Proc \ {Main}, pc'[q] \in {"create", "enqueue"}
        PROVE  Load' + want'[q] <= Limit + (starts' - 1)
    BY <1>1, <1>3, <1>9, <2>1 DEF RoomLeft
  <2>2. ASSUME NEW q \in Proc \ {Main}, pc'[q] = "cpu"
        PROVE  Load' <= total'[q] + (starts' - 1)
    BY <1>1, <1>3, <1>7, <1>8, <1>9, <2>2 DEF RoomLeft
  <2> QED
    BY <1>3, <1>9, <2>1, <2>2 DEF RoomLeft
<1> QED
  BY <1>5, <1>6, <1>9 DEF LimitInv

\* What the expand branch begins to create fits into the room that was counted.
LEMMA ScaleKeeps ==
  ASSUME TypeOK, LimitInv, NEW p \in Slot, Scale(p), UNCHANGED starts
  PROVE  LimitInv'
<1> USE DEF cloudVars, scalerVars
<1>0. /\ pc \in [Proc -> MainPc \cup ThreadPc \cup SlotPc] /\ p \in Proc /\ p # Main
      /\ pc[p] = "cpu" /\ policy[p] \in AutoScalingConfig
      /\ num[p] \in Nat /\ total[p] \in Nat
  BY ProcFacts DEF TypeOK, TaskTypeOK, PcTypeOK, ReadyOK, LocalTypeOK, Scale, CheckPc
<1>1. UNCHANGED <<ec2, starts, overlapped, config>>
  BY DEF Scale
<1>2. Present' <= Present
  BY <1>1, SamePresent
<1>3. CASE Return(p)
  BY <1>0, <1>1, <1>2, <1>3, FinishHarmless, HarmlessKeeps DEF Return
<1>4. ASSUME NEW n \in Nat, Begin(p, "sample", n) PROVE LimitInv'
  <2>1. CASE n = 0
    BY <1>3, <1>4, <2>1 DEF Begin
  <2>2. CASE n # 0
    BY <1>0, <1>1, <1>2, <1>4, <2>2, NumberTypes, GotoHarmless, HarmlessKeeps
       DEF Begin, localVars
  <2> QED
    BY <2>1, <2>2
<1>5. ASSUME NEW n \in Nat, Begin(p, "create", n), n # 0, n + total[p] <= Limit
      PROVE  LimitInv'
  <2>1. /\ pc'[p] = "create" /\ \A q \in Proc \ {p} : pc'[q] = pc[q]
        /\ pc'[Main] = pc[Main]
        /\ want'[p] = n /\ \A q \in Proc \ {p} : want'[q] = want[q]
        /\ want'[Main] = want[Main]
        /\ UNCHANGED total
    BY <1>0, <1>5, NumberTypes, ProcFacts DEF Begin, Goto, localVars
  <2>2. \A q \in Proc : Window(q)' => Window(q)
    BY <1>0, <2>1 DEF Window
  <2>3. Load' = Load
    BY <1>1, <2>1 DEF Load, Present, get_non_terminated_instances, InState
  <2>4. QuietBoot'
    BY <1>1, <2>1, <2>2, <1>0 DEF LimitInv, QuietBoot, CheckPc
  <2>5. ASSUME RoomLeft PROVE RoomLeft'
    <3>1. Load <= total[p] + (starts - 1)
      BY <1>0, <2>5 DEF RoomLeft
    <3>2. Load + n <= Limit + (starts - 1)
      BY <1>0, <1>5, <3>1, NumberTypes, SMT
    <3> QED
      BY <1>0, <1>1, <2>1, <2>3, <2>5, <3>2 DEF RoomLeft
  <2> QED
    BY <1>1, <2>2, <2>4, <2>5 DEF LimitInv, OneWindow
<1>6. /\ ToCreate(policy[p], num[p], total[p]) \in Nat
      /\ ToDestroy(policy[p], num[p]) \in Nat
      /\ \/ ToCreate(policy[p], num[p], total[p]) = 0
         \/ ToCreate(policy[p], num[p], total[p]) + total[p] <= Limit
  <2>1. \A t, l, n \in Nat :
          (t < l => t + n <= l) /\ (t >= l => n = 0) => n = 0 \/ n + t <= l
    BY SMT
  <2>2. Limit \in Nat
    BY NumberTypes
  <2>3. /\ ToCreate(policy[p], num[p], total[p]) \in Nat
        /\ ToDestroy(policy[p], num[p]) \in Nat
    BY <1>0, ToCreateFits, ToDestroyLeavesOne
  <2>4. /\ total[p] < Limit => total[p] + ToCreate(policy[p], num[p], total[p]) <= Limit
        /\ total[p] >= Limit => ToCreate(policy[p], num[p], total[p]) = 0
    BY <1>0, ToCreateFits
  <2> QED
    BY <1>0, <2>1, <2>2, <2>3, <2>4
<1>7. Begin(p, "create", 0) => Return(p)
  BY DEF Begin
<1> QED
  BY <1>3, <1>4, <1>5, <1>6, <1>7 DEF Scale, ActOn

LEMMA CheckStepKeeps ==
  ASSUME TypeOK, LimitInv, NEW p \in Slot, CheckStep(p)
  PROVE  LimitInv'
<1> USE DEF cloudVars, scalerVars, localVars
<1>0. p \in Proc
  BY ProcFacts
<1>1. CASE CheckPending(p) \/ CheckServing(p) \/ CheckRunning(p)
  <2>1. Present' <= Present
    BY <1>1, SamePresent DEF CheckPending, CheckServing, CheckRunning
  <2>2. Harmless
    BY <1>0, <1>1, <2>1, FinishHarmless, GotoHarmless
       DEF CheckStep, CheckPending, CheckServing, CheckRunning, Return, CheckPc
  <2> QED
    BY <2>2, HarmlessKeeps
<1>2. CASE CountTotal(p)
  BY <1>2, CountTotalKeeps DEF CheckStep
<1>3. CASE Scale(p)
  BY <1>3, ScaleKeeps DEF CheckStep
<1> QED
  BY <1>1, <1>2, <1>3 DEF CheckStep, AutoCheckStep

\* The view counts fewer instances than the limit, and creates one.
LEMMA CreateWorkerKeeps ==
  ASSUME TypeOK, LimitInv, NEW p \in Thread, create_worker(p), UNCHANGED starts
  PROVE  LimitInv'
<1> USE DEF create_worker, cloudVars, localVars
<1>0. /\ pc \in [Proc -> MainPc \cup ThreadPc \cup SlotPc] /\ p \in Proc /\ p # Main
      /\ pc[Main] = "idle"
  BY ProcFacts DEF TypeOK, TaskTypeOK, PcTypeOK, Request
<1>1. /\ pc'[p] = "create" /\ \A q \in Proc \ {p} : pc'[q] = pc[q]
      /\ pc'[Main] = "idle"
      /\ want'[p] = 1 /\ \A q \in Proc \ {p} : want'[q] = want[q]
      /\ UNCHANGED <<total, starts>>
  BY <1>0, ProcFacts, NumberTypes DEF Goto
<1>2. \A q \in Proc \ {p} : Window(q)' => Window(q)
  BY <1>1 DEF Window
<1>3. Load' = Load
  BY <1>0, <1>1 DEF Load, Present, get_non_terminated_instances, InState
<1>4. QuietBoot'
  BY <1>1 DEF QuietBoot
<1>5. ~overlapped' => OneWindow' /\ ~overlapped
  BY <1>2 DEF CountInstances, OneWindow
<1>6. Load + 1 <= Limit + (starts - 1)
  <2>1. Present < Limit
    BY DEF Present
  <2>2. Load = Present
    BY <1>0, PresentType, SMT DEF Load
  <2>3. starts >= 1
    BY BoundsAssumption, SMT DEF TypeOK
  <2> QED
    BY <2>1, <2>2, <2>3, NumberTypes, PresentType, SMT
<1>7. ASSUME RoomLeft PROVE RoomLeft'
  BY <1>1, <1>3, <1>6, <1>7 DEF RoomLeft
<1> QED
  BY <1>4, <1>5, <1>7 DEF LimitInv

\* A further start of run.py brings one more worker, and one more place.
LEMMA StartFlaskKeeps ==
  ASSUME TypeOK, LimitInv, StartFlask
  PROVE  LimitInv'
<1> USE DEF StartFlask, Kill, cloudVars
<1>0. starts \in Nat /\ starts >= 1 /\ starts' = starts + 1
  BY BoundsAssumption, SMT DEF TypeOK
<1>1. /\ pc'[Main] = "create" /\ want'[Main] = 1
      /\ \A q \in Proc \ {Main} : pc'[q] = "idle" \/ (pc'[q] = pc[q] /\ want'[q] = want[q] /\ total'[q] = total[q])
  BY ProcFacts DEF Forget, TypeOK, TaskTypeOK, LocalTypeOK, Proc
<1>2. \A q \in Proc : Window(q)' => Window(q)
  BY <1>1 DEF Window
<1>3. QuietBoot'
  <2>1. starts' # 1
    BY <1>0, SMT
  <2> QED
    BY <1>1, <2>1 DEF QuietBoot
<1>4. Load' <= Load + 1
  <2>1. Present' = Present
    BY DEF Present, get_non_terminated_instances, InState
  <2>2. \A a \in Nat : a + 1 <= (a + 0) + 1 /\ a + 1 <= (a + 1) + 1
    BY SMT
  <2> QED
    BY <1>1, <2>1, <2>2, PresentType DEF Load
<1>5. ASSUME RoomLeft PROVE RoomLeft'
  <2>0. starts' \in Nat
    BY <1>0, SMT
  <2>1. Load' <= Limit + (starts' - 1)
    BY <1>0, <1>4, <1>5, <2>0, NumberTypes, StartUp DEF RoomLeft
  <2>2. ASSUME NEW q \in Proc \ {Main}, pc'[q] \in {"create", "enqueue"}
        PROVE  Load' + want'[q] <= Limit + (starts' - 1)
    <3>1. /\ Load + want[q] <= Limit + (starts - 1)
          /\ want'[q] = want[q] /\ want[q] \in Nat
      BY <1>1, <1>5, <2>2, NumberTypes DEF RoomLeft
    <3> QED
      BY <1>0, <1>4, <2>0, <3>1, NumberTypes, StartUp, SMT
  <2>3. ASSUME NEW q \in Proc \ {Main}, pc'[q] = "cpu"
        PROVE  Load' <= total'[q] + (starts' - 1)
    <3>1. /\ Load <= total[q] + (starts - 1)
          /\ total'[q] = total[q] /\ total[q] \in Nat
      BY <1>1, <1>5, <2>3, NumberTypes DEF RoomLeft
    <3> QED
      BY <1>0, <1>4, <2>0, <3>1, NumberTypes, StartUp
  <2> QED
    BY <2>1, <2>2, <2>3 DEF RoomLeft
<1> QED
  BY <1>2, <1>3, <1>5 DEF LimitInv, OneWindow

\* A process that is gone creates nothing any more.
LEMMA FaultHarmless ==
  ASSUME TypeOK, Halt \/ CeleryRestart \/ \E p \in Proc : CallFails(p)
  PROVE  Harmless
<1> USE DEF scalerVars, cloudVars
<1>1. Present' <= Present
  BY SamePresent DEF Halt, CeleryRestart, CallFails
<1>2. CASE Halt
  BY <1>1, <1>2, ProcFacts DEF Halt, CheckPc, Harmless
<1>3. CASE CeleryRestart
  BY <1>1, <1>3, ProcFacts
     DEF CeleryRestart, Kill, Forget, CheckPc, Harmless, TypeOK, TaskTypeOK,
         PcTypeOK, LocalTypeOK
<1>4. ASSUME NEW p \in Proc, CallFails(p) PROVE Harmless
  BY <1>1, <1>4, FinishHarmless DEF CallFails, Raise
<1> QED
  BY <1>2, <1>3, <1>4

-----------------------------------------------------------------------------
LEMMA LimitInit == Init => LimitInv
<1> SUFFICES ASSUME Init PROVE LimitInv
  OBVIOUS
<1>1. get_non_terminated_instances = {}
  BY DEF Init, CloudInit, get_non_terminated_instances, InState
<1>2. Present = 0
  BY <1>1, FS_EmptySet DEF Present
<1>3. /\ pc[Main] = "create" /\ want[Main] = 1 /\ starts = 1 /\ config = None
      /\ \A p \in Proc \ {Main} : pc[p] = "idle"
  BY ProcFacts DEF Init, TaskInit
<1>4. QuietBoot /\ OneWindow
  BY <1>3 DEF QuietBoot, OneWindow, Window, CheckPc, MainPc
<1>5. RoomLeft
  BY <1>2, <1>3, LimitAssumption, SMT DEF RoomLeft, Load
<1> QED
  BY <1>4, <1>5 DEF LimitInv

LEMMA LimitNext == TypeOK /\ LimitInv /\ [Next]_vars => LimitInv'
<1> SUFFICES ASSUME TypeOK, LimitInv, [Next]_vars PROVE LimitInv'
  OBVIOUS
<1>1. ASSUME NEW p \in Proc, WorkerStep(p) PROVE LimitInv'
  BY <1>1, CreateKeeps, EnqueueKeeps, DestroyHarmless, HarmlessKeeps DEF WorkerStep
<1>2. ASSUME NEW p \in Slot, NEW i \in Instance, TakeMessage(p, i) PROVE LimitInv'
  BY <1>2, TakeMessageHarmless, HarmlessKeeps
<1>3. ASSUME NEW p \in Slot, TakeCheck(p) \/ CheckStep(p) PROVE LimitInv'
  BY <1>3, TakeCheckKeeps, CheckStepKeeps
<1>4. ASSUME NEW p \in Thread, View(p) PROVE LimitInv'
  BY <1>4, CreateWorkerKeeps, ViewHarmless, HarmlessKeeps DEF View
<1>5. ASSUME NEW i \in Instance, Aws(i) \/ WorkerStalls(i) PROVE LimitInv'
  BY <1>5, AwsHarmless, HarmlessKeeps DEF Aws, WorkerStalls, managerVars
<1>6. CASE StartFlask
  BY <1>6, StartFlaskKeeps
<1>7. CASE Halt \/ CeleryRestart \/ \E p \in Proc : CallFails(p)
  BY <1>7, FaultHarmless, HarmlessKeeps
<1>8. CASE UNCHANGED vars
  <2>1. Present' <= Present
    BY <1>8, SamePresent DEF vars, cloudVars
  <2>2. Harmless
    BY <1>8, <2>1 DEF vars, taskVars, localVars, scalerVars, Harmless
  <2> QED
    BY <2>2, HarmlessKeeps
<1> QED
  BY <1>1, <1>2, <1>3, <1>4, <1>5, <1>6, <1>7, <1>8 DEF Next

\* In every run of the manager, the instances and those that processes still
\* may create on the count they have read fit below the limit (LimitInv): the
\* limit checks of create_worker and of the auto check are sufficient unless
\* two of them overlap.
THEOREM LimitCorrect == Spec => []LimitInv
<1>1. Init => LimitInv
  BY LimitInit
<1>2. TypeOK /\ LimitInv /\ [Next]_vars => LimitInv'
  BY LimitNext
<1> QED
  BY <1>1, <1>2, TypeCorrect, PTL DEF Spec

\* In every run of the manager, if no instance count was read while another
\* process still acted on its own, there are at most Limit instances and one
\* more for every further start of run.py: what the limit checks of
\* manualscaling/view.py and background.py achieve.
THEOREM LimitHolds == Spec => []LimitUnlessOverlap
<1>1. TypeOK /\ LimitInv => LimitUnlessOverlap
  <2> SUFFICES ASSUME TypeOK, LimitInv, ~overlapped
               PROVE  Present <= Limit + (starts - 1)
    BY DEF LimitUnlessOverlap, Present
  <2>1. Load <= Limit + (starts - 1)
    BY DEF LimitInv, RoomLeft
  <2>2. Present <= Load
    BY PresentType, SMT DEF Load
  <2> QED
    BY <2>1, <2>2, NumberTypes, PresentType, SMT
<1> QED
  BY <1>1, LimitCorrect, TypeCorrect, PTL

-----------------------------------------------------------------------------
-----------------------------------------------------------------------------
(* Auto scaling leaves a worker.                                           *)

\* Nobody but the auto check destroys workers.
Hands == Handlers \cap Destroying = {}

\* What p has of its own is as before.
Same(p) ==
  /\ pc'[p] = pc[p] /\ policy'[p] = policy[p] /\ job'[p] = job[p]
  /\ num'[p] = num[p] /\ want'[p] = want[p] /\ todo'[p] = todo[p]

\* p is at none of the labels where it counts on the workers that are up.
Idling(p) == pc[p] \notin {"total", "cpu"} \cup DestroyPc

LEMMA LiveFinite ==
  /\ IsFiniteSet(Live) /\ Cardinality(Live) \in Nat
  /\ IsFiniteSet(Live') /\ Cardinality(Live') \in Nat
  /\ \A x : IsFiniteSet(Live \ {x}) /\ Cardinality(Live \ {x}) \in Nat
  /\ \A x : IsFiniteSet(Live' \ {x}) /\ Cardinality(Live' \ {x}) \in Nat
<1>1. Live \subseteq Instance /\ Live' \subseteq Instance
  BY DEF Live, InState
<1>2. \A S : S \subseteq Instance => IsFiniteSet(S) /\ Cardinality(S) \in Nat
  BY InstanceAssumption, FS_Subset, FS_CardinalityType
<1>3. /\ \A x : Live \ {x} \subseteq Instance
      /\ \A x : Live' \ {x} \subseteq Instance
  BY <1>1
<1> QED
  BY <1>1, <1>2, <1>3

LEMMA MoreThan ==
  \A a, b, n \in Nat : a <= b => (a >= n => b >= n) /\ (a > n => b > n)
BY SMT

\* More workers leave a process as much to do.
LEMMA SameLeavesOne ==
  ASSUME TypeOK, NEW p \in Slot, LeavesOne(p), Same(p), Live \subseteq Live'
  PROVE  LeavesOne(p)'
<1>1. /\ num[p] \in Nat /\ want[p] \in Nat /\ todo[p] \subseteq Instance
  BY ProcFacts DEF TypeOK, TaskTypeOK, LocalTypeOK
<1>2. Cardinality(todo[p]) \in Nat
  BY <1>1, InstanceAssumption, FS_Subset, FS_CardinalityType
<1>3. /\ Cardinality(Live) <= Cardinality(Live')
      /\ \A x : Cardinality(Live \ {x}) <= Cardinality(Live' \ {x})
  <2>1. \A x : Live \ {x} \subseteq Live' \ {x}
    OBVIOUS
  <2> QED
    BY <2>1, LiveFinite, FS_Subset
<1>4. pc[p] \in {"total", "cpu"} => Cardinality(Live') >= num[p]
  BY <1>1, <1>3, LiveFinite, MoreThan DEF LeavesOne
<1>5. pc[p] = "sample" => Cardinality(Live') > want[p]
  BY <1>1, <1>3, LiveFinite, MoreThan DEF LeavesOne
<1>6. pc[p] = "deregister" => Cardinality(Live') > Cardinality(todo[p])
  BY <1>2, <1>3, LiveFinite, MoreThan DEF LeavesOne
<1>7. pc[p] = "terminate" => Cardinality(Live' \ {job[p]}) > Cardinality(todo[p])
  BY <1>2, <1>3, LiveFinite, MoreThan, ZenonT(60) DEF LeavesOne
<1> QED
  BY <1>4, <1>5, <1>6, <1>7 DEF LeavesOne, Same

LEMMA IdlingLeavesOne == \A p : Idling(p)' => LeavesOne(p)'
BY DEF Idling, LeavesOne, DestroyPc

\* A step of p that ends no worker.
LEMMA OneStepPool ==
  ASSUME TypeOK, PoolInv, Hands, NEW p \in Proc, \A q \in Proc \ {p} : Same(q),
         Live \subseteq Live', crossed' = crossed,
         p \in Thread => pc'[p] \notin DestroyPc,
         policy'[p] \in {policy[p], None},
         p \in Slot /\ pc'[p] \in DestroyPc => policy'[p] # None,
         p = Main /\ pc'[p] \in {"enqueue", "idle"} => Live' # {} \/ pc[p] = "enqueue",
         p \in Slot /\ ~crossed => LeavesOne(p)'
  PROVE  PoolInv'
<1>1. /\ \A q \in Thread : pc'[q] \notin DestroyPc
      /\ \A q \in Slot : pc'[q] \in DestroyPc => policy'[q] # None
      /\ \A q \in Proc : policy'[q] # None => policy[q] # None
  BY ProcFacts DEF PoolInv, Same, Hands, Checking
<1>2. ASSUME ~crossed
      PROVE  /\ \A q, r \in Proc : policy'[q] # None /\ policy'[r] # None => q = r
             /\ pc'[Main] \in {"enqueue", "idle"} => Live' # {}
             /\ \A q \in Slot : LeavesOne(q)'
  <2>1. /\ \A q, r \in Proc : policy[q] # None /\ policy[r] # None => q = r
        /\ pc[Main] \in {"enqueue", "idle"} => Live # {}
        /\ \A q \in Slot : LeavesOne(q)
    BY <1>2 DEF PoolInv, Hands, Checking
  <2>2. pc'[Main] \in {"enqueue", "idle"} => Live' # {}
    <3>1. CASE p = Main
      BY <2>1, <3>1
    <3>2. CASE p # Main
      BY <2>1, <3>2, ProcFacts DEF Same
    <3> QED
      BY <3>1, <3>2
  <2>3. ASSUME NEW q \in Slot PROVE LeavesOne(q)'
    <3>1. CASE q = p
      BY <1>2, <3>1
    <3>2. CASE q # p
      BY <2>1, <3>2, ProcFacts, SameLeavesOne
    <3> QED
      BY <3>1, <3>2
  <2> QED
    BY <1>1, <2>1, <2>2, <2>3
<1> QED
  BY <1>1, <1>2 DEF PoolInv, Checking

\* A process that finishes, in no step that ends a worker.
LEMMA FinishPool ==
  ASSUME TypeOK, PoolInv, Hands, NEW p \in Proc, NEW l \in {"idle", "exited"}, Finish(p, l),
         Live \subseteq Live', crossed' = crossed,
         p = Main /\ l = "idle" => pc[p] = "enqueue"
  PROVE  PoolInv'
<1>1. /\ pc \in [Proc -> MainPc \cup ThreadPc \cup SlotPc] /\ want \in [Proc -> Nat]
  BY DEF TypeOK, TaskTypeOK, PcTypeOK, LocalTypeOK
<1>2. (\A q \in Proc \ {p} : Same(q)) /\ pc'[p] = l /\ policy'[p] = None
  BY <1>1 DEF Finish, Goto, Forget, Same
<1>3. pc'[p] \notin DestroyPc /\ LeavesOne(p)'
  BY <1>2, IdlingLeavesOne DEF Idling, DestroyPc
<1> QED
  BY <1>2, <1>3, OneStepPool

\* A process other than the main thread that goes on to a label where it counts
\* on nobody.
LEMMA GotoPool ==
  ASSUME TypeOK, PoolInv, Hands, NEW p \in Proc, NEW l, Goto(p, l),
         l \notin {"total", "cpu", "idle"} \cup DestroyPc, p = Main /\ l = "enqueue" => Live' # {},
         Live \subseteq Live', crossed' = crossed, UNCHANGED policy,
         \A q \in Proc \ {p} : /\ job'[q] = job[q] /\ num'[q] = num[q]
                               /\ want'[q] = want[q] /\ todo'[q] = todo[q]
  PROVE  PoolInv'
<1>1. pc \in [Proc -> MainPc \cup ThreadPc \cup SlotPc]
  BY DEF TypeOK, TaskTypeOK, PcTypeOK
<1>2. (\A q \in Proc \ {p} : Same(q)) /\ pc'[p] = l
  BY <1>1 DEF Goto, Same
<1>3. LeavesOne(p)'
  BY <1>2, IdlingLeavesOne DEF Idling
<1> QED
  BY <1>2, <1>3, OneStepPool

\* The processes at the destroying labels are auto checks.
LEMMA Destroyers ==
  ASSUME TypeOK, PoolInv, Hands, NEW p \in Proc, pc[p] \in DestroyPc
  PROVE  p \in Slot /\ p # Main /\ p \notin Thread /\ Checking(p) /\ (~crossed => LeavesOne(p))
<1>1. p # Main
  BY DEF TypeOK, TaskTypeOK, PcTypeOK, MainPc, DestroyPc
<1> QED
  BY <1>1, ProcFacts DEF PoolInv, Hands

LEMMA CreatePool ==
  ASSUME TypeOK, PoolInv, Hands, NEW p \in Proc, UNCHANGED managerVars,
         \/ CreateInstance(p) \/ EnqueueRegister(p) \/ WaitRunning(p) \/ RegisterTarget(p)
  PROVE  PoolInv'
<1>0. /\ crossed' = crossed /\ pc[p] \notin {"idle"}
      /\ ec2 \in [Instance -> Ec2State] /\ job \in [Proc -> Instance \cup {None}]
      /\ want \in [Proc -> Nat] /\ pc[Main] \notin RegisterPc
  BY DEF managerVars, scalerVars, CreateInstance, EnqueueRegister, WaitRunning, RegisterTarget,
         TypeOK, CloudTypeOK, TaskTypeOK, LocalTypeOK, PcTypeOK, MainPc, RegisterPc
<1>1. CASE CreateInstance(p)
  <2>1. CASE Raise(p) /\ UNCHANGED ec2
    <3>1. Live' = Live
      BY <2>1 DEF Live, InState
    <3> QED
      BY <1>0, <2>1, <3>1, FinishPool DEF Raise
  <2>2. ASSUME NEW i \in Instance, Ec2Create(i), job' = [job EXCEPT ![p] = i],
               want' = [want EXCEPT ![p] = @ - 1], Goto(p, "enqueue"), UNCHANGED <<todo, num, policy>>
        PROVE  PoolInv'
    <3>1. Live' = Live \cup {i}
      BY <1>0, <2>2 DEF Ec2Create, Live, InState
    <3>2. \A q \in Proc \ {p} : job'[q] = job[q] /\ want'[q] = want[q]
      BY <1>0, <2>2
    <3> QED
      BY <1>0, <2>2, <3>1, <3>2, GotoPool DEF DestroyPc
  <2> QED
    BY <1>1, <2>1, <2>2 DEF CreateInstance
<1>2. CASE EnqueueRegister(p)
  <2>1. Live' = Live /\ pc[p] = "enqueue"
    BY <1>2 DEF EnqueueRegister, cloudVars, Live, InState
  <2>2. CASE Return(p)
    BY <1>0, <2>1, <2>2, FinishPool DEF Return
  <2>3. CASE Goto(p, "create") /\ job' = [job EXCEPT ![p] = None] /\ UNCHANGED <<want, todo, num, policy>>
    BY <1>0, <2>1, <2>3, GotoPool DEF DestroyPc
  <2> QED
    BY <1>2, <2>2, <2>3 DEF EnqueueRegister
<1>3. CASE WaitRunning(p)
  <2>1. Live' = Live /\ p # Main
    BY <1>0, <1>3 DEF WaitRunning, RegisterPc, cloudVars, Live, InState
  <2>2. CASE Return(p)
    BY <1>0, <2>1, <2>2, FinishPool DEF Return
  <2>3. CASE Goto(p, "register") /\ UNCHANGED <<want, localVars>>
    BY <1>0, <2>1, <2>3, GotoPool DEF DestroyPc, localVars
  <2> QED
    BY <1>3, <2>2, <2>3 DEF WaitRunning
<1>4. CASE RegisterTarget(p)
  <2>1. Live' = Live /\ p # Main
    BY <1>0, <1>4 DEF RegisterTarget, RegisterPc, Live, InState
  <2> QED
    BY <1>0, <1>4, <2>1, FinishPool DEF RegisterTarget, Return
<1> QED
  BY <1>1, <1>2, <1>3, <1>4

\* The sample and the next of its instances.
LEMMA PickPool ==
  ASSUME TypeOK, PoolInv, Hands, NEW p \in Proc, UNCHANGED managerVars,
         SampleWorkers(p) \/ Deregister(p)
  PROVE  PoolInv'
<1>0. /\ crossed' = crossed /\ pc[p] \in DestroyPc /\ UNCHANGED ec2
      /\ pc \in [Proc -> MainPc \cup ThreadPc \cup SlotPc] /\ todo \in [Proc -> SUBSET Instance]
      /\ want \in [Proc -> Nat] /\ job \in [Proc -> Instance \cup {None}]
  BY DEF managerVars, scalerVars, SampleWorkers, Deregister, DestroyPc, cloudVars,
         TypeOK, TaskTypeOK, PcTypeOK, LocalTypeOK
<1>1. /\ Live' = Live /\ p \in Slot /\ p # Main /\ p \notin Thread /\ policy[p] # None
      /\ ~crossed => LeavesOne(p)
  BY <1>0, Destroyers DEF Live, InState, Checking
<1>2. CASE SampleWorkers(p)
  <2>1. CASE Return(p)
    BY <1>0, <1>1, <2>1, FinishPool DEF Return
  <2>2. ASSUME NEW S, Cardinality(S) = want[p], todo' = [todo EXCEPT ![p] = S],
               want' = [want EXCEPT ![p] = 0], Goto(p, "deregister"), UNCHANGED <<job, num, policy>>
        PROVE  PoolInv'
    <3>1. pc[p] = "sample" /\ pc'[p] = "deregister" /\ todo'[p] = S /\ \A q \in Proc \ {p} : Same(q)
      BY <1>0, <1>2, <2>2 DEF SampleWorkers, Goto, Same
    <3>2. ~crossed => Cardinality(Live') > Cardinality(todo'[p])
      BY <1>1, <2>2, <3>1 DEF LeavesOne
    <3>3. ~crossed => LeavesOne(p)'
      BY <3>1, <3>2 DEF LeavesOne
    <3> QED
      BY <1>0, <1>1, <2>2, <3>1, <3>3, OneStepPool
  <2> QED
    BY <1>2, <2>1, <2>2 DEF SampleWorkers
<1>3. CASE Deregister(p)
  <2>1. PICK i \in todo[p] : job' = [job EXCEPT ![p] = i] /\ todo' = [todo EXCEPT ![p] = @ \ {i}]
    BY <1>3 DEF Deregister
  <2>2. /\ pc[p] = "deregister" /\ pc'[p] = "terminate" /\ job'[p] = i /\ todo'[p] = todo[p] \ {i}
        /\ UNCHANGED <<want, num, policy>> /\ \A q \in Proc \ {p} : Same(q)
    BY <1>0, <1>3, <2>1 DEF Deregister, Goto, Same
  <2>3. /\ IsFiniteSet(todo[p]) /\ Cardinality(todo[p]) \in Nat
        /\ Cardinality(todo[p] \ {i}) = Cardinality(todo[p]) - 1
    <3>1. IsFiniteSet(todo[p])
      BY <1>0, InstanceAssumption, FS_Subset
    <3> QED
      BY <3>1, <2>1, FS_RemoveElement, FS_CardinalityType
  <2>4. Cardinality(Live \ {i}) \in Nat /\ Cardinality(Live) \in Nat
        /\ Cardinality(Live \ {i}) >= Cardinality(Live) - 1
    <3>1. CASE i \in Live
      <4>1. Cardinality(Live \ {i}) = Cardinality(Live) - 1
        BY <3>1, LiveFinite, FS_RemoveElement
      <4> QED
        BY <4>1, LiveFinite, SMT
    <3>2. CASE i \notin Live
      <4>1. Live \ {i} = Live
        BY <3>2
      <4> QED
        BY <4>1, LiveFinite, SMT
    <3> QED
      BY <3>1, <3>2
  <2>5. ~crossed => Cardinality(Live) > Cardinality(todo[p])
    BY <1>1, <2>2 DEF LeavesOne
  <2>6. ~crossed => Cardinality(Live \ {i}) > Cardinality(todo[p] \ {i})
    BY <2>3, <2>4, <2>5, SMT
  <2>7. ~crossed => LeavesOne(p)'
    BY <1>1, <2>2, <2>6 DEF LeavesOne
  <2> QED
    BY <1>0, <1>1, <2>2, <2>7, OneStepPool
<1> QED
  BY <1>2, <1>3

\* instance.terminate: p takes one of the workers it counted on.
LEMMA TerminatePool ==
  ASSUME TypeOK, PoolInv, Hands, NEW p \in Proc, UNCHANGED managerVars, Terminate(p)
  PROVE  PoolInv'
<1>0. /\ crossed' = crossed /\ pc[p] = "terminate" /\ pc[p] \in DestroyPc
      /\ pc \in [Proc -> MainPc \cup ThreadPc \cup SlotPc] /\ todo[p] \subseteq Instance
      /\ want \in [Proc -> Nat] /\ job \in [Proc -> Instance \cup {None}]
      /\ ec2 \in [Instance -> Ec2State] /\ job[p] \in Instance
      /\ origin[p] = "stop" => p \in Thread
  BY DEF managerVars, scalerVars, Terminate, DestroyPc, TypeOK, TaskTypeOK, PcTypeOK, LocalTypeOK,
         CloudTypeOK, ReadyOK
<1>1. /\ p \in Slot /\ p # Main /\ p \notin Thread /\ policy[p] # None
      /\ ~crossed => LeavesOne(p)
  BY <1>0, Destroyers DEF Checking
<1>2. Live' = Live \ {job[p]}
  BY <1>0 DEF Terminate, Ec2Terminate, Live, InState
<1>3. /\ \A q \in Proc \ {p} : Same(q)
      /\ \/ pc'[p] = "idle" /\ policy'[p] = None
         \/ pc'[p] = "deregister" /\ policy'[p] = policy[p] /\ todo'[p] = todo[p]
  <2>1. CASE Return(p)
    BY <1>0, <2>1 DEF Return, Finish, Goto, Forget, Same
  <2>2. CASE /\ Goto(p, "deregister") /\ job' = [job EXCEPT ![p] = None]
             /\ UNCHANGED <<want, todo, num, policy>>
    BY <1>0, <2>2 DEF Goto, Same
  <2> QED
    BY <1>0, <1>1, <2>1, <2>2, ProcFacts DEF Terminate
<1>4. /\ \A q \in Thread : pc'[q] \notin DestroyPc
      /\ \A q \in Slot : pc'[q] \in DestroyPc => policy'[q] # None
      /\ \A q \in Proc : policy'[q] # None => policy[q] # None
  BY <1>1, <1>3, ProcFacts DEF PoolInv, Same, Hands, Checking, DestroyPc
<1>5. ASSUME ~crossed
      PROVE  /\ \A q, r \in Proc : policy'[q] # None /\ policy'[r] # None => q = r
             /\ Live' # {}
             /\ \A q \in Slot : LeavesOne(q)'
  <2>1. Cardinality(Live') > Cardinality(todo[p])
    BY <1>0, <1>1, <1>2, <1>5 DEF LeavesOne
  <2>2. Live' # {}
    <3>1. Cardinality(todo[p]) \in Nat
      BY <1>0, InstanceAssumption, FS_Subset, FS_CardinalityType
    <3>2. Cardinality(Live') # 0
      BY <2>1, <3>1, SMT
    <3> QED
      BY <3>2, FS_EmptySet
  <2>3. \A q, r \in Proc : policy[q] # None /\ policy[r] # None => q = r
    BY <1>5 DEF PoolInv, Hands, Checking
  <2>4. ASSUME NEW q \in Slot PROVE LeavesOne(q)'
    <3>1. CASE q = p
      BY <1>3, <2>1, <3>1 DEF LeavesOne
    <3>2. CASE q # p
      <4>1. policy[q] = None /\ q \in Proc
        BY <1>1, <2>3, <3>2, ProcFacts
      <4>2. pc[q] \notin CheckPc \cup DestroyPc
        BY <4>1, NoneAssumption DEF PoolInv, Hands, Checking, TypeOK, TaskTypeOK, ReadyOK
      <4>3. Idling(q)'
        BY <1>3, <3>2, <4>1, <4>2 DEF Same, Idling, CheckPc
      <4> QED
        BY <4>3, IdlingLeavesOne
    <3> QED
      BY <3>1, <3>2
  <2> QED
    BY <1>4, <2>2, <2>3, <2>4
<1> QED
  BY <1>0, <1>4, <1>5 DEF PoolInv, Checking

\* The start of a check; if another one runs, the two cross.
LEMMA TakeCheckPool ==
  ASSUME TypeOK, PoolInv, Hands, NEW p \in Slot, TakeCheck(p)
  PROVE  PoolInv'
<1>0. /\ p \in Proc /\ p # Main /\ p \notin Thread
      /\ pc \in [Proc -> MainPc \cup ThreadPc \cup SlotPc]
      /\ policy \in [Proc -> AutoScalingConfig \cup {None}]
      /\ UNCHANGED <<ec2, want, job, todo, num>> /\ Live' = Live
      /\ crossed' = (crossed \/ \E q \in Proc : policy[q] # None)
  BY ProcFacts DEF TakeCheck, StartCheck, cloudVars, TypeOK, TaskTypeOK, PcTypeOK, LocalTypeOK,
                   Live, InState, Checking
<1>1. pc'[p] = "pending" /\ \A q \in Proc \ {p} : Same(q)
  BY <1>0 DEF TakeCheck, StartCheck, Goto, Same
<1>2. /\ \A q \in Thread : pc'[q] \notin DestroyPc
      /\ \A q \in Slot : pc'[q] \in DestroyPc => policy'[q] # None
  BY <1>0, <1>1, ProcFacts DEF PoolInv, Same, Hands, Checking, DestroyPc
<1>3. ASSUME ~crossed'
      PROVE  /\ \A q, r \in Proc : policy'[q] # None /\ policy'[r] # None => q = r
             /\ pc'[Main] \in {"enqueue", "idle"} => Live' # {}
             /\ \A q \in Slot : LeavesOne(q)'
  <2>1. ~crossed /\ \A q \in Proc \ {p} : policy'[q] = None
    BY <1>0, <1>1, <1>3 DEF Same
  <2>2. pc'[Main] \in {"enqueue", "idle"} => Live' # {}
    BY <1>0, <1>1, <2>1, ProcFacts DEF PoolInv, Hands, Same
  <2>3. ASSUME NEW q \in Slot PROVE LeavesOne(q)'
    <3>1. CASE q = p
      BY <1>1, <3>1, IdlingLeavesOne DEF Idling, DestroyPc
    <3>2. CASE q # p
      BY <1>0, <1>1, <2>1, <3>2, ProcFacts, SameLeavesOne DEF PoolInv, Hands
    <3> QED
      BY <3>1, <3>2
  <2> QED
    BY <2>1, <2>2, <2>3
<1> QED
  BY <1>2, <1>3 DEF PoolInv, Checking

\* The queries and the decision: a share below one of the workers that run.
LEMMA CheckPool ==
  ASSUME TypeOK, PoolInv, Hands, NEW p \in Slot, CheckStep(p)
  PROVE  PoolInv'
<1>0. /\ p \in Proc /\ p # Main /\ p \notin Thread /\ pc[p] \in CheckPc
      /\ pc \in [Proc -> MainPc \cup ThreadPc \cup SlotPc]
      /\ num \in [Proc -> Nat] /\ want \in [Proc -> Nat]
      /\ UNCHANGED ec2 /\ crossed' = crossed
  BY ProcFacts DEF CheckStep, AutoCheckStep, CheckPending, CheckServing, CheckRunning, CountTotal, Scale,
                   cloudVars, scalerVars, CheckPc, TypeOK, TaskTypeOK, PcTypeOK, LocalTypeOK
<1>1. policy[p] \in AutoScalingConfig /\ policy[p] # None /\ Live' = Live
  BY <1>0, NoneAssumption DEF TypeOK, TaskTypeOK, ReadyOK, Live, InState
<1>a. Return(p) => PoolInv'
  BY <1>0, <1>1, FinishPool DEF Return
<1>b. ASSUME NEW l \in CheckPc \cup {"sample", "create"}, Goto(p, l), UNCHANGED <<job, todo, policy>>,
             \A q \in Proc \ {p} : want'[q] = want[q] /\ num'[q] = num[q],
             ~crossed => LeavesOne(p)'
      PROVE  PoolInv'
  <2>1. pc'[p] = l /\ \A q \in Proc \ {p} : Same(q)
    BY <1>0, <1>b DEF Goto, Same
  <2> QED
    BY <1>0, <1>1, <1>b, <2>1, OneStepPool
<1>2. CASE CheckPending(p)
  <2>1. pc'[p] = "serving" => LeavesOne(p)'
    BY <1>0, IdlingLeavesOne DEF Idling, DestroyPc
  <2>2. CASE Goto(p, "serving") /\ UNCHANGED <<want, localVars>>
    BY <1>0, <1>b, <2>1, <2>2 DEF Goto, localVars, CheckPc
  <2> QED
    BY <1>2, <1>a, <2>2 DEF CheckPending
<1>3. CASE CheckServing(p)
  <2>1. pc[p] = "serving" /\ Goto(p, "running")
        /\ \A q \in Proc \ {p} : num'[q] = num[q]
    BY <1>0, <1>3 DEF CheckServing
  <2>2. LeavesOne(p)'
    BY <1>0, <2>1, IdlingLeavesOne DEF Idling, DestroyPc, Goto
  <2> QED
    BY <1>0, <1>3, <1>b, <2>1, <2>2 DEF CheckServing, CheckPc
<1>4. CASE CheckRunning(p)
  <2>1. CASE /\ num[p] = Cardinality(get_running_instances)
             /\ Goto(p, "total") /\ UNCHANGED <<want, localVars>>
    <3>1. Cardinality(Live) >= num[p]
      <4>1. get_running_instances \subseteq Live
        BY DEF get_running_instances, Live, InState
      <4> QED
        BY <2>1, <4>1, LiveFinite, FS_Subset, InStateFinite, SMT DEF get_running_instances
    <3>2. LeavesOne(p)'
      BY <1>0, <1>1, <2>1, <3>1 DEF LeavesOne, Goto, localVars
    <3> QED
      BY <1>b, <2>1, <3>2 DEF localVars, CheckPc
  <2> QED
    BY <1>4, <1>a, <2>1 DEF CheckRunning
<1>5. CASE CountTotal(p)
  <2>1. pc[p] = "total" /\ Goto(p, "cpu") /\ UNCHANGED <<want, num, job, todo, policy>>
    BY <1>5 DEF CountTotal
  <2>2. ~crossed => Cardinality(Live) >= num[p]
    BY <1>0, <2>1 DEF PoolInv, Hands, LeavesOne
  <2>3. ~crossed => LeavesOne(p)'
    BY <1>0, <1>1, <2>1, <2>2 DEF LeavesOne, Goto
  <2> QED
    BY <1>b, <2>1, <2>3 DEF CheckPc
<1>6. CASE Scale(p)
  <2>0. pc[p] = "cpu" /\ num[p] \in Nat
    BY <1>0, <1>6 DEF Scale
  <2>1. ASSUME NEW n, Begin(p, "create", n) PROVE PoolInv'
    <3>1. CASE n = 0
      BY <1>a, <2>1, <3>1 DEF Begin
    <3>2. CASE Goto(p, "create") /\ want' = [want EXCEPT ![p] = n] /\ UNCHANGED localVars
      <4>1. LeavesOne(p)'
        BY <1>0, <3>2, IdlingLeavesOne DEF Idling, DestroyPc, Goto
      <4> QED
        BY <1>0, <1>b, <3>2, <4>1 DEF localVars
    <3> QED
      BY <2>1, <3>1, <3>2 DEF Begin
  <2>2. ASSUME Begin(p, "sample", ToDestroy(policy[p], num[p])) PROVE PoolInv'
    <3> DEFINE n == ToDestroy(policy[p], num[p])
    <3>0. n \in Nat /\ (num[p] > 0 => n < num[p])
      BY <1>1, <2>0, ToDestroyLeavesOne
    <3>z. num[p] = 0 => n = 0
      BY <1>1, SMT DEF ToDestroy, FloorTenths, AutoScalingConfig
    <3> HIDE DEF n
    <3>1. CASE n = 0
      BY <1>a, <2>2, <3>1 DEF Begin, n
    <3>2. CASE n # 0 /\ Goto(p, "sample") /\ want' = [want EXCEPT ![p] = n] /\ UNCHANGED localVars
      <4>1. n < num[p]
        BY <2>0, <3>0, <3>z, <3>2, SMT
      <4>2. ~crossed => Cardinality(Live) >= num[p]
        BY <1>0, <2>0 DEF PoolInv, Hands, LeavesOne
      <4>3. ~crossed => Cardinality(Live) > n
        BY <2>0, <3>0, <4>1, <4>2, LiveFinite, SMT
      <4>4. pc'[p] = "sample" /\ want'[p] = n
        BY <1>0, <3>2 DEF Goto
      <4>5. ~crossed => LeavesOne(p)'
        BY <1>1, <4>3, <4>4 DEF LeavesOne
      <4> QED
        BY <1>0, <1>b, <3>2, <4>5 DEF localVars
    <3> QED
      BY <2>2, <3>1, <3>2 DEF Begin, n
  <2> QED
    BY <1>6, <1>a, <2>1, <2>2 DEF Scale, ActOn
<1> QED
  BY <1>2, <1>3, <1>4, <1>5, <1>6 DEF CheckStep, AutoCheckStep

\* The views of an operator who destroys nothing.
LEMMA ViewPool ==
  ASSUME TypeOK, PoolInv, Hands, NEW p \in Thread, View(p)
  PROVE  PoolInv'
<1>0. p \in Proc /\ p # Main /\ want \in [Proc -> Nat]
  BY ProcFacts DEF TypeOK, TaskTypeOK, LocalTypeOK
<1>1. create_worker(p) \/ StopManagers(p) \/ UNCHANGED <<cloudVars, taskVars, crossed>>
  BY DEF View, destroy_worker, delete, destroy_all, stop_manager, Request, apply, turn_on,
         Hands, Destroying
<1>2. CASE create_worker(p)
  <2>1. Live' = Live
    BY <1>2 DEF create_worker, cloudVars, Live, InState
  <2> QED
    BY <1>0, <1>2, <2>1, GotoPool DEF create_worker, localVars, DestroyPc
<1>3. CASE StopManagers(p)
  <2>1. Live' = Live
    BY <1>3 DEF StopManagers, cloudVars, Live, InState
  <2> QED
    BY <1>0, <1>3, <2>1, FinishPool DEF StopManagers, Return, scalerVars
<1>4. CASE UNCHANGED <<cloudVars, taskVars, crossed>>
  BY <1>4 DEF cloudVars, taskVars, localVars, PoolInv, Checking, LeavesOne, Live, InState
<1> QED
  BY <1>1, <1>2, <1>3, <1>4

LEMMA AwsPool ==
  ASSUME TypeOK, PoolInv, NEW i \in Instance, CloudStep(i) \/ FailHealthCheck(i),
         UNCHANGED <<taskVars, scalerVars>>
  PROVE  PoolInv'
<1>1. Live' = Live
  BY DEF TypeOK, CloudTypeOK, CloudStep, FailHealthCheck, BootInstance, ShutDownInstance,
         ForgetInstance, PassHealthCheck, NoticeStopped, Live, InState
<1> QED
  BY <1>1 DEF taskVars, localVars, scalerVars, PoolInv, Checking, LeavesOne

\* Killed processes count on nobody.
LEMMA KillPool ==
  ASSUME TypeOK, PoolInv, Hands, NEW S \in SUBSET Proc, NEW q \in SUBSET queue, Kill(S, q),
         UNCHANGED <<ec2, crossed>>,
         \A p \in Proc \ S : pc'[p] = pc[p] /\ want'[p] = want[p],
         \A p \in S : pc'[p] \in {"idle", "create", "off"}, Main \in S => pc'[Main] # "idle"
  PROVE  PoolInv'
<1>0. Live' = Live
  BY DEF Live, InState
<1>1. /\ \A p \in Proc \ S : Same(p)
      /\ \A p \in S : policy'[p] = None /\ pc'[p] \notin DestroyPc /\ LeavesOne(p)'
  BY IdlingLeavesOne DEF Kill, Forget, Same, Idling, DestroyPc
<1>2. /\ \A p \in Thread : pc'[p] \notin DestroyPc
      /\ \A p \in Slot : pc'[p] \in DestroyPc => policy'[p] # None
      /\ \A p \in Proc : policy'[p] # None => policy[p] # None
      /\ pc'[Main] \in {"enqueue", "idle"} => pc[Main] = pc'[Main]
  BY <1>1, ProcFacts DEF PoolInv, Hands, Same, Checking
<1>3. ~crossed => \A p \in Slot : LeavesOne(p)'
  BY <1>0, <1>1, ProcFacts, SameLeavesOne DEF PoolInv, Hands
<1> QED
  BY <1>0, <1>2, <1>3 DEF PoolInv, Hands, Checking

LEMMA NextPool == TypeOK /\ PoolInv /\ [Next]_vars => PoolInv'
<1> SUFFICES ASSUME TypeOK, PoolInv, [Next]_vars, Hands PROVE PoolInv'
  BY DEF PoolInv, Hands
<1>1. ASSUME NEW p \in Proc, WorkerStep(p) PROVE PoolInv'
  BY <1>1, CreatePool, PickPool, TerminatePool DEF WorkerStep
<1>2. ASSUME NEW p \in Slot, NEW i \in Instance, TakeMessage(p, i) PROVE PoolInv'
  <2>1. p \in Proc /\ p # Main /\ job \in [Proc -> Instance \cup {None}] /\ Live' = Live
    BY <1>2, ProcFacts DEF TakeMessage, StartRegister, cloudVars, Live, InState,
                           TypeOK, TaskTypeOK, LocalTypeOK
  <2> QED
    BY <1>2, <2>1, GotoPool
       DEF TakeMessage, StartRegister, managerVars, scalerVars, DestroyPc
<1>3. ASSUME NEW p \in Slot, TakeCheck(p) \/ CheckStep(p) PROVE PoolInv'
  BY <1>3, TakeCheckPool, CheckPool
<1>4. ASSUME NEW p \in Thread, View(p) PROVE PoolInv'
  BY <1>4, ViewPool
<1>5. ASSUME NEW i \in Instance, Aws(i) \/ WorkerStalls(i) PROVE PoolInv'
  BY <1>5, AwsPool DEF Aws, WorkerStalls, managerVars
<1>6. CASE StartFlask
  <2>1. /\ UNCHANGED <<ec2, crossed>> /\ Kill(Thread \cup {Main}, queue)
        /\ Thread \cup {Main} \in SUBSET Proc
        /\ \A p \in Proc \ (Thread \cup {Main}) : pc'[p] = pc[p] /\ want'[p] = want[p]
        /\ \A p \in Thread \cup {Main} : pc'[p] \in {"idle", "create", "off"}
        /\ pc'[Main] # "idle"
    BY <1>6, ProcFacts DEF StartFlask, cloudVars
  <2> QED
    BY <2>1, KillPool
<1>7. CASE Halt
  <2>1. /\ UNCHANGED <<ec2, crossed>> /\ pc'[Main] # "idle"
        /\ \A p \in Proc : pc'[p] \in {"idle", "create", "off"}
    BY <1>7, ProcFacts DEF Halt, cloudVars, scalerVars
  <2> QED
    BY <1>7, <2>1, KillPool DEF Halt
<1>8. CASE CeleryRestart
  <2>1. /\ UNCHANGED <<ec2, crossed>> /\ Kill(Slot, queue) /\ Slot \in SUBSET Proc /\ Main \notin Slot
        /\ \A p \in Proc \ Slot : pc'[p] = pc[p] /\ want'[p] = want[p]
        /\ \A p \in Slot : pc'[p] \in {"idle", "create", "off"}
    BY <1>8, ProcFacts DEF CeleryRestart, cloudVars
  <2> QED
    BY <2>1, KillPool
<1>9. ASSUME NEW p \in Proc, CallFails(p) PROVE PoolInv'
  <2>1. Live' = Live
    BY <1>9 DEF CallFails, cloudVars, Live, InState
  <2> QED
    BY <1>9, <2>1, FinishPool DEF CallFails, Raise, scalerVars
<1>10. CASE UNCHANGED vars
  BY <1>10 DEF vars, cloudVars, taskVars, localVars, scalerVars, PoolInv, Checking, LeavesOne,
               Live, InState
<1> QED
  BY <1>1, <1>2, <1>3, <1>4, <1>5, <1>6, <1>7, <1>8, <1>9, <1>10 DEF Next

\* Auto scaling never takes the last worker, whatever the ratios of the policy,
\* the load, the restarts and the failing calls, as long as operators destroy no
\* worker and no two checks run at once.
THEOREM PoolKeptCorrect == Spec => []PoolKept
<1>1. Init => PoolInv
  BY ProcFacts, ZenonT(60) DEF Init, TaskInit, PoolInv, Checking, LeavesOne, DestroyPc
<1>2. TypeOK /\ PoolInv /\ [Next]_vars => (TypeOK /\ PoolInv)'
  BY NextType, NextPool
<1>3. PoolInv => PoolKept
  BY DEF PoolInv, PoolKept
<1> QED
  BY InitType, <1>1, <1>2, <1>3, PTL DEF Spec

=============================================================================
