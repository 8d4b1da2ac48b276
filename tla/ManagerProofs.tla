--------------------------- MODULE ManagerProofs ---------------------------
(***************************************************************************)
(* Proofs about Manager, for every value of its constants: the types, and  *)
(* the hand-over of an instance from its creator through the broker to the *)
(* register task and the target group, and out again.  No instance is      *)
(* forgotten on the way unless the process in charge of it failed, and a   *)
(* worker the scaler picked is not put back behind the load balancer.      *)
(* ArrivalInv of Manager is the inductive invariant of both.               *)
(***************************************************************************)
EXTENDS Manager, FiniteSetTheorems, TLAPS

\* Most leaves are first-order reasoning; those that compute ask for SMT.
USE Zenon

-----------------------------------------------------------------------------
(* The arithmetic of the policy.                                           *)

LEMMA ProductType == \A m, n \in Nat : m * n \in Nat
  BY SMT

\* The growth the policy asks for is a number of workers.
LEMMA GrowthType ==
  ASSUME NEW c \in AutoScalingConfig, NEW n \in Nat
  PROVE  Growth(c, n) \in Nat
<1>1. c.expand_ratio - 10 \in Nat
  BY SMT DEF AutoScalingConfig
<1>2. (c.expand_ratio - 10) * n \in Nat
  BY <1>1, ProductType
<1> QED
  BY <1>2, SMT DEF Growth, CeilTenths

\* background.py caps the number to create at the room below the limit.
LEMMA ToCreateFits ==
  ASSUME NEW c \in AutoScalingConfig, NEW n \in Nat, NEW t \in Nat
  PROVE  /\ ToCreate(c, n, t) \in Nat
         /\ t < Limit => t + ToCreate(c, n, t) <= Limit
         /\ t >= Limit => ToCreate(c, n, t) = 0
BY GrowthType, LimitAssumption, SMT DEF ToCreate

\* A share below one, rounded down, leaves a worker.
LEMMA ToDestroyLeavesOne ==
  ASSUME NEW c \in AutoScalingConfig, NEW n \in Nat
  PROVE  /\ ToDestroy(c, n) \in Nat
         /\ n > 0 => ToDestroy(c, n) < n
<1>1. c.shrink_ratio \in 0 .. 9
  BY DEF AutoScalingConfig
<1>2. c.shrink_ratio * n \in Nat /\ c.shrink_ratio * n <= 9 * n
  BY <1>1, SMT
<1> QED
  BY <1>2, SMT DEF ToDestroy, FloorTenths

\* What apply stores is a row.
LEMMA AppliedType == \A f \in Forms : Applied(f) \in AutoScalingConfig
BY FormsAssumption DEF Applied, Form, AutoScalingConfig

-----------------------------------------------------------------------------
(* Type correctness.                                                       *)

LEMMA ProcFacts ==
  /\ Main \in Proc /\ Thread \subseteq Proc /\ Slot \subseteq Proc
  /\ \A p \in Proc : p = Main \/ p \in Thread \/ p \in Slot
  /\ \A p \in Thread : p # Main /\ p \notin Slot
  /\ \A p \in Slot : p # Main /\ p \notin Thread
BY ProcAssumption DEF Proc

\* The queries are finite sets, so their sizes are numbers.
LEMMA InStateFinite ==
  ASSUME NEW S
  PROVE  IsFiniteSet(InState(S)) /\ Cardinality(InState(S)) \in Nat
<1>1. InState(S) \subseteq Instance
  BY DEF InState
<1> QED
  BY <1>1, InstanceAssumption, FS_Subset, FS_CardinalityType

LEMMA ServingFinite ==
  ASSUME CloudTypeOK
  PROVE  IsFiniteSet(healthy) /\ Cardinality(healthy) \in Nat
<1>1. healthy \subseteq Instance
  BY DEF CloudTypeOK
<1> QED
  BY <1>1, InstanceAssumption, FS_Subset, FS_CardinalityType

\* Moving one process to a label it may have, when it has the locals the label
\* asks for, keeps the program counters typed.
LEMMA GotoType ==
  ASSUME PcTypeOK, NEW p \in Proc, NEW l, Goto(p, l),
         p = Main => l \in MainPc,
         p \in Thread => l \in ThreadPc,
         p \in Slot => l \in SlotPc
  PROVE  PcTypeOK' /\ pc'[p] = l /\ \A q \in Proc \ {p} : pc'[q] = pc[q]
BY ProcFacts DEF PcTypeOK, Goto

LEMMA ForgetType ==
  ASSUME LocalTypeOK, NEW S, Forget(S), want' \in [Proc -> Nat]
  PROVE  LocalTypeOK'
BY DEF LocalTypeOK, Forget

\* A process that finishes needs no locals any more.
LEMMA FinishType ==
  ASSUME TaskTypeOK, NEW p \in Proc, NEW l, Finish(p, l),
         l \in {"idle", "exited"}, l = "exited" => p = Main
  PROVE  PcTypeOK' /\ LocalTypeOK' /\ ReadyOK'
<1> USE DEF TaskTypeOK, Finish
<1>1. PcTypeOK' /\ pc'[p] = l /\ \A q \in Proc \ {p} : pc'[q] = pc[q]
  BY GotoType, ProcFacts DEF MainPc, ThreadPc, SlotPc
<1>2. LocalTypeOK'
  BY ForgetType DEF LocalTypeOK
<1>3. ReadyOK'
  <2> SUFFICES ASSUME NEW q \in Proc
               PROVE  ReadyOK!(q)'
    BY DEF ReadyOK
  <2>1. CASE q = p
    BY <1>1, <2>1 DEF RegisterPc, CheckPc, Forget
  <2>2. CASE q # p
    BY <1>1, <2>2 DEF ReadyOK, LocalTypeOK, Forget
  <2> QED
    BY <2>1, <2>2
<1> QED
  BY <1>1, <1>2, <1>3

LEMMA WorkerStepType ==
  ASSUME TypeOK, NEW p \in Proc, WorkerStep(p)
  PROVE  TypeOK'
<1> SUFFICES CloudTypeOK' /\ TaskTypeOK'
  BY DEF WorkerStep, managerVars, scalerVars, TypeOK
<1>0. /\ CloudTypeOK /\ TaskTypeOK /\ PcTypeOK /\ LocalTypeOK /\ ReadyOK
      /\ queue \in SUBSET Instance /\ abandoned \in SUBSET Instance
  BY DEF TypeOK, TaskTypeOK
<1> USE <1>0
<1>a. Return(p) => PcTypeOK' /\ LocalTypeOK' /\ ReadyOK'
  BY FinishType DEF Return
<1>b. Raise(p) => PcTypeOK' /\ LocalTypeOK' /\ ReadyOK'
  BY FinishType DEF Raise
<1>1. CASE CreateInstance(p)
  <2>1. CASE Raise(p) /\ UNCHANGED ec2
    BY <1>1, <1>b, <2>1 DEF CreateInstance, CloudTypeOK, TaskTypeOK
  <2>2. ASSUME NEW i \in Instance, Ec2Create(i),
               job' = [job EXCEPT ![p] = i],
               want' = [want EXCEPT ![p] = @ - 1],
               Goto(p, "enqueue"),
               UNCHANGED <<todo, origin, num, total, policy>>
        PROVE  CloudTypeOK' /\ TaskTypeOK'
    <3>1. CloudTypeOK'
      BY <1>1, <2>2 DEF CreateInstance, CloudTypeOK, Ec2Create, Ec2State
    <3>2. PcTypeOK' /\ pc'[p] = "enqueue" /\ \A q \in Proc \ {p} : pc'[q] = pc[q]
      BY <2>2, GotoType, ProcFacts DEF MainPc, ThreadPc, SlotPc
    <3>3. LocalTypeOK'
      BY <1>1, <2>2, SMT DEF CreateInstance, LocalTypeOK, ReadyOK
    <3>4. ReadyOK'
      BY <2>2, <3>2 DEF ReadyOK, LocalTypeOK, RegisterPc, CheckPc
    <3> QED
      BY <1>1, <3>1, <3>2, <3>3, <3>4 DEF CreateInstance, TaskTypeOK
  <2> QED
    BY <1>1, <2>1, <2>2 DEF CreateInstance
<1>2. CASE EnqueueRegister(p)
  <2>1. CloudTypeOK' /\ queue' \in SUBSET Instance /\ abandoned' \in SUBSET Instance
    BY <1>2 DEF EnqueueRegister, cloudVars, CloudTypeOK, ReadyOK
  <2>2. CASE want[p] > 0
    <3>1. PcTypeOK' /\ pc'[p] = "create" /\ \A q \in Proc \ {p} : pc'[q] = pc[q]
      BY <1>2, <2>2, GotoType, ProcFacts
         DEF EnqueueRegister, MainPc, ThreadPc, SlotPc
    <3>2. LocalTypeOK'
      BY <1>2, <2>2 DEF EnqueueRegister, LocalTypeOK
    <3>3. ReadyOK'
      BY <1>2, <2>2, <3>1
         DEF EnqueueRegister, ReadyOK, LocalTypeOK, RegisterPc, CheckPc
    <3> QED
      BY <2>1, <3>1, <3>2, <3>3 DEF TaskTypeOK
  <2> QED
    BY <1>2, <1>a, <2>1, <2>2 DEF EnqueueRegister, TaskTypeOK
<1>3. CASE SampleWorkers(p)
  <2>1. CloudTypeOK' /\ queue' \in SUBSET Instance /\ abandoned' \in SUBSET Instance
    BY <1>3 DEF SampleWorkers, cloudVars, CloudTypeOK
  <2>2. CASE Return(p)
    BY <1>a, <2>1, <2>2 DEF TaskTypeOK
  <2>3. ASSUME NEW S \in SUBSET get_serving_instances,
               todo' = [todo EXCEPT ![p] = S],
               want' = [want EXCEPT ![p] = 0],
               origin' = [origin EXCEPT ![p] = "scale"],
               Goto(p, "deregister"),
               UNCHANGED <<job, num, total, policy>>
        PROVE  PcTypeOK' /\ LocalTypeOK' /\ ReadyOK'
    <3>1. p # Main
      BY <1>3 DEF SampleWorkers, PcTypeOK, MainPc
    <3>2. PcTypeOK' /\ pc'[p] = "deregister" /\ \A q \in Proc \ {p} : pc'[q] = pc[q]
      BY <2>3, <3>1, GotoType, ProcFacts DEF ThreadPc, SlotPc, DestroyPc
    <3>3. LocalTypeOK'
      BY <2>3 DEF LocalTypeOK, CloudTypeOK, get_serving_instances
    <3>4. ReadyOK'
      BY <2>3, <3>2 DEF ReadyOK, LocalTypeOK, RegisterPc, CheckPc
    <3> QED
      BY <3>2, <3>3, <3>4
  <2> QED
    BY <1>3, <2>1, <2>2, <2>3 DEF SampleWorkers, TaskTypeOK
<1>4. CASE Deregister(p)
  <2>1. PICK i \in todo[p] : /\ ElbDeregister(i)
                             /\ job' = [job EXCEPT ![p] = i]
                             /\ todo' = [todo EXCEPT ![p] = @ \ {i}]
    BY <1>4 DEF Deregister
  <2>2. i \in Instance
    BY <2>1 DEF LocalTypeOK
  <2>3. CloudTypeOK'
    BY <1>4, <2>1 DEF Deregister, ElbDeregister, CloudTypeOK
  <2>4. p # Main
    BY <1>4 DEF Deregister, PcTypeOK, MainPc
  <2>5. PcTypeOK' /\ pc'[p] = "terminate" /\ \A q \in Proc \ {p} : pc'[q] = pc[q]
    BY <1>4, <2>4, GotoType, ProcFacts DEF Deregister, ThreadPc, SlotPc, DestroyPc
  <2>6. LocalTypeOK'
    BY <1>4, <2>1, <2>2 DEF Deregister, LocalTypeOK
  <2>7. ReadyOK'
    BY <1>4, <2>1, <2>2, <2>5 DEF Deregister, ReadyOK, LocalTypeOK, RegisterPc, CheckPc
  <2> QED
    BY <1>4, <2>3, <2>5, <2>6, <2>7 DEF Deregister, TaskTypeOK
<1>5. CASE Terminate(p)
  <2>1. CloudTypeOK'
    BY <1>5 DEF Terminate, Ec2Terminate, Live, InState, CloudTypeOK, Ec2State, ReadyOK
  <2>2. CASE Return(p)
    BY <1>5, <1>a, <2>1, <2>2 DEF Terminate, TaskTypeOK
  <2>3. ASSUME Goto(p, IF todo[p] # {} THEN "deregister" ELSE "stop"),
               todo[p] # {} \/ origin[p] = "stop",
               job' = [job EXCEPT ![p] = None],
               UNCHANGED <<want, todo, origin, num, total, policy>>
        PROVE  PcTypeOK' /\ LocalTypeOK' /\ ReadyOK'
    <3>1. p # Main /\ (todo[p] = {} => p \in Thread)
      BY <1>5, <2>3 DEF Terminate, PcTypeOK, MainPc, ReadyOK
    <3>2. /\ PcTypeOK' /\ pc'[p] \in {"deregister", "stop"}
          /\ \A q \in Proc \ {p} : pc'[q] = pc[q]
      <4>1. CASE todo[p] = {}
        BY <2>3, <3>1, <4>1, GotoType, ProcFacts DEF ThreadPc
      <4>2. CASE todo[p] # {}
        BY <2>3, <3>1, <4>2, GotoType, ProcFacts DEF ThreadPc, SlotPc, DestroyPc
      <4> QED
        BY <4>1, <4>2
    <3>3. LocalTypeOK'
      BY <2>3 DEF LocalTypeOK
    <3>4. ReadyOK'
      BY <2>3, <3>2 DEF ReadyOK, LocalTypeOK, RegisterPc, CheckPc
    <3> QED
      BY <3>2, <3>3, <3>4
  <2> QED
    BY <1>5, <2>1, <2>2, <2>3 DEF Terminate, TaskTypeOK
<1>6. CASE WaitRunning(p)
  <2>1. CloudTypeOK' /\ queue' \in SUBSET Instance /\ abandoned' \in SUBSET Instance
    BY <1>6 DEF WaitRunning, cloudVars, CloudTypeOK
  <2>2. CASE Return(p)
    BY <1>a, <2>1, <2>2 DEF TaskTypeOK
  <2>3. ASSUME Goto(p, "register"), UNCHANGED <<want, localVars>>
        PROVE  PcTypeOK' /\ LocalTypeOK' /\ ReadyOK'
    <3>1. p \in Slot
      BY <1>6, ProcFacts
         DEF WaitRunning, PcTypeOK, MainPc, ThreadPc, DestroyPc
    <3>2. PcTypeOK' /\ pc'[p] = "register" /\ \A q \in Proc \ {p} : pc'[q] = pc[q]
      BY <2>3, <3>1, GotoType, ProcFacts DEF SlotPc, RegisterPc
    <3>3. LocalTypeOK'
      BY <2>3 DEF LocalTypeOK, localVars
    <3>4. ReadyOK'
      BY <1>6, <2>3, <3>2 DEF WaitRunning, ReadyOK, LocalTypeOK, localVars, RegisterPc, CheckPc
    <3> QED
      BY <3>2, <3>3, <3>4
  <2> QED
    BY <1>6, <2>1, <2>2, <2>3 DEF WaitRunning, TaskTypeOK
<1>7. CASE RegisterTarget(p)
  <2>1. CloudTypeOK'
    BY <1>7, SMT DEF RegisterTarget, ElbRegister, CloudTypeOK, ReadyOK, RegisterPc
  <2> QED
    BY <1>7, <1>a, <2>1 DEF RegisterTarget, TaskTypeOK
<1> QED
  BY <1>1, <1>2, <1>3, <1>4, <1>5, <1>6, <1>7 DEF WorkerStep

LEMMA TakeMessageType ==
  ASSUME TypeOK, NEW p \in Slot, NEW i \in Instance, TakeMessage(p, i)
  PROVE  TypeOK'
<1> USE DEF TakeMessage, StartRegister
<1>0. /\ CloudTypeOK /\ PcTypeOK /\ LocalTypeOK /\ ReadyOK /\ p \in Proc
  BY ProcFacts DEF TypeOK, TaskTypeOK
<1>1. PcTypeOK' /\ pc'[p] = "wait" /\ \A q \in Proc \ {p} : pc'[q] = pc[q]
  BY <1>0, GotoType, ProcFacts DEF SlotPc, RegisterPc
<1>2. LocalTypeOK'
  BY <1>0 DEF LocalTypeOK
<1>3. ReadyOK'
  BY <1>0, <1>1 DEF ReadyOK, LocalTypeOK, RegisterPc, CheckPc
<1> QED
  BY <1>1, <1>2, <1>3
     DEF TypeOK, TaskTypeOK, CloudTypeOK, cloudVars, managerVars, scalerVars

LEMMA TakeCheckType ==
  ASSUME TypeOK, NEW p \in Slot, TakeCheck(p)
  PROVE  TypeOK'
<1> USE DEF TakeCheck, StartCheck
<1>0. /\ CloudTypeOK /\ PcTypeOK /\ LocalTypeOK /\ ReadyOK /\ p \in Proc
      /\ config \in AutoScalingConfig
  BY ProcFacts DEF TypeOK, TaskTypeOK
<1>1. PcTypeOK' /\ pc'[p] = "pending" /\ \A q \in Proc \ {p} : pc'[q] = pc[q]
  BY <1>0, GotoType, ProcFacts DEF SlotPc, CheckPc
<1>2. LocalTypeOK'
  BY <1>0 DEF LocalTypeOK
<1>3. ReadyOK'
  BY <1>0, <1>1 DEF ReadyOK, LocalTypeOK, RegisterPc, CheckPc
<1>4. crossed' \in BOOLEAN
  OBVIOUS
<1> QED
  BY <1>1, <1>2, <1>3, <1>4 DEF TypeOK, TaskTypeOK, CloudTypeOK, cloudVars

LEMMA CheckStepType ==
  ASSUME TypeOK, NEW p \in Slot, CheckStep(p)
  PROVE  TypeOK'
<1>0. /\ CloudTypeOK /\ TaskTypeOK /\ PcTypeOK /\ LocalTypeOK /\ ReadyOK
      /\ p \in Proc
  BY ProcFacts DEF TypeOK, TaskTypeOK
<1>c. pc[p] \in CheckPc /\ policy[p] \in AutoScalingConfig
  <2>1. pc[p] \in CheckPc
    BY DEF CheckStep, AutoCheckStep, CheckPending, CheckServing, CheckRunning,
           CountTotal, Scale, CheckPc
  <2> QED
    BY <1>0, <2>1 DEF ReadyOK
<1> USE <1>0
<1>a. Return(p) => PcTypeOK' /\ LocalTypeOK' /\ ReadyOK'
  BY FinishType DEF Return
<1>b. ASSUME NEW l \in SlotPc, Goto(p, l), UNCHANGED <<job, todo, origin, policy>>,
             l \in {"create", "sample"} \cup CheckPc,
             want' \in [Proc -> Nat], num' \in [Proc -> Nat], total' \in [Proc -> Nat],
             \A q \in Proc \ {p} : want'[q] = want[q],
             l = "create" => want'[p] > 0
      PROVE  PcTypeOK' /\ LocalTypeOK' /\ ReadyOK'
  <2>1. PcTypeOK' /\ pc'[p] = l /\ \A q \in Proc \ {p} : pc'[q] = pc[q]
    BY <1>b, GotoType, ProcFacts
  <2>2. LocalTypeOK'
    BY <1>b DEF LocalTypeOK
  <2>3. ReadyOK'
    BY <1>b, <1>c, <2>1 DEF ReadyOK, LocalTypeOK, RegisterPc, CheckPc
  <2> QED
    BY <2>1, <2>2, <2>3
<1>d. CloudTypeOK' /\ queue' = queue /\ abandoned' = abandoned /\ config' = config
  BY DEF CheckStep, AutoCheckStep, CheckPending, CheckServing, CheckRunning,
         CountTotal, Scale, cloudVars, scalerVars, CloudTypeOK
<1>e. overlapped' \in BOOLEAN /\ crossed' = crossed
  BY DEF CheckStep, AutoCheckStep, CheckPending, CheckServing, CheckRunning,
         CountTotal, Scale, CountInstances, scalerVars, TypeOK
<1> SUFFICES PcTypeOK' /\ LocalTypeOK' /\ ReadyOK'
  BY <1>d, <1>e DEF TypeOK, TaskTypeOK, CheckStep
<1>1. CASE CheckPending(p)
  BY <1>1, <1>a, <1>b DEF CheckPending, localVars, SlotPc, CheckPc, LocalTypeOK
<1>2. CASE CheckServing(p)
  BY <1>2, <1>b, ServingFinite
     DEF CheckServing, get_serving_instances, SlotPc, CheckPc, LocalTypeOK
<1>3. CASE CheckRunning(p)
  BY <1>3, <1>a, <1>b DEF CheckRunning, localVars, SlotPc, CheckPc, LocalTypeOK
<1>4. CASE CountTotal(p)
  BY <1>4, <1>b, InStateFinite
     DEF CountTotal, get_non_terminated_instances, SlotPc, CheckPc, LocalTypeOK
<1>5. CASE Scale(p)
  <2>1. ASSUME NEW n \in Nat, NEW l \in {"create", "sample"}, Begin(p, l, n)
        PROVE  PcTypeOK' /\ LocalTypeOK' /\ ReadyOK'
    BY <2>1, <1>a, <1>b, SMT DEF Begin, localVars, SlotPc, DestroyPc, LocalTypeOK
  <2>2. /\ ToCreate(policy[p], num[p], total[p]) \in Nat
        /\ ToDestroy(policy[p], num[p]) \in Nat
    BY <1>c, ToCreateFits, ToDestroyLeavesOne DEF LocalTypeOK
  <2> QED
    BY <1>5, <1>a, <2>1, <2>2 DEF Scale, ActOn
<1> QED
  BY <1>1, <1>2, <1>3, <1>4, <1>5 DEF CheckStep, AutoCheckStep

LEMMA ViewType ==
  ASSUME TypeOK, NEW p \in Thread, View(p)
  PROVE  TypeOK'
<1>0. /\ CloudTypeOK /\ TaskTypeOK /\ PcTypeOK /\ LocalTypeOK /\ ReadyOK
      /\ p \in Proc /\ p \notin Slot /\ p # Main
  BY ProcFacts DEF TypeOK, TaskTypeOK
<1> USE <1>0
<1>a. ASSUME NEW l \in ThreadPc, Goto(p, l), l \in {"create", "sample", "deregister", "stop"},
             UNCHANGED <<job, num, total, policy>>,
             want' \in [Proc -> Nat], todo' \in [Proc -> SUBSET Instance],
             origin' \in [Proc -> {"none", "scale", "operator", "stop"}],
             \A q \in Proc \ {p} : want'[q] = want[q] /\ origin'[q] = origin[q],
             l = "create" => want'[p] > 0
      PROVE  PcTypeOK' /\ LocalTypeOK' /\ ReadyOK'
  <2>1. PcTypeOK' /\ pc'[p] = l /\ \A q \in Proc \ {p} : pc'[q] = pc[q]
    BY <1>a, GotoType
  <2>2. LocalTypeOK'
    BY <1>a DEF LocalTypeOK
  <2>3. ReadyOK'
    BY <1>a, <2>1 DEF ReadyOK, LocalTypeOK, RegisterPc, CheckPc
  <2> QED
    BY <2>1, <2>2, <2>3
<1>b. ASSUME NEW S \in SUBSET Instance, NEW who \in {"operator", "stop"},
             NEW l, DestroyLoop(p, S, who, l), S = {} => l = "stop",
             UNCHANGED <<starts, faults>>
      PROVE  TypeOK'
  <2>1. PcTypeOK' /\ LocalTypeOK' /\ ReadyOK'
    BY <1>a, <1>b DEF DestroyLoop, LocalTypeOK, ThreadPc, DestroyPc
  <2> QED
    BY <1>b, <2>1
       DEF DestroyLoop, TypeOK, TaskTypeOK, CloudTypeOK, cloudVars, scalerVars
<1>1. CASE create_worker(p)
  <2>1. PcTypeOK' /\ LocalTypeOK' /\ ReadyOK'
    BY <1>1, <1>a, SMT DEF create_worker, localVars, LocalTypeOK, ThreadPc
  <2>2. overlapped' \in BOOLEAN
    BY <1>1 DEF create_worker, CountInstances
  <2> QED
    BY <1>1, <2>1, <2>2
       DEF View, create_worker, TypeOK, TaskTypeOK, CloudTypeOK, cloudVars
<1>2. CASE destroy_worker(p)
  <2>1. PcTypeOK' /\ LocalTypeOK' /\ ReadyOK'
    BY <1>2, <1>a DEF destroy_worker, localVars, LocalTypeOK, ThreadPc, DestroyPc
  <2> QED
    BY <1>2, <2>1
       DEF View, destroy_worker, TypeOK, TaskTypeOK, CloudTypeOK, cloudVars, scalerVars
<1>3. CASE \E i \in Instance : delete(p, i)
  BY <1>3, <1>b DEF View, delete
<1>4. CASE destroy_all(p)
  BY <1>4, <1>b DEF View, destroy_all, get_all_instances, InState
<1>5. CASE stop_manager(p)
  BY <1>5, <1>b DEF View, stop_manager, get_all_instances, InState
<1>6. CASE StopManagers(p)
  <2>1. PcTypeOK' /\ LocalTypeOK' /\ ReadyOK'
    BY <1>6, FinishType DEF StopManagers, Return
  <2> QED
    BY <1>6, <2>1
       DEF View, StopManagers, TypeOK, TaskTypeOK, CloudTypeOK, cloudVars, scalerVars
<1>7. ASSUME UNCHANGED <<cloudVars, taskVars, overlapped, crossed, stopping>>,
             config' \in AutoScalingConfig
      PROVE  TypeOK'
  BY <1>7 DEF View, TypeOK, CloudTypeOK, TaskTypeOK, PcTypeOK, LocalTypeOK, ReadyOK,
              cloudVars, taskVars, localVars
<1>8. CASE \E f \in Forms : apply(p, f)
  BY <1>7, <1>8, AppliedType DEF apply
<1>9. CASE turn_on(p)
  <2>1. config' \in AutoScalingConfig
    BY <1>9 DEF turn_on, TypeOK, AutoScalingConfig
  <2> QED
    BY <1>7, <1>9, <2>1 DEF turn_on
<1> QED
  BY <1>1, <1>2, <1>3, <1>4, <1>5, <1>6, <1>8, <1>9 DEF View

LEMMA AwsType ==
  ASSUME TypeOK, NEW i \in Instance,
         \/ CloudStep(i) \/ FailHealthCheck(i),
         UNCHANGED <<taskVars, scalerVars, stopping, starts>>,
         faults' \in 0 .. MaxFaults
  PROVE  TypeOK'
<1>1. CloudTypeOK'
  BY DEF TypeOK, CloudTypeOK, CloudStep, FailHealthCheck, BootInstance, Ec2State,
         ShutDownInstance, ForgetInstance, PassHealthCheck, NoticeStopped
<1> QED
  BY <1>1 DEF TypeOK, TaskTypeOK, PcTypeOK, LocalTypeOK, ReadyOK,
              taskVars, localVars, scalerVars

\* Processes that are killed, with fitting labels and wants for the others.
LEMMA KillType ==
  ASSUME TypeOK, NEW S \in SUBSET Proc, NEW q \in SUBSET queue, Kill(S, q),
         PcTypeOK', want' \in [Proc -> Nat],
         \A p \in Proc \ S : pc'[p] = pc[p] /\ want'[p] = want[p],
         \A p \in S : /\ pc'[p] \in {"idle", "create", "off"}
                      /\ pc'[p] = "create" => want'[p] > 0
  PROVE  TaskTypeOK'
<1>0. TaskTypeOK /\ LocalTypeOK /\ ReadyOK
  BY DEF TypeOK, TaskTypeOK
<1>1. LocalTypeOK'
  BY <1>0, ForgetType DEF Kill
<1>2. ReadyOK'
  <2> SUFFICES ASSUME NEW p \in Proc
               PROVE  ReadyOK!(p)'
    BY DEF ReadyOK
  <2>1. CASE p \in S
    BY <2>1 DEF Kill, Forget, RegisterPc, CheckPc
  <2>2. CASE p \notin S
    BY <1>0, <2>2 DEF Kill, Forget, ReadyOK
  <2> QED
    BY <2>1, <2>2
<1>3. UNION {Charge(p) : p \in S} \subseteq Instance
  BY <1>0 DEF Charge, ReadyOK
<1> QED
  BY <1>0, <1>1, <1>2, <1>3 DEF Kill, TaskTypeOK

LEMMA InitType == Init => TypeOK
<1> SUFFICES ASSUME Init PROVE TypeOK
  OBVIOUS
<1>1. CloudTypeOK
  BY DEF Init, CloudInit, CloudTypeOK, Ec2State
<1>2. PcTypeOK /\ LocalTypeOK /\ ReadyOK
  BY ProcFacts, SMT
     DEF Init, TaskInit, PcTypeOK, LocalTypeOK, ReadyOK,
         MainPc, ThreadPc, SlotPc, RegisterPc, CheckPc
<1>3. starts \in 1 .. MaxStarts /\ faults \in 0 .. MaxFaults
  BY BoundsAssumption, SMT DEF Init
<1> QED
  BY <1>1, <1>2, <1>3 DEF Init, TaskInit, TypeOK, TaskTypeOK

LEMMA StartsType ==
  ASSUME TypeOK, StartFlask
  PROVE  starts' \in 1 .. MaxStarts
<1>1. starts \in 1 .. MaxStarts /\ starts < MaxStarts /\ starts' = starts + 1
  BY DEF TypeOK, StartFlask
<1> QED
  BY <1>1, BoundsAssumption, SMT

LEMMA FaultsType ==
  ASSUME TypeOK, NEW kind, Fault(kind)
  PROVE  faults' \in 0 .. MaxFaults
<1>1. faults \in 0 .. MaxFaults /\ faults < MaxFaults /\ faults' = faults + 1
  BY DEF TypeOK, Fault
<1> QED
  BY <1>1, BoundsAssumption, SMT

LEMMA NextType == TypeOK /\ [Next]_vars => TypeOK'
<1> SUFFICES ASSUME TypeOK, [Next]_vars PROVE TypeOK'
  OBVIOUS
<1>0. PcTypeOK /\ LocalTypeOK
  BY DEF TypeOK, TaskTypeOK
<1>1. ASSUME NEW p \in Proc, WorkerStep(p) PROVE TypeOK'
  BY <1>1, WorkerStepType
<1>2. ASSUME NEW p \in Slot, NEW i \in Instance, TakeMessage(p, i) PROVE TypeOK'
  BY <1>2, TakeMessageType
<1>3. ASSUME NEW p \in Slot, TakeCheck(p) \/ CheckStep(p) PROVE TypeOK'
  BY <1>3, TakeCheckType, CheckStepType
<1>4. ASSUME NEW p \in Thread, View(p) PROVE TypeOK'
  BY <1>4, ViewType
<1>5. ASSUME NEW i \in Instance, Aws(i) PROVE TypeOK'
  BY <1>5, AwsType DEF Aws, managerVars, TypeOK
<1>6. CASE StartFlask
  <2>1. PcTypeOK' /\ want' \in [Proc -> Nat]
    BY <1>0, <1>6, ProcFacts
       DEF StartFlask, PcTypeOK, LocalTypeOK, MainPc, ThreadPc, SlotPc
  <2>2. TaskTypeOK'
    BY <1>6, <2>1, KillType, ProcFacts, SMT DEF StartFlask
  <2> QED
    BY <1>6, <2>2, StartsType DEF StartFlask, TypeOK, CloudTypeOK, cloudVars
<1>7. CASE Halt
  <2>1. PcTypeOK' /\ want' \in [Proc -> Nat]
    BY <1>7, ProcFacts DEF Halt, PcTypeOK, MainPc, ThreadPc, SlotPc
  <2>2. TaskTypeOK'
    BY <1>7, <2>1, KillType DEF Halt
  <2> QED
    BY <1>7, <2>2 DEF Halt, TypeOK, CloudTypeOK, cloudVars, scalerVars
<1>8. CASE CeleryRestart
  <2>1. PcTypeOK' /\ want' \in [Proc -> Nat]
    BY <1>0, <1>8, ProcFacts DEF CeleryRestart, PcTypeOK, LocalTypeOK, SlotPc
  <2>2. TaskTypeOK'
    BY <1>8, <2>1, KillType, ProcFacts DEF CeleryRestart
  <2> QED
    BY <1>8, <2>2, FaultsType
       DEF CeleryRestart, TypeOK, CloudTypeOK, cloudVars
<1>9. ASSUME NEW p \in Proc, CallFails(p) PROVE TypeOK'
  <2>1. PcTypeOK' /\ LocalTypeOK' /\ ReadyOK'
    BY <1>9, FinishType DEF CallFails, Raise, TypeOK
  <2>2. Charge(p) \subseteq Instance
    BY DEF Charge, TypeOK, TaskTypeOK, ReadyOK
  <2> QED
    BY <1>9, <2>1, <2>2, FaultsType
       DEF CallFails, TypeOK, TaskTypeOK, CloudTypeOK, cloudVars, scalerVars
<1>10. ASSUME NEW i \in Instance, WorkerStalls(i) PROVE TypeOK'
  <2>1. faults' \in 0 .. MaxFaults
    BY <1>10, FaultsType DEF WorkerStalls
  <2> QED
    BY <1>10, <2>1, AwsType DEF WorkerStalls
<1>11. CASE UNCHANGED vars
  BY <1>11 DEF vars, cloudVars, taskVars, localVars, scalerVars, TypeOK, CloudTypeOK,
               TaskTypeOK, PcTypeOK, LocalTypeOK, ReadyOK
<1> QED
  BY <1>1, <1>2, <1>3, <1>4, <1>5, <1>6, <1>7, <1>8, <1>9, <1>10, <1>11 DEF Next

\* Type correctness of the whole manager: every process keeps to the labels of
\* its kind and always has the locals its next call uses.
THEOREM TypeCorrect == Spec => []TypeOK
BY InitType, NextType, PTL DEF Spec

-----------------------------------------------------------------------------
(* The hand-over of an instance.                                           *)

HandoverInv == ArrivalInv /\ NoOrphan

\* What a step of p leaves to the other processes.
OthersKept(p) ==
  \A q \in Proc \ {p} : /\ pc'[q] = pc[q] /\ job'[q] = job[q]
                        /\ todo'[q] = todo[q] /\ origin'[q] = origin[q]

\* A step of a process that is in charge of nothing before it and after it.
LEMMA AsideHandover ==
  ASSUME TypeOK, HandoverInv, NEW p \in Proc, OthersKept(p),
         UNCHANGED <<ec2, registered, queue, abandoned>>,
         Charge(p) = {}, Charge(p)' = {},
         origin'[p] = "scale" => \A i \in todo'[p] : Arrived(i)
  PROVE  HandoverInv'
<1>1. ~Admitting(p) /\ ~Admitting(p)' /\ pc[p] # "terminate" /\ pc'[p] # "terminate"
  BY DEF Charge, Admitting
<1>2. \A q \in Proc \ {p} : (Admitting(q)' <=> Admitting(q)) /\ Charge(q)' = Charge(q)
  BY DEF OthersKept, Charge, Admitting
<1>3. \A i : Arrived(i) => Arrived(i)'
  BY <1>1, <1>2 DEF OthersKept, Arrived
<1>4. ArrivalInv'
  <2>1. /\ \A i \in queue' : ec2'[i] # "unused" /\ i \notin registered'
        /\ \A i \in registered' : ec2'[i] # "unused"
    BY DEF HandoverInv, ArrivalInv
  <2>2. ASSUME NEW q \in Proc, Admitting(q)'
        PROVE  /\ ec2'[job'[q]] # "unused"
               /\ pc'[q] = "register" => ec2'[job'[q]] # "pending"
               /\ job'[q] \notin registered'
               /\ job'[q] \notin queue'
               /\ \A r \in Proc \ {q} : Admitting(r)' => job'[r] # job'[q]
    BY <1>1, <1>2, <2>2, SMT DEF HandoverInv, ArrivalInv, OthersKept
  <2>3. ASSUME NEW q \in Proc, origin'[q] = "scale"
        PROVE  /\ \A i \in todo'[q] : Arrived(i)'
               /\ pc'[q] = "terminate" => Arrived(job[q])' /\ job'[q] \notin registered'
    BY <1>1, <1>3, <2>3 DEF HandoverInv, ArrivalInv, OthersKept
  <2> QED
    BY <2>1, <2>2, <2>3 DEF ArrivalInv
<1>5. NoOrphan'
  <2>1. Live' = Live
    BY DEF Live, InState
  <2>2. \A i : InCharge(i) => InCharge(i)'
    BY <1>2 DEF InCharge
  <2> QED
    BY <2>1, <2>2 DEF HandoverInv, NoOrphan
<1> QED
  BY <1>4, <1>5 DEF HandoverInv

\* A process that finishes leaves the others alone and is in charge of nothing.
LEMMA FinishAside ==
  ASSUME TypeOK, NEW p \in Proc, NEW l \in {"idle", "exited"}, Finish(p, l)
  PROVE  OthersKept(p) /\ Charge(p)' = {} /\ origin'[p] = "none" /\ todo'[p] = {}
BY DEF Finish, Goto, Forget, OthersKept, Charge, RegisterPc, TypeOK, TaskTypeOK, PcTypeOK

LEMMA ReturnAside ==
  ASSUME TypeOK, NEW p \in Proc, Return(p) \/ Raise(p)
  PROVE  OthersKept(p) /\ Charge(p)' = {} /\ origin'[p] = "none" /\ todo'[p] = {}
<1>1. CASE Return(p)
  BY <1>1, FinishAside DEF Return
<1>2. CASE Raise(p)
  BY <1>2, FinishAside DEF Raise
<1> QED
  BY <1>1, <1>2

\* The instance create_instances returns is new to everybody.
LEMMA CreateHandover ==
  ASSUME TypeOK, HandoverInv, NEW p \in Proc, CreateInstance(p)
  PROVE  HandoverInv'
<1>0. /\ ec2 \in [Instance -> Ec2State] /\ queue \subseteq Instance /\ registered \subseteq Instance
      /\ pc \in [Proc -> MainPc \cup ThreadPc \cup SlotPc] /\ pc[p] = "create"
      /\ job \in [Proc -> Instance \cup {None}] /\ todo \in [Proc -> SUBSET Instance]
      /\ \A q \in Proc : Admitting(q) \/ pc[q] = "terminate" => job[q] \in Instance
      /\ Charge(p) = {}
      /\ UNCHANGED <<registered, queue, abandoned>>
  BY DEF TypeOK, CloudTypeOK, TaskTypeOK, PcTypeOK, LocalTypeOK, ReadyOK, Admitting,
         CreateInstance, Charge, RegisterPc
<1>1. CASE Raise(p) /\ UNCHANGED ec2
  BY <1>0, <1>1, ReturnAside, AsideHandover
<1>2. ASSUME NEW i \in Instance, Ec2Create(i), job' = [job EXCEPT ![p] = i],
             Goto(p, "enqueue"), UNCHANGED <<todo, origin>>
      PROVE  HandoverInv'
  <2>1. /\ OthersKept(p) /\ pc'[p] = "enqueue" /\ job'[p] = i
        /\ ec2[i] = "unused" /\ ec2'[i] = "pending"
        /\ \A j \in Instance \ {i} : ec2'[j] = ec2[j]
    BY <1>0, <1>2 DEF Goto, Ec2Create, OthersKept
  <2>2. /\ \A q \in Proc \ {p} : (Admitting(q)' <=> Admitting(q)) /\ Charge(q)' = Charge(q)
        /\ Admitting(p)' /\ Charge(p)' = {i}
    BY <2>1 DEF OthersKept, Charge, Admitting
  <2>3. \A j \in Instance : Arrived(j) => j # i /\ Arrived(j)'
    BY <2>1, <2>2, <1>0 DEF OthersKept, Arrived
  <2>4. /\ \A j \in queue' : ec2'[j] # "unused" /\ j \notin registered'
        /\ \A j \in registered' : ec2'[j] # "unused"
    BY <1>0, <2>1 DEF HandoverInv, ArrivalInv
  <2>5. i \notin queue /\ i \notin registered /\ \A q \in Proc : Admitting(q) => job[q] # i
    BY <1>0, <2>1 DEF HandoverInv, ArrivalInv
  <2>6. ASSUME NEW q \in Proc, Admitting(q)'
        PROVE  /\ ec2'[job'[q]] # "unused"
               /\ pc'[q] = "register" => ec2'[job'[q]] # "pending"
               /\ job'[q] \notin registered'
               /\ job'[q] \notin queue'
               /\ \A r \in Proc \ {q} : Admitting(r)' => job'[r] # job'[q]
    <3>1. CASE q = p
      BY <1>0, <2>1, <2>2, <2>5, <3>1, ZenonT(60) DEF OthersKept
    <3>2. CASE q # p
      <4>1. Admitting(q) /\ job'[q] = job[q] /\ job[q] \in Instance /\ job[q] # i /\ pc'[q] = pc[q]
        BY <1>0, <2>1, <2>2, <2>5, <2>6, <3>2 DEF OthersKept
      <4>2. ec2'[job'[q]] = ec2[job[q]]
        BY <2>1, <4>1
      <4>3. \A r \in Proc \ {q} : Admitting(r)' => job'[r] # job'[q]
        BY <2>1, <2>2, <4>1, <3>2, SMT DEF OthersKept, HandoverInv, ArrivalInv
      <4> QED
        BY <1>0, <4>1, <4>2, <4>3 DEF HandoverInv, ArrivalInv
    <3> QED
      BY <3>1, <3>2
  <2>7. ASSUME NEW q \in Proc, origin'[q] = "scale"
        PROVE  /\ \A j \in todo'[q] : Arrived(j)'
               /\ pc'[q] = "terminate" => Arrived(job[q])' /\ job'[q] \notin registered'
    <3>1. todo'[q] = todo[q] /\ todo[q] \subseteq Instance /\ origin[q] = "scale"
      BY <1>0, <1>2, <2>7
    <3>2. \A j \in todo[q] : Arrived(j)'
      BY <2>3, <3>1 DEF HandoverInv, ArrivalInv
    <3>3. pc'[q] = "terminate" => q # p /\ pc[q] = "terminate" /\ job'[q] = job[q] /\ job[q] \in Instance
      BY <1>0, <2>1 DEF OthersKept
    <3>4. pc'[q] = "terminate" => Arrived(job[q])' /\ job'[q] \notin registered'
      BY <1>0, <2>3, <3>1, <3>3 DEF HandoverInv, ArrivalInv
    <3> QED
      BY <3>1, <3>2, <3>4
  <2>8. ArrivalInv'
    BY <2>4, <2>6, <2>7 DEF ArrivalInv
  <2>9. NoOrphan'
    <3>1. Live' = Live \cup {i}
      BY <1>0, <2>1 DEF Live, InState
    <3>2. InCharge(i)' /\ \A j : InCharge(j) => InCharge(j)'
      BY <1>0, <2>2 DEF InCharge
    <3> QED
      BY <1>0, <3>1, <3>2 DEF HandoverInv, NoOrphan
  <2> QED
    BY <2>8, <2>9 DEF HandoverInv
<1> QED
  BY <1>1, <1>2 DEF CreateInstance

\* The shape of the remaining steps: ec2 only moves on, nobody new is in the
\* queue or registered, and p may stop being in charge.
LEMMA LeaveHandover ==
  ASSUME TypeOK, TypeOK', ArrivalInv, NEW p \in Proc, OthersKept(p),
         \A i \in Instance : /\ ec2'[i] = "unused" <=> ec2[i] = "unused"
                             /\ ec2'[i] = "pending" => ec2[i] = "pending",
         registered' \subseteq registered, queue' \subseteq queue,
         Admitting(p)' => Admitting(p) /\ job'[p] = job[p],
         pc'[p] = "register" => ec2'[job'[p]] # "pending",
         origin'[p] = "scale" => /\ \A i \in todo'[p] : Arrived(i)
                                 /\ pc'[p] = "terminate" => Arrived(job'[p]) /\ job'[p] \notin registered'
  PROVE  ArrivalInv'
<1>0. /\ queue \subseteq Instance /\ registered \subseteq Instance
      /\ todo \in [Proc -> SUBSET Instance]
      /\ \A q \in Proc : Admitting(q) \/ pc[q] = "terminate" => job[q] \in Instance
  BY DEF TypeOK, CloudTypeOK, TaskTypeOK, LocalTypeOK, ReadyOK, Admitting
<1>1. \A q \in Proc : Admitting(q)' => Admitting(q) /\ job'[q] = job[q]
  BY DEF OthersKept, Admitting
<1>2. todo'[p] \subseteq Instance /\ (pc'[p] = "terminate" => job'[p] \in Instance)
  BY DEF TypeOK, TaskTypeOK, LocalTypeOK, ReadyOK
<1>3. \A i \in Instance : Arrived(i) => Arrived(i)'
  BY <1>1 DEF Arrived
<1>4. /\ \A i \in queue' : ec2'[i] # "unused" /\ i \notin registered'
      /\ \A i \in registered' : ec2'[i] # "unused"
  BY <1>0 DEF ArrivalInv
<1>5. ASSUME NEW q \in Proc, Admitting(q)'
      PROVE  /\ ec2'[job'[q]] # "unused"
             /\ pc'[q] = "register" => ec2'[job'[q]] # "pending"
             /\ job'[q] \notin registered'
             /\ job'[q] \notin queue'
             /\ \A r \in Proc \ {q} : Admitting(r)' => job'[r] # job'[q]
  <2>1. Admitting(q) /\ job'[q] = job[q] /\ job[q] \in Instance
    BY <1>0, <1>1, <1>5
  <2>2. pc'[q] = "register" => ec2'[job'[q]] # "pending"
    BY <2>1, ZenonT(60) DEF OthersKept, ArrivalInv
  <2> QED
    BY <1>1, <2>1, <2>2, SMT DEF ArrivalInv
<1>6. ASSUME NEW q \in Proc, origin'[q] = "scale"
      PROVE  /\ \A i \in todo'[q] : Arrived(i)'
             /\ pc'[q] = "terminate" => Arrived(job[q])' /\ job'[q] \notin registered'
  <2>1. CASE q = p
    BY <1>2, <1>3, <1>6, <2>1 DEF Arrived
  <2>2. CASE q # p
    BY <1>0, <1>3, <1>6, <2>2, SMT DEF OthersKept, ArrivalInv
  <2> QED
    BY <2>1, <2>2
<1> QED
  BY <1>4, <1>5, <1>6 DEF ArrivalInv

\* Nobody is orphaned when those who leave Live or come behind the load
\* balancer are all that p lets go.
LEMMA NobodyOrphaned ==
  ASSUME NoOrphan, NEW p \in Proc,
         \A q \in Proc \ {p} : Charge(q)' = Charge(q),
         \A i \in Live' : i \in Live \/ i \in registered',
         abandoned \subseteq abandoned',
         \A i \in Live' \ registered' :
           /\ i \in registered => i \in Charge(p)'
           /\ i \in Charge(p) \cup queue => i \in Charge(p)' \cup queue' \cup abandoned'
  PROVE  NoOrphan'
<1> SUFFICES ASSUME NEW i \in Live' \ registered'
             PROVE  InCharge(i)' \/ i \in abandoned'
  BY DEF NoOrphan
<1>1. CASE i \in registered
  BY <1>1 DEF InCharge
<1>2. CASE i \notin registered
  <2>1. InCharge(i) \/ i \in abandoned
    BY <1>2 DEF NoOrphan
  <2> QED
    BY <2>1 DEF InCharge
<1> QED
  BY <1>1, <1>2

\* apply_async: the creator hands the instance to the broker.
LEMMA EnqueueHandover ==
  ASSUME TypeOK, TypeOK', HandoverInv, NEW p \in Proc, EnqueueRegister(p)
  PROVE  HandoverInv'
<1>0. /\ pc[p] = "enqueue" /\ Admitting(p) /\ Charge(p) = {job[p]}
      /\ queue' = queue \cup {job[p]}
      /\ UNCHANGED <<ec2, registered, abandoned>>
      /\ pc \in [Proc -> MainPc \cup ThreadPc \cup SlotPc]
      /\ job \in [Proc -> Instance \cup {None}]
  BY DEF EnqueueRegister, cloudVars, Admitting, Charge, TypeOK, TaskTypeOK, PcTypeOK, LocalTypeOK
<1>1. OthersKept(p) /\ Charge(p)' = {} /\ (origin'[p] = "scale" => todo'[p] = todo[p] /\ origin[p] = "scale")
  <2>1. CASE Return(p)
    BY <2>1, ReturnAside
  <2>2. CASE Goto(p, "create") /\ job' = [job EXCEPT ![p] = None] /\ UNCHANGED <<todo, origin>>
    BY <1>0, <2>2 DEF Goto, OthersKept, Charge, RegisterPc
  <2> QED
    BY <2>1, <2>2 DEF EnqueueRegister
<1>2. /\ ~Admitting(p)' /\ pc'[p] # "terminate"
      /\ \A q \in Proc \ {p} : (Admitting(q)' <=> Admitting(q)) /\ Charge(q)' = Charge(q)
  BY <1>1 DEF OthersKept, Charge, Admitting
<1>3. /\ ec2[job[p]] # "unused" /\ job[p] \notin registered
      /\ \A q \in Proc \ {p} : Admitting(q) => job[q] # job[p]
  BY <1>0 DEF HandoverInv, ArrivalInv
<1>4. \A i : Arrived(i) => Arrived(i)'
  BY <1>0, <1>1, <1>2 DEF Arrived, OthersKept
<1>5. ASSUME NEW q \in Proc, Admitting(q)'
      PROVE  /\ ec2'[job'[q]] # "unused"
             /\ pc'[q] = "register" => ec2'[job'[q]] # "pending"
             /\ job'[q] \notin registered'
             /\ job'[q] \notin queue'
             /\ \A r \in Proc \ {q} : Admitting(r)' => job'[r] # job'[q]
  BY <1>0, <1>1, <1>2, <1>3, <1>5, SMT DEF OthersKept, HandoverInv, ArrivalInv
<1>6. ASSUME NEW q \in Proc, origin'[q] = "scale"
      PROVE  /\ \A i \in todo'[q] : Arrived(i)'
             /\ pc'[q] = "terminate" => Arrived(job[q])' /\ job'[q] \notin registered'
  BY <1>0, <1>1, <1>2, <1>4, <1>6 DEF OthersKept, HandoverInv, ArrivalInv
<1>7. /\ \A i \in queue' : ec2'[i] # "unused" /\ i \notin registered'
      /\ \A i \in registered' : ec2'[i] # "unused"
  BY <1>0, <1>3 DEF HandoverInv, ArrivalInv
<1>8. ArrivalInv'
  BY <1>5, <1>6, <1>7 DEF ArrivalInv
<1>9. NoOrphan'
  <2>1. Live' = Live
    BY <1>0 DEF Live, InState
  <2> QED
    BY <1>0, <1>2, <2>1, NobodyOrphaned DEF HandoverInv
<1> QED
  BY <1>8, <1>9 DEF HandoverInv

\* deregister_targets: p takes charge of what it takes out.
LEMMA DeregisterHandover ==
  ASSUME TypeOK, TypeOK', HandoverInv, NEW p \in Proc, Deregister(p)
  PROVE  HandoverInv'
<1>0. /\ pc \in [Proc -> MainPc \cup ThreadPc \cup SlotPc]
      /\ job \in [Proc -> Instance \cup {None}] /\ todo \in [Proc -> SUBSET Instance]
      /\ pc[p] = "deregister" /\ UNCHANGED <<ec2, queue, origin, abandoned>>
  BY DEF Deregister, TypeOK, TaskTypeOK, PcTypeOK, LocalTypeOK
<1>1. PICK i \in todo[p] : /\ registered' = registered \ {i}
                           /\ job' = [job EXCEPT ![p] = i]
                           /\ todo' = [todo EXCEPT ![p] = @ \ {i}]
  BY DEF Deregister, ElbDeregister
<1>2. /\ pc'[p] = "terminate" /\ job'[p] = i /\ todo'[p] = todo[p] \ {i}
      /\ OthersKept(p) /\ origin'[p] = origin[p]
  BY <1>0, <1>1 DEF Deregister, Goto, OthersKept
<1>3. /\ Charge(p) = {} /\ Charge(p)' = {i} /\ ~Admitting(p)'
      /\ \A q \in Proc \ {p} : Charge(q)' = Charge(q)
  BY <1>0, <1>2 DEF Charge, Admitting, OthersKept, RegisterPc
<1>4. ArrivalInv'
  <2>1. origin'[p] = "scale" => (\A j \in todo'[p] : Arrived(j)) /\ Arrived(job'[p])
    BY <1>1, <1>2 DEF HandoverInv, ArrivalInv
  <2>2. job'[p] \notin registered' /\ registered' \subseteq registered /\ pc'[p] # "register"
    BY <1>1, <1>2, SMT
  <2> QED
    BY <1>0, <1>2, <1>3, <2>1, <2>2, LeaveHandover DEF HandoverInv
<1>5. NoOrphan'
  <2>1. Live' = Live
    BY <1>0 DEF Live, InState
  <2> QED
    BY <1>0, <1>1, <1>3, <2>1, NobodyOrphaned DEF HandoverInv
<1> QED
  BY <1>4, <1>5 DEF HandoverInv

\* instance.terminate: what p lets go of is no longer up.
LEMMA TerminateHandover ==
  ASSUME TypeOK, TypeOK', HandoverInv, NEW p \in Proc, Terminate(p)
  PROVE  HandoverInv'
<1>0. /\ pc \in [Proc -> MainPc \cup ThreadPc \cup SlotPc]
      /\ job \in [Proc -> Instance \cup {None}] /\ ec2 \in [Instance -> Ec2State]
      /\ pc[p] = "terminate" /\ UNCHANGED <<registered, queue, abandoned>>
      /\ job[p] \in Instance /\ Ec2Terminate(job[p]) /\ Charge(p) = {job[p]}
  BY DEF Terminate, TypeOK, TaskTypeOK, PcTypeOK, LocalTypeOK, CloudTypeOK, ReadyOK, Charge
<1>1. OthersKept(p) /\ Charge(p)' = {} /\ (origin'[p] = "scale" => todo'[p] = todo[p] /\ origin[p] = "scale")
  <2>1. CASE Return(p)
    BY <2>1, ReturnAside
  <2>2. CASE /\ Goto(p, IF todo[p] # {} THEN "deregister" ELSE "stop")
             /\ job' = [job EXCEPT ![p] = None]
             /\ UNCHANGED <<todo, origin>>
    BY <1>0, <2>2 DEF Goto, OthersKept, Charge, RegisterPc
  <2> QED
    BY <2>1, <2>2 DEF Terminate
<1>2. /\ Live' = Live \ {job[p]}
      /\ \A i \in Instance : /\ ec2'[i] = "unused" <=> ec2[i] = "unused"
                             /\ ec2'[i] = "pending" => ec2[i] = "pending"
  BY <1>0 DEF Ec2Terminate, Live, InState
<1>3. /\ ~Admitting(p)' /\ pc'[p] \notin {"terminate", "register"}
      /\ \A q \in Proc \ {p} : Charge(q)' = Charge(q)
  BY <1>1 DEF Charge, Admitting, OthersKept, RegisterPc
<1>4. ArrivalInv'
  <2>1. origin'[p] = "scale" => \A i \in todo'[p] : Arrived(i)
    BY <1>1 DEF HandoverInv, ArrivalInv
  <2> QED
    BY <1>0, <1>1, <1>2, <1>3, <2>1, LeaveHandover DEF HandoverInv
<1>5. NoOrphan'
  BY <1>0, <1>2, <1>3, NobodyOrphaned DEF HandoverInv
<1> QED
  BY <1>4, <1>5 DEF HandoverInv

\* waiter.wait returns when the instance runs and raises when it has ended.
LEMMA WaitHandover ==
  ASSUME TypeOK, TypeOK', HandoverInv, NEW p \in Proc, WaitRunning(p)
  PROVE  HandoverInv'
<1>0. /\ pc \in [Proc -> MainPc \cup ThreadPc \cup SlotPc]
      /\ pc[p] = "wait" /\ UNCHANGED <<ec2, registered, queue, abandoned>>
      /\ ec2[job[p]] # "pending" /\ Charge(p) = {job[p]} /\ Admitting(p)
  BY DEF WaitRunning, cloudVars, TypeOK, TaskTypeOK, PcTypeOK, Charge, Admitting, RegisterPc
<1>a. Live' = Live
  BY <1>0 DEF Live, InState
<1>1. CASE ec2[job[p]] = "running"
  <2>1. /\ OthersKept(p) /\ pc'[p] = "register"
        /\ job'[p] = job[p] /\ todo'[p] = todo[p] /\ origin'[p] = origin[p]
    BY <1>0, <1>1 DEF WaitRunning, Goto, localVars, OthersKept
  <2>2. /\ Charge(p)' = {job[p]} /\ \A q \in Proc \ {p} : Charge(q)' = Charge(q)
    BY <2>1 DEF Charge, OthersKept, RegisterPc
  <2>3. ArrivalInv'
    <3>1. origin'[p] = "scale" => \A i \in todo'[p] : Arrived(i)
      BY <2>1 DEF HandoverInv, ArrivalInv
    <3>2. ec2'[job'[p]] # "pending"
      BY <1>0, <2>1
    <3> QED
      BY <1>0, <2>1, <3>1, <3>2, LeaveHandover DEF HandoverInv
  <2>4. NoOrphan'
    BY <1>0, <1>a, <2>2, NobodyOrphaned DEF HandoverInv
  <2> QED
    BY <2>3, <2>4 DEF HandoverInv
<1>2. CASE ec2[job[p]] # "running"
  <2>1. OthersKept(p) /\ Charge(p)' = {} /\ origin'[p] = "none"
    BY <1>2, ReturnAside DEF WaitRunning
  <2>2. /\ ~Admitting(p)' /\ pc'[p] # "register"
        /\ \A q \in Proc \ {p} : Charge(q)' = Charge(q)
    BY <2>1 DEF Charge, Admitting, OthersKept, RegisterPc
  <2>3. ArrivalInv'
    BY <1>0, <2>1, <2>2, LeaveHandover DEF HandoverInv
  <2>4. job[p] \notin Live
    BY <1>0, <1>2 DEF Live, InState
  <2>5. NoOrphan'
    BY <1>0, <1>a, <2>1, <2>2, <2>4, NobodyOrphaned, SMT DEF HandoverInv
  <2> QED
    BY <2>3, <2>5 DEF HandoverInv
<1> QED
  BY <1>1, <1>2

\* register_targets: the one task that had the instance is done with it.
LEMMA RegisterHandover ==
  ASSUME TypeOK, TypeOK', HandoverInv, NEW p \in Proc, RegisterTarget(p)
  PROVE  HandoverInv'
<1>0. /\ pc[p] = "register" /\ UNCHANGED <<ec2, queue, abandoned>>
      /\ Charge(p) = {job[p]} /\ Admitting(p)
      /\ ec2[job[p]] # "unused" /\ ec2[job[p]] # "pending" /\ job[p] \notin queue
      /\ \A q \in Proc \ {p} : Admitting(q) => job[q] # job[p]
  BY DEF RegisterTarget, Charge, Admitting, RegisterPc, HandoverInv, ArrivalInv
<1>1. OthersKept(p) /\ Charge(p)' = {} /\ origin'[p] = "none" /\ Live' = Live
  BY <1>0, ReturnAside DEF RegisterTarget, Live, InState
<1>2. /\ ~Admitting(p)' /\ pc'[p] # "register"
      /\ \A q \in Proc \ {p} : (Admitting(q)' <=> Admitting(q)) /\ Charge(q)' = Charge(q)
  BY <1>1 DEF Charge, Admitting, OthersKept, RegisterPc
<1>3. CASE ec2[job[p]] # "running"
  <2>1. job[p] \notin Live /\ registered' = registered
    BY <1>0, <1>3 DEF Live, InState, RegisterTarget
  <2>2. ArrivalInv'
    BY <1>0, <1>1, <1>2, <2>1, LeaveHandover DEF HandoverInv
  <2>3. NoOrphan'
    BY <1>0, <1>1, <1>2, <2>1, NobodyOrphaned, ZenonT(60) DEF HandoverInv
  <2> QED
    BY <2>2, <2>3 DEF HandoverInv
<1>4. CASE ec2[job[p]] = "running"
  <2>1. registered' = registered \cup {job[p]}
    BY <1>4 DEF RegisterTarget, ElbRegister
  <2>2. \A i : Arrived(i) => i # job[p] /\ Arrived(i)'
    BY <1>0, <1>1, <1>2 DEF Arrived, OthersKept
  <2>3. /\ \A i \in queue' : ec2'[i] # "unused" /\ i \notin registered'
        /\ \A i \in registered' : ec2'[i] # "unused"
    BY <1>0, <2>1 DEF HandoverInv, ArrivalInv
  <2>4. ASSUME NEW q \in Proc, Admitting(q)'
        PROVE  /\ ec2'[job'[q]] # "unused"
               /\ pc'[q] = "register" => ec2'[job'[q]] # "pending"
               /\ job'[q] \notin registered'
               /\ job'[q] \notin queue'
               /\ \A r \in Proc \ {q} : Admitting(r)' => job'[r] # job'[q]
    BY <1>0, <1>1, <1>2, <2>1, <2>4, SMT DEF OthersKept, HandoverInv, ArrivalInv
  <2>5. ASSUME NEW q \in Proc, origin'[q] = "scale"
        PROVE  /\ \A i \in todo'[q] : Arrived(i)'
               /\ pc'[q] = "terminate" => Arrived(job[q])' /\ job'[q] \notin registered'
    <3>1. q # p
      BY <1>1, <2>5
    <3>2. (\A i \in todo[q] : Arrived(i)) /\ todo'[q] = todo[q] /\ pc'[q] = pc[q] /\ job'[q] = job[q]
      BY <1>1, <2>5, <3>1 DEF OthersKept, HandoverInv, ArrivalInv
    <3>3. pc[q] = "terminate" => Arrived(job[q]) /\ job[q] \notin registered
      BY <1>1, <2>5, <3>1 DEF OthersKept, HandoverInv, ArrivalInv
    <3> QED
      BY <2>1, <2>2, <3>2, <3>3
  <2>6. ArrivalInv'
    BY <2>3, <2>4, <2>5 DEF ArrivalInv
  <2>7. NoOrphan'
    BY <1>0, <1>1, <1>2, <2>1, NobodyOrphaned DEF HandoverInv
  <2> QED
    BY <2>6, <2>7 DEF HandoverInv
<1> QED
  BY <1>3, <1>4

\* A slot takes the message, and the broker forgets it.
LEMMA TakeMessageHandover ==
  ASSUME TypeOK, TypeOK', HandoverInv, NEW p \in Slot, NEW i \in Instance, TakeMessage(p, i)
  PROVE  HandoverInv'
<1>0. /\ p \in Proc /\ pc[p] = "idle" /\ UNCHANGED <<ec2, registered, abandoned, todo, origin>>
      /\ i \in queue /\ queue' = queue \ {i}
      /\ job' = [job EXCEPT ![p] = i] /\ Goto(p, "wait")
      /\ pc \in [Proc -> MainPc \cup ThreadPc \cup SlotPc]
      /\ job \in [Proc -> Instance \cup {None}]
  BY ProcFacts DEF TakeMessage, StartRegister, cloudVars, TypeOK, TaskTypeOK, PcTypeOK, LocalTypeOK
<1>1. pc'[p] = "wait" /\ job'[p] = i /\ OthersKept(p) /\ Live' = Live
  BY <1>0 DEF Goto, OthersKept, Live, InState
<1>2. /\ Admitting(p)' /\ ~Admitting(p) /\ Charge(p) = {} /\ Charge(p)' = {i}
      /\ \A q \in Proc \ {p} : (Admitting(q)' <=> Admitting(q)) /\ Charge(q)' = Charge(q)
  BY <1>0, <1>1 DEF Charge, Admitting, OthersKept, RegisterPc
<1>3. \A j : Arrived(j) => Arrived(j)'
  BY <1>0, <1>1, <1>2 DEF Arrived, OthersKept
<1>4. ec2[i] # "unused" /\ i \notin registered /\ \A q \in Proc : Admitting(q) => job[q] # i
  BY <1>0 DEF HandoverInv, ArrivalInv
<1>5. /\ \A j \in queue' : ec2'[j] # "unused" /\ j \notin registered'
      /\ \A j \in registered' : ec2'[j] # "unused"
  BY <1>0 DEF HandoverInv, ArrivalInv
<1>6. ASSUME NEW q \in Proc, Admitting(q)'
      PROVE  /\ ec2'[job'[q]] # "unused"
             /\ pc'[q] = "register" => ec2'[job'[q]] # "pending"
             /\ job'[q] \notin registered'
             /\ job'[q] \notin queue'
             /\ \A r \in Proc \ {q} : Admitting(r)' => job'[r] # job'[q]
  <2>1. CASE q = p
    BY <1>0, <1>1, <1>2, <1>4, <2>1 DEF OthersKept
  <2>2. CASE q # p
    BY <1>0, <1>1, <1>2, <1>4, <1>6, <2>2, ZenonT(60) DEF OthersKept, HandoverInv, ArrivalInv
  <2> QED
    BY <2>1, <2>2
<1>7. ASSUME NEW q \in Proc, origin'[q] = "scale"
      PROVE  /\ \A j \in todo'[q] : Arrived(j)'
             /\ pc'[q] = "terminate" => Arrived(job[q])' /\ job'[q] \notin registered'
  BY <1>0, <1>1, <1>3, <1>7 DEF OthersKept, HandoverInv, ArrivalInv
<1>8. ArrivalInv'
  BY <1>5, <1>6, <1>7 DEF ArrivalInv
<1>9. NoOrphan'
  BY <1>0, <1>1, <1>2, NobodyOrphaned DEF HandoverInv
<1> QED
  BY <1>8, <1>9 DEF HandoverInv

\* random.sample draws from the instances that are registered and healthy.
LEMMA SampleHandover ==
  ASSUME TypeOK, HandoverInv, NEW p \in Proc, SampleWorkers(p)
  PROVE  HandoverInv'
<1>0. /\ pc[p] = "sample" /\ UNCHANGED <<ec2, registered, queue, abandoned>> /\ Charge(p) = {}
      /\ pc \in [Proc -> MainPc \cup ThreadPc \cup SlotPc] /\ healthy \subseteq registered
      /\ todo \in [Proc -> SUBSET Instance]
      /\ origin \in [Proc -> {"none", "scale", "operator", "stop"}]
  BY DEF SampleWorkers, cloudVars, Charge, RegisterPc, TypeOK, TaskTypeOK, PcTypeOK,
         LocalTypeOK, CloudTypeOK
<1>1. CASE Return(p)
  BY <1>0, <1>1, ReturnAside, AsideHandover
<1>2. ASSUME NEW S \in SUBSET get_serving_instances,
             todo' = [todo EXCEPT ![p] = S], origin' = [origin EXCEPT ![p] = "scale"],
             Goto(p, "deregister"), UNCHANGED job
      PROVE  HandoverInv'
  <2>1. OthersKept(p) /\ Charge(p)' = {} /\ todo'[p] = S
    BY <1>0, <1>2 DEF Goto, OthersKept, Charge, RegisterPc
  <2>2. \A i \in S : Arrived(i)
    BY <1>0, <1>2 DEF get_serving_instances, Arrived, HandoverInv, ArrivalInv
  <2> QED
    BY <1>0, <2>1, <2>2, AsideHandover
<1> QED
  BY <1>1, <1>2 DEF SampleWorkers

\* The auto check only reads and decides.
LEMMA CheckHandover ==
  ASSUME TypeOK, HandoverInv, NEW p \in Slot, TakeCheck(p) \/ CheckStep(p)
  PROVE  HandoverInv'
<1>0. /\ p \in Proc /\ pc \in [Proc -> MainPc \cup ThreadPc \cup SlotPc]
      /\ origin[p] = "scale" => \A i \in todo[p] : Arrived(i)
  BY ProcFacts DEF TypeOK, TaskTypeOK, PcTypeOK, HandoverInv, ArrivalInv
<1>1. UNCHANGED <<ec2, registered, queue, abandoned>> /\ Charge(p) = {}
  BY DEF TakeCheck, StartCheck, CheckStep, AutoCheckStep, CheckPending, CheckServing, CheckRunning,
         CountTotal, Scale, cloudVars, Charge, RegisterPc
<1>2. \/ Return(p)
      \/ /\ UNCHANGED <<job, todo, origin>>
         /\ \E l \in CheckPc \cup {"create", "sample"} : Goto(p, l)
  BY DEF TakeCheck, StartCheck, CheckStep, AutoCheckStep, CheckPending, CheckServing, CheckRunning,
         CountTotal, Scale, ActOn, Begin, localVars, CheckPc
<1>3. CASE Return(p)
  BY <1>0, <1>1, <1>3, ReturnAside, AsideHandover
<1>4. ASSUME UNCHANGED <<job, todo, origin>>, NEW l \in CheckPc \cup {"create", "sample"}, Goto(p, l)
      PROVE  HandoverInv'
  <2>1. OthersKept(p) /\ Charge(p)' = {}
    BY <1>0, <1>4 DEF Goto, OthersKept, Charge, RegisterPc, CheckPc
  <2> QED
    BY <1>0, <1>1, <1>4, <2>1, AsideHandover
<1> QED
  BY <1>2, <1>3, <1>4

\* A request is begun by a thread that is free; its destroying steps follow.
LEMMA ViewHandover ==
  ASSUME TypeOK, HandoverInv, NEW p \in Thread, View(p)
  PROVE  HandoverInv'
<1>0. /\ p \in Proc /\ pc \in [Proc -> MainPc \cup ThreadPc \cup SlotPc]
      /\ todo \in [Proc -> SUBSET Instance]
      /\ origin \in [Proc -> {"none", "scale", "operator", "stop"}]
      /\ origin[p] = "scale" => \A i \in todo[p] : Arrived(i)
  BY ProcFacts DEF TypeOK, TaskTypeOK, PcTypeOK, LocalTypeOK, HandoverInv, ArrivalInv
<1> USE DEF View, create_worker, destroy_worker, delete, destroy_all, stop_manager, StopManagers,
            apply, turn_on, DestroyLoop, Request
<1>1. UNCHANGED <<ec2, registered, queue, abandoned>> /\ Charge(p) = {}
  BY DEF cloudVars, taskVars, Charge, RegisterPc
<1>2. \/ Return(p)
      \/ UNCHANGED <<pc, job, todo, origin>>
      \/ UNCHANGED <<job, todo, origin>> /\ \E l \in {"create", "sample"} : Goto(p, l)
      \/ /\ UNCHANGED job
         /\ \E l \in {"idle", "stop", "deregister"} : Goto(p, l)
         /\ \E S, who : /\ who \in {"operator", "stop"} /\ todo' = [todo EXCEPT ![p] = S]
                        /\ origin' = [origin EXCEPT ![p] = who]
  BY DEF taskVars, localVars
<1>3. CASE Return(p)
  BY <1>0, <1>1, <1>3, ReturnAside, AsideHandover
<1>4. CASE UNCHANGED <<pc, job, todo, origin>>
  <2>1. OthersKept(p) /\ Charge(p)' = {}
    BY <1>1, <1>4 DEF OthersKept, Charge
  <2> QED
    BY <1>0, <1>1, <1>4, <2>1, AsideHandover
<1>5. ASSUME UNCHANGED <<job, todo, origin>>, NEW l \in {"create", "sample"}, Goto(p, l)
      PROVE  HandoverInv'
  <2>1. OthersKept(p) /\ Charge(p)' = {}
    BY <1>0, <1>5 DEF Goto, OthersKept, Charge, RegisterPc
  <2> QED
    BY <1>0, <1>1, <1>5, <2>1, AsideHandover
<1>6. ASSUME UNCHANGED job, NEW l \in {"idle", "stop", "deregister"}, Goto(p, l),
             NEW S, NEW who \in {"operator", "stop"},
             todo' = [todo EXCEPT ![p] = S], origin' = [origin EXCEPT ![p] = who]
      PROVE  HandoverInv'
  <2>1. OthersKept(p) /\ Charge(p)' = {} /\ origin'[p] # "scale"
    BY <1>0, <1>6 DEF Goto, OthersKept, Charge, RegisterPc
  <2> QED
    BY <1>0, <1>1, <2>1, AsideHandover
<1> QED
  BY <1>2, <1>3, <1>4, <1>5, <1>6

\* AWS boots, ends and forgets instances, and looks at their health.
LEMMA AwsHandover ==
  ASSUME TypeOK, TypeOK', HandoverInv, NEW i \in Instance, CloudStep(i) \/ FailHealthCheck(i),
         UNCHANGED taskVars
  PROVE  HandoverInv'
<1>0. /\ ec2 \in [Instance -> Ec2State] /\ Main \in Proc
      /\ UNCHANGED <<registered, queue, abandoned, pc, job, todo, origin>>
  BY ProcFacts
     DEF TypeOK, CloudTypeOK, taskVars, localVars, CloudStep, FailHealthCheck, BootInstance,
         ShutDownInstance, ForgetInstance, PassHealthCheck, NoticeStopped
<1>1. /\ Live' = Live
      /\ \A j \in Instance : /\ ec2'[j] = "unused" <=> ec2[j] = "unused"
                             /\ ec2'[j] = "pending" => ec2[j] = "pending"
  BY <1>0 DEF CloudStep, FailHealthCheck, BootInstance, ShutDownInstance, ForgetInstance,
              PassHealthCheck, NoticeStopped, Live, InState
<1>2. OthersKept(Main) /\ \A q \in Proc : (Admitting(q)' <=> Admitting(q)) /\ Charge(q)' = Charge(q)
  BY <1>0 DEF OthersKept, Admitting, Charge
<1>3. pc'[Main] # "register"
  BY DEF TypeOK, TaskTypeOK, PcTypeOK, MainPc
<1>4. ArrivalInv'
  BY <1>0, <1>1, <1>2, <1>3, LeaveHandover DEF HandoverInv, ArrivalInv
<1>5. NoOrphan'
  BY <1>0, <1>1, <1>2, NobodyOrphaned DEF HandoverInv
<1> QED
  BY <1>4, <1>5 DEF HandoverInv

\* What killed processes were in charge of, and lost messages, are abandoned.
LEMMA KillHandover ==
  ASSUME TypeOK, HandoverInv, NEW S \in SUBSET Proc, NEW q \in SUBSET queue, Kill(S, q),
         UNCHANGED <<ec2, registered>>,
         \A p \in Proc \ S : pc'[p] = pc[p],
         \A p \in S : pc'[p] \in {"idle", "create", "off"}
  PROVE  HandoverInv'
<1>1. /\ queue' = q
      /\ abandoned' = abandoned \cup (queue \ q) \cup UNION {Charge(p) : p \in S}
      /\ \A p \in Proc \ S : job'[p] = job[p] /\ todo'[p] = todo[p] /\ origin'[p] = origin[p]
      /\ \A p \in S : origin'[p] = "none"
  BY DEF Kill, Forget
<1>2. /\ \A p \in S : ~Admitting(p)'
      /\ \A p \in Proc \ S : (Admitting(p)' <=> Admitting(p)) /\ Charge(p)' = Charge(p)
  BY <1>1 DEF Admitting, Charge, RegisterPc
<1>3. \A i : Arrived(i) => Arrived(i)'
  BY <1>1, <1>2 DEF Arrived
<1>4. ASSUME NEW p \in Proc, Admitting(p)'
      PROVE  /\ ec2'[job'[p]] # "unused"
             /\ pc'[p] = "register" => ec2'[job'[p]] # "pending"
             /\ job'[p] \notin registered'
             /\ job'[p] \notin queue'
             /\ \A r \in Proc \ {p} : Admitting(r)' => job'[r] # job'[p]
  <2>1. p \in Proc \ S /\ Admitting(p) /\ job'[p] = job[p] /\ pc'[p] = pc[p]
    BY <1>1, <1>2, <1>4
  <2>2. \A r \in Proc \ {p} : Admitting(r)' => job'[r] # job'[p]
    BY <1>1, <1>2, <2>1, SMT DEF HandoverInv, ArrivalInv
  <2> QED
    BY <1>1, <2>1, <2>2, SMT DEF HandoverInv, ArrivalInv
<1>5. ASSUME NEW p \in Proc, origin'[p] = "scale"
      PROVE  /\ \A i \in todo'[p] : Arrived(i)'
             /\ pc'[p] = "terminate" => Arrived(job[p])' /\ job'[p] \notin registered'
  <2>1. p \in Proc \ S /\ pc'[p] = pc[p]
    BY <1>1, <1>5
  <2> QED
    BY <1>1, <1>3, <1>5, <2>1 DEF HandoverInv, ArrivalInv
<1>6. ArrivalInv'
  BY <1>1, <1>4, <1>5 DEF HandoverInv, ArrivalInv
<1>7. NoOrphan'
  <2> SUFFICES ASSUME NEW i \in Live' \ registered' PROVE InCharge(i)' \/ i \in abandoned'
    BY DEF NoOrphan
  <2>1. i \in queue \/ (\E p \in Proc : i \in Charge(p)) \/ i \in abandoned
    BY DEF HandoverInv, NoOrphan, InCharge, Live, InState
  <2> QED
    BY <1>1, <1>2, <2>1 DEF InCharge
<1> QED
  BY <1>6, <1>7 DEF HandoverInv

\* What a failing call leaves behind is abandoned, too.
LEMMA FailHandover ==
  ASSUME TypeOK, TypeOK', HandoverInv, NEW p \in Proc, CallFails(p)
  PROVE  HandoverInv'
<1>0. UNCHANGED <<ec2, registered, queue>> /\ abandoned' = abandoned \cup Charge(p) /\ Live' = Live
  BY DEF CallFails, cloudVars, Live, InState
<1>1. OthersKept(p) /\ Charge(p)' = {} /\ origin'[p] = "none"
  BY ReturnAside DEF CallFails
<1>2. /\ ~Admitting(p)' /\ pc'[p] # "register"
      /\ \A q \in Proc \ {p} : Charge(q)' = Charge(q)
  BY <1>1 DEF Charge, Admitting, OthersKept, RegisterPc
<1>3. ArrivalInv'
  BY <1>0, <1>1, <1>2, LeaveHandover DEF HandoverInv
<1>4. NoOrphan'
  BY <1>0, <1>1, <1>2, NobodyOrphaned DEF HandoverInv
<1> QED
  BY <1>3, <1>4 DEF HandoverInv

LEMMA NextHandover == TypeOK /\ TypeOK' /\ HandoverInv /\ [Next]_vars => HandoverInv'
<1> SUFFICES ASSUME TypeOK, TypeOK', HandoverInv, [Next]_vars PROVE HandoverInv'
  OBVIOUS
<1>1. ASSUME NEW p \in Proc, WorkerStep(p) PROVE HandoverInv'
  BY <1>1, CreateHandover, EnqueueHandover, SampleHandover, DeregisterHandover, TerminateHandover,
     WaitHandover, RegisterHandover DEF WorkerStep
<1>2. ASSUME NEW p \in Slot, NEW i \in Instance, TakeMessage(p, i) PROVE HandoverInv'
  BY <1>2, TakeMessageHandover
<1>3. ASSUME NEW p \in Slot, TakeCheck(p) \/ CheckStep(p) PROVE HandoverInv'
  BY <1>3, CheckHandover
<1>4. ASSUME NEW p \in Thread, View(p) PROVE HandoverInv'
  BY <1>4, ViewHandover
<1>5. ASSUME NEW i \in Instance, Aws(i) \/ WorkerStalls(i) PROVE HandoverInv'
  BY <1>5, AwsHandover DEF Aws, WorkerStalls
<1>6. CASE StartFlask
  <2>1. /\ UNCHANGED <<ec2, registered>> /\ Kill(Thread \cup {Main}, queue)
        /\ Thread \cup {Main} \in SUBSET Proc
        /\ \A p \in Proc \ (Thread \cup {Main}) : pc'[p] = pc[p]
        /\ \A p \in Thread \cup {Main} : pc'[p] \in {"idle", "create", "off"}
    BY <1>6, ProcFacts DEF StartFlask, cloudVars
  <2> QED
    BY <2>1, KillHandover
<1>7. CASE Halt
  BY <1>7, KillHandover DEF Halt, cloudVars
<1>8. CASE CeleryRestart
  <2>1. /\ UNCHANGED <<ec2, registered>> /\ Kill(Slot, queue) /\ Slot \in SUBSET Proc
        /\ \A p \in Proc \ Slot : pc'[p] = pc[p]
        /\ \A p \in Slot : pc'[p] \in {"idle", "create", "off"}
    BY <1>8, ProcFacts DEF CeleryRestart, cloudVars
  <2> QED
    BY <2>1, KillHandover
<1>9. ASSUME NEW p \in Proc, CallFails(p) PROVE HandoverInv'
  BY <1>9, FailHandover
<1>10. CASE UNCHANGED vars
  BY <1>10 DEF vars, cloudVars, taskVars, localVars, HandoverInv, ArrivalInv, Arrived, Admitting,
               NoOrphan, InCharge, Charge, Live, InState
<1> QED
  BY <1>1, <1>2, <1>3, <1>4, <1>5, <1>6, <1>7, <1>8, <1>9, <1>10 DEF Next

LEMMA HandoverHolds == Spec => [](TypeOK /\ HandoverInv)
<1>1. Init => HandoverInv
  BY ZenonT(60) DEF Init, CloudInit, TaskInit, HandoverInv, ArrivalInv, Arrived, Admitting, RegisterPc,
         NoOrphan, Live, InState
<1>2. TypeOK /\ HandoverInv /\ [Next]_vars => (TypeOK /\ HandoverInv)'
  BY NextType, NextHandover
<1> QED
  BY InitType, <1>1, <1>2, PTL DEF Spec

\* No instance is orphaned, however creations, register tasks, destructions,
\* restarts and failing calls interleave.
THEOREM NoOrphanCorrect == Spec => []NoOrphan
BY HandoverHolds, PTL DEF HandoverInv

\* A worker that random_destroy_worker picked cannot be put back behind the
\* load balancer before it is terminated.
THEOREM LeavesElbCorrect == Spec => []ScaledDownLeavesElb
<1>1. HandoverInv => ScaledDownLeavesElb
  BY DEF HandoverInv, ArrivalInv, ScaledDownLeavesElb
<1> QED
  BY <1>1, HandoverHolds, PTL

=============================================================================
