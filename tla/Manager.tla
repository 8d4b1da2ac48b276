------------------------------ MODULE Manager ------------------------------
(***************************************************************************)
(* The whole manager: the Flask server started by run.py, the Celery       *)
(* worker with its register tasks and periodic auto checks, the AWS        *)
(* services, and what can go wrong around them.                            *)
(***************************************************************************)
EXTENDS WebViews

CONSTANTS
  MaxStarts,            \* bound on the number of times run.py is started
  MaxFaults,            \* bound on the number of faults
  Faults                \* the kinds of faults that may happen

ASSUME BoundsAssumption == MaxStarts \in Nat \ {0} /\ MaxFaults \in Nat

ASSUME FaultsAssumption ==
  Faults \subseteq {"exception", "health check", "celery restart"}

VARIABLES
  starts,               \* how often run.py has been started
  faults                \* how many faults have happened

vars == <<cloudVars, taskVars, scalerVars, stopping, starts, faults>>

TypeOK ==
  /\ CloudTypeOK
  /\ TaskTypeOK
  /\ config \in AutoScalingConfig \cup {None}
  /\ overlapped \in BOOLEAN
  /\ crossed \in BOOLEAN
  /\ stopping \in BOOLEAN
  /\ starts \in 1 .. MaxStarts
  /\ faults \in 0 .. MaxFaults

\* create_app has emptied the table, and run.py is about to create the first
\* worker.
Init ==
  /\ CloudInit
  /\ TaskInit
  /\ config = None
  /\ overlapped = FALSE
  /\ crossed = FALSE
  /\ stopping = FALSE
  /\ starts = 1
  /\ faults = 0

-----------------------------------------------------------------------------
(* Restarts and faults.                                                    *)

\* The processes in S are gone, with what they were in charge of, and the
\* broker keeps the messages q.
Kill(S, q) ==
  /\ Forget(S)
  /\ queue' = q
  /\ abandoned' = abandoned \cup (queue \ q) \cup UNION {Charge(p) : p \in S}

\* run.py is started (again): create_app drops and recreates the table, and
\* the main thread goes on to celery_create_worker.
StartFlask ==
  /\ starts < MaxStarts
  /\ Kill(Thread \cup {Main}, queue)
  /\ pc' = [p \in Proc |-> IF p = Main THEN "create"
                           ELSE IF p \in Thread THEN "idle" ELSE pc[p]]
  /\ want' = [p \in Proc |-> IF p = Main THEN 1
                             ELSE IF p \in Thread THEN 0 ELSE want[p]]
  /\ config' = None
  /\ starts' = starts + 1
  /\ UNCHANGED <<cloudVars, overlapped, crossed, stopping, faults>>

\* The manager's instance stops, and every process with it.  The broker may
\* or may not have saved its messages.
Halt ==
  /\ stopping
  /\ \E q \in {queue, {}} : Kill(Proc, q)
  /\ pc' = [p \in Proc |-> IF p = Main THEN "off" ELSE "idle"]
  /\ want' = [p \in Proc |-> 0]
  /\ stopping' = FALSE
  /\ UNCHANGED <<cloudVars, scalerVars, starts, faults>>

Fault(kind) ==
  /\ kind \in Faults
  /\ faults < MaxFaults
  /\ faults' = faults + 1

\* Celery is restarted: importing src runs create_app, which drops and
\* recreates the table the Flask server uses.
CeleryRestart ==
  /\ Fault("celery restart")
  /\ Kill(Slot, queue)
  /\ pc' = [p \in Proc |-> IF p \in Slot THEN "idle" ELSE pc[p]]
  /\ want' = [p \in Proc |-> IF p \in Slot THEN 0 ELSE want[p]]
  /\ config' = None
  /\ UNCHANGED <<cloudVars, overlapped, crossed, stopping, starts>>

\* An AWS or broker call of p fails, or the waiter gives up.  No code above
\* it catches the exception.
CallFails(p) ==
  /\ Fault("exception")
  /\ pc[p] \notin {"idle", "exited", "off"}
  /\ Raise(p)
  /\ abandoned' = abandoned \cup Charge(p)
  /\ UNCHANGED <<cloudVars, queue, scalerVars, stopping, starts>>

WorkerStalls(i) ==
  /\ Fault("health check")
  /\ FailHealthCheck(i)
  /\ UNCHANGED <<taskVars, scalerVars, stopping, starts>>

-----------------------------------------------------------------------------
managerVars == <<scalerVars, stopping, starts, faults>>

WorkerStep(p) ==
  /\ \/ CreateInstance(p)
     \/ EnqueueRegister(p)
     \/ SampleWorkers(p)
     \/ Deregister(p)
     \/ Terminate(p)
     \/ WaitRunning(p)
     \/ RegisterTarget(p)
  /\ UNCHANGED managerVars

TakeMessage(p, i) == StartRegister(p, i) /\ UNCHANGED managerVars

TakeCheck(p) == StartCheck(p) /\ UNCHANGED <<stopping, starts, faults>>

CheckStep(p) == AutoCheckStep(p) /\ UNCHANGED <<stopping, starts, faults>>

View(p) ==
  /\ \/ create_worker(p)
     \/ destroy_worker(p)
     \/ \E i \in Instance : delete(p, i)
     \/ destroy_all(p)
     \/ stop_manager(p)
     \/ StopManagers(p)
     \/ \E f \in Forms : apply(p, f)
     \/ turn_on(p)
  /\ UNCHANGED <<starts, faults>>

Aws(i) == CloudStep(i) /\ UNCHANGED <<taskVars, managerVars>>

Next ==
  \/ \E p \in Proc : WorkerStep(p)
  \/ \E p \in Slot, i \in Instance : TakeMessage(p, i)
  \/ \E p \in Slot : TakeCheck(p) \/ CheckStep(p)
  \/ \E p \in Thread : View(p)
  \/ \E i \in Instance : Aws(i)
  \/ StartFlask
  \/ Halt
  \/ CeleryRestart
  \/ \E p \in Proc : CallFails(p)
  \/ \E i \in Instance : WorkerStalls(i)

Spec == Init /\ [][Next]_vars

\* Processes and AWS go on with what they have begun.  The broker hands out
\* messages in the order they came, so neither a register message nor the
\* periodic check is passed over for ever while slots keep becoming free.
Fairness ==
  /\ \A p \in Proc : WF_vars(WorkerStep(p))
  /\ \A p \in Slot : WF_vars(CheckStep(p))
  /\ \A i \in Instance : WF_vars(Aws(i))
  /\ \A i \in Instance : SF_vars(\E p \in Slot : TakeMessage(p, i))
  /\ SF_vars(\E p \in Slot : TakeCheck(p))

FairSpec == Spec /\ Fairness

-----------------------------------------------------------------------------
\* The instance limit.  create_worker and the auto check compare a count of
\* the non-terminated instances with the limit before they create any.  If no
\* count is read while another process still acts on its own, the limit holds,
\* but for the worker that every further start of run.py creates unasked.
LimitUnlessOverlap ==
  overlapped \/ Cardinality(get_non_terminated_instances) <= Limit + (starts - 1)

Present == Cardinality(get_non_terminated_instances)

\* The instances, with the one that run.py is about to create.
Load == Present + IF pc[Main] = "create" THEN 1 ELSE 0

\* run.py creates one worker, and before the first one exists nobody can have
\* applied a policy, so nobody is counting.
QuietBoot ==
  /\ pc[Main] = "create" => want[Main] = 1
  /\ pc[Main] = "enqueue" => want[Main] = 0
  /\ starts = 1 /\ pc[Main] = "create" =>
       /\ config = None
       /\ \A p \in Proc : pc[p] \notin CheckPc /\ ~Window(p)

OneWindow == \A p, q \in Proc : Window(p) /\ Window(q) => p = q

\* There is room below the limit for everything that is on its way.
RoomLeft ==
  /\ Load <= Limit + (starts - 1)
  /\ \A p \in Proc \ {Main} :
       /\ pc[p] \in {"create", "enqueue"} =>
            Load + want[p] <= Limit + (starts - 1)
       /\ pc[p] = "cpu" => Load <= total[p] + (starts - 1)

\* The instances, and those that processes still may create on the count they
\* have read, fit below the limit: why LimitUnlessOverlap holds.
LimitInv == QuietBoot /\ (overlapped \/ (OneWindow /\ RoomLeft))

\* Somebody will register or terminate i.
InCharge(i) == i \in queue \/ \E p \in Proc : i \in Charge(p)

\* Every instance that is up and not behind the load balancer is on its way
\* in or out, unless the process in charge of it failed: the hand-over from
\* create_instances through the broker to the register task loses nobody.
NoOrphan ==
  \A i \in Live \ registered : InCharge(i) \/ i \in abandoned

\* p has a created instance to hand over or to register.
Admitting(p) == pc[p] \in {"enqueue"} \cup RegisterPc

\* i exists, and nobody is left to register it.
Arrived(i) ==
  /\ ec2[i] # "unused"
  /\ i \notin queue
  /\ \A p \in Proc : Admitting(p) => job[p] # i

\* Why NoOrphan and ScaledDownLeavesElb hold: an instance is handed from its
\* creator to the broker to one register task and is registered at most once.
\* Until then nobody registered it; after that no message and no task is left
\* that could register it again, and only then a check or an operator can pick
\* it for destruction.
ArrivalInv ==
  /\ \A i \in queue : ec2[i] # "unused" /\ i \notin registered
  /\ \A i \in registered : ec2[i] # "unused"
  /\ \A p \in Proc : Admitting(p) =>
       /\ ec2[job[p]] # "unused"
       /\ pc[p] = "register" => ec2[job[p]] # "pending"
       /\ job[p] \notin registered
       /\ job[p] \notin queue
       /\ \A q \in Proc \ {p} : Admitting(q) => job[q] # job[p]
  /\ \A p \in Proc : origin[p] = "scale" =>
       /\ \A i \in todo[p] : Arrived(i)
       /\ pc[p] = "terminate" => Arrived(job[p]) /\ job[p] \notin registered

\* A worker that random_destroy_worker picked is out of the target group when
\* it is terminated: no late register task can put it back in.
ScaledDownLeavesElb ==
  \A p \in Proc :
    origin[p] = "scale" /\ pc[p] = "terminate" => job[p] \notin registered

\* The handlers that destroy workers on an operator's request.
Destroying == {"destroy_worker", "delete", "delete_all", "stop_manager"}

\* Auto scaling never takes the last worker.  The shrink branch destroys a
\* share of the workers that is less than one, rounded down, so from the time
\* the first worker exists some worker is up, unless operators destroy workers
\* or two checks run at the same time.
PoolKept ==
  /\ Handlers \cap Destroying = {}
  /\ pc[Main] = "idle"
  /\ ~crossed
  => Live # {}

\* The check p leaves a worker when it has done what it is about to do.
LeavesOne(p) ==
  /\ pc[p] \in {"total", "cpu"} => Cardinality(Live) >= num[p]
  /\ pc[p] = "sample" => Cardinality(Live) > want[p]
  /\ pc[p] = "deregister" => Cardinality(Live) > Cardinality(todo[p])
  /\ pc[p] = "terminate" => Cardinality(Live \ {job[p]}) > Cardinality(todo[p])

\* Why PoolKept holds: as long as no two checks run at once, the check that
\* shrinks the pool has read a number of running workers that nobody has
\* lowered since, and takes less than that.
PoolInv ==
  Handlers \cap Destroying = {} =>
    /\ \A p \in Thread : pc[p] \notin DestroyPc
    /\ \A p \in Slot : pc[p] \in DestroyPc => Checking(p)
    /\ crossed \/
         /\ \A p, q \in Proc : Checking(p) /\ Checking(q) => p = q
         /\ pc[Main] \in {"enqueue", "idle"} => Live # {}
         /\ \A p \in Slot : LeavesOne(p)

\* "all the created instances in service now!" (background.py): when the check
\* asks for the CPU statistics, every instance that is up is in the target
\* group, so the pool does not grow again before the last growth took effect.
SettledBeforeScaling ==
  ~crossed =>
    \A p \in Slot : pc[p] \in {"total", "cpu"} => Live \subseteq registered

\* manualscaling.html: "By applying manual scaling, auto scaling will be turned
\* off".  While the stored policy is off, no auto check creates a worker or
\* takes one out of service.
QuietWhenOff ==
  [][(config # None /\ ~config.isOn) =>
       \A p \in Slot : ~CreateInstance(p) /\ ~Deregister(p)]_vars

\* manualscaling/view.py: "Number of instances reaches maximum limit!"  There
\* are never more instances than the limit.
WithinLimit == Cardinality(get_non_terminated_instances) <= Limit

-----------------------------------------------------------------------------
(* Liveness, under FairSpec.                                               *)

\* An instance that has been created is registered with the load balancer, or
\* ends.
CreatedIsRegistered ==
  \A i \in Instance : ec2[i] = "pending" ~> (i \in registered \/ i \notin Live)

\* Under a load above the expand threshold the pool grows to the limit.
GrowsToLimit ==
  (config # None /\ config.isOn) ~> Cardinality(get_serving_instances) >= Limit

\* The share of the workers that a check would destroy rounds to nothing.
AtRest(f) == Live # {} /\ ToDestroy(Applied(f), Cardinality(Live)) = 0

\* Under a load below the shrink threshold, and as long as a form stays applied
\* and no two checks run at once, the pool shrinks until it is at rest, and
\* stays so.  The share is the form's shrink threshold (Applied): a threshold
\* of 0.5 leads to a single worker, 0.4 to two, 0.3 to three, 0.1 to nine.
ShrinksToRest ==
  \A f \in Forms : <>[](config = Applied(f)) /\ []~crossed => <>[]AtRest(f)

=============================================================================
