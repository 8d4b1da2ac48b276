---------------------------- MODULE WorkerTasks ----------------------------
(***************************************************************************)
(* worker.py and loadbalancer.py: creating, registering and destroying     *)
(* workers, as sequences of AWS calls made by concurrent processes.        *)
(*                                                                         *)
(* The processes are the main thread of run.py, the request threads of the *)
(* Flask server, and the worker processes ("slots") of Celery.  pc[p]      *)
(* names the AWS call that p makes next; a step is one call together with  *)
(* the local computation that follows it, so the calls of different        *)
(* processes interleave freely.                                            *)
(***************************************************************************)
EXTENDS Cloud, ScalingPolicy

CONSTANTS
  Main,                 \* the main thread of run.py
  Thread,               \* the threads of the Flask server
  Slot,                 \* the worker processes of Celery
  None                  \* "no value"

Proc == Thread \cup Slot \cup {Main}

ASSUME ProcAssumption ==
  /\ Thread \cap Slot = {}
  /\ Main \notin Thread \cup Slot

ASSUME NoneAssumption == None \notin Instance \cup AutoScalingConfig

VARIABLES
  queue,                \* ids with a register_instance_to_elb message waiting
  pc,                   \* pc[p]: the next call of p
  job,                  \* job[p]: the instance p is working on
  todo,                 \* todo[p]: the instances p has yet to destroy
  want,                 \* want[p]: the instances p has yet to create or sample
  origin,               \* origin[p]: who asked p to destroy
  num,                  \* num[p], total[p], policy[p]: num_workers,
  total,                \*   num_non_terminated_instances and
  policy,               \*   autoScalingConfig of the auto check p runs
  abandoned             \* history: instances whose process in charge failed

localVars == <<job, todo, origin, num, total, policy>>
taskVars == <<queue, pc, want, localVars, abandoned>>

MainPc == {"create", "enqueue", "idle", "exited", "off"}
DestroyPc == {"sample", "deregister", "terminate"}
RegisterPc == {"wait", "register"}
CheckPc == {"pending", "serving", "running", "total", "cpu"}
ThreadPc == {"idle", "create", "enqueue", "stop"} \cup DestroyPc
SlotPc == {"idle", "create", "enqueue"} \cup DestroyPc \cup RegisterPc
          \cup CheckPc

PcTypeOK ==
  /\ pc \in [Proc -> MainPc \cup ThreadPc \cup SlotPc]
  /\ pc[Main] \in MainPc
  /\ \A p \in Thread : pc[p] \in ThreadPc
  /\ \A p \in Slot : pc[p] \in SlotPc

LocalTypeOK ==
  /\ job \in [Proc -> Instance \cup {None}]
  /\ todo \in [Proc -> SUBSET Instance]
  /\ want \in [Proc -> Nat]
  /\ origin \in [Proc -> {"none", "scale", "operator", "stop"}]
  /\ num \in [Proc -> Nat]
  /\ total \in [Proc -> Nat]
  /\ policy \in [Proc -> AutoScalingConfig \cup {None}]

\* Between two calls a process has the locals that its next call uses.
ReadyOK ==
  \A p \in Proc :
    /\ pc[p] \in {"enqueue", "terminate"} \cup RegisterPc => job[p] \in Instance
    /\ pc[p] = "create" => want[p] > 0
    /\ pc[p] \in CheckPc => policy[p] \in AutoScalingConfig
    /\ origin[p] = "stop" => p \in Thread

TaskTypeOK ==
  /\ queue \in SUBSET Instance
  /\ abandoned \in SUBSET Instance
  /\ PcTypeOK
  /\ LocalTypeOK
  /\ ReadyOK

\* run.py has just called celery_create_worker.
TaskInit ==
  /\ queue = {}
  /\ pc = [p \in Proc |-> IF p = Main THEN "create" ELSE "idle"]
  /\ want = [p \in Proc |-> IF p = Main THEN 1 ELSE 0]
  /\ job = [p \in Proc |-> None]
  /\ todo = [p \in Proc |-> {}]
  /\ origin = [p \in Proc |-> "none"]
  /\ num = [p \in Proc |-> 0]
  /\ total = [p \in Proc |-> 0]
  /\ policy = [p \in Proc |-> None]
  /\ abandoned = {}

-----------------------------------------------------------------------------
Goto(p, label) == pc' = [pc EXCEPT ![p] = label]

\* The locals of the processes in S are lost.
Forget(S) ==
  /\ job' = [p \in Proc |-> IF p \in S THEN None ELSE job[p]]
  /\ todo' = [p \in Proc |-> IF p \in S THEN {} ELSE todo[p]]
  /\ origin' = [p \in Proc |-> IF p \in S THEN "none" ELSE origin[p]]
  /\ num' = [p \in Proc |-> IF p \in S THEN 0 ELSE num[p]]
  /\ total' = [p \in Proc |-> IF p \in S THEN 0 ELSE total[p]]
  /\ policy' = [p \in Proc |-> IF p \in S THEN None ELSE policy[p]]

Finish(p, label) ==
  /\ Goto(p, label)
  /\ want' = [want EXCEPT ![p] = 0]
  /\ Forget({p})

\* The function p runs returns.  For the main thread, app.run starts.
Return(p) == Finish(p, "idle")

\* An exception leaves the function p runs.  The server and Celery catch it
\* at the top of a thread or slot; in the main thread the process ends.
Raise(p) == Finish(p, IF p = Main THEN "exited" ELSE "idle")

\* The instances p is in charge of: created and not yet handed to the broker,
\* about to be registered, or taken out of the target group and not yet
\* terminated.
Charge(p) ==
  IF pc[p] \in {"enqueue", "terminate"} \cup RegisterPc THEN {job[p]} ELSE {}

-----------------------------------------------------------------------------
(* celery_create_worker, want[p] times.                                    *)

\* ec2.create_instances
CreateInstance(p) ==
  /\ pc[p] = "create"
  /\ \/ \E i \in Instance :
          /\ Ec2Create(i)
          /\ job' = [job EXCEPT ![p] = i]
          /\ want' = [want EXCEPT ![p] = @ - 1]
          /\ Goto(p, "enqueue")
          /\ UNCHANGED <<todo, origin, num, total, policy>>
     \/ /\ InState({"unused"}) = {}      \* EC2 refuses
        /\ Raise(p)
        /\ UNCHANGED ec2
  /\ UNCHANGED <<registered, healthy, queue, abandoned>>

\* register_instance_to_elb.apply_async
EnqueueRegister(p) ==
  /\ pc[p] = "enqueue"
  /\ queue' = queue \cup {job[p]}
  /\ IF want[p] > 0
     THEN /\ Goto(p, "create")
          /\ job' = [job EXCEPT ![p] = None]
          /\ UNCHANGED <<want, todo, origin, num, total, policy>>
     ELSE Return(p)
  /\ UNCHANGED <<cloudVars, abandoned>>

-----------------------------------------------------------------------------
(* random_destroy_worker(want[p]) and destroy_a_worker.                    *)

\* Mutant: the victims are drawn from the running instances.
SampleWorkers_AnyRunning(p) ==
  /\ pc[p] = "sample"
  /\ IF want[p] > Cardinality(get_running_instances)
     THEN Return(p)
     ELSE \E S \in SUBSET get_running_instances :
            /\ Cardinality(S) = want[p]
            /\ todo' = [todo EXCEPT ![p] = S]
            /\ want' = [want EXCEPT ![p] = 0]
            /\ origin' = [origin EXCEPT ![p] = "scale"]
            /\ Goto(p, "deregister")
            /\ UNCHANGED <<job, num, total, policy>>
  /\ UNCHANGED <<cloudVars, queue, abandoned>>

\* get_serving_instances and random.sample, which raises ValueError when
\* asked for more than there are.
SampleWorkers(p) ==
  /\ pc[p] = "sample"
  /\ IF get_serving_instances = {}
        \/ want[p] > Cardinality(get_serving_instances)
     THEN Return(p)
     ELSE \E S \in SUBSET get_serving_instances :
            /\ Cardinality(S) = want[p]
            /\ todo' = [todo EXCEPT ![p] = S]
            /\ want' = [want EXCEPT ![p] = 0]
            /\ origin' = [origin EXCEPT ![p] = "scale"]
            /\ Goto(p, "deregister")
            /\ UNCHANGED <<job, num, total, policy>>
  /\ UNCHANGED <<cloudVars, queue, abandoned>>

\* Mutant: the whole list is deregistered with the first of its instances.
Deregister_AllAtOnce(p) ==
  /\ pc[p] = "deregister"
  /\ \E i \in todo[p] :
       /\ registered' = registered \ todo[p]
       /\ healthy' = healthy \ todo[p]
       /\ job' = [job EXCEPT ![p] = i]
       /\ todo' = [todo EXCEPT ![p] = @ \ {i}]
  /\ Goto(p, "terminate")
  /\ UNCHANGED <<ec2, queue, want, origin, num, total, policy, abandoned>>

\* deregister_from_elb of the next instance to destroy.
Deregister(p) ==
  /\ pc[p] = "deregister"
  /\ \E i \in todo[p] :
       /\ ElbDeregister(i)
       /\ job' = [job EXCEPT ![p] = i]
       /\ todo' = [todo EXCEPT ![p] = @ \ {i}]
  /\ Goto(p, "terminate")
  /\ UNCHANGED <<ec2, queue, want, origin, num, total, policy, abandoned>>

\* instance.terminate; looking up an id EC2 has forgotten raises, and the
\* rest of the loop is not run.
Terminate(p) ==
  /\ pc[p] = "terminate"
  /\ Ec2Terminate(job[p])
  /\ IF ec2[job[p]] = "gone" \/ (todo[p] = {} /\ origin[p] # "stop")
     THEN Return(p)
     ELSE /\ Goto(p, IF todo[p] # {} THEN "deregister" ELSE "stop")
          /\ job' = [job EXCEPT ![p] = None]
          /\ UNCHANGED <<want, todo, origin, num, total, policy>>
  /\ UNCHANGED <<registered, healthy, queue, abandoned>>

-----------------------------------------------------------------------------
(* The Celery task register_instance_to_elb.                               *)

\* A free slot takes a message from the broker, which forgets it at once.
StartRegister(p, i) ==
  /\ pc[p] = "idle"
  /\ pc[Main] # "off"
  /\ i \in queue
  /\ queue' = queue \ {i}
  /\ job' = [job EXCEPT ![p] = i]
  /\ Goto(p, "wait")
  /\ UNCHANGED <<cloudVars, want, todo, origin, num, total, policy, abandoned>>

\* Mutant: the task does not wait for the instance to run.
WaitRunning_NoWait(p) ==
  /\ pc[p] = "wait"
  /\ Goto(p, "register")
  /\ UNCHANGED <<want, localVars, cloudVars, queue, abandoned>>

\* waiter.wait polls until the instance runs, and raises when it never will.
WaitRunning(p) ==
  /\ pc[p] = "wait"
  /\ ec2[job[p]] # "pending"
  /\ IF ec2[job[p]] = "running"
     THEN /\ Goto(p, "register")
          /\ UNCHANGED <<want, localVars>>
     ELSE Return(p)
  /\ UNCHANGED <<cloudVars, queue, abandoned>>

\* associate_iam_instance_profile and register_targets; both refuse an
\* instance that is not running.  The profile itself is not part of the model.
RegisterTarget(p) ==
  /\ pc[p] = "register"
  /\ IF ec2[job[p]] = "running"
     THEN ElbRegister(job[p])
     ELSE UNCHANGED <<registered, healthy>>
  /\ Return(p)
  /\ UNCHANGED <<ec2, queue, abandoned>>

=============================================================================
