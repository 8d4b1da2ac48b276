----------------------------- MODULE AutoScaler -----------------------------
(***************************************************************************)
(* auto_check_avg_cpu_utilization (background.py), the task Celery beat    *)
(* sends every ten seconds.  It reads the stored policy once, then makes   *)
(* five AWS queries one after the other, and acts on what they returned.   *)
(* Nothing keeps two checks, or a check and a request, from interleaving.  *)
(***************************************************************************)
EXTENDS WorkerTasks

CONSTANT CpuAverages    \* the averages CloudWatch may report, in tenths;
                        \*   None if some worker has no statistics yet

ASSUME CpuAssumption == CpuAverages \subseteq Nat \cup {None}

VARIABLES
  config,               \* AutoScalingConfig.query.first(), or None
  overlapped,           \* history: an instance count was read while another
                        \*   process still acted on a count it had read
  crossed               \* history: a check was started while another ran

\* p has counted the instances and may still create some on that count.
Window(p) ==
  /\ p # Main
  /\ \/ pc[p] = "cpu"
     \/ pc[p] \in {"create", "enqueue"} /\ want[p] > 0

\* What the history records when p counts the non-terminated instances.
CountInstances(p) ==
  overlapped' = (overlapped \/ \E q \in Proc \ {p} : Window(q))

\* p runs an auto check, the loops at its end included.
Checking(p) == policy[p] # None

scalerVars == <<config, overlapped, crossed>>

-----------------------------------------------------------------------------
\* Mutant: the check goes on when no policy is stored.
StartCheck_NoPolicy(p) ==
  /\ pc[p] = "idle"
  /\ pc[Main] # "off"
  /\ config # None => config.isOn
  /\ policy' = [policy EXCEPT ![p] = config]
  /\ crossed' = (crossed \/ \E q \in Proc : Checking(q))
  /\ Goto(p, "pending")
  /\ UNCHANGED <<cloudVars, queue, want, job, todo, origin, num, total,
                 abandoned, config, overlapped>>

\* Beat's message reaches a free slot.  The policy in force is read here, and
\* an absent or switched-off policy ends the check at once.
StartCheck(p) ==
  /\ pc[p] = "idle"
  /\ pc[Main] # "off"
  /\ config # None
  /\ config.isOn
  /\ policy' = [policy EXCEPT ![p] = config]
  /\ crossed' = (crossed \/ \E q \in Proc : Checking(q))
  /\ Goto(p, "pending")
  /\ UNCHANGED <<cloudVars, queue, want, job, todo, origin, num, total,
                 abandoned, config, overlapped>>

\* Mutant: pending instances do not hold the check back.
CheckPending_Skipped(p) ==
  /\ pc[p] = "pending"
  /\ Goto(p, "serving")
  /\ UNCHANGED <<want, localVars, cloudVars, queue, abandoned, scalerVars>>

\* has_pending_instances
CheckPending(p) ==
  /\ pc[p] = "pending"
  /\ IF has_pending_instances
     THEN Return(p)
     ELSE Goto(p, "serving") /\ UNCHANGED <<want, localVars>>
  /\ UNCHANGED <<cloudVars, queue, abandoned, scalerVars>>

\* get_serving_instances
CheckServing(p) ==
  /\ pc[p] = "serving"
  /\ num' = [num EXCEPT ![p] = Cardinality(get_serving_instances)]
  /\ Goto(p, "running")
  /\ UNCHANGED <<cloudVars, queue, want, job, todo, origin, total, policy,
                 abandoned, scalerVars>>

\* get_running_instances: the check goes on only if as many instances run as
\* serve.
CheckRunning(p) ==
  /\ pc[p] = "running"
  /\ IF num[p] # Cardinality(get_running_instances)
     THEN Return(p)
     ELSE Goto(p, "total") /\ UNCHANGED <<want, localVars>>
  /\ UNCHANGED <<cloudVars, queue, abandoned, scalerVars>>

\* get_non_terminated_instances
CountTotal(p) ==
  /\ pc[p] = "total"
  /\ total' = [total EXCEPT ![p] = Cardinality(get_non_terminated_instances)]
  /\ CountInstances(p)
  /\ Goto(p, "cpu")
  /\ UNCHANGED <<cloudVars, queue, want, job, todo, origin, num, policy,
                 abandoned, config, crossed>>

\* Mutant: "to_destroy > 1" where the code says "to_destroy > 0".
Begin_OverOne(p, label, n) ==
  IF n <= 1
  THEN Return(p)
  ELSE /\ Goto(p, label)
       /\ want' = [want EXCEPT ![p] = n]
       /\ UNCHANGED localVars

\* The loop that follows a decision: nothing for zero iterations.
Begin(p, label, n) ==
  IF n = 0
  THEN Return(p)
  ELSE /\ Goto(p, label)
       /\ want' = [want EXCEPT ![p] = n]
       /\ UNCHANGED localVars

ActOn(p, decision) ==
  \/ /\ decision = "expand"
     /\ Begin(p, "create", ToCreate(policy[p], num[p], total[p]))
  \/ /\ decision = "shrink"
     /\ Begin(p, "sample", ToDestroy(policy[p], num[p]))
  \/ /\ decision = "within range"
     /\ Return(p)

\* all_instance_has_valid_cpu_util and the decision.  A serving worker without
\* statistics ends the check; without serving workers the average is nan, and
\* every comparison with it is false.
Scale(p) ==
  /\ pc[p] = "cpu"
  /\ \E avg \in CpuAverages :
       IF avg = None \/ get_serving_instances = {}
       THEN Return(p)
       ELSE ActOn(p, Decision(policy[p], avg))
  /\ UNCHANGED <<cloudVars, queue, abandoned, scalerVars>>

AutoCheckStep(p) ==
  \/ CheckPending(p)
  \/ CheckServing(p)
  \/ CheckRunning(p)
  \/ CountTotal(p)
  \/ Scale(p)

=============================================================================
