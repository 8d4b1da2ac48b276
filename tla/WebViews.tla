------------------------------ MODULE WebViews ------------------------------
(***************************************************************************)
(* The request handlers of the Flask blueprints that change something:     *)
(* manualscaling, detail, panel and autoscaling.  The views that only      *)
(* render a page change no state.  The handlers of AutoScalingConfig are   *)
(* one step each here; ConfigStore splits them.                            *)
(***************************************************************************)
EXTENDS AutoScaler

CONSTANT Handlers       \* the routes the operators use

ASSUME HandlersAssumption ==
  Handlers \subseteq {"create_worker", "destroy_worker", "delete",
                      "delete_all", "stop_manager", "apply", "turn_on"}

VARIABLE stopping       \* the manager's own instance has been told to stop

\* Thread p is free to handle a request for the route.
Request(p, route) ==
  /\ route \in Handlers
  /\ pc[Main] = "idle"
  /\ pc[p] = "idle"

\* The loop over instances S of a destroying view; after names what follows.
DestroyLoop(p, S, who, after) ==
  /\ Goto(p, IF S = {} THEN after ELSE "deregister")
  /\ todo' = [todo EXCEPT ![p] = S]
  /\ origin' = [origin EXCEPT ![p] = who]
  /\ UNCHANGED <<cloudVars, queue, want, job, num, total, policy, abandoned,
                 scalerVars, stopping>>

-----------------------------------------------------------------------------
\* Mutant: "> limit" where the code says ">= limit".
create_worker_OneOver(p) ==
  /\ Request(p, "create_worker")
  /\ Cardinality(get_non_terminated_instances) <= Limit
  /\ CountInstances(p)
  /\ want' = [want EXCEPT ![p] = 1]
  /\ Goto(p, "create")
  /\ UNCHANGED <<cloudVars, queue, localVars, abandoned, config, crossed,
                 stopping>>

\* manualscaling.create_worker; at the limit it only flashes a message.
create_worker(p) ==
  /\ Request(p, "create_worker")
  /\ Cardinality(get_non_terminated_instances) < Limit
  /\ CountInstances(p)
  /\ want' = [want EXCEPT ![p] = 1]
  /\ Goto(p, "create")
  /\ UNCHANGED <<cloudVars, queue, localVars, abandoned, config, crossed,
                 stopping>>

\* manualscaling.destroy_worker
destroy_worker(p) ==
  /\ Request(p, "destroy_worker")
  /\ want' = [want EXCEPT ![p] = 1]
  /\ Goto(p, "sample")
  /\ UNCHANGED <<cloudVars, queue, localVars, abandoned, scalerVars,
                 stopping>>

\* detail.destroy_worker: the page may be older than the instance's end.
delete(p, i) ==
  /\ Request(p, "delete")
  /\ ec2[i] # "unused"
  /\ DestroyLoop(p, {i}, "operator", "idle")

\* detail.destroy_all; the list holds terminated instances, too.
destroy_all(p) ==
  /\ Request(p, "delete_all")
  /\ get_all_instances # {}
  /\ DestroyLoop(p, get_all_instances, "operator", "idle")

\* panel.stop_manager
stop_manager(p) ==
  /\ Request(p, "stop_manager")
  /\ DestroyLoop(p, get_all_instances, "stop", "stop")

\* The second loop of stop_manager: manager.stop()
StopManagers(p) ==
  /\ pc[p] = "stop"
  /\ stopping' = TRUE
  /\ Return(p)
  /\ UNCHANGED <<cloudVars, queue, abandoned, scalerVars>>

\* autoscaling.apply
apply(p, f) ==
  /\ Request(p, "apply")
  /\ config' = Applied(f)
  /\ UNCHANGED <<cloudVars, taskVars, overlapped, crossed, stopping>>

\* manualscaling.turn_on, which switches auto scaling off; without a stored
\* policy it raises AttributeError.
turn_on(p) ==
  /\ Request(p, "turn_on")
  /\ config # None
  /\ config' = [config EXCEPT !.isOn = FALSE]
  /\ UNCHANGED <<cloudVars, taskVars, overlapped, crossed, stopping>>

=============================================================================
