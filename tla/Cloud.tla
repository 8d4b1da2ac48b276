------------------------------- MODULE Cloud -------------------------------
(***************************************************************************)
(* The AWS side of the system as the manager sees it: the EC2 instances    *)
(* tagged "worker" and the ELB target group that routes users to them.     *)
(* The manager's queries (instances.py, loadbalancer.health_check) are     *)
(* operators on this state; the effects of its API calls are the Ec2* and  *)
(* Elb* operators, and what AWS does on its own are the actions below.     *)
(*                                                                         *)
(* An instance id is used once: AWS never reuses an id.  "gone" is an id   *)
(* that EC2 no longer reports at all, some time after termination.         *)
(*                                                                         *)
(* Of a target's health the manager only ever tests State == 'healthy', so *)
(* a target is registered or not, and if it is, healthy or not: 'initial', *)
(* 'unhealthy', 'unused' are "registered and not healthy", and 'draining'  *)
(* is "not registered".                                                    *)
(***************************************************************************)
EXTENDS Naturals, FiniteSets

CONSTANT Instance       \* the instance ids EC2 will ever hand out

ASSUME InstanceAssumption == IsFiniteSet(Instance)

VARIABLES
  ec2,                  \* ec2[i]: state name of instance i
  registered,           \* the ids registered in the target group
  healthy               \* the registered ids whose target state is 'healthy'

cloudVars == <<ec2, registered, healthy>>

Ec2State ==
  {"unused", "pending", "running", "shutting-down", "terminated", "gone"}

CloudTypeOK ==
  /\ ec2 \in [Instance -> Ec2State]
  /\ registered \in SUBSET Instance
  /\ healthy \in SUBSET registered

CloudInit ==
  /\ ec2 = [i \in Instance |-> "unused"]
  /\ registered = {}
  /\ healthy = {}

-----------------------------------------------------------------------------
(* The queries of instances.py.  Every one is one API call.                *)

InState(S) == {i \in Instance : ec2[i] \in S}

get_all_instances ==
  InState({"pending", "running", "shutting-down", "terminated"})

get_running_instances == InState({"running"})

get_non_terminated_instances == InState({"running", "pending", "shutting-down"})

has_pending_instances == InState({"pending"}) # {}

get_serving_instances == healthy

\* Instances that are up or coming up.
Live == InState({"pending", "running"})

-----------------------------------------------------------------------------
(* Effects of the API calls the manager makes.                             *)

\* create_instances: a fresh id, in state pending.
Ec2Create(i) ==
  /\ ec2[i] = "unused"
  /\ ec2' = [ec2 EXCEPT ![i] = "pending"]

\* terminate: no effect on an instance that is already going or gone.
Ec2Terminate(i) ==
  ec2' = IF i \in Live THEN [ec2 EXCEPT ![i] = "shutting-down"] ELSE ec2

\* register_targets: the target starts out not healthy.
ElbRegister(i) ==
  /\ registered' = registered \cup {i}
  /\ healthy' = healthy

\* deregister_targets: no effect on an id that is not registered.
ElbDeregister(i) ==
  /\ registered' = registered \ {i}
  /\ healthy' = healthy \ {i}

-----------------------------------------------------------------------------
(* What AWS does on its own.                                               *)

BootInstance(i) ==
  /\ ec2[i] = "pending"
  /\ ec2' = [ec2 EXCEPT ![i] = "running"]
  /\ UNCHANGED <<registered, healthy>>

ShutDownInstance(i) ==
  /\ ec2[i] = "shutting-down"
  /\ ec2' = [ec2 EXCEPT ![i] = "terminated"]
  /\ UNCHANGED <<registered, healthy>>

\* EC2 stops reporting a terminated instance.
ForgetInstance(i) ==
  /\ ec2[i] = "terminated"
  /\ i \notin healthy
  /\ ec2' = [ec2 EXCEPT ![i] = "gone"]
  /\ UNCHANGED <<registered, healthy>>

\* The user application answers the health check.
PassHealthCheck(i) ==
  /\ i \in registered \ healthy
  /\ ec2[i] = "running"
  /\ healthy' = healthy \cup {i}
  /\ UNCHANGED <<ec2, registered>>

\* The load balancer finds out, later, that a target is no longer running.
NoticeStopped(i) ==
  /\ i \in healthy
  /\ ec2[i] # "running"
  /\ healthy' = healthy \ {i}
  /\ UNCHANGED <<ec2, registered>>

\* A running worker misses its health check.
FailHealthCheck(i) ==
  /\ i \in healthy
  /\ ec2[i] = "running"
  /\ healthy' = healthy \ {i}
  /\ UNCHANGED <<ec2, registered>>

CloudStep(i) ==
  \/ BootInstance(i)
  \/ ShutDownInstance(i)
  \/ ForgetInstance(i)
  \/ PassHealthCheck(i)
  \/ NoticeStopped(i)

=============================================================================
