--------------------------- MODULE MCManagerParts ---------------------------
(***************************************************************************)
(* Several small instances of Manager in one run.  A behaviour picks one   *)
(* of them, its part, and stays with it.  A part uses only some of the     *)
(* instances and slots; the other instances are ones that EC2 has already  *)
(* forgotten.                                                              *)
(***************************************************************************)
EXTENDS MCManager

CONSTANTS
  Parts,                \* the parts of the run
  Symmetric,            \* the run uses PartsSymmetry
  FirstSlot             \* the slot of the parts with a single slot

VARIABLE part

\* Two request threads and the auto check around the limit.
Creators == INSTANCE Manager WITH Handlers <- {"create_worker", "destroy_worker", "apply"}

\* Restarts of run.py and of Celery, and failing calls, around the limit.
Restarts == INSTANCE Manager WITH Handlers <- {"create_worker", "apply"},
  MaxStarts <- 2, MaxFaults <- 1, Faults <- {"exception", "celery restart"}

\* Auto scaling under an arbitrary load.
Autoscale == INSTANCE Manager WITH Limit <- 3, Handlers <- {"apply", "turn_on"},
  MaxFaults <- 1, Faults <- {"health check"}

\* A constant high load; a constant low load; creators beside destroyers.
Grow == INSTANCE Manager WITH CpuAverages <- HighLoad, Forms <- Doubling, Handlers <- {"apply"}

Shrink == INSTANCE Manager WITH CpuAverages <- LowLoad, Handlers <- {"apply", "create_worker"}

Register == INSTANCE Manager WITH Limit <- 2,
  Handlers <- {"create_worker", "destroy_worker", "delete"}

\* How many instances, threads and slots a part uses.
Size == [creators |-> 4, restarts |-> 4, autoscale |-> 3, grow |-> 4, shrink |-> 3, register |-> 2]
Threads == [creators |-> 2, restarts |-> 1, autoscale |-> 1, grow |-> 1, shrink |-> 1, register |-> 1]
Slots == [creators |-> {FirstSlot}, restarts |-> {FirstSlot}, autoscale |-> Slot, grow |-> Slot,
          shrink |-> {FirstSlot}, register |-> Slot]

Busy(S) == {p \in S : pc'[p] # "idle"}

\* The part's step of the manager keeps to its threads and slots.
InPart ==
  /\ Cardinality(Busy(Thread)) <= Threads[part]
  /\ Busy(Slot) \subseteq Slots[part]
  /\ UNCHANGED part

\* The instances a part may use: one choice is enough without symmetry.
Choices(n) ==
  LET sets == {S \in SUBSET Instance : Cardinality(S) = n}
  IN  IF Symmetric THEN sets ELSE {CHOOSE S \in sets : TRUE}

PartsInit ==
  /\ part \in Parts
  /\ TaskInit
  /\ registered = {} /\ healthy = {}
  /\ config = None /\ overlapped = FALSE /\ crossed = FALSE
  /\ stopping = FALSE /\ starts = 1 /\ faults = 0
  /\ \E S \in Choices(Size[part]) :
       ec2 = [i \in Instance |-> IF i \in S THEN "unused" ELSE "gone"]

PartsNext ==
  /\ \/ part = "creators" /\ Creators!Next
     \/ part = "restarts" /\ Restarts!Next
     \/ part = "autoscale" /\ Autoscale!Next
     \/ part = "grow" /\ Grow!Next
     \/ part = "shrink" /\ Shrink!Next
     \/ part = "register" /\ Register!Next
  /\ InPart

partsVars == <<vars, part>>

PartsSpec == PartsInit /\ [][PartsNext]_partsVars

PartCheckStep(p) ==
  /\ \/ part = "grow" /\ Grow!CheckStep(p)
     \/ part = "shrink" /\ Shrink!CheckStep(p)
     \/ part = "register" /\ Register!CheckStep(p)
  /\ InPart

\* Fairness of Manager; WorkerStep, TakeMessage and Aws do not depend on the
\* constants that differ among the parts.
PartsFairSpec ==
  /\ PartsSpec
  /\ \A p \in Proc : WF_partsVars(WorkerStep(p) /\ InPart)
  /\ \A p \in Slot : WF_partsVars(PartCheckStep(p))
  /\ \A i \in Instance : WF_partsVars(Aws(i) /\ InPart)
  /\ \A i \in Instance : SF_partsVars(\E p \in Slot : TakeMessage(p, i) /\ InPart)
  /\ SF_partsVars(\E p \in Slot : TakeCheck(p) /\ InPart)

PartsSymmetry == Permutations(Instance) \cup Permutations(Thread)

-----------------------------------------------------------------------------
\* A worker that random_destroy_worker picked is out of the target group when
\* it is terminated: ScaledDownLeavesElb of Manager with two request threads,
\* and ArrivalInv, from which it follows.
PickedLeavesElb == part = "creators" => ScaledDownLeavesElb /\ ArrivalInv

\* The limit holds unless counts overlap, with two request threads and across
\* restarts and failing calls: LimitUnlessOverlap and LimitInv of Manager.  No
\* instance is orphaned by those, either: NoOrphan and ArrivalInv.
LimitKept ==
  /\ part = "creators" => LimitUnlessOverlap /\ LimitInv
  /\ part = "restarts" => LimitUnlessOverlap /\ LimitInv /\ NoOrphan /\ ArrivalInv

\* Auto scaling never takes the last worker: PoolKept of Manager, and PoolInv,
\* from which it follows.
LastWorkerKept == part = "autoscale" => Autoscale!PoolKept /\ Autoscale!PoolInv

\* The load is looked at only when every instance that is up is in the target
\* group: SettledBeforeScaling of Manager.
ScalesWhenSettled == part = "autoscale" => SettledBeforeScaling

\* Under a high load the pool grows to the limit.
HighLoadGrows == part = "grow" => GrowsToLimit

\* Under a low load the pool shrinks as far as the rounding of the applied
\* form's share allows: ShrinksToRest of Manager.
LowLoadShrinks == part = "shrink" => ShrinksToRest

\* Created instances are registered or end.
AllRegistered == part \in {"grow", "register"} => CreatedIsRegistered
=============================================================================
