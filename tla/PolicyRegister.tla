--------------------------- MODULE PolicyRegister ---------------------------
(***************************************************************************)
(* What the stored auto-scaling policy promises to those who read it: one  *)
(* value, which an /apply replaces as a whole, a /turn_on switches off as  *)
(* it stands, and a start of a process clears.  No reader ever sees a mix  *)
(* of two policies, or an old policy back again.                           *)
(***************************************************************************)
EXTENDS ScalingPolicy

CONSTANT None           \* no policy is stored

VARIABLE config

Init == config = None

Apply(f) == config' = Applied(f)

TurnOff ==
  /\ config # None
  /\ config' = [config EXCEPT !.isOn = FALSE]

Clear == config' = None

Next ==
  \/ \E f \in Forms : Apply(f)
  \/ TurnOff
  \/ Clear

Spec == Init /\ [][Next]_config

=============================================================================
