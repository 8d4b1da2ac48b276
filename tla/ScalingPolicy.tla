--------------------------- MODULE ScalingPolicy ---------------------------
(***************************************************************************)
(* The pure part of auto scaling: what autoscaling/view.py stores of the   *)
(* form, and the decision arithmetic of auto_check_avg_cpu_utilization.    *)
(*                                                                         *)
(* Ratios, thresholds and CPU averages are floats in the code.  The form   *)
(* offers ratios and thresholds in multiples of one tenth, so all of them  *)
(* are integers here, in tenths: 25 is the expand ratio 2.5, 3 the shrink  *)
(* threshold 0.3, 412 a CPU average of 41.2.  For the values the form      *)
(* offers, float and integer rounding agree.                               *)
(***************************************************************************)
EXTENDS Integers

CONSTANT
  Limit,                \* the instance limit, the literal 8 of the code
  Forms                 \* the forms an operator may submit to /apply

\* What the form offers: every option expands by a ratio of at least 1, and
\* its thresholds are below 1.
Form ==
  [expand_threshold : 0 .. 9, shrink_threshold : 0 .. 9,
   expand_ratio : Nat \ (0 .. 9), shrink_ratio : 0 .. 9]

AutoScalingConfig ==
  [isOn : BOOLEAN, expand_threshold : 0 .. 9, shrink_threshold : 0 .. 9,
   expand_ratio : Nat \ (0 .. 9), shrink_ratio : 0 .. 9]

ASSUME LimitAssumption == Limit \in Nat \ {0}

ASSUME FormsAssumption == Forms \subseteq Form

\* Mutant: the two ratios are stored in each other's column.
Applied_RatiosSwapped(f) ==
  [isOn |-> TRUE,
   expand_threshold |-> f.expand_threshold,
   shrink_threshold |-> f.shrink_threshold,
   expand_ratio |-> f.shrink_ratio,
   shrink_ratio |-> f.expand_ratio]

\* The row the apply view stores.  The shrink ratio is taken from the form's
\* shrink threshold.
Applied(f) ==
  [isOn |-> TRUE,
   expand_threshold |-> f.expand_threshold,
   shrink_threshold |-> f.shrink_threshold,
   expand_ratio |-> f.expand_ratio,
   shrink_ratio |-> f.shrink_threshold]

-----------------------------------------------------------------------------
CeilTenths(x) == (x + 9) \div 10        \* int(math.ceil(x / 10))

FloorTenths(x) == x \div 10             \* int(x / 10), for x >= 0

\* The branch taken for an average utilisation avg.
Decision(policy, avg) ==
  IF avg > policy.expand_threshold THEN "expand"
  ELSE IF avg < policy.shrink_threshold THEN "shrink"
  ELSE "within range"

Growth(policy, workers) == CeilTenths((policy.expand_ratio - 10) * workers)

\* Mutant: the growth is not cut down to the room below the limit.
ToCreate_Uncapped(policy, workers, nonTerminated) ==
  IF nonTerminated >= Limit THEN 0 ELSE Growth(policy, workers)

\* Mutant: the cap leaves one place below the limit unused.
ToCreate_OneShort(policy, workers, nonTerminated) ==
  IF nonTerminated >= Limit THEN 0
  ELSE IF Growth(policy, workers) + nonTerminated >= Limit
       THEN Limit - nonTerminated - 1
       ELSE Growth(policy, workers)

\* The number of workers the expand branch creates.
ToCreate(policy, workers, nonTerminated) ==
  IF nonTerminated >= Limit THEN 0
  ELSE IF Growth(policy, workers) + nonTerminated >= Limit
       THEN Limit - nonTerminated
       ELSE Growth(policy, workers)

\* Mutant: the share to destroy is rounded up.
ToDestroy_RoundedUp(policy, workers) ==
  CeilTenths(policy.shrink_ratio * workers)

\* The number of workers the shrink branch destroys.
ToDestroy(policy, workers) == FloorTenths(policy.shrink_ratio * workers)

=============================================================================
