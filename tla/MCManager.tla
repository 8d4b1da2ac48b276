----------------------------- MODULE MCManager -----------------------------
(* Small instances of Manager for TLC. *)
EXTENDS Manager, TLC

Options(expandThreshold, shrinkThreshold, expandRatio, shrinkRatio) ==
  [expand_threshold |-> expandThreshold, shrink_threshold |-> shrinkThreshold,
   expand_ratio |-> expandRatio, shrink_ratio |-> shrinkRatio]

\* Thresholds 80% and 50%, ratios 2 and 0.8.
Doubling == {Options(8, 5, 20, 8)}

\* The same with ratio 3.
Tripling == {Options(8, 5, 30, 8)}

\* Shrink thresholds of 50% and 40%.
Shrinking == {Options(8, 5, 20, 8), Options(8, 4, 20, 8)}

\* An average below, one within, one above, and no statistics yet.
AnyLoad == {None, 2, 6, 900}

LowLoad == {2}

HighLoad == {900}

Symmetry ==
  Permutations(Instance) \cup Permutations(Thread) \cup Permutations(Slot)

=============================================================================
