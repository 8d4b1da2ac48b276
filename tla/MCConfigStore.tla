--------------------------- MODULE MCConfigStore ---------------------------
(* Small instances of ConfigStore for TLC: two forms that differ in every  *)
(* field.                                                                  *)
EXTENDS ConfigStore, TLC

TwoForms ==
  {[expand_threshold |-> 8, shrink_threshold |-> 1,
    expand_ratio |-> 20, shrink_ratio |-> 8],
   [expand_threshold |-> 3, shrink_threshold |-> 5,
    expand_ratio |-> 30, shrink_ratio |-> 2]}

Symmetry == Permutations(Thread)

=============================================================================
