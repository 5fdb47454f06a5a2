------------------------------ MODULE MCStorage ------------------------------
(***************************************************************************)
(* Small instances of Storage: one caller (one tab that awaits every call) *)
(* or two.                                                                 *)
(***************************************************************************)
EXTENDS Storage, TLC

CONSTANTS p, q, d, e, one, two

Symmetry ==
    Permutations({p, q}) \cup Permutations({d, e}) \cup Permutations({one, two})

=============================================================================
