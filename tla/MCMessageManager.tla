--------------------------- MODULE MCMessageManager ---------------------------
(***************************************************************************)
(* Small instances of MessageManager: two goroutines that call Send in the *)
(* main program, and so share the IDs of a tag, or one at each end.        *)
(***************************************************************************)
EXTENDS MessageManager, TLC

CONSTANTS main, worker, a, b, c

OneSided == {a, b}
OneSidedHome == (a :> main) @@ (b :> main)

Alternating == {a, c}
AlternatingHome == (a :> main) @@ (c :> worker)

TwoAndNone == (main :> 2) @@ (worker :> 0)
ThreeAndOne == (main :> 3) @@ (worker :> 1)

=============================================================================
