------------------------------ MODULE MCGoEvents ------------------------------
(***************************************************************************)
(* Three calls of Go functions, nested or not, and two timeouts.           *)
(***************************************************************************)
EXTENDS GoEvents, TLC

CONSTANTS call1, call2, call3

MCEvents == {call1, call2, call3}

=============================================================================
