----------------------------- MODULE MCValueTable -----------------------------
(***************************************************************************)
(* Three js.Values at once, two objects and a bigint.                      *)
(***************************************************************************)
EXTENDS ValueTable, TLC

CONSTANTS h1, h2, h3, obj1, obj2, bigint, undefined

MCHandles == {h1, h2, h3}
MCObjects == {obj1, obj2, bigint}
MCUntyped == {bigint}
MCImmediates == {undefined}

=============================================================================
