------------------------------- MODULE JsHandles -------------------------------
(***************************************************************************)
(* What the table of wasm_exec.js promises to the Go program: a js.Value   *)
(* denotes one Javascript value from its creation until Go drops it,       *)
(* whatever other values are created and dropped in between.               *)
(***************************************************************************)
CONSTANTS Handles, Values, Free

VARIABLE denotes

TypeOK == denotes \in [Handles -> Values \cup {Free}]

Init == denotes = [h \in Handles |-> Free]

Create(h) ==
    /\ denotes[h] = Free
    /\ \E v \in Values : denotes' = [denotes EXCEPT ![h] = v]

Drop(h) ==
    /\ denotes[h] # Free
    /\ denotes' = [denotes EXCEPT ![h] = Free]

Next == \E h \in Handles : Create(h) \/ Drop(h)

Spec == Init /\ [][Next]_denotes

=============================================================================
