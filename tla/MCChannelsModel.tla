--------------------------- MODULE MCChannelsModel ---------------------------
(***************************************************************************)
(* Small instances of ChannelsModel.  The updates are those the channels   *)
(* manager asks for: a message sent is given its ID and a new status,      *)
(* a send fails, a message is pinned, a message is hidden.                 *)
(***************************************************************************)
EXTENDS ChannelsModel

CONSTANTS m, n, sent, failed

Nil == [mid |-> None, status |-> None, hidden |-> None, pinned |-> None]

Sent == [Nil EXCEPT !.mid = n, !.status = sent]
Failed == [Nil EXCEPT !.status = failed]
Pinned == [Nil EXCEPT !.pinned = TRUE]
Hidden == [Nil EXCEPT !.hidden = TRUE]

AllChanges == {Sent, Failed, Pinned, Hidden}

=============================================================================
