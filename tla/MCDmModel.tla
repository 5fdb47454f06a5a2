------------------------------ MODULE MCDmModel ------------------------------
(***************************************************************************)
(* Small instances of DmModel.                                             *)
(***************************************************************************)
EXTENDS DmModel, TLC

CONSTANTS a, m, n, x, y, sent

\* Every message, with every name.
AnyMessage == Received

\* Handlers, message IDs and names are interchangeable when any message may
\* arrive.
Interchangeable ==
    Permutations(Handlers) \cup Permutations(MessageIDs) \cup Permutations(Names)

\* Two messages of a partner who has changed the nickname in between.
Arrival(mid, name) ==
    [record |-> [mid |-> mid, partner |-> a, sender |-> a, status |-> sent],
     name |-> name]
TwoMessages == {Arrival(m, x), Arrival(n, y)}

\* Nothing but arrivals.
OnlyReceives == \A h \in Handlers : request[h] # None => request[h].op = "receive"

=============================================================================
