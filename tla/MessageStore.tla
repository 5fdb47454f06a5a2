----------------------------- MODULE MessageStore -----------------------------
(***************************************************************************)
(* What the channels event model promises: a store of messages on which    *)
(* every call takes effect in one step, on the record as it is then.  A    *)
(* call may also end, with an error, before or after its effect; a deleted *)
(* record is gone for good, its key is never used again.                   *)
(***************************************************************************)
EXTENDS ChannelMessages

VARIABLES
    records,  \* the record at each key, or None
    uuids,    \* how many keys have been used
    joined,   \* the channels joined
    request   \* what the call of each handler asks for, or None

vars == <<records, uuids, joined, request>>

Init ==
    /\ records = [u \in Uuid |-> None]
    /\ uuids = 0
    /\ joined = {}
    /\ request = [h \in Handlers |-> None]

Submit(h) ==
    /\ request[h] = None
    /\ \E r \in Request : request' = [request EXCEPT ![h] = r]
    /\ UNCHANGED <<records, uuids, joined>>

Insert(h) ==
    /\ request[h] # None /\ request[h].op = "receive"
    /\ LET record == Built(request[h].kind, request[h].record) IN
         /\ ByMessageID(records, record.mid) = None
         /\ uuids < MaxUuid
         /\ uuids' = uuids + 1
         /\ records' = [records EXCEPT ![uuids + 1] = record]
    /\ UNCHANGED joined

\* The record a call updates, and how.
Target(r) == IF r.op = "updateUuid" THEN r.uuid
             ELSE ByMessageID(records, IF r.op = "receive" THEN r.record.mid
                                                           ELSE r.mid)
Asked(r) == IF r.op = "receive" THEN Again(Built(r.kind, r.record))
                                ELSE r.change

Update(h) ==
    /\ request[h] # None
    /\ request[h].op \in {"receive", "updateUuid", "updateMid"}
    /\ LET u == Target(request[h]) IN
         /\ u # None /\ records[u] # None
         /\ LET record == Merged(records[u], Asked(request[h])) IN
              /\ ~ Taken(records, u, record.mid)
              /\ records' = [records EXCEPT ![u] = record]
    /\ UNCHANGED <<uuids, joined>>

Remove(h) ==
    /\ request[h] # None /\ request[h].op = "delete"
    /\ \E u \in Uuid :
          /\ records[u] # None /\ records[u].mid = request[h].mid
          /\ records' = [records EXCEPT ![u] = None]
    /\ UNCHANGED <<uuids, joined>>

JoinChannel(h) ==
    /\ request[h] # None /\ request[h].op = "join"
    /\ joined' = joined \cup {request[h].channel}
    /\ UNCHANGED <<records, uuids>>

LeaveChannel(h) ==
    /\ request[h] # None /\ request[h].op = "leave"
    /\ joined' = joined \ {request[h].channel}
    /\ UNCHANGED <<records, uuids>>

\* The messages of a channel that has been left are deleted, or a part of them.
ClearChannel(h) ==
    /\ request[h] # None /\ request[h].op = "leave"
    /\ request[h].channel \notin joined
    /\ \E some \in SUBSET {u \in Uuid :
                 records[u] # None /\ records[u].channel = request[h].channel} :
          records' = [u \in Uuid |-> IF u \in some THEN None ELSE records[u]]
    /\ UNCHANGED <<uuids, joined>>

\* A call has its effect, goes on or ends.
Effect(h) ==
    /\ \/ Insert(h) \/ Update(h) \/ Remove(h)
       \/ JoinChannel(h) \/ LeaveChannel(h) \/ ClearChannel(h)
    /\ request' \in {request, [request EXCEPT ![h] = None]}

End(h) ==
    /\ request' = [request EXCEPT ![h] = None]
    /\ UNCHANGED <<records, uuids, joined>>

Crash ==
    /\ request' = [h \in Handlers |-> None]
    /\ UNCHANGED <<records, uuids, joined>>

Next == Crash \/ \E h \in Handlers : Submit(h) \/ Effect(h) \/ End(h)

Spec == Init /\ [][Next]_vars

=============================================================================
