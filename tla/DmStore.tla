-------------------------------- MODULE DmStore --------------------------------
(***************************************************************************)
(* What the direct message event model promises: a store on which every    *)
(* call takes effect on what is stored at that moment.  A message gets in  *)
(* only when its conversation exists and has the name the message gave it; *)
(* it is deleted only for its sender.  A call may end, with an error,      *)
(* before or after any of its effects.                                     *)
(***************************************************************************)
EXTENDS DmMessages

VARIABLES
    records,        \* the record at each key, or None
    uuids,          \* how many keys have been used
    conversations,  \* the name of each partner, or None
    request         \* what the call of each handler asks for, or None

vars == <<records, uuids, conversations, request>>

Init ==
    /\ records = [u \in Uuid |-> None]
    /\ uuids = 0
    /\ conversations = [u \in Users |-> None]
    /\ request = [h \in Handlers |-> None]

Submit(h) ==
    /\ request[h] = None
    /\ \E r \in Request : request' = [request EXCEPT ![h] = r]
    /\ UNCHANGED <<records, uuids, conversations>>

Rename(h) ==
    /\ request[h] # None /\ request[h].op = "receive"
    /\ LET record == request[h].message.record
           name == request[h].message.name
       IN  /\ Renames(conversations[record.partner], record, name)
           /\ conversations' = [conversations EXCEPT ![record.partner] = name]
    /\ UNCHANGED <<records, uuids>>

Insert(h) ==
    /\ request[h] # None /\ request[h].op = "receive"
    /\ LET record == request[h].message.record
           name == request[h].message.name
       IN  /\ ~ Renames(conversations[record.partner], record, name)
           /\ ByMessageID(records, record.mid) = None
           /\ uuids < MaxUuid
           /\ uuids' = uuids + 1
           /\ records' = [records EXCEPT ![uuids + 1] = record]
    /\ UNCHANGED conversations

Update(h) ==
    /\ request[h] # None /\ request[h].op = "update"
    /\ LET u == request[h].uuid IN
         /\ records[u] # None
         /\ LET record == Updated(records[u], request[h]) IN
              /\ ~ Taken(records, u, record.mid)
              /\ records' = [records EXCEPT ![u] = record]
    /\ UNCHANGED <<uuids, conversations>>

Remove(h) ==
    /\ request[h] # None /\ request[h].op = "delete"
    /\ \E u \in Uuid :
          /\ records[u] # None
          /\ records[u].mid = request[h].mid
          /\ records[u].sender = request[h].sender
          /\ records' = [records EXCEPT ![u] = None]
    /\ UNCHANGED <<uuids, conversations>>

\* A call has an effect, goes on or ends.
Effect(h) ==
    /\ Rename(h) \/ Insert(h) \/ Update(h) \/ Remove(h)
    /\ request' \in {request, [request EXCEPT ![h] = None]}

End(h) ==
    /\ request' = [request EXCEPT ![h] = None]
    /\ UNCHANGED <<records, uuids, conversations>>

Crash ==
    /\ request' = [h \in Handlers |-> None]
    /\ UNCHANGED <<records, uuids, conversations>>

Next == Crash \/ \E h \in Handlers : Submit(h) \/ Effect(h) \/ End(h)

Spec == Init /\ [][Next]_vars

=============================================================================
