---------------------------- MODULE ChannelsModel ----------------------------
(***************************************************************************)
(* The channels event model of the worker (indexedDb/impl/channels): the   *)
(* callbacks that messageReception runs one after the other, each a        *)
(* sequence of IndexedDB transactions that are awaited for a second.       *)
(***************************************************************************)
EXTENDS ChannelMessages

CONSTANT Faults  \* what may go wrong: a subset of FaultKinds

\* A transaction fails, or it takes more than a second and commits after its
\* caller has got an error; transactions that follow see it all the same.
\* The page is closed.
FaultKinds == {"fails", "timeout", "crash"}

ASSUME ModelFaults == Faults \subseteq FaultKinds

VARIABLES
    records,  \* the message store: the record at each key, or None
    uuids,    \* how many keys its generator has given
    joined,   \* the channel store
    pc,       \* the transaction the handler is about to run
    request,  \* what its call asks for, or None
    found,    \* the key of the record it has read
    copy      \* the record it is about to put

vars == <<records, uuids, joined, pc, request, found, copy>>

stores == <<records, uuids, joined>>

Steps == {"idle", "insert", "get", "put", "find", "remove",
          "join", "leave", "clear"}

TypeOK ==
    /\ records \in [Uuid -> Record \cup {None}]
    /\ uuids \in 0..MaxUuid
    /\ joined \subseteq ChannelIDs
    /\ pc \in [Handlers -> Steps]
    /\ request \in [Handlers -> Request \cup {None}]
    /\ found \in [Handlers -> Uuid \cup {None}]
    /\ copy \in [Handlers -> Record \cup {None}]

Init ==
    /\ records = [u \in Uuid |-> None]
    /\ uuids = 0
    /\ joined = {}
    /\ pc = [h \in Handlers |-> "idle"]
    /\ request = [h \in Handlers |-> None]
    /\ found = [h \in Handlers |-> None]
    /\ copy = [h \in Handlers |-> None]

-----------------------------------------------------------------------------
\* messageReception calls a callback when the last one has returned.
Ready_always(h) == pc[h] = "idle"
Ready(h) == \A other \in Handlers : pc[other] = "idle"

FirstStep == [receive |-> "insert", updateUuid |-> "get", updateMid |-> "get",
              delete |-> "find", join |-> "join", leave |-> "leave"]

\* A callback is called.  ReceiveMessage, ReceiveReply and ReceiveReaction
\* build the record they insert.
Call(h, r) ==
    /\ Ready(h)
    /\ pc' = [pc EXCEPT ![h] = FirstStep[r.op]]
    /\ request' = [request EXCEPT ![h] = r]
    /\ copy' = [copy EXCEPT ![h] =
                   IF r.op = "receive" THEN Built(r.kind, r.record) ELSE None]
    /\ UNCHANGED <<stores, found>>

Goto(h, step) ==
    /\ pc' = [pc EXCEPT ![h] = step]
    /\ UNCHANGED request

Return(h) ==
    /\ pc' = [pc EXCEPT ![h] = "idle"]
    /\ request' = [request EXCEPT ![h] = None]
    /\ found' = [found EXCEPT ![h] = None]
    /\ copy' = [copy EXCEPT ![h] = None]

\* A transaction that changes nothing and whose caller gets an error: it
\* fails, or it reads and the answer is late.
Fails == "fails" \in Faults
Lost == Faults \cap {"fails", "timeout"} # {}
Late == "timeout" \in Faults

-----------------------------------------------------------------------------
(***************************************************************************)
(* upsertMessage.                                                          *)
(***************************************************************************)

\* The unique index on message_id refuses a second record of a message ID.
Refused_never(uuid, mid) == FALSE
Refused(uuid, mid) == Taken(records, uuid, mid)

\* Put without a key inserts.  Whatever went wrong, the error has it done
\* again as an UpdateFromMessageID of the same message.
Insert(h) ==
    /\ pc[h] = "insert"
    /\ \/ /\ ~ Refused(None, copy[h].mid)
          /\ uuids < MaxUuid
          /\ uuids' = uuids + 1
          /\ records' = [records EXCEPT ![uuids + 1] = copy[h]]
          /\ \/ Return(h)
             \/ Late /\ Goto(h, "get") /\ UNCHANGED <<found, copy>>
       \/ /\ Refused(None, copy[h].mid) \/ Fails
          /\ Goto(h, "get")
          /\ UNCHANGED <<records, uuids, found, copy>>
    /\ UNCHANGED joined

\* Put with the key of the record read: always error out.
Put_retried(h) ==
    /\ pc[h] = "put"
    /\ \/ /\ ~ Refused(found[h], copy[h].mid)
          /\ records' = [records EXCEPT ![found[h]] = copy[h]]
          /\ Return(h)
       \/ /\ Refused(found[h], copy[h].mid) \/ Fails
          /\ Goto(h, "get")
          /\ UNCHANGED <<records, found, copy>>
    /\ UNCHANGED <<uuids, joined>>
Put(h) ==
    /\ pc[h] = "put"
    /\ \/ /\ ~ Refused(found[h], copy[h].mid)
          /\ records' = [records EXCEPT ![found[h]] = copy[h]]
       \/ /\ Refused(found[h], copy[h].mid) \/ Fails
          /\ UNCHANGED records
    /\ Return(h)
    /\ UNCHANGED <<uuids, joined>>

-----------------------------------------------------------------------------
(***************************************************************************)
(* UpdateFromUUID and UpdateFromMessageID.                                 *)
(***************************************************************************)
Key(r) ==
    CASE r.op = "updateUuid" -> r.uuid
      [] r.op = "updateMid" -> ByMessageID(records, r.mid)
      [] r.op = "receive" -> ByMessageID(records, r.record.mid)

Stored(u) == u # None /\ records[u] # None

Asked(h) == IF request[h].op = "receive" THEN Again(copy[h])
                                         ELSE request[h].change

\* The record is read, and updated in memory.
Get(h) ==
    /\ pc[h] = "get"
    /\ LET u == Key(request[h]) IN
         \/ /\ Stored(u)
            /\ found' = [found EXCEPT ![h] = u]
            /\ copy' = [copy EXCEPT ![h] = Merged(records[u], Asked(h))]
            /\ Goto(h, "put")
         \/ /\ ~ Stored(u) \/ Lost
            /\ Return(h)
    /\ UNCHANGED stores

-----------------------------------------------------------------------------
(***************************************************************************)
(* DeleteMessage: DeleteIndex reads the key, then deletes the record.      *)
(***************************************************************************)
Find(h) ==
    /\ pc[h] = "find"
    /\ LET u == ByMessageID(records, request[h].mid) IN
         \/ /\ u # None
            /\ found' = [found EXCEPT ![h] = u]
            /\ Goto(h, "remove")
            /\ UNCHANGED copy
         \/ /\ u = None \/ Lost
            /\ Return(h)
    /\ UNCHANGED stores

Remove(h) ==
    /\ pc[h] = "remove"
    /\ \/ records' = [records EXCEPT ![found[h]] = None]
       \/ Fails /\ UNCHANGED records
    /\ Return(h)
    /\ UNCHANGED <<uuids, joined>>

-----------------------------------------------------------------------------
(***************************************************************************)
(* JoinChannel and LeaveChannel.                                           *)
(***************************************************************************)
JoinChannel(h) ==
    /\ pc[h] = "join"
    /\ \/ joined' = joined \cup {request[h].channel}
       \/ Fails /\ UNCHANGED joined
    /\ Return(h)
    /\ UNCHANGED <<records, uuids>>

LeaveChannel(h) ==
    /\ pc[h] = "leave"
    /\ \/ /\ joined' = joined \ {request[h].channel}
          /\ \/ Goto(h, "clear") /\ UNCHANGED <<found, copy>>
             \/ Late /\ Return(h)
       \/ Fails /\ UNCHANGED joined /\ Return(h)
    /\ UNCHANGED <<records, uuids>>

\* deleteMsgByChannel.  The cursor is left where an error or the timeout finds
\* it, and what it has deleted by then is committed.
InChannel(channel) ==
    {u \in Uuid : records[u] # None /\ records[u].channel = channel}

ClearChannel(h) ==
    /\ pc[h] = "clear"
    /\ \E some \in SUBSET InChannel(request[h].channel) :
          /\ some = InChannel(request[h].channel) \/ Lost
          /\ records' = [u \in Uuid |-> IF u \in some THEN None ELSE records[u]]
    /\ Return(h)
    /\ UNCHANGED <<uuids, joined>>

-----------------------------------------------------------------------------
\* The worker goes away with the page; the database stays.
Crash ==
    /\ "crash" \in Faults
    /\ pc' = [h \in Handlers |-> "idle"]
    /\ request' = [h \in Handlers |-> None]
    /\ found' = [h \in Handlers |-> None]
    /\ copy' = [h \in Handlers |-> None]
    /\ UNCHANGED stores

Step(h) ==
    \/ Insert(h) \/ Get(h) \/ Put(h) \/ Find(h) \/ Remove(h)
    \/ JoinChannel(h) \/ LeaveChannel(h) \/ ClearChannel(h)

Next ==
    \/ \E h \in Handlers : Step(h) \/ \E r \in Request : Call(h, r)
    \/ Crash

Spec == Init /\ [][Next]_vars

\* Every transaction is answered, or given up after a second.
FairSpec == Spec /\ \A h \in Handlers : WF_vars(Step(h))

-----------------------------------------------------------------------------
(***************************************************************************)
(* Properties.                                                             *)
(***************************************************************************)

\* However often a message is received and however its insertion failed, it
\* has one record.
OneRecordPerMessage ==
    \A u, v \in Uuid :
        records[u] # None /\ records[v] # None /\ u # v
            => records[u].mid # records[v].mid

\* A deleted record does not come back: no call that read it before puts its
\* copy, and its key is not given again.
DeletedStaysDeleted ==
    [][\A u \in Uuid : u <= uuids /\ records[u] = None => records'[u] = None]_vars

\* Every callback returns, so that the messages behind it are handled.
CallsReturn == \A h \in Handlers : (pc[h] # "idle") ~> (pc[h] = "idle")

\* Calls take effect as if each were one step.
Store == INSTANCE MessageStore WITH
    records <- records, uuids <- uuids, joined <- joined, request <- request
ImplementsStore == Store!Spec

=============================================================================
