-------------------------------- MODULE DmModel --------------------------------
(***************************************************************************)
(* The direct message event model of the worker (indexedDb/impl/dm): the   *)
(* callbacks that messageReception runs one after the other, each a        *)
(* sequence of IndexedDB transactions that are awaited for a second.       *)
(***************************************************************************)
EXTENDS DmMessages

CONSTANT Faults  \* what may go wrong: a subset of FaultKinds

\* A transaction fails, or it takes more than a second and commits after its
\* caller has got an error.  The page is closed.
FaultKinds == {"fails", "timeout", "crash"}

ASSUME DmFaults == Faults \subseteq FaultKinds

VARIABLES
    records,        \* the message store: the record at each key, or None
    uuids,          \* how many keys its generator has given
    conversations,  \* the conversation store
    unannounced,    \* partners whose conversation has changed since the last
                    \* event that said so
    pc,             \* the transaction the handler is about to run
    request,        \* what its call asks for, or None
    found,          \* the key of the record it has read
    copy,           \* the record it is about to put
    altered         \* whether it has put a conversation

vars == <<records, uuids, conversations, unannounced,
          pc, request, found, copy, altered>>

stores == <<records, uuids, conversations, unannounced>>

Steps == {"idle", "getConversation", "putConversation", "insert",
          "get", "put", "check", "find", "remove"}

TypeOK ==
    /\ records \in [Uuid -> Record \cup {None}]
    /\ uuids \in 0..MaxUuid
    /\ conversations \in [Users -> Names \cup {None}]
    /\ unannounced \subseteq Users
    /\ pc \in [Handlers -> Steps]
    /\ request \in [Handlers -> Request \cup {None}]
    /\ found \in [Handlers -> Uuid \cup {None}]
    /\ copy \in [Handlers -> Record \cup {None}]
    /\ altered \in [Handlers -> BOOLEAN]

Init ==
    /\ records = [u \in Uuid |-> None]
    /\ uuids = 0
    /\ conversations = [u \in Users |-> None]
    /\ unannounced = {}
    /\ pc = [h \in Handlers |-> "idle"]
    /\ request = [h \in Handlers |-> None]
    /\ found = [h \in Handlers |-> None]
    /\ copy = [h \in Handlers |-> None]
    /\ altered = [h \in Handlers |-> FALSE]

-----------------------------------------------------------------------------
\* messageReception calls a callback when the last one has returned.
Ready_always(h) == pc[h] = "idle"
Ready(h) == \A other \in Handlers : pc[other] = "idle"

FirstStep == [receive |-> "getConversation", update |-> "get",
              delete |-> "check"]

Call(h, r) ==
    /\ Ready(h)
    /\ pc' = [pc EXCEPT ![h] = FirstStep[r.op]]
    /\ request' = [request EXCEPT ![h] = r]
    /\ UNCHANGED <<stores, found, copy, altered>>

Goto(h, step) ==
    /\ pc' = [pc EXCEPT ![h] = step]
    /\ UNCHANGED request

Return(h) ==
    /\ pc' = [pc EXCEPT ![h] = "idle"]
    /\ request' = [request EXCEPT ![h] = None]
    /\ found' = [found EXCEPT ![h] = None]
    /\ copy' = [copy EXCEPT ![h] = None]
    /\ altered' = [altered EXCEPT ![h] = FALSE]

\* A transaction that changes nothing and whose caller gets an error: it
\* fails, or it reads and the answer is late.
Fails == "fails" \in Faults
Lost == Faults \cap {"fails", "timeout"} # {}
Late == "timeout" \in Faults

-----------------------------------------------------------------------------
(***************************************************************************)
(* receiveWrapper.                                                         *)
(***************************************************************************)
Message(h) == request[h].message.record
Name(h) == request[h].message.name
Partner(h) == Message(h).partner

\* The conversation is to be created or changed.
ConvoToUpdate_own(h) == conversations[Partner(h)] # Name(h)
ConvoToUpdate(h) ==
    Renames(conversations[Partner(h)], Message(h), Name(h))

GetConversation(h) ==
    /\ pc[h] = "getConversation"
    /\ \/ /\ Goto(h, IF ConvoToUpdate(h) THEN "putConversation" ELSE "insert")
          /\ UNCHANGED <<found, copy, altered>>
       \/ Lost /\ Return(h)
    /\ UNCHANGED stores

\* Any error ends the call.
PutConversation_unchecked(h) ==
    /\ pc[h] = "putConversation"
    /\ \/ /\ conversations' = [conversations EXCEPT ![Partner(h)] = Name(h)]
          /\ unannounced' = unannounced \cup {Partner(h)}
       \/ Fails /\ UNCHANGED <<conversations, unannounced>>
    /\ altered' = [altered EXCEPT ![h] = TRUE]
    /\ Goto(h, "insert")
    /\ UNCHANGED <<records, uuids, found, copy>>
PutConversation(h) ==
    /\ pc[h] = "putConversation"
    /\ \/ /\ conversations' = [conversations EXCEPT ![Partner(h)] = Name(h)]
          /\ unannounced' = unannounced \cup {Partner(h)}
          /\ \/ /\ altered' = [altered EXCEPT ![h] = TRUE]
                /\ Goto(h, "insert")
                /\ UNCHANGED <<found, copy>>
             \/ Late /\ Return(h)
       \/ Fails /\ UNCHANGED <<conversations, unannounced>> /\ Return(h)
    /\ UNCHANGED <<records, uuids>>

\* The unique index on message_id refuses a second record of a message ID.
Refused(uuid, mid) == Taken(records, uuid, mid)

\* upsertMessage of a message without ID.  The event that follows it tells
\* whether this call has put the conversation.
Insert(h) ==
    /\ pc[h] = "insert"
    /\ \/ /\ ~ Refused(None, Message(h).mid)
          /\ uuids < MaxUuid
          /\ uuids' = uuids + 1
          /\ records' = [records EXCEPT ![uuids + 1] = Message(h)]
          /\ \/ unannounced' =
                   IF altered[h] THEN unannounced \ {Partner(h)} ELSE unannounced
             \/ Late /\ UNCHANGED unannounced
       \/ /\ Refused(None, Message(h).mid) \/ Fails
          /\ UNCHANGED <<records, uuids, unannounced>>
    /\ Return(h)
    /\ UNCHANGED conversations

-----------------------------------------------------------------------------
(***************************************************************************)
(* UpdateSentStatus: the record is read, updated in memory and put.        *)
(***************************************************************************)
Get(h) ==
    /\ pc[h] = "get"
    /\ LET u == request[h].uuid IN
         \/ /\ records[u] # None
            /\ found' = [found EXCEPT ![h] = u]
            /\ copy' = [copy EXCEPT ![h] = Updated(records[u], request[h])]
            /\ Goto(h, "put")
            /\ UNCHANGED altered
         \/ /\ records[u] = None \/ Lost
            /\ Return(h)
    /\ UNCHANGED stores

Put(h) ==
    /\ pc[h] = "put"
    /\ \/ /\ ~ Refused(found[h], copy[h].mid)
          /\ records' = [records EXCEPT ![found[h]] = copy[h]]
       \/ /\ Refused(found[h], copy[h].mid) \/ Fails
          /\ UNCHANGED records
    /\ Return(h)
    /\ UNCHANGED <<uuids, conversations, unannounced>>

-----------------------------------------------------------------------------
(***************************************************************************)
(* DeleteMessage: the sender is checked in one transaction, the key is     *)
(* read in another (DeleteIndex), the record deleted in a third.           *)
(***************************************************************************)
SenderMatches(r) ==
    LET u == ByMessageID(records, r.mid)
    IN  u # None /\ records[u].sender = r.sender

CheckSender(h) ==
    /\ pc[h] = "check"
    /\ \/ /\ SenderMatches(request[h])
          /\ Goto(h, "find")
          /\ UNCHANGED <<found, copy, altered>>
       \/ /\ ~ SenderMatches(request[h]) \/ Lost
          /\ Return(h)
    /\ UNCHANGED stores

Find(h) ==
    /\ pc[h] = "find"
    /\ LET u == ByMessageID(records, request[h].mid) IN
         \/ /\ u # None
            /\ found' = [found EXCEPT ![h] = u]
            /\ Goto(h, "remove")
            /\ UNCHANGED <<copy, altered>>
         \/ /\ u = None \/ Lost
            /\ Return(h)
    /\ UNCHANGED stores

Remove(h) ==
    /\ pc[h] = "remove"
    /\ \/ records' = [records EXCEPT ![found[h]] = None]
       \/ Fails /\ UNCHANGED records
    /\ Return(h)
    /\ UNCHANGED <<uuids, conversations, unannounced>>

-----------------------------------------------------------------------------
\* The worker goes away with the page; the database stays.
Crash ==
    /\ "crash" \in Faults
    /\ pc' = [h \in Handlers |-> "idle"]
    /\ request' = [h \in Handlers |-> None]
    /\ found' = [h \in Handlers |-> None]
    /\ copy' = [h \in Handlers |-> None]
    /\ altered' = [h \in Handlers |-> FALSE]
    /\ UNCHANGED stores

Step(h) ==
    \/ GetConversation(h) \/ PutConversation(h) \/ Insert(h)
    \/ Get(h) \/ Put(h)
    \/ CheckSender(h) \/ Find(h) \/ Remove(h)

Next ==
    \/ \E h \in Handlers : Step(h) \/ \E r \in Request : Call(h, r)
    \/ Crash

Spec == Init /\ [][Next]_vars

-----------------------------------------------------------------------------
(***************************************************************************)
(* Properties.                                                             *)
(***************************************************************************)

\* Every message stored belongs to a conversation the user interface can find,
\* whichever of the transactions that made them failed.
MessagesHaveConversation ==
    \A u \in Uuid : records[u] # None => conversations[records[u].partner] # None

\* A message is deleted only for its own sender, although its sender is
\* checked two transactions before.
OnlySenderDeletes ==
    [][\A u \in Uuid :
          records[u] # None /\ records'[u] = None
             => \E h \in Handlers :
                   /\ request[h] # None /\ request[h].op = "delete"
                   /\ request[h].mid = records[u].mid
                   /\ request[h].sender = records[u].sender]_vars

\* Calls take effect as if each of their writes were one step.
Store == INSTANCE DmStore WITH
    records <- records, uuids <- uuids, conversations <- conversations, request <- request
ImplementsDmStore == Store!Spec

\* A conversation that was made or renamed has been announced by the time its
\* call has returned.
ChangesAnnounced ==
    (\A h \in Handlers : pc[h] = "idle") => unannounced = {}

=============================================================================
