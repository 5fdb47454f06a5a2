---------------------------- MODULE DmModel_proofs ----------------------------
(***************************************************************************)
(* Theorems about DmModel for any handlers, users, messages, names and     *)
(* faults: the types, messages that have their conversation, deletions     *)
(* only for the sender, and calls that take effect on what is stored then. *)
(***************************************************************************)
EXTENDS DmModel, TLAPS

USE DmBound, DmNil, DmInbox

-----------------------------------------------------------------------------
(***************************************************************************)
(* Data.                                                                   *)
(***************************************************************************)
LEMMA RequestFields ==
    ASSUME NEW r \in Request
    PROVE  /\ r # None
           /\ r.op \in {"receive", "update", "delete"}
           /\ r.op = "receive"
                 => /\ r.message.record \in Record
                    /\ r.message.record.partner \in Users
                    /\ r.message.name \in Names
           /\ r.op = "update"
                 => /\ r.uuid \in Uuid
                    /\ r.mid \in MessageIDs \cup {None} /\ r.status \in Statuses
  BY DEF Request, Received, Record

LEMMA UpdatedType ==
    ASSUME NEW record \in Record, NEW r \in Request, r.op = "update"
    PROVE  /\ Updated(record, r) \in Record
           /\ Updated(record, r).partner = record.partner
  <1>1. (IF r.mid = None THEN record.mid ELSE r.mid) \in MessageIDs
    BY RequestFields DEF Record
  <1>. QED  BY <1>1, RequestFields DEF Updated, Record

LEMMA ByMessageIDFinds ==
    ASSUME NEW mid
    PROVE  LET u == ByMessageID(records, mid) IN
             \/ /\ u \in Uuid /\ u # None
                /\ records[u] # None /\ records[u].mid = mid
             \/ /\ u = None
                /\ \A v \in Uuid : records[v] # None => records[v].mid # mid
  BY DEF ByMessageID

-----------------------------------------------------------------------------
(***************************************************************************)
(* Type correctness: one call is in progress at a time, and it is where    *)
(* its request takes it.                                                   *)
(***************************************************************************)
Sequential ==
    \A h, o \in Handlers : pc[h] # "idle" /\ pc[o] # "idle" => h = o

Phases ==
    \A h \in Handlers :
        /\ pc[h] = "idle" => request[h] = None
        /\ pc[h] # "idle" => request[h] \in Request
        /\ pc[h] \in {"getConversation", "putConversation", "insert"}
              => request[h].op = "receive"
        /\ pc[h] \in {"get", "put"} => request[h].op = "update"
        /\ pc[h] \in {"check", "find", "remove"} => request[h].op = "delete"
        /\ pc[h] \in {"put", "remove"} => found[h] \in Uuid
        /\ pc[h] = "put" => copy[h] \in Record

CallInv == TypeOK /\ Sequential /\ Phases

StoresTyped ==
    /\ records \in [Uuid -> Record \cup {None}]
    /\ uuids \in 0..MaxUuid
    /\ conversations \in [Users -> Names \cup {None}]
    /\ unannounced \subseteq Users

LEMMA CallTypes ==
    ASSUME CallInv, NEW h \in Handlers, NEW r \in Request, Call(h, r)
    PROVE  CallInv'
  <1>1. /\ FirstStep[r.op] \in {"getConversation", "get", "check"}
        /\ FirstStep[r.op] = "getConversation" <=> r.op = "receive"
        /\ FirstStep[r.op] = "get" <=> r.op = "update"
        /\ FirstStep[r.op] = "check" <=> r.op = "delete"
    BY RequestFields DEF FirstStep
  <1>2. /\ \A o \in Handlers : pc[o] = "idle" /\ request[o] = None
        /\ pc' = [pc EXCEPT ![h] = FirstStep[r.op]]
        /\ request' = [request EXCEPT ![h] = r]
        /\ UNCHANGED <<records, uuids, conversations, unannounced,
                       found, copy, altered>>
    BY DEF Call, Ready, stores, CallInv, Phases
  <1>3. TypeOK'
    BY <1>1, <1>2 DEF CallInv, TypeOK, Steps
  <1>4. /\ pc'[h] = FirstStep[r.op] /\ request'[h] = r
        /\ \A o \in Handlers : o # h => pc'[o] = "idle" /\ request'[o] = None
    BY <1>2 DEF CallInv, TypeOK
  <1>. QED  BY <1>1, <1>3, <1>4 DEF CallInv, Sequential, Phases

LEMMA ReturnTypes ==
    ASSUME CallInv, StoresTyped', NEW h \in Handlers, Return(h)
    PROVE  CallInv'
  <1>1. TypeOK'
    BY DEF CallInv, TypeOK, StoresTyped, Return, Steps
  <1>2. /\ pc'[h] = "idle" /\ request'[h] = None
        /\ \A o \in Handlers : o # h =>
              /\ pc'[o] = pc[o] /\ request'[o] = request[o]
              /\ found'[o] = found[o] /\ copy'[o] = copy[o]
    BY DEF CallInv, TypeOK, Return
  <1>. QED  BY <1>1, <1>2 DEF CallInv, Sequential, Phases

\* A call goes on to its next transaction.
LEMMA GotoTypes ==
    ASSUME CallInv, StoresTyped', NEW h \in Handlers, NEW s, Goto(h, s),
           pc[h] # "idle",
           found' \in [Handlers -> Uuid \cup {None}],
           copy' \in [Handlers -> Record \cup {None}],
           altered' \in [Handlers -> BOOLEAN],
           \/ /\ s \in {"putConversation", "insert"}
              /\ request[h].op = "receive"
           \/ /\ s = "put" /\ request[h].op = "update"
              /\ found'[h] \in Uuid /\ copy'[h] \in Record
           \/ /\ s = "find" /\ request[h].op = "delete"
           \/ /\ s = "remove" /\ request[h].op = "delete"
              /\ found'[h] \in Uuid
    PROVE  CallInv'
  <1>1. s \in Steps /\ s # "idle"
    BY DEF Steps
  <1>2. TypeOK'
    BY <1>1 DEF CallInv, TypeOK, StoresTyped, Goto
  <1>3. /\ pc'[h] = s /\ request' = request
        /\ \A o \in Handlers : o # h => pc'[o] = "idle" /\ request[o] = None
    BY DEF CallInv, TypeOK, Sequential, Phases, Goto
  <1>4. request[h] \in Request
    BY DEF CallInv, Phases
  <1>. QED  BY <1>1, <1>2, <1>3, <1>4 DEF CallInv, Sequential, Phases

LEMMA StepTypes ==
    ASSUME CallInv, NEW h \in Handlers, Step(h)
    PROVE  CallInv'
  <1>. USE DEF CallInv
  <1>t. /\ found \in [Handlers -> Uuid \cup {None}]
        /\ copy \in [Handlers -> Record \cup {None}]
        /\ altered \in [Handlers -> BOOLEAN]
    BY DEF TypeOK
  <1>1. CASE GetConversation(h)
    <2>1. StoresTyped' /\ pc[h] # "idle" /\ request[h].op = "receive"
      BY <1>1 DEF GetConversation, stores, TypeOK, StoresTyped, Phases
    <2>. QED  BY <1>1, <1>t, <2>1, ReturnTypes, GotoTypes DEF GetConversation
  <1>2. CASE PutConversation(h)
    <2>1. /\ pc[h] # "idle" /\ request[h].op = "receive"
          /\ Partner(h) \in Users /\ Name(h) \in Names
      BY <1>2, RequestFields DEF PutConversation, Phases, Partner, Message, Name
    <2>2. StoresTyped'
      BY <1>2, <2>1 DEF PutConversation, TypeOK, StoresTyped
    <2>3. CASE Return(h)
      BY <2>2, <2>3, ReturnTypes
    <2>4. CASE /\ altered' = [altered EXCEPT ![h] = TRUE]
               /\ Goto(h, "insert") /\ UNCHANGED <<found, copy>>
      BY <1>t, <2>1, <2>2, <2>4, GotoTypes
    <2>. QED  BY <1>2, <2>3, <2>4 DEF PutConversation
  <1>3. CASE Insert(h)
    <2>1. Message(h) \in Record
      BY <1>3, RequestFields DEF Insert, Phases, Message
    <2>2. StoresTyped'
      BY <1>3, <2>1 DEF Insert, TypeOK, StoresTyped, Uuid
    <2>. QED  BY <1>3, <2>2, ReturnTypes DEF Insert
  <1>4. CASE Get(h)
    <2>. DEFINE u == request[h].uuid
    <2>1. /\ pc[h] # "idle" /\ request[h] \in Request
          /\ request[h].op = "update" /\ u \in Uuid
      BY <1>4, RequestFields DEF Get, Phases
    <2>2. StoresTyped'
      BY <1>4 DEF Get, stores, TypeOK, StoresTyped
    <2>3. CASE Return(h)
      BY <2>2, <2>3, ReturnTypes
    <2>4. CASE /\ records[u] # None
               /\ found' = [found EXCEPT ![h] = u]
               /\ copy' = [copy EXCEPT ![h] = Updated(records[u], request[h])]
               /\ Goto(h, "put") /\ UNCHANGED altered
      <3>1. Updated(records[u], request[h]) \in Record
        BY <2>1, <2>4, UpdatedType DEF TypeOK
      <3>2. /\ found' \in [Handlers -> Uuid \cup {None}] /\ found'[h] \in Uuid
            /\ copy' \in [Handlers -> Record \cup {None}] /\ copy'[h] \in Record
        BY <1>t, <2>1, <2>4, <3>1
      <3>. QED  BY <1>t, <2>1, <2>2, <2>4, <3>2, GotoTypes
    <2>. QED  BY <1>4, <2>3, <2>4 DEF Get
  <1>5. CASE Put(h)
    <2>1. found[h] \in Uuid /\ copy[h] \in Record
      BY <1>5 DEF Put, Phases
    <2>2. StoresTyped'
      BY <1>5, <2>1 DEF Put, TypeOK, StoresTyped
    <2>. QED  BY <1>5, <2>2, ReturnTypes DEF Put
  <1>6. CASE CheckSender(h)
    <2>1. StoresTyped' /\ pc[h] # "idle" /\ request[h].op = "delete"
      BY <1>6 DEF CheckSender, stores, TypeOK, StoresTyped, Phases
    <2>. QED  BY <1>6, <1>t, <2>1, ReturnTypes, GotoTypes DEF CheckSender
  <1>7. CASE Find(h)
    <2>. DEFINE u == ByMessageID(records, request[h].mid)
    <2>1. StoresTyped' /\ pc[h] # "idle" /\ request[h].op = "delete"
      BY <1>7 DEF Find, stores, TypeOK, StoresTyped, Phases
    <2>2. CASE Return(h)
      BY <2>1, <2>2, ReturnTypes
    <2>3. CASE /\ u # None
               /\ found' = [found EXCEPT ![h] = u]
               /\ Goto(h, "remove") /\ UNCHANGED <<copy, altered>>
      <3>1. u \in Uuid
        BY <2>3, ByMessageIDFinds
      <3>2. found' \in [Handlers -> Uuid \cup {None}] /\ found'[h] \in Uuid
        BY <1>t, <2>3, <3>1
      <3>. QED  BY <1>t, <2>1, <2>3, <3>2, GotoTypes
    <2>. QED  BY <1>7, <2>2, <2>3 DEF Find
  <1>8. CASE Remove(h)
    <2>1. StoresTyped'
      BY <1>8 DEF Remove, TypeOK, StoresTyped
    <2>. QED  BY <1>8, <2>1, ReturnTypes DEF Remove
  <1>. QED  BY <1>1, <1>2, <1>3, <1>4, <1>5, <1>6, <1>7, <1>8 DEF Step

LEMMA CallInvariant == Spec => []CallInv
  <1>1. Init => CallInv
    BY DEF Init, CallInv, TypeOK, Sequential, Phases, Steps
  <1>2. CallInv /\ [Next]_vars => CallInv'
    <2>. SUFFICES ASSUME CallInv, [Next]_vars
                  PROVE  CallInv'
      OBVIOUS
    <2>1. ASSUME NEW h \in Handlers, Step(h)
          PROVE  CallInv'
      BY <2>1, StepTypes
    <2>2. ASSUME NEW h \in Handlers, NEW r \in Request, Call(h, r)
          PROVE  CallInv'
      BY <2>2, CallTypes
    <2>3. CASE Crash
      BY <2>3 DEF Crash, stores, CallInv, TypeOK, Sequential, Phases, Steps
    <2>4. CASE UNCHANGED vars
      BY <2>4 DEF vars, CallInv, TypeOK, Sequential, Phases
    <2>. QED  BY <2>1, <2>2, <2>3, <2>4 DEF Next
  <1>. QED  BY <1>1, <1>2, PTL DEF Spec

\* The stores and the calls in progress have their types, whatever fails.
THEOREM TypeCorrect == Spec => []TypeOK
  <1>1. CallInv => TypeOK
    BY DEF CallInv
  <1>. QED  BY <1>1, CallInvariant, PTL

-----------------------------------------------------------------------------
(***************************************************************************)
(* What a call has found out is still so at its next transaction, because  *)
(* no other call is in progress.                                           *)
(***************************************************************************)
Fresh ==
    \A h \in Handlers :
        /\ pc[h] = "putConversation" => ConvoToUpdate(h)
        /\ pc[h] = "insert" => ~ ConvoToUpdate(h)
        /\ pc[h] = "put" =>
              /\ found[h] = request[h].uuid /\ records[found[h]] # None
              /\ copy[h] = Updated(records[found[h]], request[h])
        /\ pc[h] = "find" => SenderMatches(request[h])
        /\ pc[h] = "remove" =>
              /\ records[found[h]] # None
              /\ records[found[h]].mid = request[h].mid
              /\ records[found[h]].sender = request[h].sender

StoreInv == Fresh /\ MessagesHaveConversation

LEMMA StepBusy ==
    ASSUME NEW h \in Handlers, Step(h)
    PROVE  pc[h] # "idle"
  BY DEF Step, GetConversation, PutConversation, Insert, Get, Put,
         CheckSender, Find, Remove

LEMMA ReturnFresh ==
    ASSUME CallInv, NEW h \in Handlers, pc[h] # "idle", Return(h)
    PROVE  Fresh'
  <1>1. \A o \in Handlers : pc'[o] = "idle"
    BY DEF CallInv, TypeOK, Sequential, Return
  <1>. QED  BY <1>1 DEF Fresh

\* Only one call has left "idle", so a step to s concerns its own copy only.
LEMMA GotoFresh ==
    ASSUME CallInv, NEW h \in Handlers, pc[h] # "idle", NEW s, Goto(h, s)
    PROVE  /\ pc'[h] = s /\ request' = request
           /\ \A o \in Handlers : o # h => pc'[o] = "idle"
  BY DEF CallInv, TypeOK, Sequential, Goto

LEMMA StepFresh ==
    ASSUME CallInv, StoreInv, NEW h \in Handlers, Step(h)
    PROVE  Fresh'
  <1>b. pc[h] # "idle"
    BY StepBusy
  <1>r. CASE Return(h)
    BY <1>b, <1>r, ReturnFresh
  <1>1. CASE GetConversation(h) /\ ~ Return(h)
    <2>1. /\ Goto(h, IF ConvoToUpdate(h) THEN "putConversation" ELSE "insert")
          /\ conversations' = conversations
      BY <1>1 DEF GetConversation, stores
    <2>2. /\ pc'[h] = IF ConvoToUpdate(h) THEN "putConversation" ELSE "insert"
          /\ request' = request
          /\ \A o \in Handlers : o # h => pc'[o] = "idle"
      BY <1>b, <2>1, GotoFresh
    <2>3. ConvoToUpdate(h)' <=> ConvoToUpdate(h)
      BY <2>1, <2>2 DEF ConvoToUpdate, Partner, Message, Name
    <2>. QED  BY <2>2, <2>3 DEF Fresh
  <1>2. CASE PutConversation(h) /\ ~ Return(h)
    <2>1. /\ Goto(h, "insert")
          /\ conversations' = [conversations EXCEPT ![Partner(h)] = Name(h)]
      BY <1>2 DEF PutConversation
    <2>2. /\ pc'[h] = "insert" /\ request' = request
          /\ \A o \in Handlers : o # h => pc'[o] = "idle"
      BY <1>b, <2>1, GotoFresh
    <2>3. Partner(h) \in Users /\ Name(h) \in Names
      BY <1>2, RequestFields
         DEF PutConversation, CallInv, Phases, Partner, Message, Name
    <2>4. conversations'[Partner(h)] = Name(h)
      BY <2>1, <2>3 DEF CallInv, TypeOK
    <2>5. ~ ConvoToUpdate(h)'
      BY <2>2, <2>3, <2>4 DEF ConvoToUpdate, Renames, Partner, Message, Name
    <2>. QED  BY <2>2, <2>5 DEF Fresh
  <1>3. CASE Get(h) /\ ~ Return(h)
    <2>. DEFINE u == request[h].uuid
    <2>1. /\ records[u] # None
          /\ found' = [found EXCEPT ![h] = u]
          /\ copy' = [copy EXCEPT ![h] = Updated(records[u], request[h])]
          /\ Goto(h, "put") /\ records' = records
      BY <1>3 DEF Get, stores
    <2>2. found'[h] = u /\ copy'[h] = Updated(records[u], request[h])
      BY <2>1 DEF CallInv, TypeOK
    <2>3. /\ pc'[h] = "put" /\ request' = request
          /\ \A o \in Handlers : o # h => pc'[o] = "idle"
      BY <1>b, <2>1, GotoFresh
    <2>. QED  BY <2>1, <2>2, <2>3 DEF Fresh
  <1>4. CASE CheckSender(h) /\ ~ Return(h)
    <2>1. SenderMatches(request[h]) /\ Goto(h, "find") /\ records' = records
      BY <1>4 DEF CheckSender, stores
    <2>2. /\ pc'[h] = "find" /\ request' = request
          /\ \A o \in Handlers : o # h => pc'[o] = "idle"
      BY <1>b, <2>1, GotoFresh
    <2>3. SenderMatches(request[h])'
      BY <2>1, <2>2 DEF SenderMatches, ByMessageID
    <2>. QED  BY <2>2, <2>3 DEF Fresh
  <1>5. CASE Find(h) /\ ~ Return(h)
    <2>. DEFINE u == ByMessageID(records, request[h].mid)
    <2>1. /\ u # None /\ found' = [found EXCEPT ![h] = u]
          /\ Goto(h, "remove") /\ records' = records
      BY <1>5 DEF Find, stores
    <2>2. found'[h] = u
      BY <2>1 DEF CallInv, TypeOK
    <2>3. /\ records[u] # None /\ records[u].mid = request[h].mid
          /\ records[u].sender = request[h].sender
      BY <1>5, <2>1, ByMessageIDFinds DEF Find, StoreInv, Fresh, SenderMatches
    <2>4. /\ pc'[h] = "remove" /\ request' = request
          /\ \A o \in Handlers : o # h => pc'[o] = "idle"
      BY <1>b, <2>1, GotoFresh
    <2>. QED  BY <2>1, <2>2, <2>3, <2>4 DEF Fresh
  <1>. QED
    BY <1>r, <1>1, <1>2, <1>3, <1>4, <1>5 DEF Step, Insert, Put, Remove

\* A call writes what MessagesHaveConversation needs before the message.
LEMMA StepConversation ==
    ASSUME CallInv, StoreInv, NEW h \in Handlers, Step(h)
    PROVE  MessagesHaveConversation'
  <1>. USE DEF CallInv, StoreInv, MessagesHaveConversation
  <1>t. /\ records \in [Uuid -> Record \cup {None}]
        /\ conversations \in [Users -> Names \cup {None}]
    BY DEF TypeOK
  <1>1. CASE GetConversation(h) \/ Get(h) \/ CheckSender(h) \/ Find(h)
    BY <1>1 DEF GetConversation, Get, CheckSender, Find, stores
  <1>2. CASE PutConversation(h)
    <2>1. Partner(h) \in Users /\ Name(h) \in Names
      BY <1>2, RequestFields DEF PutConversation, Phases, Partner, Message, Name
    <2>2. \A u \in Users : conversations[u] # None => conversations'[u] # None
      BY <1>2, <1>t, <2>1 DEF PutConversation
    <2>3. records' = records
      BY <1>2 DEF PutConversation
    <2>4. \A u \in Uuid : records[u] # None => records[u].partner \in Users
      BY <1>t DEF Record
    <2>. QED  BY <2>2, <2>3, <2>4
  <1>3. CASE Insert(h)
    <2>1. Message(h) \in Record /\ conversations[Message(h).partner] # None
      <3>1. /\ Message(h) \in Record
            /\ ~ Renames(conversations[Partner(h)], Message(h), Name(h))
        BY <1>3, RequestFields DEF Insert, Phases, Message, Fresh, ConvoToUpdate
      <3>. QED  BY <3>1 DEF Renames, Partner
    <2>2. CASE UNCHANGED records
      BY <1>3, <2>2 DEF Insert
    <2>3. CASE records' = [records EXCEPT ![uuids + 1] = Message(h)]
      <3>1. \A u \in Uuid : records'[u] = records[u] \/ records'[u] = Message(h)
        BY <1>t, <2>3
      <3>. QED  BY <1>3, <2>1, <3>1 DEF Insert
    <2>. QED  BY <1>3, <2>2, <2>3 DEF Insert
  <1>4. CASE Put(h)
    <2>1. /\ found[h] \in Uuid /\ records[found[h]] # None
          /\ copy[h].partner = records[found[h]].partner
      BY <1>4, <1>t, UpdatedType DEF Put, Phases, Fresh
    <2>2. CASE UNCHANGED records
      BY <1>4, <2>2 DEF Put
    <2>3. CASE records' = [records EXCEPT ![found[h]] = copy[h]]
      <3>1. /\ records'[found[h]] = copy[h]
            /\ \A u \in Uuid : u # found[h] => records'[u] = records[u]
        BY <1>t, <2>1, <2>3
      <3>. QED  BY <1>4, <2>1, <3>1 DEF Put
    <2>. QED  BY <1>4, <2>2, <2>3 DEF Put
  <1>5. CASE Remove(h)
    <2>1. \A u \in Uuid : records'[u] = records[u] \/ records'[u] = None
      BY <1>5, <1>t DEF Remove
    <2>. QED  BY <1>5, <2>1 DEF Remove
  <1>. QED  BY <1>1, <1>2, <1>3, <1>4, <1>5 DEF Step

LEMMA StoreInvariant == Spec => []StoreInv
  <1>1. Init => StoreInv
    BY DEF Init, StoreInv, Fresh, MessagesHaveConversation
  <1>2. CallInv /\ StoreInv /\ [Next]_vars => StoreInv'
    <2>. SUFFICES ASSUME CallInv, StoreInv, [Next]_vars
                  PROVE  StoreInv'
      OBVIOUS
    <2>1. ASSUME NEW h \in Handlers, Step(h)
          PROVE  StoreInv'
      BY <2>1, StepFresh, StepConversation DEF StoreInv
    <2>2. ASSUME UNCHANGED stores,
                 \A h \in Handlers :
                    pc'[h] \in {"idle", "getConversation", "get", "check"}
          PROVE  StoreInv'
      BY <2>2 DEF stores, StoreInv, Fresh, MessagesHaveConversation
    <2>3. ASSUME NEW h \in Handlers, NEW r \in Request, Call(h, r)
          PROVE  StoreInv'
      <3>1. FirstStep[r.op] \in {"getConversation", "get", "check"}
        BY RequestFields DEF FirstStep
      <3>. QED  BY <2>2, <2>3, <3>1 DEF Call, Ready, CallInv, TypeOK
    <2>4. CASE Crash
      BY <2>2, <2>4 DEF Crash
    <2>5. CASE UNCHANGED vars
      BY <2>5 DEF vars, StoreInv, Fresh, MessagesHaveConversation, ConvoToUpdate,
                  Partner, Message, Name, SenderMatches, ByMessageID
    <2>. QED  BY <2>1, <2>3, <2>4, <2>5 DEF Next
  <1>. QED  BY <1>1, <1>2, CallInvariant, PTL DEF Spec

\* However its transactions fail, no message is stored without the
\* conversation it belongs to.
THEOREM HaveConversation == Spec => []MessagesHaveConversation
  <1>1. StoreInv => MessagesHaveConversation
    BY DEF StoreInv
  <1>. QED  BY <1>1, StoreInvariant, PTL

\* Between the check of the sender and the deletion, the message cannot have
\* become one of another sender.
THEOREM SenderDeletes == Spec => OnlySenderDeletes
  <1>. DEFINE Own ==
         \A u \in Uuid :
            records[u] # None /\ records'[u] = None
               => \E h \in Handlers :
                     /\ request[h] # None /\ request[h].op = "delete"
                     /\ request[h].mid = records[u].mid
                     /\ request[h].sender = records[u].sender
  <1>1. CallInv /\ StoreInv /\ [Next]_vars => [Own]_vars
    <2>. SUFFICES ASSUME CallInv, StoreInv, Next
                  PROVE  Own
      BY DEF Own
    <2>1. CASE UNCHANGED records
      BY <2>1
    <2>2. ASSUME NEW h \in Handlers, Step(h), records' # records
          PROVE  Own
      <3>t. /\ records \in [Uuid -> Record \cup {None}]
            /\ pc[h] # "idle" => request[h] # None
        BY RequestFields DEF CallInv, TypeOK, Phases
      <3>1. CASE Insert(h)
        <4>1. /\ records' = [records EXCEPT ![uuids + 1] = Message(h)]
              /\ Message(h) \in Record
          BY <2>2, <3>1, RequestFields DEF Insert, CallInv, Phases, Message
        <4>. QED  BY <3>t, <4>1
      <3>2. CASE Put(h)
        <4>1. /\ records' = [records EXCEPT ![found[h]] = copy[h]]
              /\ copy[h] \in Record
          BY <2>2, <3>2 DEF Put, CallInv, Phases
        <4>. QED  BY <3>t, <4>1
      <3>3. CASE Remove(h)
        <4>1. /\ records' = [records EXCEPT ![found[h]] = None]
              /\ request[h] # None /\ request[h].op = "delete"
              /\ request[h].mid = records[found[h]].mid
              /\ request[h].sender = records[found[h]].sender
          BY <2>2, <3>3, <3>t DEF Remove, CallInv, StoreInv, Phases, Fresh
        <4>. QED  BY <3>t, <4>1
      <3>. QED
        BY <2>2, <3>1, <3>2, <3>3
           DEF Step, GetConversation, PutConversation, Get, CheckSender, Find,
               stores
    <2>. QED  BY <2>1, <2>2 DEF Next, Call, Crash, stores
  <1>. QED
    BY <1>1, CallInvariant, StoreInvariant, PTL DEF Spec, OnlySenderDeletes

-----------------------------------------------------------------------------
(***************************************************************************)
(* The model implements DmStore: a call takes effect in the steps that     *)
(* commit its writes.                                                      *)
(***************************************************************************)
storeVars == <<records, uuids, conversations, request>>

LEMMA SameData ==
    /\ Store!Uuid = Uuid
    /\ Store!Request = Request
    /\ \A record, r : Store!Updated(record, r) = Updated(record, r)
    /\ \A convo, record, name :
          Store!Renames(convo, record, name) = Renames(convo, record, name)
    /\ \A mid : Store!ByMessageID(records, mid) = ByMessageID(records, mid)
    /\ \A u, mid : Store!Taken(records, u, mid) = Taken(records, u, mid)
  <1>1. Store!Uuid = Uuid
    BY DEF Store!Uuid, Uuid
  <1>2. Store!Request = Request
    BY <1>1 DEF Store!Request, Request
  <1>3. \A record, r : Store!Updated(record, r) = Updated(record, r)
    BY DEF Store!Updated, Updated
  <1>4. \A convo, record, name :
           Store!Renames(convo, record, name) = Renames(convo, record, name)
    BY DEF Store!Renames, Renames
  <1>5. \A mid : Store!ByMessageID(records, mid) = ByMessageID(records, mid)
    BY <1>1 DEF Store!ByMessageID, ByMessageID
  <1>6. \A u, mid : Store!Taken(records, u, mid) = Taken(records, u, mid)
    BY <1>1 DEF Store!Taken, Taken
  <1>. QED  BY <1>1, <1>2, <1>3, <1>4, <1>5, <1>6

LEMMA StepImplements ==
    ASSUME CallInv, StoreInv, NEW h \in Handlers, Step(h)
    PROVE  [Store!Next]_storeVars
  <1>e. Store!Effect(h) \/ Store!End(h) => Store!Next
    BY DEF Store!Next
  <1>r. Return(h) /\ UNCHANGED <<records, uuids, conversations>> => Store!End(h)
    BY DEF Return, Store!End
  <1>p. TypeOK /\ Phases /\ Fresh /\ request[h] # None
    BY StepBusy, RequestFields DEF CallInv, StoreInv, Phases
  <1>f. Return(h) \/ UNCHANGED request
           => request' \in {request, [request EXCEPT ![h] = None]}
    BY DEF Return
  <1>1. CASE GetConversation(h) \/ Get(h) \/ CheckSender(h) \/ Find(h)
    BY <1>1, <1>e, <1>r
       DEF GetConversation, Get, CheckSender, Find, Goto, stores, storeVars
  <1>2. CASE PutConversation(h)
    <2>1. CASE UNCHANGED conversations
      BY <1>2, <1>e, <1>r, <2>1 DEF PutConversation, Goto, storeVars
    <2>2. CASE conversations' = [conversations EXCEPT ![Partner(h)] = Name(h)]
      <3>1. Store!Rename(h)
        BY <1>2, <1>p, <2>2, SameData
           DEF PutConversation, Phases, Fresh, ConvoToUpdate, Partner, Message,
               Name, Store!Rename
      <3>. QED
        BY <1>2, <1>e, <1>f, <3>1 DEF PutConversation, Goto, Store!Effect
    <2>. QED  BY <1>2, <2>1, <2>2 DEF PutConversation
  <1>3. CASE Insert(h)
    <2>1. CASE UNCHANGED <<records, uuids>>
      BY <1>3, <1>e, <1>r, <2>1 DEF Insert
    <2>2. CASE /\ ~ Refused(None, Message(h).mid)
               /\ uuids < MaxUuid
               /\ uuids' = uuids + 1
               /\ records' = [records EXCEPT ![uuids + 1] = Message(h)]
      <3>1. ByMessageID(records, Message(h).mid) = None
        BY <2>2, ByMessageIDFinds DEF Refused, Taken
      <3>2. Store!Insert(h)
        BY <1>3, <1>p, <2>2, <3>1, SameData
           DEF Insert, Phases, Fresh, ConvoToUpdate, Partner, Message, Name,
               Store!Insert
      <3>. QED  BY <1>3, <1>e, <1>f, <3>2 DEF Insert, Store!Effect
    <2>. QED  BY <1>3, <2>1, <2>2 DEF Insert
  <1>4. CASE Put(h)
    <2>1. CASE UNCHANGED records
      BY <1>4, <1>e, <1>r, <2>1 DEF Put
    <2>2. CASE /\ ~ Refused(found[h], copy[h].mid)
               /\ records' = [records EXCEPT ![found[h]] = copy[h]]
      <3>1. /\ request[h].op = "update"
            /\ found[h] = request[h].uuid /\ records[request[h].uuid] # None
            /\ copy[h] = Store!Updated(records[request[h].uuid], request[h])
        BY <1>4, <1>p, SameData DEF Put, Phases, Fresh
      <3>2. /\ ~ Store!Taken(records, request[h].uuid, copy[h].mid)
            /\ UNCHANGED <<uuids, conversations>>
        BY <1>4, <2>2, <3>1, SameData DEF Put, Refused
      <3>3. Store!Update(h)
        BY <1>p, <2>2, <3>1, <3>2 DEF Store!Update
      <3>. QED  BY <1>4, <1>e, <1>f, <3>3 DEF Put, Store!Effect
    <2>. QED  BY <1>4, <2>1, <2>2 DEF Put
  <1>5. CASE Remove(h)
    <2>1. CASE UNCHANGED records
      BY <1>5, <1>e, <1>r, <2>1 DEF Remove
    <2>2. CASE records' = [records EXCEPT ![found[h]] = None]
      <3>1. Store!Remove(h)
        BY <1>5, <1>p, <2>2, SameData DEF Remove, Phases, Fresh, Store!Remove
      <3>. QED  BY <1>5, <1>e, <1>f, <3>1 DEF Remove, Store!Effect
    <2>. QED  BY <1>5, <2>1, <2>2 DEF Remove
  <1>. QED  BY <1>1, <1>2, <1>3, <1>4, <1>5 DEF Step

\* Whatever fails, is late or is cut off by a crash, what is stored is as if
\* each write of a call were decided and done in one step.
THEOREM Implements == Spec => ImplementsDmStore
  <1>1. Init => Store!Init
    BY SameData DEF Init, Store!Init
  <1>2. CallInv /\ StoreInv /\ [Next]_vars => [Store!Next]_storeVars
    <2>. SUFFICES ASSUME CallInv, StoreInv, [Next]_vars
                  PROVE  [Store!Next]_storeVars
      OBVIOUS
    <2>1. ASSUME NEW h \in Handlers, Step(h)
          PROVE  [Store!Next]_storeVars
      BY <2>1, StepImplements
    <2>2. ASSUME NEW h \in Handlers, NEW r \in Request, Call(h, r)
          PROVE  Store!Next
      <3>1. request[h] = None
        BY <2>2 DEF Call, Ready, CallInv, Phases
      <3>2. Store!Submit(h)
        BY <2>2, <3>1, SameData DEF Call, stores, Store!Submit
      <3>. QED  BY <3>2 DEF Store!Next
    <2>3. CASE Crash
      BY <2>3 DEF Crash, stores, Store!Crash, Store!Next
    <2>4. CASE UNCHANGED vars
      BY <2>4 DEF vars, storeVars
    <2>. QED  BY <2>1, <2>2, <2>3, <2>4 DEF Next
  <1>. QED
    BY <1>1, <1>2, CallInvariant, StoreInvariant, PTL
       DEF Spec, ImplementsDmStore, Store!Spec, Store!vars, storeVars

-----------------------------------------------------------------------------
(***************************************************************************)
(* Callbacks come to an end.                                               *)
(***************************************************************************)

\* The transactions a call may still run.
Left == [idle |-> 0, insert |-> 1, put |-> 1, remove |-> 1,
         putConversation |-> 2, get |-> 2, find |-> 2,
         getConversation |-> 3, check |-> 3]

LEMMA StepAdvances ==
    ASSUME CallInv, NEW h \in Handlers, Step(h)
    PROVE  Left[pc'[h]] < Left[pc[h]]
  <1>1. Return(h) => pc'[h] = "idle"
    BY DEF CallInv, TypeOK, Return
  <1>2. \A s : Goto(h, s) => pc'[h] = s
    BY DEF CallInv, TypeOK, Goto
  <1>3. CASE GetConversation(h) \/ PutConversation(h) \/ Insert(h)
    BY <1>1, <1>2, <1>3 DEF GetConversation, PutConversation, Insert, Left
  <1>4. CASE Get(h) \/ Put(h)
    BY <1>1, <1>2, <1>4 DEF Get, Put, Left
  <1>5. CASE CheckSender(h) \/ Find(h) \/ Remove(h)
    BY <1>1, <1>2, <1>5 DEF CheckSender, Find, Remove, Left
  <1>. QED  BY <1>3, <1>4, <1>5 DEF Step

\* A call is never set back: whatever fails or is late, every step taken while
\* it runs leaves it fewer transactions, so that it has at most three.
THEOREM CallsAdvance ==
    Spec => [][\A h \in Handlers :
                  pc[h] # "idle" => Left[pc'[h]] < Left[pc[h]]]_vars
  <1>. DEFINE Advances ==
         \A h \in Handlers : pc[h] # "idle" => Left[pc'[h]] < Left[pc[h]]
  <1>1. ASSUME CallInv, Next
        PROVE  Advances
    <2>. SUFFICES ASSUME NEW h \in Handlers, pc[h] # "idle"
                  PROVE  Left[pc'[h]] < Left[pc[h]]
      OBVIOUS
    <2>1. ASSUME NEW o \in Handlers, Step(o)
          PROVE  o = h
      BY <1>1, <2>1, StepBusy DEF CallInv, Sequential
    <2>2. ASSUME NEW o \in Handlers, NEW r \in Request, Call(o, r)
          PROVE  FALSE
      BY <2>2 DEF Call, Ready
    <2>3. CASE Crash
      BY <1>1, <2>3 DEF Crash, CallInv, TypeOK, Steps, Left
    <2>. QED  BY <1>1, <2>1, <2>2, <2>3, StepAdvances DEF Next
  <1>2. CallInv /\ [Next]_vars => [Advances]_vars
    BY <1>1
  <1>. HIDE DEF Advances
  <1>. QED  BY <1>2, CallInvariant, PTL DEF Spec, Advances

=============================================================================
