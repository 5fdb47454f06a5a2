------------------------- MODULE ChannelsModel_proofs -------------------------
(***************************************************************************)
(* Theorems about ChannelsModel for any handlers, messages, channels,      *)
(* updates and faults: the types, one record per message, deleted records  *)
(* stay deleted, and calls that take effect as if each were one step.      *)
(***************************************************************************)
EXTENDS ChannelsModel, TLAPS

USE BoundAssumption, FlagsAssumption, ChangesAssumption, NilAssumption

-----------------------------------------------------------------------------
(***************************************************************************)
(* Data.                                                                   *)
(***************************************************************************)
LEMMA RequestFields ==
    ASSUME NEW r \in Request
    PROVE  /\ r # None
           /\ r.op \in {"receive", "updateUuid", "updateMid", "delete",
                        "join", "leave"}
           /\ r.op = "receive"
                 => /\ r.kind \in Kinds /\ r.record \in Received
                    /\ r.record \in Record
           /\ r.op = "updateUuid" => r.uuid \in Uuid
           /\ r.op \in {"updateUuid", "updateMid"} => r.change \in Change
           /\ r.op \in {"updateMid", "delete"} => r.mid \in MessageIDs
           /\ r.op \in {"join", "leave"} => r.channel \in ChannelIDs
  BY DEF Request, Received

LEMMA BuiltType ==
    ASSUME NEW kind \in Kinds, NEW record \in Record
    PROVE  /\ Built(kind, record) \in Record
           /\ Built(kind, record).mid = record.mid
  BY DEF Built, Record

LEMMA AgainType ==
    ASSUME NEW record \in Record
    PROVE  Again(record) \in Change
  BY DEF Again, Record, Change

LEMMA MergedType ==
    ASSUME NEW record \in Record, NEW change \in Change
    PROVE  Merged(record, change) \in Record
  <1>1. /\ Updated(record.mid, change.mid) \in MessageIDs
        /\ Updated(record.status, change.status) \in Statuses
        /\ Updated(record.hidden, change.hidden) \in BOOLEAN
        /\ Updated(record.pinned, change.pinned) \in BOOLEAN
    BY DEF Updated, Record, Change
  <1>. QED  BY <1>1 DEF Merged, Record

LEMMA ByMessageIDFinds ==
    ASSUME NEW mid
    PROVE  LET u == ByMessageID(records, mid) IN
             \/ /\ u \in Uuid /\ u # None
                /\ records[u] # None /\ records[u].mid = mid
             \/ /\ u = None
                /\ \A v \in Uuid : records[v] # None => records[v].mid # mid
  BY DEF ByMessageID

-----------------------------------------------------------------------------
(***************************************************************************)
(* Type correctness and what a call knows between two transactions.        *)
(***************************************************************************)

\* One call is in progress at a time, and it is where its request takes it.
Sequential ==
    \A h, o \in Handlers : pc[h] # "idle" /\ pc[o] # "idle" => h = o

Writes == {"receive", "updateUuid", "updateMid"}

Phases ==
    \A h \in Handlers :
        /\ pc[h] = "idle" => request[h] = None
        /\ pc[h] # "idle" => request[h] \in Request
        /\ pc[h] = "insert" => request[h].op = "receive"
        /\ pc[h] \in {"get", "put"} => request[h].op \in Writes
        /\ pc[h] \in {"find", "remove"} => request[h].op = "delete"
        /\ pc[h] = "join" => request[h].op = "join"
        /\ pc[h] \in {"leave", "clear"} => request[h].op = "leave"
        /\ pc[h] \in {"insert", "get"} /\ request[h].op = "receive"
              => copy[h] = Built(request[h].kind, request[h].record)
        /\ pc[h] \in {"put", "remove"} => found[h] \in Uuid
        /\ pc[h] = "put" => copy[h] \in Record

LEMMA PhaseTypes ==
    ASSUME TypeOK, Phases, NEW h \in Handlers
    PROVE  /\ pc[h] \in {"insert", "put"} => copy[h] \in Record
           /\ pc[h] = "get" => Asked(h) \in Change
           /\ pc[h] = "insert" => copy[h].mid = request[h].record.mid
           /\ pc[h] = "get" => Key(request[h]) \in Uuid \cup {None}
  <1>1. pc[h] \in {"insert", "get"} /\ request[h].op = "receive"
           => copy[h] \in Record /\ copy[h].mid = request[h].record.mid
    BY RequestFields, BuiltType DEF Phases
  <1>2. pc[h] = "get" => Asked(h) \in Change
    BY <1>1, AgainType, RequestFields DEF Phases, Asked, Writes
  <1>3. ASSUME pc[h] = "get"
        PROVE  Key(request[h]) \in Uuid \cup {None}
    <2>1. /\ request[h] \in Request
          /\ request[h].op \in {"receive", "updateUuid", "updateMid"}
      BY <1>3 DEF Phases, Writes
    <2>2. CASE request[h].op = "updateUuid"
      BY <2>1, <2>2, RequestFields DEF Key
    <2>3. CASE request[h].op = "updateMid"
      BY <2>1, <2>3, ByMessageIDFinds DEF Key
    <2>4. CASE request[h].op = "receive"
      BY <2>1, <2>4, ByMessageIDFinds DEF Key
    <2>. QED  BY <2>1, <2>2, <2>3, <2>4
  <1>4. pc[h] = "put" => copy[h] \in Record
    BY DEF Phases
  <1>5. pc[h] = "insert" => /\ copy[h] \in Record
                            /\ copy[h].mid = request[h].record.mid
    BY <1>1 DEF Phases
  <1>6. pc[h] = "get" => Key(request[h]) \in Uuid \cup {None}
    BY <1>3
  <1>7. pc[h] \in {"insert", "put"} => copy[h] \in Record
    BY <1>4, <1>5
  <1>. QED  BY <1>2, <1>5, <1>6, <1>7

LEMMA CallTypes ==
    ASSUME TypeOK, Phases, Sequential,
           NEW h \in Handlers, NEW r \in Request, Call(h, r)
    PROVE  TypeOK' /\ Phases' /\ Sequential'
  <1>1. /\ r.op \in DOMAIN FirstStep
        /\ FirstStep[r.op] \in Steps
        /\ FirstStep[r.op] # "idle"
        /\ FirstStep[r.op] = "insert" <=> r.op = "receive"
        /\ FirstStep[r.op] = "get" <=> r.op \in {"updateUuid", "updateMid"}
        /\ FirstStep[r.op] = "find" <=> r.op = "delete"
        /\ FirstStep[r.op] = "join" <=> r.op = "join"
        /\ FirstStep[r.op] = "leave" <=> r.op = "leave"
        /\ FirstStep[r.op] \notin {"put", "remove", "clear"}
    BY RequestFields DEF FirstStep, Steps
  <1>2. /\ \A o \in Handlers : pc[o] = "idle"
        /\ pc' = [pc EXCEPT ![h] = FirstStep[r.op]]
        /\ request' = [request EXCEPT ![h] = r]
        /\ copy' = [copy EXCEPT ![h] =
              IF r.op = "receive" THEN Built(r.kind, r.record) ELSE None]
        /\ UNCHANGED <<records, uuids, joined, found>>
    BY DEF Call, Ready, stores
  <1>3. (IF r.op = "receive" THEN Built(r.kind, r.record) ELSE None)
           \in Record \cup {None}
    BY RequestFields, BuiltType
  <1>4. TypeOK'
    BY <1>1, <1>2, <1>3 DEF TypeOK
  <1>5. /\ pc'[h] = FirstStep[r.op] /\ request'[h] = r
        /\ r.op = "receive" => copy'[h] = Built(r.kind, r.record)
        /\ \A o \in Handlers : o # h => pc'[o] = "idle" /\ request'[o] = None
    BY <1>2 DEF TypeOK, Phases
  <1>6. Sequential'
    BY <1>5 DEF Sequential
  <1>7. Phases'
    BY <1>1, <1>5 DEF Phases, Writes
  <1>. QED  BY <1>4, <1>6, <1>7

StoresTyped ==
    /\ records \in [Uuid -> Record \cup {None}]
    /\ uuids \in 0..MaxUuid
    /\ joined \subseteq ChannelIDs

LEMMA ReturnTypes ==
    ASSUME TypeOK, Phases, Sequential, StoresTyped',
           NEW h \in Handlers, Return(h)
    PROVE  TypeOK' /\ Phases' /\ Sequential'
  <1>1. /\ pc' \in [Handlers -> Steps]
        /\ request' \in [Handlers -> Request \cup {None}]
        /\ found' \in [Handlers -> Uuid \cup {None}]
        /\ copy' \in [Handlers -> Record \cup {None}]
    BY DEF TypeOK, Return, Steps
  <1>2. TypeOK'
    BY <1>1 DEF TypeOK, StoresTyped
  <1>3. /\ pc'[h] = "idle" /\ request'[h] = None
        /\ \A o \in Handlers : o # h =>
              /\ pc'[o] = pc[o] /\ request'[o] = request[o]
              /\ found'[o] = found[o] /\ copy'[o] = copy[o]
    BY DEF TypeOK, Return
  <1>4. Sequential'
    BY <1>3 DEF Sequential
  <1>5. Phases'
    BY <1>3 DEF Phases
  <1>. QED  BY <1>2, <1>4, <1>5

\* A call goes on to its next transaction.
LEMMA GotoTypes ==
    ASSUME TypeOK, Phases, Sequential, StoresTyped',
           NEW h \in Handlers, NEW s \in Steps, Goto(h, s),
           pc[h] # "idle",
           found' \in [Handlers -> Uuid \cup {None}],
           copy' \in [Handlers -> Record \cup {None}],
           \A o \in Handlers : o # h => found'[o] = found[o] /\ copy'[o] = copy[o],
           /\ s = "get" => /\ request[h].op \in Writes
                           /\ request[h].op = "receive" =>
                                 copy'[h] = Built(request[h].kind, request[h].record)
           /\ s = "put" => /\ request[h].op \in Writes
                           /\ found'[h] \in Uuid /\ copy'[h] \in Record
           /\ s = "remove" => request[h].op = "delete" /\ found'[h] \in Uuid
           /\ s = "clear" => request[h].op = "leave"
           /\ s \in {"get", "put", "remove", "clear"}
    PROVE  TypeOK' /\ Phases' /\ Sequential'
  <1>1. pc' \in [Handlers -> Steps] /\ request' = request
    BY DEF TypeOK, Goto
  <1>2. TypeOK'
    BY <1>1 DEF TypeOK, StoresTyped
  <1>3. pc'[h] = s /\ \A o \in Handlers : o # h => pc'[o] = pc[o]
    BY DEF TypeOK, Goto
  <1>4. Sequential'
    BY <1>3 DEF Sequential
  <1>5. ASSUME NEW o \in Handlers, o # h
        PROVE  pc'[o] = "idle" /\ request[o] = None
    BY <1>3, <1>5 DEF Sequential, Phases
  <1>6. Phases'
    BY <1>1, <1>3, <1>5 DEF Phases
  <1>. QED  BY <1>2, <1>4, <1>6

LEMMA StepTypes ==
    ASSUME TypeOK, Phases, Sequential, NEW h \in Handlers, Step(h)
    PROVE  TypeOK' /\ Phases' /\ Sequential'
  <1>s. {"get", "put", "remove", "clear"} \subseteq Steps
    BY DEF Steps
  <1>1. CASE Insert(h)
    <2>1. StoresTyped'
      <3>1. copy[h] \in Record
        BY <1>1, PhaseTypes DEF Insert
      <3>2. records' \in [Uuid -> Record \cup {None}] /\ uuids' \in 0..MaxUuid
        BY <1>1, <3>1 DEF Insert, TypeOK, Uuid
      <3>. QED  BY <1>1, <3>2 DEF Insert, TypeOK, StoresTyped
    <2>2. CASE Return(h)
      BY <2>1, <2>2, ReturnTypes
    <2>3. CASE Goto(h, "get") /\ UNCHANGED <<found, copy>>
      <3>1. /\ request[h].op = "receive" /\ pc[h] # "idle"
            /\ copy'[h] = Built(request[h].kind, request[h].record)
        BY <1>1, <2>3 DEF Insert, Phases
      <3>2. /\ found' \in [Handlers -> Uuid \cup {None}]
            /\ copy' \in [Handlers -> Record \cup {None}]
            /\ \A o \in Handlers : found'[o] = found[o] /\ copy'[o] = copy[o]
        BY <2>3 DEF TypeOK
      <3>. QED  BY <1>s, <2>1, <2>3, <3>1, <3>2, GotoTypes DEF Writes
    <2>. QED  BY <1>1, <2>2, <2>3 DEF Insert
  <1>2. CASE Get(h)
    <2>. DEFINE u == Key(request[h])
    <2>1. StoresTyped'
      BY <1>2 DEF Get, stores, TypeOK, StoresTyped
    <2>2. CASE Return(h)
      BY <2>1, <2>2, ReturnTypes
    <2>3. CASE /\ Stored(u)
               /\ found' = [found EXCEPT ![h] = u]
               /\ copy' = [copy EXCEPT ![h] = Merged(records[u], Asked(h))]
               /\ Goto(h, "put")
      <3>1. u \in Uuid /\ records[u] \in Record
        BY <1>2, <2>3, PhaseTypes DEF Get, Stored, TypeOK
      <3>2. Merged(records[u], Asked(h)) \in Record
        BY <1>2, <3>1, PhaseTypes, MergedType DEF Get
      <3>3. /\ found' \in [Handlers -> Uuid \cup {None}]
            /\ copy' \in [Handlers -> Record \cup {None}]
            /\ found'[h] \in Uuid /\ copy'[h] \in Record
            /\ \A o \in Handlers :
                  o # h => found'[o] = found[o] /\ copy'[o] = copy[o]
        BY <2>3, <3>1, <3>2 DEF TypeOK
      <3>4. request[h].op \in Writes /\ pc[h] # "idle"
        BY <1>2 DEF Get, Phases
      <3>. QED  BY <1>s, <2>1, <2>3, <3>3, <3>4, GotoTypes
    <2>. QED  BY <1>2, <2>2, <2>3 DEF Get
  <1>3. CASE Put(h)
    <2>1. StoresTyped'
      BY <1>3 DEF Put, Phases, TypeOK, StoresTyped
    <2>. QED  BY <1>3, <2>1, ReturnTypes DEF Put
  <1>4. CASE Find(h)
    <2>. DEFINE u == ByMessageID(records, request[h].mid)
    <2>1. StoresTyped'
      BY <1>4 DEF Find, stores, TypeOK, StoresTyped
    <2>2. CASE Return(h)
      BY <2>1, <2>2, ReturnTypes
    <2>3. CASE /\ u # None
               /\ found' = [found EXCEPT ![h] = u]
               /\ Goto(h, "remove")
               /\ UNCHANGED copy
      <3>1. u \in Uuid
        BY <2>3, ByMessageIDFinds
      <3>2. /\ found' \in [Handlers -> Uuid \cup {None}]
            /\ copy' \in [Handlers -> Record \cup {None}]
            /\ found'[h] \in Uuid
            /\ \A o \in Handlers :
                  o # h => found'[o] = found[o] /\ copy'[o] = copy[o]
        BY <2>3, <3>1 DEF TypeOK
      <3>3. request[h].op = "delete" /\ pc[h] # "idle"
        BY <1>4 DEF Find, Phases
      <3>. QED  BY <1>s, <2>1, <2>3, <3>2, <3>3, GotoTypes
    <2>. QED  BY <1>4, <2>2, <2>3 DEF Find
  <1>5. CASE Remove(h)
    <2>1. StoresTyped'
      BY <1>5 DEF Remove, Phases, TypeOK, StoresTyped
    <2>. QED  BY <1>5, <2>1, ReturnTypes DEF Remove
  <1>6. CASE JoinChannel(h)
    <2>1. request[h].channel \in ChannelIDs
      BY <1>6, RequestFields DEF JoinChannel, Phases
    <2>2. StoresTyped'
      BY <1>6, <2>1 DEF JoinChannel, TypeOK, StoresTyped
    <2>. QED  BY <1>6, <2>2, ReturnTypes DEF JoinChannel
  <1>7. CASE LeaveChannel(h)
    <2>1. StoresTyped'
      BY <1>7 DEF LeaveChannel, TypeOK, StoresTyped
    <2>2. CASE Return(h)
      BY <2>1, <2>2, ReturnTypes
    <2>3. CASE Goto(h, "clear") /\ UNCHANGED <<found, copy>>
      <3>1. request[h].op = "leave" /\ pc[h] # "idle"
        BY <1>7 DEF LeaveChannel, Phases
      <3>2. /\ found' \in [Handlers -> Uuid \cup {None}]
            /\ copy' \in [Handlers -> Record \cup {None}]
            /\ \A o \in Handlers : found'[o] = found[o] /\ copy'[o] = copy[o]
        BY <2>3 DEF TypeOK
      <3>. QED  BY <1>s, <2>1, <2>3, <3>1, <3>2, GotoTypes
    <2>. QED  BY <1>7, <2>2, <2>3 DEF LeaveChannel
  <1>8. CASE ClearChannel(h)
    <2>1. StoresTyped'
      BY <1>8 DEF ClearChannel, TypeOK, StoresTyped
    <2>. QED  BY <1>8, <2>1, ReturnTypes DEF ClearChannel
  <1>. QED  BY <1>1, <1>2, <1>3, <1>4, <1>5, <1>6, <1>7, <1>8 DEF Step

\* Every variable has its type, callbacks run one after the other, and each is
\* at a transaction its call asked for.
THEOREM TypeCorrect == Spec => [](TypeOK /\ Phases /\ Sequential)
  <1>1. Init => TypeOK /\ Phases /\ Sequential
    <2>. SUFFICES ASSUME Init PROVE TypeOK /\ Phases /\ Sequential
      OBVIOUS
    <2>1. 0 \in 0..MaxUuid /\ "idle" \in Steps
      BY DEF Steps
    <2>2. TypeOK
      BY <2>1 DEF Init, TypeOK
    <2>. QED  BY <2>2 DEF Init, Phases, Sequential
  <1>2. TypeOK /\ Phases /\ Sequential /\ [Next]_vars
           => (TypeOK /\ Phases /\ Sequential)'
    <2>. SUFFICES ASSUME TypeOK, Phases, Sequential, [Next]_vars
                  PROVE  TypeOK' /\ Phases' /\ Sequential'
      OBVIOUS
    <2>1. CASE Crash
      <3>1. TypeOK'
        BY <2>1 DEF Crash, stores, TypeOK, Steps
      <3>2. \A h \in Handlers : pc'[h] = "idle" /\ request'[h] = None
        BY <2>1 DEF Crash
      <3>. QED  BY <3>1, <3>2 DEF Phases, Sequential
    <2>2. CASE UNCHANGED vars
      BY <2>2 DEF vars, TypeOK, Phases, Sequential
    <2>. QED  BY <2>1, <2>2, CallTypes, StepTypes DEF Next
  <1>. QED  BY <1>1, <1>2, PTL DEF Spec

-----------------------------------------------------------------------------
(***************************************************************************)
(* The store between two transactions of a call.                           *)
(***************************************************************************)
KeysUsed == \A u \in Uuid : records[u] # None => u <= uuids

\* The update a call asks of a record.
Wanted(r) == IF r.op = "receive" THEN Again(Built(r.kind, r.record))
                                 ELSE r.change

\* What a call has read is still what is stored.
CopiesFresh ==
    \A h \in Handlers :
        /\ pc[h] = "put" =>
              /\ found[h] = Key(request[h]) /\ Stored(found[h])
              /\ copy[h] = Merged(records[found[h]], Wanted(request[h]))
        /\ pc[h] = "remove" =>
              Stored(found[h]) /\ records[found[h]].mid = request[h].mid
        /\ pc[h] = "clear" => request[h].channel \notin joined

StoreInv == OneRecordPerMessage /\ KeysUsed /\ CopiesFresh

CallInv == TypeOK /\ Phases /\ Sequential

LEMMA ReturnFresh ==
    ASSUME CallInv, NEW h \in Handlers, pc[h] # "idle", Return(h)
    PROVE  CopiesFresh'
  <1>1. \A o \in Handlers : pc'[o] = "idle"
    BY DEF CallInv, TypeOK, Sequential, Return
  <1>. QED  BY <1>1 DEF CopiesFresh

\* Only one call has left "idle", so a step to s concerns its own copy only.
LEMMA GotoFresh ==
    ASSUME CallInv, NEW h \in Handlers, pc[h] # "idle",
           NEW s, Goto(h, s)
    PROVE  /\ pc'[h] = s /\ request' = request
           /\ \A o \in Handlers : o # h => pc'[o] = "idle"
  BY DEF CallInv, TypeOK, Sequential, Goto

LEMMA StepStore ==
    ASSUME CallInv, StoreInv, NEW h \in Handlers, Step(h)
    PROVE  /\ OneRecordPerMessage' /\ KeysUsed'
           /\ \A u \in Uuid : u <= uuids /\ records[u] = None => records'[u] = None
  <1>. USE DEF CallInv, StoreInv, OneRecordPerMessage, KeysUsed
  <1>t. uuids \in Nat /\ records \in [Uuid -> Record \cup {None}]
    BY DEF TypeOK
  <1>1. CASE Insert(h)
    <2>1. CASE UNCHANGED <<records, uuids>>
      BY <2>1
    <2>2. CASE /\ ~ Refused(None, copy[h].mid)
               /\ uuids < MaxUuid
               /\ uuids' = uuids + 1
               /\ records' = [records EXCEPT ![uuids + 1] = copy[h]]
      <3>1. uuids + 1 \in Uuid
        BY <1>t, <2>2 DEF Uuid
      <3>2. /\ records'[uuids + 1] = copy[h]
            /\ \A u \in Uuid : u # uuids + 1 => records'[u] = records[u]
        BY <1>t, <2>2, <3>1
      <3>3. \A u \in Uuid : records[u] # None => records[u].mid # copy[h].mid
        BY <2>2 DEF Refused, Taken
      <3>4. OneRecordPerMessage'
        BY <3>2, <3>3
      <3>5. KeysUsed'
        BY <1>t, <2>2, <3>2 DEF Uuid
      <3>6. \A u \in Uuid : u <= uuids => u # uuids + 1
        BY <1>t DEF Uuid
      <3>. QED  BY <3>2, <3>4, <3>5, <3>6
    <2>. QED  BY <1>1, <2>1, <2>2 DEF Insert
  <1>2. CASE Get(h) \/ Find(h) \/ JoinChannel(h) \/ LeaveChannel(h)
    BY <1>2 DEF Get, Find, JoinChannel, LeaveChannel, stores
  <1>3. CASE Put(h)
    <2>1. CASE UNCHANGED records
      BY <1>3, <2>1 DEF Put
    <2>2. CASE /\ ~ Refused(found[h], copy[h].mid)
               /\ records' = [records EXCEPT ![found[h]] = copy[h]]
      <3>1. found[h] \in Uuid /\ records[found[h]] # None
        BY <1>3 DEF Put, Phases, CopiesFresh, Stored
      <3>2. /\ records'[found[h]] = copy[h]
            /\ \A u \in Uuid : u # found[h] => records'[u] = records[u]
            /\ uuids' = uuids
        BY <1>3, <1>t, <2>2, <3>1 DEF Put
      <3>3. \A u \in Uuid : u # found[h] /\ records[u] # None
                               => records[u].mid # copy[h].mid
        BY <2>2 DEF Refused, Taken
      <3>4. OneRecordPerMessage'
        BY <3>2, <3>3
      <3>5. KeysUsed'
        BY <3>1, <3>2
      <3>. QED  BY <3>1, <3>2, <3>4, <3>5
    <2>. QED  BY <1>3, <2>1, <2>2 DEF Put
  <1>4. CASE Remove(h)
    <2>1. \A u \in Uuid : records'[u] = records[u] \/ records'[u] = None
      BY <1>4, <1>t DEF Remove, Phases
    <2>. QED  BY <1>4, <2>1 DEF Remove
  <1>5. CASE ClearChannel(h)
    <2>1. \A u \in Uuid : records'[u] = records[u] \/ records'[u] = None
      BY <1>5, <1>t DEF ClearChannel
    <2>. QED  BY <1>5, <2>1 DEF ClearChannel
  <1>. QED  BY <1>1, <1>2, <1>3, <1>4, <1>5 DEF Step

LEMMA StepFresh ==
    ASSUME CallInv, StoreInv, NEW h \in Handlers, Step(h)
    PROVE  CopiesFresh'
  <1>b. Step(h) => pc[h] # "idle"
    BY DEF Step, Insert, Get, Put, Find, Remove, JoinChannel, LeaveChannel,
           ClearChannel
  <1>r. CASE Return(h)
    BY <1>b, <1>r, ReturnFresh
  <1>1. CASE Insert(h) /\ Goto(h, "get")
    BY <1>b, <1>1, GotoFresh DEF CopiesFresh
  <1>2. CASE Get(h) /\ ~ Return(h)
    <2>. DEFINE u == Key(request[h])
    <2>1. /\ Stored(u)
          /\ found' = [found EXCEPT ![h] = u]
          /\ copy' = [copy EXCEPT ![h] = Merged(records[u], Asked(h))]
          /\ Goto(h, "put")
          /\ records' = records
      BY <1>2 DEF Get, stores
    <2>2. found'[h] = u /\ copy'[h] = Merged(records[u], Asked(h))
      BY <2>1 DEF CallInv, TypeOK
    <2>3. Asked(h) = Wanted(request[h])
      BY <1>2 DEF Get, CallInv, Phases, Asked, Wanted
    <2>4. /\ pc'[h] = "put" /\ request' = request
          /\ \A o \in Handlers : o # h => pc'[o] = "idle"
      BY <1>b, <2>1, GotoFresh
    <2>5. found'[h] = Key(request[h])' /\ Stored(found[h])'
      BY <2>1, <2>2, <2>4 DEF Key, ByMessageID, Stored
    <2>6. copy'[h] = Merged(records'[found'[h]], Wanted(request'[h]))
      BY <2>1, <2>2, <2>3, <2>4
    <2>. QED  BY <2>4, <2>5, <2>6 DEF CopiesFresh
  <1>3. CASE Find(h) /\ ~ Return(h)
    <2>. DEFINE u == ByMessageID(records, request[h].mid)
    <2>1. /\ u # None
          /\ found' = [found EXCEPT ![h] = u]
          /\ Goto(h, "remove")
          /\ records' = records
      BY <1>3 DEF Find, stores
    <2>2. found'[h] = u
      BY <2>1 DEF CallInv, TypeOK
    <2>3. records[u] # None /\ records[u].mid = request[h].mid
      BY <2>1, ByMessageIDFinds
    <2>4. /\ pc'[h] = "remove" /\ request' = request
          /\ \A o \in Handlers : o # h => pc'[o] = "idle"
      BY <1>b, <2>1, GotoFresh
    <2>. QED  BY <2>1, <2>2, <2>3, <2>4 DEF CopiesFresh, Stored
  <1>4. CASE LeaveChannel(h) /\ ~ Return(h)
    <2>1. joined' = joined \ {request[h].channel} /\ Goto(h, "clear")
      BY <1>4 DEF LeaveChannel
    <2>2. /\ pc'[h] = "clear" /\ request' = request
          /\ \A o \in Handlers : o # h => pc'[o] = "idle"
      BY <1>b, <2>1, GotoFresh
    <2>. QED  BY <2>1, <2>2 DEF CopiesFresh
  <1>. QED
    BY <1>r, <1>1, <1>2, <1>3, <1>4
       DEF Step, Insert, Put, Remove, JoinChannel, ClearChannel

LEMMA CallInvariant == Spec => []CallInv
  BY TypeCorrect, PTL DEF CallInv

LEMMA NextStore ==
    CallInv /\ StoreInv /\ [Next]_vars
       => /\ StoreInv'
          /\ \A u \in Uuid : u <= uuids /\ records[u] = None => records'[u] = None
  <1>. SUFFICES ASSUME CallInv, StoreInv, [Next]_vars
                PROVE  /\ StoreInv'
                       /\ \A u \in Uuid :
                             u <= uuids /\ records[u] = None => records'[u] = None
    OBVIOUS
  <1>1. ASSUME NEW h \in Handlers, Step(h)
        PROVE  /\ StoreInv'
               /\ \A u \in Uuid :
                     u <= uuids /\ records[u] = None => records'[u] = None
    BY <1>1, StepStore, StepFresh DEF StoreInv
  <1>2. ASSUME UNCHANGED stores,
               \A h \in Handlers : pc'[h] \notin {"put", "remove", "clear"}
        PROVE  /\ StoreInv'
               /\ \A u \in Uuid :
                     u <= uuids /\ records[u] = None => records'[u] = None
    BY <1>2 DEF stores, StoreInv, OneRecordPerMessage, KeysUsed, CopiesFresh
  <1>3. ASSUME NEW h \in Handlers, NEW r \in Request, Call(h, r)
        PROVE  \A o \in Handlers : pc'[o] \notin {"put", "remove", "clear"}
    <2>1. FirstStep[r.op] \notin {"put", "remove", "clear"}
      BY RequestFields DEF FirstStep
    <2>. QED  BY <1>3, <2>1 DEF Call, Ready, CallInv, TypeOK
  <1>4. CASE Crash
    BY <1>2, <1>4 DEF Crash
  <1>5. CASE UNCHANGED vars
    <2>1. UNCHANGED <<records, joined, uuids, pc, request, found, copy>>
      BY <1>5 DEF vars, stores
    <2>2. OneRecordPerMessage' /\ KeysUsed'
      BY <2>1 DEF StoreInv, OneRecordPerMessage, KeysUsed
    <2>3. \A u : Stored(u)' <=> Stored(u)
      BY <2>1 DEF Stored
    <2>4. \A r : Key(r)' = Key(r)
      BY <2>1 DEF Key, ByMessageID
    <2>5. CopiesFresh'
      BY <2>1, <2>3, <2>4 DEF StoreInv, CopiesFresh
    <2>. QED  BY <2>1, <2>2, <2>5 DEF StoreInv
  <1>. QED  BY <1>1, <1>2, <1>3, <1>4, <1>5 DEF Next, Call

LEMMA StoreInvariant == Spec => []StoreInv
  <1>1. Init => StoreInv
    BY DEF Init, StoreInv, OneRecordPerMessage, KeysUsed, CopiesFresh
  <1>. QED  BY <1>1, NextStore, CallInvariant, PTL DEF Spec

\* Whatever fails, times out or is cut short, a message received any number of
\* times has one record.
THEOREM OneRecord == Spec => []OneRecordPerMessage
  <1>1. StoreInv => OneRecordPerMessage
    BY DEF StoreInv
  <1>. QED  BY <1>1, StoreInvariant, PTL

\* No update that read a record before it was deleted puts it back.
THEOREM Deleted == Spec => DeletedStaysDeleted
  <1>1. CallInv /\ StoreInv /\ [Next]_vars
           => [\A u \in Uuid :
                  u <= uuids /\ records[u] = None => records'[u] = None]_vars
    BY NextStore
  <1>. QED  BY <1>1, CallInvariant, StoreInvariant, PTL DEF Spec, DeletedStaysDeleted

-----------------------------------------------------------------------------
(***************************************************************************)
(* The model implements MessageStore: a call takes effect in the step that *)
(* commits its write, on the record that is stored at that moment.         *)
(***************************************************************************)
LEMMA SameData ==
    /\ Store!Uuid = Uuid
    /\ Store!Request = Request
    /\ \A kind, record : Store!Built(kind, record) = Built(kind, record)
    /\ \A record : Store!Again(record) = Again(record)
    /\ \A record, change : Store!Merged(record, change) = Merged(record, change)
    /\ \A mid : Store!ByMessageID(records, mid) = ByMessageID(records, mid)
    /\ \A u, mid : Store!Taken(records, u, mid) = Taken(records, u, mid)
  <1>1. Store!Uuid = Uuid
    BY DEF Store!Uuid, Uuid
  <1>2. Store!Request = Request
    BY DEF Store!Request, Request, Store!Uuid, Uuid, Store!Kinds, Kinds,
           Store!Received, Received, Store!Record, Record
  <1>3. \A kind, record : Store!Built(kind, record) = Built(kind, record)
    BY DEF Store!Built, Built
  <1>4. \A record : Store!Again(record) = Again(record)
    BY DEF Store!Again, Again
  <1>5. \A record, change : Store!Merged(record, change) = Merged(record, change)
    BY DEF Store!Merged, Merged, Store!Updated, Updated
  <1>6. \A mid : Store!ByMessageID(records, mid) = ByMessageID(records, mid)
    BY <1>1 DEF Store!ByMessageID, ByMessageID
  <1>7. \A u, mid : Store!Taken(records, u, mid) = Taken(records, u, mid)
    BY <1>1 DEF Store!Taken, Taken
  <1>. QED  BY <1>1, <1>2, <1>3, <1>4, <1>5, <1>6, <1>7

LEMMA StepImplements ==
    ASSUME CallInv, StoreInv, NEW h \in Handlers, Step(h)
    PROVE  [Store!Next]_<<records, uuids, joined, request>>
  <1>. DEFINE Simulated == [Store!Next]_<<records, uuids, joined, request>>
  <1>e. Store!Effect(h) \/ Store!End(h) => Simulated
    BY DEF Store!Next
  <1>r. Return(h) /\ UNCHANGED stores => Store!End(h)
    BY DEF Return, stores, Store!End
  <1>p. /\ TypeOK /\ Phases /\ CopiesFresh
        /\ pc[h] # "idle" => request[h] # None
    BY RequestFields DEF CallInv, StoreInv, Phases
  <1>f. Return(h) \/ UNCHANGED request
           => request' \in {request, [request EXCEPT ![h] = None]}
    BY DEF Return
  <1>1. CASE Insert(h)
    <2>1. CASE UNCHANGED <<records, uuids>>
      BY <1>1, <1>p, <2>1 DEF Insert, Goto, TypeOK
    <2>2. CASE /\ ~ Refused(None, copy[h].mid)
               /\ uuids < MaxUuid
               /\ uuids' = uuids + 1
               /\ records' = [records EXCEPT ![uuids + 1] = copy[h]]
      <3>1. /\ request[h].op = "receive" /\ request[h] # None
            /\ copy[h] = Built(request[h].kind, request[h].record)
        BY <1>1, <1>p DEF Insert, Phases
      <3>2. ByMessageID(records, copy[h].mid) = None
        BY <2>2, ByMessageIDFinds DEF Refused, Taken
      <3>3. Store!Insert(h)
        BY <1>1, <2>2, <3>1, <3>2, SameData DEF Insert, Store!Insert
      <3>. QED  BY <1>1, <1>e, <1>f, <3>3 DEF Insert, Goto, Store!Effect
    <2>. QED  BY <1>1, <2>1, <2>2 DEF Insert
  <1>2. CASE Get(h)
    BY <1>2, <1>e, <1>r DEF Get, Goto, stores
  <1>3. CASE Put(h)
    <2>1. CASE UNCHANGED records
      BY <1>3, <1>e, <1>r, <2>1 DEF Put, stores
    <2>2. CASE /\ ~ Refused(found[h], copy[h].mid)
               /\ records' = [records EXCEPT ![found[h]] = copy[h]]
      <3>. DEFINE u == found[h]
      <3>1. /\ request[h] \in Request /\ request[h].op \in Writes
            /\ u = Key(request[h]) /\ Stored(u) /\ u \in Uuid
            /\ copy[h] = Merged(records[u], Wanted(request[h]))
        BY <1>3, <1>p DEF Put, Phases, CopiesFresh
      <3>2. Store!Target(request[h]) = u
        BY <3>1, SameData DEF Store!Target, Key, Writes
      <3>3. Store!Asked(request[h]) = Wanted(request[h])
        BY SameData DEF Store!Asked, Wanted
      <3>4. copy[h] = Store!Merged(records[u], Store!Asked(request[h]))
        BY <3>1, <3>3, SameData
      <3>5. Store!Update(h)
        BY <1>3, <1>p, <2>2, <3>1, <3>2, <3>4, SameData
           DEF Put, Store!Update, Refused, Stored, Writes
      <3>. QED  BY <1>3, <1>e, <1>f, <3>5 DEF Put, Store!Effect
    <2>. QED  BY <1>3, <2>1, <2>2 DEF Put
  <1>4. CASE Find(h)
    BY <1>4, <1>e, <1>r DEF Find, Goto, stores
  <1>5. CASE Remove(h)
    <2>1. CASE UNCHANGED records
      BY <1>5, <1>e, <1>r, <2>1 DEF Remove, stores
    <2>2. CASE records' = [records EXCEPT ![found[h]] = None]
      <3>1. /\ request[h].op = "delete" /\ found[h] \in Uuid
            /\ records[found[h]] # None
            /\ records[found[h]].mid = request[h].mid
        BY <1>5, <1>p DEF Remove, Phases, CopiesFresh, Stored
      <3>2. Store!Remove(h)
        BY <1>5, <1>p, <2>2, <3>1, SameData DEF Remove, Store!Remove
      <3>. QED  BY <1>5, <1>e, <1>f, <3>2 DEF Remove, Store!Effect
    <2>. QED  BY <1>5, <2>1, <2>2 DEF Remove
  <1>6. CASE JoinChannel(h)
    <2>1. CASE UNCHANGED joined
      BY <1>6, <1>e, <1>r, <2>1 DEF JoinChannel, stores
    <2>2. CASE joined' = joined \cup {request[h].channel}
      <3>1. Store!JoinChannel(h)
        BY <1>6, <1>p, <2>2 DEF JoinChannel, Phases, Store!JoinChannel
      <3>. QED  BY <1>6, <1>e, <1>f, <3>1 DEF JoinChannel, Store!Effect
    <2>. QED  BY <1>6, <2>1, <2>2 DEF JoinChannel
  <1>7. CASE LeaveChannel(h)
    <2>1. CASE UNCHANGED joined /\ Return(h)
      BY <1>7, <1>e, <1>r, <2>1 DEF LeaveChannel, stores
    <2>2. CASE joined' = joined \ {request[h].channel}
      <3>1. Store!LeaveChannel(h)
        BY <1>7, <1>p, <2>2 DEF LeaveChannel, Phases, Store!LeaveChannel
      <3>. QED  BY <1>7, <1>e, <1>f, <3>1 DEF LeaveChannel, Goto, Store!Effect
    <2>. QED  BY <1>7, <2>1, <2>2 DEF LeaveChannel
  <1>8. CASE ClearChannel(h)
    <2>1. /\ request[h].op = "leave" /\ request[h] # None
          /\ request[h].channel \notin joined
      BY <1>8, <1>p DEF ClearChannel, Phases, CopiesFresh
    <2>2. Store!ClearChannel(h)
      BY <1>8, <2>1, SameData DEF ClearChannel, InChannel, Store!ClearChannel
    <2>. QED  BY <1>8, <1>e, <1>f, <2>2 DEF ClearChannel, Store!Effect
  <1>. QED  BY <1>1, <1>2, <1>3, <1>4, <1>5, <1>6, <1>7, <1>8 DEF Step

\* Although a callback runs over several transactions, any of which may fail,
\* be late or be cut off by a crash, no update is lost or half done: the store
\* behaves as if every call were one step.
THEOREM Implements == Spec => ImplementsStore
  <1>1. Init => Store!Init
    BY SameData DEF Init, Store!Init
  <1>2. CallInv /\ StoreInv /\ [Next]_vars
           => [Store!Next]_<<records, uuids, joined, request>>
    <2>. SUFFICES ASSUME CallInv, StoreInv, [Next]_vars
                  PROVE  [Store!Next]_<<records, uuids, joined, request>>
      OBVIOUS
    <2>1. ASSUME NEW h \in Handlers, Step(h)
          PROVE  [Store!Next]_<<records, uuids, joined, request>>
      BY <2>1, StepImplements
    <2>2. ASSUME NEW h \in Handlers, NEW r \in Request, Call(h, r)
          PROVE  Store!Next
      <3>1. request[h] = None
        BY <2>2 DEF Call, Ready, CallInv, Phases, TypeOK
      <3>2. Store!Submit(h)
        BY <2>2, <3>1, SameData DEF Call, stores, Store!Submit
      <3>. QED  BY <3>2 DEF Store!Next
    <2>3. CASE Crash
      BY <2>3 DEF Crash, stores, Store!Crash, Store!Next
    <2>4. CASE UNCHANGED vars
      BY <2>4 DEF vars
    <2>. QED  BY <2>1, <2>2, <2>3, <2>4 DEF Next
  <1>. QED
    BY <1>1, <1>2, CallInvariant, StoreInvariant, PTL
       DEF Spec, ImplementsStore, Store!Spec, Store!vars

-----------------------------------------------------------------------------
(***************************************************************************)
(* Callbacks come to an end: the safety part of CallsReturn.               *)
(***************************************************************************)

\* The transactions a call may still run.
Left == [idle |-> 0, put |-> 1, remove |-> 1, clear |-> 1, join |-> 1,
         get |-> 2, find |-> 2, leave |-> 2, insert |-> 3]

LEMMA StepAdvances ==
    ASSUME CallInv, NEW h \in Handlers, Step(h)
    PROVE  Left[pc'[h]] < Left[pc[h]]
  <1>1. Return(h) => pc'[h] = "idle"
    BY DEF CallInv, TypeOK, Return
  <1>2. \A s : Goto(h, s) => pc'[h] = s
    BY DEF CallInv, TypeOK, Goto
  <1>3. CASE Insert(h) \/ Put(h) \/ Get(h) \/ Find(h)
    BY <1>1, <1>2, <1>3 DEF Insert, Put, Get, Find, Left
  <1>4. CASE Remove(h) \/ JoinChannel(h) \/ LeaveChannel(h) \/ ClearChannel(h)
    BY <1>1, <1>2, <1>4 DEF Remove, JoinChannel, LeaveChannel, ClearChannel, Left
  <1>. QED  BY <1>3, <1>4 DEF Step

\* A call is never set back: whatever fails or is late, every step taken while
\* it runs leaves it fewer transactions, so that it has at most three.  An
\* insertion that fails is tried again as an update, an update never is.
THEOREM CallsAdvance ==
    Spec => [][\A h \in Handlers :
                  pc[h] # "idle" => Left[pc'[h]] < Left[pc[h]]]_vars
  <1>. DEFINE Advances ==
         \A h \in Handlers : pc[h] # "idle" => Left[pc'[h]] < Left[pc[h]]
  <1>1. ASSUME CallInv, Next
        PROVE  Advances
    <2>. SUFFICES ASSUME NEW h \in Handlers, pc[h] # "idle"
                  PROVE  Left[pc'[h]] < Left[pc[h]]
      OBVIOUS
    <2>1. ASSUME NEW o \in Handlers, Step(o)
          PROVE  o = h
      <3>1. pc[o] # "idle"
        BY <2>1 DEF Step, Insert, Get, Put, Find, Remove, JoinChannel,
           LeaveChannel, ClearChannel
      <3>. QED  BY <1>1, <3>1 DEF CallInv, Sequential
    <2>2. ASSUME NEW o \in Handlers, NEW r \in Request, Call(o, r)
          PROVE  FALSE
      BY <2>2 DEF Call, Ready
    <2>3. CASE Crash
      BY <1>1, <2>3 DEF Crash, CallInv, TypeOK, Steps, Left
    <2>. QED  BY <1>1, <2>1, <2>2, <2>3, StepAdvances DEF Next
  <1>2. CallInv /\ [Next]_vars => [Advances]_vars
    BY <1>1
  <1>. HIDE DEF Advances
  <1>. QED  BY <1>2, CallInvariant, PTL DEF Spec, Advances

=============================================================================
