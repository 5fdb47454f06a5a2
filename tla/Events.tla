-------------------------------- MODULE Events --------------------------------
(***************************************************************************)
(* Events on their way from the Go program to the listeners of the page.   *)
(*                                                                         *)
(* The event models of the workers (indexedDb/impl/dm and channels) start  *)
(* a goroutine for each event; it posts the event to the main program,     *)
(* whose handler (indexedDb/worker/dm and channels) calls the EventUpdate  *)
(* of the page.  The bindings of the main program call EventUpdate without *)
(* a detour.  For direct messages EventUpdate is onDmEvent of              *)
(* src/events/dm.ts, which decodes the event and emits it on dmBus; for    *)
(* channels it is the application's, which has the decoders of             *)
(* src/utils/decoders.ts and the types of src/events/channels.ts.  The     *)
(* application also decodes what functions of the program return.          *)
(***************************************************************************)
EXTENDS Decoders

CONSTANTS
    Names, MaxEvents,   \* the events that may be raised, and how many (bound)
    Content(_), Entries \* what the fields and the entries of lists hold

VARIABLES
    raised,      \* the events, in the order they were raised
    goroutines,  \* those that a goroutine of a worker is to send
    port,        \* those on their way from a worker
    heard,       \* what listeners and application got, and for which event
    running      \* the main program has not panicked

vars == <<raised, goroutines, port, heard, running>>

Workers == {"dm", "channels"}

-----------------------------------------------------------------------------
(* What is raised: what it says, in the names of its Typescript type, and  *)
(* the JSON that Go makes of it.                                           *)

StrOf(field) == Str(Content(field))
NumOf(field) == Num(Content(field))
ListOf(Entry(_)) == Arr([i \in DOMAIN Entries |-> Entry(Entries[i])])
Partner == StrOf("partner")
Channel == StrOf("channel")

\* receiveWrapper raises the first, UpdateSentStatus the second.
DmMessage(update, conversationUpdated) ==
    [type |-> 3000,
     facts |-> Obj([uuid |-> NumOf("uuid"), pubkey |-> Partner, update |-> Bool(update),
                    conversationUpdated |-> Bool(conversationUpdated)]),
     json |-> Obj([uuid |-> NumOf("uuid"), pubKey |-> Partner, messageUpdate |-> Bool(update),
                   conversationUpdate |-> Bool(conversationUpdated)])]
DmReceived(b) == DmMessage(FALSE, b)
DmUpdated == DmMessage(TRUE, FALSE)

\* DeleteMessage: the type of a received message, the content of another.
DmDeleted ==
    LET json == Obj([messageID |-> StrOf("id")])
    IN  [type |-> 3000, facts |-> json, json |-> json]

DmNotifications(b) ==
    LET level == Num(IF b THEN 10 ELSE 40)
        deleted == IF b THEN Arr(<<>>) ELSE ListOf(Str)
        State(pubkey) == Obj([pubkey |-> Str(pubkey), level |-> level])
        StateJson(pubkey) == Obj([pubKey |-> Str(pubkey), level |-> level])
    IN  [type |-> 1000,
         facts |-> Obj([changedNotificationStates |-> ListOf(State),
                        deletedNotificationStates |-> deleted]),
         json |-> Obj([changed |-> ListOf(StateJson), deleted |-> deleted])]

\* A nil slice of Go is null in JSON: no changes, or no deletions.
DmNilList(b) ==
    LET full == DmNotifications(b)
    IN  [type |-> 1000,
         facts |-> Obj([full.facts.of EXCEPT
            ![IF b THEN "changedNotificationStates" ELSE "deletedNotificationStates"]
                = Arr(<<>>)]),
         json |-> Obj([full.json.of EXCEPT ![IF b THEN "changed" ELSE "deleted"] = Null])]

DmBlockedUser(b) ==
    [type |-> 2000,
     facts |-> Obj([pubkey |-> Partner, blocked |-> Bool(b)]),
     json |-> Obj([user |-> Partner, blocked |-> Bool(b)])]

\* An event of the bindings that this release does not know.
DmUnknown == [type |-> 9000, facts |-> Obj(<<>>), json |-> Obj(<<>>)]

ChannelMessage(update) ==
    [type |-> 3000,
     facts |-> Obj([uuid |-> NumOf("uuid"), channelId |-> Channel, update |-> Bool(update)]),
     json |-> Obj([uuid |-> NumOf("uuid"), channelID |-> Channel, update |-> Bool(update)])]

ChannelMessageDeleted ==
    [type |-> 5000,
     facts |-> Obj([messageId |-> Base64(ListOf(Num))]),
     json |-> Obj([MessageId |-> ListOf(Num)])]

ChannelUserMuted(b) ==
    [type |-> 4000,
     facts |-> Obj([channelId |-> Channel, pubkey |-> Partner, unmute |-> Bool(b)]),
     json |-> Obj([channelID |-> Channel, pubKey |-> Partner, unmute |-> Bool(b)])]

ChannelNickname(b) ==
    [type |-> 1000,
     facts |-> Obj([channelId |-> Channel, nickname |-> StrOf("nick"), exists |-> Bool(b)]),
     json |-> Obj([channelID |-> Channel, nickname |-> StrOf("nick"), exists |-> Bool(b)])]

ChannelNotifications(b) ==
    LET level == Num(IF b THEN 20 ELSE 40)
        status == Num(IF b THEN 0 ELSE 2)
        deleted == IF b THEN Null ELSE ListOf(Str)
        State(id) == Obj([channelId |-> Str(id), level |-> level, status |-> status])
        StateJson(id) == Obj([channelID |-> Str(id), level |-> level, status |-> status])
    IN  [type |-> 2000,
         facts |-> Obj([changedNotificationStates |-> ListOf(State),
                        deletedNotificationStates |-> deleted]),
         json |-> Obj([changedNotificationStates |-> ListOf(StateJson),
                       deletedNotificationStates |-> deleted])]

\* NotificationUpdateEvent lets either list be absent.
ChannelListLeftOut(b) ==
    LET full == ChannelNotifications(b)
        absent == IF b THEN "deletedNotificationStates" ELSE "changedNotificationStates"
    IN  [type |-> 2000,
         facts |-> Obj([full.facts.of EXCEPT ![absent] = Undefined]),
         json |-> Obj([list \in DOMAIN full.json.of \ {absent} |-> full.json.of[list]])]

\* A nil slice of Go, of the changes; of the deletions it may be.
ChannelNilChanges ==
    LET full == ChannelNotifications(FALSE)
    IN  [type |-> 2000,
         facts |-> Obj([full.facts.of EXCEPT !.changedNotificationStates = Arr(<<>>)]),
         json |-> Obj([full.json.of EXCEPT !.changedNotificationStates = Null])]

ChannelAdminKeys ==
    [type |-> 6000, facts |-> Obj([channelId |-> Channel]), json |-> Obj([channelID |-> Channel])]

ChannelDMToken(b) ==
    [type |-> 7000,
     facts |-> Obj([channelId |-> Channel, sendToken |-> Bool(b)]),
     json |-> Obj([channelID |-> Channel, sendToken |-> Bool(b)])]

ChannelUpdate(b) ==
    LET status == Num(IF b THEN 1 ELSE 3)
        Update(id) == Obj([channelId |-> Str(id), status |-> status])
        UpdateJson(id) == Obj([channelID |-> Str(id), status |-> status])
    IN  [type |-> 8000, facts |-> ListOf(Update), json |-> ListOf(UpdateJson)]

\* What functions of the program return.
Answers(b) ==
    [channel |->
        [facts |-> Obj([receptionId |-> StrOf("reception"), channelId |-> Undefined,
                        name |-> StrOf("name"), description |-> StrOf("description")]),
         json |-> Obj([ReceptionID |-> StrOf("reception"), Name |-> StrOf("name"),
                       Description |-> StrOf("description"), Level |-> NumOf("level")])],
     identity |->
        [facts |-> Obj([pubkey |-> Partner, codename |-> StrOf("name"), color |-> StrOf("color"),
                        extension |-> StrOf("extension"), codeset |-> NumOf("codeset")]),
         json |-> Obj([PubKey |-> Partner, Codename |-> StrOf("name"), Color |-> StrOf("color"),
                       Extension |-> StrOf("extension"), CodesetVersion |-> NumOf("codeset")])],
     shareUrl |->
        IF b THEN [facts |-> Obj([password |-> StrOf("password"), url |-> StrOf("url")]),
                   json |-> Obj([password |-> StrOf("password"), url |-> StrOf("url")])]
             ELSE [facts |-> Obj([password |-> Undefined, url |-> StrOf("url")]),
                   json |-> Obj([url |-> StrOf("url")])],
     isReady |->
        [facts |-> Obj([isReady |-> Bool(b), howClose |-> NumOf("howClose")]),
         json |-> Obj([IsReady |-> Bool(b), HowClose |-> NumOf("howClose")])],
     blocked |-> [facts |-> ListOf(Str), json |-> ListOf(Str)],
     favorites |-> [facts |-> ListOf(Str), json |-> ListOf(Str)],
     version |->
        LET versions == Obj([current |-> StrOf("new"), updated |-> Bool(b), old |-> StrOf("old")])
        IN  [facts |-> versions, json |-> versions],
     kvEntry |->
        IF b THEN [facts |-> Null, json |-> Null]
             ELSE [facts |-> Obj([data |-> StrOf("data"), version |-> NumOf("version"),
                                  timestamp |-> StrOf("time")]),
                   json |-> Obj([Data |-> StrOf("data"), Version |-> NumOf("version"),
                                 Timestamp |-> StrOf("time")])]]

AnswerNames ==
    {"channel", "identity", "shareUrl", "isReady", "blocked", "favorites", "version", "kvEntry"}

AnswerDecoder(name, v) ==
    CASE name = "channel" -> ChannelDecoder(v)
      [] name = "identity" -> IdentityDecoder(v)
      [] name = "shareUrl" -> ShareUrlDecoder(v)
      [] name = "isReady" -> IsReadyInfoDecoder(v)
      [] name = "blocked" -> PubkeyArrayDecoder(v)
      [] name = "favorites" -> ChannelFavoritesDecoder(v)
      [] name = "version" -> VersionDecoder(v)
      [] name = "kvEntry" -> KvEntryDecoder(v)

\* Who raises what: the model in a worker, or the main program.
ModelEvents == [dm |-> {"DmReceived", "DmUpdated", "DmDeleted"},
                channels |-> {"ChannelMessage", "ChannelMessageDeleted", "ChannelUserMuted"}]
BindingsEvents ==
    [dm |-> {"DmNotifications", "DmNilList", "DmBlockedUser", "DmUnknown"},
     channels |-> {"ChannelNickname", "ChannelNotifications", "ChannelListLeftOut",
                   "ChannelNilChanges", "ChannelAdminKeys", "ChannelDMToken",
                   "ChannelUpdate"}]
AllNames == UNION {ModelEvents[w] \cup BindingsEvents[w] : w \in Workers} \cup AnswerNames

ASSUME EventNames == Names \subseteq AllNames /\ MaxEvents \in Nat

Occurrence(name, b) ==
    CASE name = "DmReceived" -> DmReceived(b)
      [] name = "DmUpdated" -> DmUpdated
      [] name = "DmDeleted" -> DmDeleted
      [] name = "DmNotifications" -> DmNotifications(b)
      [] name = "DmNilList" -> DmNilList(b)
      [] name = "DmBlockedUser" -> DmBlockedUser(b)
      [] name = "DmUnknown" -> DmUnknown
      [] name = "ChannelMessage" -> ChannelMessage(b)
      [] name = "ChannelMessageDeleted" -> ChannelMessageDeleted
      [] name = "ChannelUserMuted" -> ChannelUserMuted(b)
      [] name = "ChannelNickname" -> ChannelNickname(b)
      [] name = "ChannelNotifications" -> ChannelNotifications(b)
      [] name = "ChannelListLeftOut" -> ChannelListLeftOut(b)
      [] name = "ChannelNilChanges" -> ChannelNilChanges
      [] name = "ChannelAdminKeys" -> ChannelAdminKeys
      [] name = "ChannelDMToken" -> ChannelDMToken(b)
      [] name = "ChannelUpdate" -> ChannelUpdate(b)
      [] name \in AnswerNames -> Answers(b)[name]

Event(i) == Occurrence(raised[i].name, raised[i].b)

-----------------------------------------------------------------------------
(* The dispatchers                                                         *)

\* Mutant: two events with the numbers of each other.
DMEvents_swapped ==
    [DM_NOTIFICATION_UPDATE |-> 2000, DM_BLOCKED_USER |-> 1000, DM_MESSAGE_RECEIVED |-> 3000]

DMEvents ==
    [DM_NOTIFICATION_UPDATE |-> 1000, DM_BLOCKED_USER |-> 2000, DM_MESSAGE_RECEIVED |-> 3000]

DmDecoderMap(type, v) ==
    CASE type = DMEvents.DM_NOTIFICATION_UPDATE -> DmNotificationsUpdateEventDecoder(v)
      [] type = DMEvents.DM_BLOCKED_USER -> BlockedUserEventDecoder(v)
      [] type = DMEvents.DM_MESSAGE_RECEIVED -> DmReceivedEventDecoder(v)

ChannelEvents ==
    [NICKNAME_UPDATE |-> 1000, NOTIFICATION_UPDATE |-> 2000, MESSAGE_RECEIVED |-> 3000,
     USER_MUTED |-> 4000, MESSAGE_DELETED |-> 5000, ADMIN_KEY_UPDATE |-> 6000,
     DM_TOKEN_UPDATE |-> 7000, CHANNEL_UPDATE |-> 8000]

\* The decoders that yield the types of ChannelEventMap.
ChannelEventMap(type, v) ==
    CASE type = ChannelEvents.NICKNAME_UPDATE -> NicknameUpdatedEventDecoder(v)
      [] type = ChannelEvents.NOTIFICATION_UPDATE -> NotificationUpdateEventDecoder(v)
      [] type = ChannelEvents.MESSAGE_RECEIVED -> MessageReceivedEventDecoder(v)
      [] type = ChannelEvents.MESSAGE_DELETED -> MessageDeletedEventDecoder(v)
      [] type = ChannelEvents.USER_MUTED -> UserMutedEventDecoder(v)
      [] type = ChannelEvents.ADMIN_KEY_UPDATE -> AdminKeysUpdateDecoder(v)
      [] type = ChannelEvents.CHANNEL_UPDATE -> ChannelUpdateEventDecoder(v)
      [] type = ChannelEvents.DM_TOKEN_UPDATE -> ChannelDMTokenUpdateDecoder(v)

\* A decoder that throws does so in a call from Go: the goroutine panics, and
\* the program with it.
Emit(i, result) ==
    IF IsErr(result)
      THEN /\ running' = FALSE
           /\ UNCHANGED heard
      ELSE /\ heard' = Append(heard, [of |-> i, value |-> result])
           /\ UNCHANGED running

OnDmEvent(i, event) ==
    IF \E e \in DOMAIN DMEvents : DMEvents[e] = event.type
      THEN Emit(i, DmDecoderMap(event.type, Parsed(Bytes(Text(event.json)))))
      ELSE UNCHANGED <<heard, running>>

ChannelEventHandler(i, event) ==
    Emit(i, ChannelEventMap(event.type, Parsed(Bytes(Text(event.json)))))

EventUpdate(worker, i, event) ==
    \/ worker = "dm" /\ OnDmEvent(i, event)
    \/ worker = "channels" /\ ChannelEventHandler(i, event)

-----------------------------------------------------------------------------
Init ==
    /\ raised = <<>> /\ goroutines = [w \in Workers |-> {}]
    /\ port = [w \in Workers |-> <<>>]
    /\ heard = <<>>
    /\ running = TRUE

Raised(name, b) == Append(raised, [name |-> name, b |-> b])
ThisEvent == Len(raised) + 1

\* An operation of an event model: `go w.eventCallback(...)'.
ModelRaises(w) ==
    /\ ThisEvent <= MaxEvents
    /\ \E name \in Names \cap ModelEvents[w], b \in BOOLEAN : raised' = Raised(name, b)
    /\ goroutines' = [goroutines EXCEPT ![w] = @ \cup {ThisEvent}]
    /\ UNCHANGED <<port, heard, running>>

\* eventUpdateCallback, in its goroutine; nothing orders the goroutines.
Send(w, i) ==
    /\ i \in goroutines[w]
    /\ goroutines' = [goroutines EXCEPT ![w] = @ \ {i}]
    /\ port' = [port EXCEPT ![w] = Append(@, i)]
    /\ UNCHANGED <<raised, heard, running>>

\* eventUpdateCallbackHandler, called by the reception thread of the port.
Deliver(w) ==
    /\ running /\ port[w] # <<>>
    /\ EventUpdate(w, Head(port[w]), Event(Head(port[w])))
    /\ port' = [port EXCEPT ![w] = Tail(@)]
    /\ UNCHANGED <<raised, goroutines>>

\* The bindings call EventUpdate of the main program.
BindingsRaise(w) ==
    /\ running /\ ThisEvent <= MaxEvents
    /\ \E name \in Names \cap BindingsEvents[w], b \in BOOLEAN :
          /\ raised' = Raised(name, b)
          /\ EventUpdate(w, ThisEvent, Occurrence(name, b))
    /\ UNCHANGED <<goroutines, port>>

\* The application calls a function and decodes what it returns: the JSON in a
\* Uint8Array or a string, or parsed already.
Given(form, json) ==
    CASE form = "bytes" -> Bytes(Text(json))
      [] form = "string" -> Text(json)
      [] form = "parsed" -> json

Answer ==
    /\ running /\ ThisEvent <= MaxEvents
    /\ \E name \in Names \cap AnswerNames, b \in BOOLEAN,
          form \in {"bytes", "string", "parsed"} :
          /\ raised' = Raised(name, b)
          /\ Emit(ThisEvent, AnswerDecoder(name, Parsed(Given(form, Occurrence(name, b).json))))
    /\ UNCHANGED <<goroutines, port>>

Next ==
    \/ \E w \in Workers : ModelRaises(w) \/ Deliver(w) \/ BindingsRaise(w)
    \/ \E w \in Workers, i \in 1..MaxEvents : Send(w, i)
    \/ Answer

Fairness ==
    /\ \A w \in Workers : WF_vars(Deliver(w))
    /\ \A w \in Workers, i \in 1..MaxEvents : WF_vars(Send(w, i))

Spec == Init /\ [][Next]_vars /\ Fairness

-----------------------------------------------------------------------------
IsHeard(i) == \E h \in DOMAIN heard : heard[h].of = i

\* What a listener or the application gets says what the Go program said, in
\* the fields of its Typescript type: no field takes the place of another on
\* the way through JSON, bytes and decoder, however the events overtake each
\* other; and nobody hears an event twice.
HeardAsRaised ==
    /\ \A h \in DOMAIN heard : heard[h].value = Event(heard[h].of).facts
    /\ \A g, h \in DOMAIN heard : heard[g].of = heard[h].of => g = h

\* The events that their decoders refuse: they lack what the type of their
\* number requires, or, in ChannelListLeftOut, what only the decoder requires.
Mistyped == {"DmDeleted", "DmNilList", "ChannelNilChanges"}
Refused == Mistyped \cup {"ChannelListLeftOut"}

WasRaised(names) == \E i \in 1..Len(raised) : raised[i].name \in names

\* An event that is raised is heard, unless this release does not know it, or
\* one of the refused events is raised, which stops the program, before or
\* after it (src/utils/decoders.ts, src/events/dm.ts).
RaisedIsHeard ==
    \A i \in 1..MaxEvents :
        i <= Len(raised) ~>
            \/ IsHeard(i)
            \/ WasRaised(Refused)
            \/ i <= Len(raised) /\ raised[i].name = "DmUnknown"

\* Every event that reaches onDmEvent is of the type that DMEventMap declares
\* for it (src/events/dm.ts:14-18), so that decoding it does not stop the
\* program.
EventsAreOfTheirType == running

\* An event that the type declared for it allows does not stop the program: a
\* notification update may have either list or none (src/types/events.ts:93-96).
DeclaredTypesDecode == running \/ WasRaised(Mistyped)

=============================================================================
