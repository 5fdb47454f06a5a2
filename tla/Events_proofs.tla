----------------------------- MODULE Events_proofs -----------------------------
(***************************************************************************)
(* What module Events promises, for events of any content: what each       *)
(* decoder makes of the JSON of each event, what a step does to what has   *)
(* been heard, and the invariant that follows every event from the         *)
(* goroutine that sends it to the listener that hears it.                  *)
(***************************************************************************)
EXTENDS Events, TLAPS

(* What the decoders make of the parts of JSON.                             *)

LEMMA ScalarsDecode ==
    ASSUME NEW x
    PROVE  /\ String(Str(x)) = Str(x) /\ ~ IsErr(Str(x))
           /\ Number(Num(x)) = Num(x) /\ ~ IsErr(Num(x))
           /\ Boolean(Bool(x)) = Bool(x) /\ ~ IsErr(Bool(x))
  BY DEF String, Number, Boolean, Str, Num, Bool, IsErr

LEMMA MembersOfObj ==
    ASSUME NEW members, NEW key \in DOMAIN members
    PROVE  Member(Obj(members), key) = members[key]
  BY DEF Member, Obj

LEMMA NoMember ==
    ASSUME NEW members, NEW key, key \notin DOMAIN members
    PROVE  Member(Obj(members), key) = Undefined
  BY DEF Member, Obj

LEMMA ObjectsDecode ==
    ASSUME NEW members, NEW fields, \A f \in DOMAIN fields : ~ IsErr(fields[f])
    PROVE  Object(Obj(members), fields) = Obj(fields) /\ ~ IsErr(Obj(fields))
  BY DEF Object, Obj, IsErr

LEMMA ArraysDecode ==
    ASSUME NEW r, \A i \in DOMAIN r : ~ IsErr(r[i])
    PROVE  ~ IsErr(Arr(r)) /\ ~ IsErr(Undefined) /\ ~ IsErr(Null) /\ ~ IsErr(Base64(r))
  BY DEF Arr, IsErr, Undefined, Null, Base64

LEMMA StringsDecode ==
    /\ Array(String, ListOf(Str)) = ListOf(Str) /\ ~ IsErr(ListOf(Str))
    /\ Array(String, Arr(<<>>)) = Arr(<<>>) /\ ~ IsErr(Arr(<<>>))
<1> DEFINE s == [i \in DOMAIN Entries |-> Str(Entries[i])]
           r == [i \in DOMAIN s |-> String(s[i])]
<1>1. r = s /\ \A i \in DOMAIN r : ~ IsErr(r[i])
  BY ScalarsDecode
<1>2. Array(String, Arr(s)) = Arr(r) /\ ~ IsErr(Arr(r))
  BY <1>1 DEF Array, Arr, IsErr
<1> DEFINE e == [i \in DOMAIN <<>> |-> String(<<>>[i])]
<1>3. e = <<>> /\ DOMAIN e = {}
  OBVIOUS
<1>4. Array(String, Arr(<<>>)) = Arr(e) /\ ~ IsErr(Arr(e))
  BY <1>3 DEF Array, Arr, IsErr
<1>5. QED
  BY <1>1, <1>2, <1>3, <1>4 DEF ListOf

LEMMA NumbersDecode ==
    Array(Number, ListOf(Num)) = ListOf(Num) /\ ~ IsErr(ListOf(Num))
<1> DEFINE s == [i \in DOMAIN Entries |-> Num(Entries[i])]
           r == [i \in DOMAIN s |-> Number(s[i])]
<1>1. r = s /\ \A i \in DOMAIN r : ~ IsErr(r[i])
  BY ScalarsDecode
<1>2. Array(Number, Arr(s)) = Arr(r) /\ ~ IsErr(Arr(r))
  BY <1>1 DEF Array, Arr, IsErr
<1>3. QED
  BY <1>1, <1>2 DEF ListOf

LEMMA ChannelUpdateDecodes ==
    ASSUME NEW x, NEW s \in {1, 3}
    PROVE  LET r == ChannelUpdateDecoder(Obj([channelID |-> Str(x), status |-> Num(s)]))
           IN  r = Obj([channelId |-> Str(x), status |-> Num(s)]) /\ ~ IsErr(r)
<1>1. Enumeration(ChannelStatus, Num(s)) = Num(s)
  BY DEF Enumeration, ChannelStatus, Num
<1>2. QED
  BY <1>1, ScalarsDecode, MembersOfObj, ObjectsDecode DEF ChannelUpdateDecoder

LEMMA ChannelUpdatesDecode ==
    ASSUME NEW b
    PROVE  /\ ChannelUpdateEventDecoder(ChannelUpdate(b).json) = ChannelUpdate(b).facts
           /\ ~ IsErr(ChannelUpdate(b).facts)
<1> DEFINE status == IF b THEN 1 ELSE 3
           json == [i \in DOMAIN Entries |->
                        Obj([channelID |-> Str(Entries[i]), status |-> Num(status)])]
           facts == [i \in DOMAIN Entries |->
                        Obj([channelId |-> Str(Entries[i]), status |-> Num(status)])]
           r == [i \in DOMAIN json |-> ChannelUpdateDecoder(json[i])]
<1>1. r = facts /\ \A i \in DOMAIN r : ~ IsErr(r[i])
  <2>1. status \in {1, 3}
    OBVIOUS
  <2> HIDE DEF status
  <2>2. QED
    BY <2>1, ChannelUpdateDecodes
<1>2. Array(ChannelUpdateDecoder, Arr(json)) = Arr(r) /\ ~ IsErr(Arr(r))
  BY <1>1 DEF Array, Arr, IsErr
<1>3. ChannelUpdate(b).json = Arr(json) /\ ChannelUpdate(b).facts = Arr(facts)
  BY DEF ChannelUpdate, ListOf
<1>4. QED
  BY <1>1, <1>2, <1>3 DEF ChannelUpdateEventDecoder

LEMMA DmMessageDecodes ==
    ASSUME NEW b, NEW c
    PROVE  /\ DmReceivedEventDecoder(DmMessage(b, c).json) = DmMessage(b, c).facts
           /\ ~ IsErr(DmMessage(b, c).facts)
  BY ScalarsDecode, MembersOfObj, ObjectsDecode
  DEF DmReceivedEventDecoder, DmMessage, StrOf, NumOf, Partner

LEMMA DmBlockedUserDecodes ==
    ASSUME NEW b
    PROVE  /\ BlockedUserEventDecoder(DmBlockedUser(b).json) = DmBlockedUser(b).facts
           /\ ~ IsErr(DmBlockedUser(b).facts)
  BY ScalarsDecode, MembersOfObj, ObjectsDecode
  DEF BlockedUserEventDecoder, DmBlockedUser, StrOf, Partner

LEMMA ChannelMessageDecodes ==
    ASSUME NEW b
    PROVE  /\ MessageReceivedEventDecoder(ChannelMessage(b).json) = ChannelMessage(b).facts
           /\ ~ IsErr(ChannelMessage(b).facts)
  BY ScalarsDecode, MembersOfObj, ObjectsDecode
  DEF MessageReceivedEventDecoder, ChannelMessage, StrOf, NumOf, Channel

LEMMA ChannelUserMutedDecodes ==
    ASSUME NEW b
    PROVE  /\ UserMutedEventDecoder(ChannelUserMuted(b).json) = ChannelUserMuted(b).facts
           /\ ~ IsErr(ChannelUserMuted(b).facts)
  BY ScalarsDecode, MembersOfObj, ObjectsDecode
  DEF UserMutedEventDecoder, ChannelUserMuted, StrOf, Partner, Channel

LEMMA ChannelNicknameDecodes ==
    ASSUME NEW b
    PROVE  /\ NicknameUpdatedEventDecoder(ChannelNickname(b).json) = ChannelNickname(b).facts
           /\ ~ IsErr(ChannelNickname(b).facts)
  BY ScalarsDecode, MembersOfObj, ObjectsDecode
  DEF NicknameUpdatedEventDecoder, ChannelNickname, StrOf, Channel

LEMMA ChannelAdminKeysDecode ==
    /\ AdminKeysUpdateDecoder(ChannelAdminKeys.json) = ChannelAdminKeys.facts
    /\ ~ IsErr(ChannelAdminKeys.facts)
  BY ScalarsDecode, MembersOfObj, ObjectsDecode
  DEF AdminKeysUpdateDecoder, ChannelAdminKeys, StrOf, Channel

LEMMA ChannelDMTokenDecodes ==
    ASSUME NEW b
    PROVE  /\ ChannelDMTokenUpdateDecoder(ChannelDMToken(b).json) = ChannelDMToken(b).facts
           /\ ~ IsErr(ChannelDMToken(b).facts)
  BY ScalarsDecode, MembersOfObj, ObjectsDecode
  DEF ChannelDMTokenUpdateDecoder, ChannelDMToken, StrOf, Channel

LEMMA ChannelMessageDeletedDecodes ==
    /\ MessageDeletedEventDecoder(ChannelMessageDeleted.json) = ChannelMessageDeleted.facts
    /\ ~ IsErr(ChannelMessageDeleted.facts)
<1>1. MessageIdDecoder(ListOf(Num)) = Base64(ListOf(Num)) /\ ~ IsErr(Base64(ListOf(Num)))
  BY NumbersDecode DEF MessageIdDecoder, Uint8ArrayDecoder, Base64, IsErr
<1>2. QED
  BY <1>1, MembersOfObj, ObjectsDecode DEF MessageDeletedEventDecoder, ChannelMessageDeleted

\* A deleted message has no field of a received one.
LEMMA DmDeletedThrows == IsErr(DmReceivedEventDecoder(DmDeleted.json))
<1>1. Number(Undefined) = Err
  BY DEF Number, Undefined
<1>2. Member(DmDeleted.json, "uuid") = Undefined
  BY NoMember DEF DmDeleted
<1>3. QED
  BY <1>1, <1>2 DEF DmReceivedEventDecoder, Object, Err, IsErr

LEMMA DmNotificationsDecode ==
    ASSUME NEW b
    PROVE  /\ DmNotificationsUpdateEventDecoder(DmNotifications(b).json) = DmNotifications(b).facts
           /\ ~ IsErr(DmNotifications(b).facts)
<1> DEFINE level == IF b THEN 10 ELSE 40
           json == [i \in DOMAIN Entries |->
                        Obj([pubKey |-> Str(Entries[i]), level |-> Num(level)])]
           facts == [i \in DOMAIN Entries |->
                        Obj([pubkey |-> Str(Entries[i]), level |-> Num(level)])]
           r == [i \in DOMAIN json |-> DmNotificationLevelStateDecoder(json[i])]
           deleted == IF b THEN Arr(<<>>) ELSE ListOf(Str)
<1>1. Enumeration(DMNotificationLevel, Num(level)) = Num(level)
  BY DEF Enumeration, DMNotificationLevel, Num
<1>2. r = facts /\ \A i \in DOMAIN r : ~ IsErr(r[i])
  <2> HIDE DEF level
  <2>1. ASSUME NEW x
        PROVE  LET result == DmNotificationLevelStateDecoder(
                                Obj([pubKey |-> Str(x), level |-> Num(level)]))
               IN  /\ result = Obj([pubkey |-> Str(x), level |-> Num(level)])
                   /\ ~ IsErr(result)
    BY <1>1, ScalarsDecode, MembersOfObj, ObjectsDecode DEF DmNotificationLevelStateDecoder
  <2>2. QED
    BY <2>1
<1>3. Array(DmNotificationLevelStateDecoder, Arr(json)) = Arr(facts) /\ ~ IsErr(Arr(facts))
  BY <1>2 DEF Array, Arr, IsErr
<1>4. Array(String, deleted) = deleted /\ ~ IsErr(deleted)
  BY StringsDecode
<1>5. /\ DmNotifications(b).json = Obj([changed |-> Arr(json), deleted |-> deleted])
      /\ DmNotifications(b).facts = Obj([changedNotificationStates |-> Arr(facts),
                                        deletedNotificationStates |-> deleted])
  BY DEF DmNotifications, ListOf
<1> HIDE DEF json, facts, deleted
<1>6. QED
  BY <1>3, <1>4, <1>5, MembersOfObj, ObjectsDecode
  DEF DmNotificationsUpdateEventDecoder, DmNotificationLevelStatesDecoder,
      DmDeletedNotificationStatesDecoder

LEMMA ChannelNotificationsDecode ==
    ASSUME NEW b
    PROVE  /\ NotificationUpdateEventDecoder(ChannelNotifications(b).json)
                = ChannelNotifications(b).facts
           /\ ~ IsErr(ChannelNotifications(b).facts)
<1> DEFINE level == IF b THEN 20 ELSE 40
           status == IF b THEN 0 ELSE 2
           json == [i \in DOMAIN Entries |->
                        Obj([channelID |-> Str(Entries[i]), level |-> Num(level),
                             status |-> Num(status)])]
           facts == [i \in DOMAIN Entries |->
                        Obj([channelId |-> Str(Entries[i]), level |-> Num(level),
                             status |-> Num(status)])]
           r == [i \in DOMAIN json |-> NotificationStateDecoder(json[i])]
           deleted == IF b THEN Null ELSE ListOf(Str)
<1>1. /\ Enumeration(ChannelNotificationLevel, Num(level)) = Num(level)
      /\ Enumeration(NotificationStatus, Num(status)) = Num(status)
  BY DEF Enumeration, ChannelNotificationLevel, NotificationStatus, Num
<1>2. r = facts /\ \A i \in DOMAIN r : ~ IsErr(r[i])
  <2> HIDE DEF level, status
  <2>1. ASSUME NEW x
        PROVE  LET result == NotificationStateDecoder(
                                Obj([channelID |-> Str(x), level |-> Num(level),
                                     status |-> Num(status)]))
               IN  /\ result = Obj([channelId |-> Str(x), level |-> Num(level),
                                    status |-> Num(status)])
                   /\ ~ IsErr(result)
    BY <1>1, ScalarsDecode, MembersOfObj, ObjectsDecode DEF NotificationStateDecoder
  <2>2. QED
    BY <2>1
<1>3. Array(NotificationStateDecoder, Arr(json)) = Arr(facts) /\ ~ IsErr(Arr(facts))
  BY <1>2 DEF Array, Arr, IsErr
<1>4. Nullable(Strings, deleted) = deleted /\ ~ IsErr(deleted)
  BY StringsDecode DEF Nullable, Strings, Null, IsErr, ListOf, Arr
<1>5. /\ ChannelNotifications(b).json = Obj([changedNotificationStates |-> Arr(json),
                                            deletedNotificationStates |-> deleted])
      /\ ChannelNotifications(b).facts = Obj([changedNotificationStates |-> Arr(facts),
                                             deletedNotificationStates |-> deleted])
  BY DEF ChannelNotifications, ListOf
<1> HIDE DEF json, facts, deleted
<1>6. QED
  BY <1>3, <1>4, <1>5, MembersOfObj, ObjectsDecode DEF NotificationUpdateEventDecoder

(* What the decoders refuse: a list that is absent, or null.                *)

\* An object is refused for any of its fields.
LEMMA ObjectsRefuse ==
    ASSUME NEW v, NEW fields, NEW f \in DOMAIN fields, IsErr(fields[f])
    PROVE  IsErr(Object(v, fields))
  BY DEF Object, Err, IsErr

LEMMA NoListThrows ==
    ASSUME NEW v \in {Null, Undefined}
    PROVE  /\ Array(NotificationStateDecoder, v) = Err
           /\ Array(DmNotificationLevelStateDecoder, v) = Err
           /\ Array(String, v) = Err
           /\ IsErr(Err)
  BY DEF Array, Null, Undefined, Err, IsErr

LEMMA DmNilListThrows ==
    ASSUME NEW b
    PROVE  IsErr(DmNotificationsUpdateEventDecoder(DmNilList(b).json))
<1> DEFINE full == DmNotifications(b).json.of
           json == DmNilList(b).json
<1>1. DOMAIN full = {"changed", "deleted"}
  BY DEF DmNotifications, Obj
<1> DEFINE nil == IF b THEN "changed" ELSE "deleted"
           members == [full EXCEPT ![nil] = Null]
<1>2. json = Obj(members)
  BY DEF DmNilList
<1> HIDE DEF full, json
<1>3. Member(json, nil) = Null
  <2>1. nil \in DOMAIN members /\ members[nil] = Null
    BY <1>1
  <2> HIDE DEF nil, members
  <2>2. QED
    BY <1>2, <2>1, MembersOfObj
<1>4. CASE b
  <2>1. DmNotificationLevelStatesDecoder(Member(json, "changed")) = Err
    BY <1>3, <1>4, NoListThrows DEF DmNotificationLevelStatesDecoder
  <2>2. QED
    BY <2>1, NoListThrows, ObjectsRefuse DEF DmNotificationsUpdateEventDecoder, json
<1>5. CASE ~ b
  <2>1. DmDeletedNotificationStatesDecoder(Member(json, "deleted")) = Err
    BY <1>3, <1>5, NoListThrows DEF DmDeletedNotificationStatesDecoder
  <2>2. QED
    BY <2>1, NoListThrows, ObjectsRefuse DEF DmNotificationsUpdateEventDecoder, json
<1>6. QED
  BY <1>4, <1>5

LEMMA ChannelListLeftOutThrows ==
    ASSUME NEW b
    PROVE  IsErr(NotificationUpdateEventDecoder(ChannelListLeftOut(b).json))
<1> DEFINE full == ChannelNotifications(b).json.of
           json == ChannelListLeftOut(b).json
           absent == IF b THEN "deletedNotificationStates" ELSE "changedNotificationStates"
<1>1. json = Obj([list \in DOMAIN full \ {absent} |-> full[list]])
  BY DEF ChannelListLeftOut
<1> HIDE DEF full, json
<1>2. Member(json, absent) = Undefined
  BY <1>1, NoMember
<1>3. CASE ~ b
  BY <1>2, <1>3, NoListThrows, ObjectsRefuse DEF NotificationUpdateEventDecoder, json
<1>4. CASE b
  <2>1. Nullable(Strings, Member(json, "deletedNotificationStates")) = Err
    BY <1>2, <1>4, NoListThrows DEF Nullable, Strings, Undefined
  <2>2. QED
    BY <2>1, NoListThrows, ObjectsRefuse DEF NotificationUpdateEventDecoder, json
<1>5. QED
  BY <1>3, <1>4

LEMMA ChannelNilChangesThrows ==
    IsErr(NotificationUpdateEventDecoder(ChannelNilChanges.json))
<1> DEFINE full == ChannelNotifications(FALSE).json.of
           json == ChannelNilChanges.json
<1>1. DOMAIN full = {"changedNotificationStates", "deletedNotificationStates"}
  BY DEF ChannelNotifications, Obj
<1>2. json = Obj([full EXCEPT !.changedNotificationStates = Null])
  BY DEF ChannelNilChanges
<1> HIDE DEF full, json
<1>3. Member(json, "changedNotificationStates") = Null
  BY <1>1, <1>2, MembersOfObj
<1>4. QED
  BY <1>3, NoListThrows, ObjectsRefuse DEF NotificationUpdateEventDecoder, json

LEMMA AnswersDecode ==
    ASSUME NEW name \in AnswerNames, NEW b
    PROVE  /\ AnswerDecoder(name, Answers(b)[name].json) = Answers(b)[name].facts
           /\ ~ IsErr(Answers(b)[name].facts)
           /\ Answers(b)[name].json.kind \in {"object", "array", "null"}
<1> USE DEF StrOf, NumOf, Partner
<1>1. CASE name = "channel"
  <2> DEFINE json == Answers(b).channel.json
  <2>1. /\ Member(json, "ReceptionID") = StrOf("reception")
        /\ Member(json, "ChannelID") = Undefined
        /\ Member(json, "Name") = StrOf("name")
        /\ Member(json, "Description") = StrOf("description")
    BY MembersOfObj, NoMember DEF Answers
  <2>2. /\ Optional(String, Member(json, "ReceptionID")) = StrOf("reception")
        /\ Optional(String, Member(json, "ChannelID")) = Undefined
        /\ ~ IsErr(Undefined)
    BY <2>1, ScalarsDecode DEF Optional, Undefined, Str, IsErr
  <2>3. json.kind = "object" /\ \A fields : Object(json, fields) =
            IF \A f \in DOMAIN fields : ~ IsErr(fields[f]) THEN Obj(fields) ELSE Err
    BY DEF Answers, Obj, Object
  <2> HIDE DEF json
  <2>4. /\ ChannelDecoder(json) = Answers(b).channel.facts
        /\ ~ IsErr(Answers(b).channel.facts)
    BY <2>1, <2>2, <2>3, ScalarsDecode, ObjectsDecode DEF ChannelDecoder, Answers, Optional
  <2>5. QED
    BY <1>1, <2>3, <2>4 DEF AnswerDecoder, json
<1>2. CASE name = "identity"
  <2>1. Answers(b).identity.json.kind = "object"
    BY DEF Answers, Obj
  <2>2. QED
    BY <1>2, <2>1, ScalarsDecode, MembersOfObj, ObjectsDecode
    DEF AnswerDecoder, Answers, IdentityDecoder
<1>3. CASE name = "shareUrl"
  <2> DEFINE json == Answers(b).shareUrl.json
             password == IF b THEN StrOf("password") ELSE Undefined
  <2>1. /\ Member(json, "password") = password
        /\ Member(json, "url") = StrOf("url")
    BY MembersOfObj, NoMember DEF Answers
  <2>2. /\ Optional(String, Member(json, "password")) = password
        /\ ~ IsErr(password)
    BY <2>1, ScalarsDecode DEF Optional, Undefined, Str, IsErr
  <2>3. json.kind = "object" /\ \A fields : Object(json, fields) =
            IF \A f \in DOMAIN fields : ~ IsErr(fields[f]) THEN Obj(fields) ELSE Err
    BY DEF Answers, Obj, Object
  <2>4. Answers(b).shareUrl.facts = Obj([password |-> password, url |-> StrOf("url")])
    BY DEF Answers
  <2> HIDE DEF json, password
  <2>5. /\ ShareUrlDecoder(json) = Answers(b).shareUrl.facts
        /\ ~ IsErr(Answers(b).shareUrl.facts)
    BY <2>1, <2>2, <2>3, <2>4, ScalarsDecode, ObjectsDecode DEF ShareUrlDecoder, Optional
  <2>6. QED
    BY <1>3, <2>3, <2>5 DEF AnswerDecoder, json
<1>4. CASE name = "isReady"
  <2>1. Answers(b).isReady.json.kind = "object"
    BY DEF Answers, Obj
  <2>2. QED
    BY <1>4, <2>1, ScalarsDecode, MembersOfObj, ObjectsDecode
    DEF AnswerDecoder, Answers, IsReadyInfoDecoder
<1>5. CASE name \in {"blocked", "favorites"}
  <2>1. ListOf(Str).kind = "array"
    BY DEF ListOf, Arr
  <2>2. QED
    BY <1>5, <2>1, StringsDecode
    DEF AnswerDecoder, Answers, PubkeyArrayDecoder, ChannelFavoritesDecoder
<1>6. CASE name = "version"
  <2>1. Answers(b).version.json.kind = "object"
    BY DEF Answers, Obj
  <2>2. QED
    BY <1>6, <2>1, ScalarsDecode, MembersOfObj, ObjectsDecode
    DEF AnswerDecoder, Answers, VersionDecoder
<1>7. CASE name = "kvEntry"
  <2>1. CASE b
    BY <1>7, <2>1 DEF AnswerDecoder, Answers, KvEntryDecoder, Nullable, Null, IsErr
  <2>2. CASE ~ b
    <3>1. Answers(b).kvEntry.json.kind = "object"
      BY <2>2 DEF Answers, Obj
    <3>2. QED
      BY <1>7, <2>2, <3>1, ScalarsDecode, MembersOfObj, ObjectsDecode
      DEF AnswerDecoder, Answers, KvEntryDecoder, KvEntry, Nullable
  <2>3. QED
    BY <2>1, <2>2
<1>8. QED
  BY <1>1, <1>2, <1>3, <1>4, <1>5, <1>6, <1>7 DEF AnswerNames

LEMMA ParsedIsJson ==
    ASSUME NEW json
    PROVE  /\ Parsed(Bytes(Text(json))) = json
           /\ Parsed(Text(json)) = json
           /\ json.kind \in {"object", "array", "null"} => Parsed(json) = json
  BY DEF Parsed, AttemptParse, Bytes, Text

\* What no listener hears.
Unheard == Refused \cup {"DmUnknown"}

LEMMA DmEventsDecode ==
    ASSUME NEW name \in ModelEvents["dm"] \cup BindingsEvents["dm"], NEW b
    PROVE  LET event == Occurrence(name, b)
               result == DmDecoderMap(event.type, event.json)
           IN  /\ name = "DmUnknown" <=> ~ \E e \in DOMAIN DMEvents : DMEvents[e] = event.type
               /\ name \in Refused => IsErr(result)
               /\ name \notin Unheard =>
                    result = event.facts /\ ~ IsErr(result)
<1> USE DEF Unheard, Refused, Mistyped
<1>1. \A v : /\ DmDecoderMap(1000, v) = DmNotificationsUpdateEventDecoder(v)
             /\ DmDecoderMap(2000, v) = BlockedUserEventDecoder(v)
             /\ DmDecoderMap(3000, v) = DmReceivedEventDecoder(v)
  BY DEF DmDecoderMap, DMEvents
<1>2. /\ \A t \in {1000, 2000, 3000} : \E e \in DOMAIN DMEvents : DMEvents[e] = t
      /\ ~ \E e \in DOMAIN DMEvents : DMEvents[e] = 9000
  BY DEF DMEvents
<1>3. CASE name = "DmReceived"
  <2> DEFINE event == DmMessage(FALSE, b)
  <2>1. Occurrence(name, b) = event
    BY <1>3 DEF Occurrence, AnswerNames, DmReceived
  <2>2. event.type = 3000
    BY DEF DmMessage
  <2>3. /\ DmReceivedEventDecoder(event.json) = event.facts
        /\ ~ IsErr(event.facts)
    BY DmMessageDecodes
  <2> HIDE DEF event
  <2>4. QED
    BY <1>3, <2>1, <2>2, <2>3, <1>1, <1>2
<1>4. CASE name = "DmUpdated"
  <2> DEFINE event == DmMessage(TRUE, FALSE)
  <2>1. Occurrence(name, b) = event
    BY <1>4 DEF Occurrence, AnswerNames, DmUpdated
  <2>2. event.type = 3000
    BY DEF DmMessage
  <2>3. /\ DmReceivedEventDecoder(event.json) = event.facts
        /\ ~ IsErr(event.facts)
    BY DmMessageDecodes
  <2> HIDE DEF event
  <2>4. QED
    BY <1>4, <2>1, <2>2, <2>3, <1>1, <1>2
<1>5. CASE name = "DmDeleted"
  <2>1. Occurrence(name, b) = DmDeleted
    BY <1>5 DEF Occurrence, AnswerNames
  <2>2. DmDeleted.type = 3000
    BY DEF DmDeleted
  <2>3. QED
    BY <1>5, <2>1, <2>2, <1>1, <1>2, DmDeletedThrows
<1>6. CASE name = "DmNotifications"
  <2>1. Occurrence(name, b) = DmNotifications(b)
    BY <1>6 DEF Occurrence, AnswerNames
  <2>2. DmNotifications(b).type = 1000
    BY DEF DmNotifications
  <2>3. QED
    BY <1>6, <2>1, <2>2, <1>1, <1>2, DmNotificationsDecode
<1>7. CASE name = "DmBlockedUser"
  <2>1. Occurrence(name, b) = DmBlockedUser(b)
    BY <1>7 DEF Occurrence, AnswerNames
  <2>2. DmBlockedUser(b).type = 2000
    BY DEF DmBlockedUser
  <2>3. QED
    BY <1>7, <2>1, <2>2, <1>1, <1>2, DmBlockedUserDecodes
<1>8. CASE name = "DmUnknown"
  <2>1. Occurrence(name, b) = DmUnknown
    BY <1>8 DEF Occurrence, AnswerNames
  <2>2. DmUnknown.type = 9000
    BY DEF DmUnknown
  <2>3. QED
    BY <1>8, <2>1, <2>2, <1>1, <1>2
<1>9. CASE name = "DmNilList"
  <2>1. Occurrence(name, b) = DmNilList(b)
    BY <1>9 DEF Occurrence, AnswerNames
  <2>2. DmNilList(b).type = 1000
    BY DEF DmNilList
  <2>3. QED
    BY <1>9, <2>1, <2>2, <1>1, <1>2, DmNilListThrows
<1>10. QED
  BY <1>3, <1>4, <1>5, <1>6, <1>7, <1>8, <1>9 DEF ModelEvents, BindingsEvents

LEMMA ChannelEventsDecode ==
    ASSUME NEW name \in ModelEvents["channels"] \cup BindingsEvents["channels"], NEW b
    PROVE  LET event == Occurrence(name, b)
               result == ChannelEventMap(event.type, event.json)
           IN  /\ name \in Refused => IsErr(result)
               /\ name \notin Unheard => result = event.facts /\ ~ IsErr(result)
<1> USE DEF Unheard, Refused, Mistyped
<1>1. \A v : /\ ChannelEventMap(1000, v) = NicknameUpdatedEventDecoder(v)
             /\ ChannelEventMap(2000, v) = NotificationUpdateEventDecoder(v)
             /\ ChannelEventMap(3000, v) = MessageReceivedEventDecoder(v)
             /\ ChannelEventMap(4000, v) = UserMutedEventDecoder(v)
             /\ ChannelEventMap(5000, v) = MessageDeletedEventDecoder(v)
             /\ ChannelEventMap(6000, v) = AdminKeysUpdateDecoder(v)
             /\ ChannelEventMap(7000, v) = ChannelDMTokenUpdateDecoder(v)
             /\ ChannelEventMap(8000, v) = ChannelUpdateEventDecoder(v)
  BY DEF ChannelEventMap, ChannelEvents
<1>2. CASE name = "ChannelMessage"
  <2>1. Occurrence(name, b) = ChannelMessage(b)
    BY <1>2 DEF Occurrence, AnswerNames
  <2>2. ChannelMessage(b).type = 3000
    BY DEF ChannelMessage
  <2>3. QED
    BY <1>2, <2>1, <2>2, <1>1, ChannelMessageDecodes
<1>3. CASE name = "ChannelMessageDeleted"
  <2>1. Occurrence(name, b) = ChannelMessageDeleted
    BY <1>3 DEF Occurrence, AnswerNames
  <2>2. ChannelMessageDeleted.type = 5000
    BY DEF ChannelMessageDeleted
  <2>3. QED
    BY <1>3, <2>1, <2>2, <1>1, ChannelMessageDeletedDecodes
<1>4. CASE name = "ChannelUserMuted"
  <2>1. Occurrence(name, b) = ChannelUserMuted(b)
    BY <1>4 DEF Occurrence, AnswerNames
  <2>2. ChannelUserMuted(b).type = 4000
    BY DEF ChannelUserMuted
  <2>3. QED
    BY <1>4, <2>1, <2>2, <1>1, ChannelUserMutedDecodes
<1>5. CASE name = "ChannelNickname"
  <2>1. Occurrence(name, b) = ChannelNickname(b)
    BY <1>5 DEF Occurrence, AnswerNames
  <2>2. ChannelNickname(b).type = 1000
    BY DEF ChannelNickname
  <2>3. QED
    BY <1>5, <2>1, <2>2, <1>1, ChannelNicknameDecodes
<1>6. CASE name = "ChannelNotifications"
  <2>1. Occurrence(name, b) = ChannelNotifications(b)
    BY <1>6 DEF Occurrence, AnswerNames
  <2>2. ChannelNotifications(b).type = 2000
    BY DEF ChannelNotifications
  <2>3. QED
    BY <1>6, <2>1, <2>2, <1>1, ChannelNotificationsDecode
<1>7. CASE name = "ChannelAdminKeys"
  <2>1. Occurrence(name, b) = ChannelAdminKeys
    BY <1>7 DEF Occurrence, AnswerNames
  <2>2. ChannelAdminKeys.type = 6000
    BY DEF ChannelAdminKeys
  <2>3. QED
    BY <1>7, <2>1, <2>2, <1>1, ChannelAdminKeysDecode
<1>8. CASE name = "ChannelDMToken"
  <2>1. Occurrence(name, b) = ChannelDMToken(b)
    BY <1>8 DEF Occurrence, AnswerNames
  <2>2. ChannelDMToken(b).type = 7000
    BY DEF ChannelDMToken
  <2>3. QED
    BY <1>8, <2>1, <2>2, <1>1, ChannelDMTokenDecodes
<1>9. CASE name = "ChannelUpdate"
  <2>1. Occurrence(name, b) = ChannelUpdate(b)
    BY <1>9 DEF Occurrence, AnswerNames
  <2>2. ChannelUpdate(b).type = 8000
    BY DEF ChannelUpdate
  <2>3. QED
    BY <1>9, <2>1, <2>2, <1>1, ChannelUpdatesDecode
<1>10. CASE name = "ChannelListLeftOut"
  <2>1. Occurrence(name, b) = ChannelListLeftOut(b)
    BY <1>10 DEF Occurrence, AnswerNames
  <2>2. ChannelListLeftOut(b).type = 2000
    BY DEF ChannelListLeftOut
  <2>3. QED
    BY <1>10, <2>1, <2>2, <1>1, ChannelListLeftOutThrows
<1>11. CASE name = "ChannelNilChanges"
  <2>1. Occurrence(name, b) = ChannelNilChanges
    BY <1>11 DEF Occurrence, AnswerNames
  <2>2. ChannelNilChanges.type = 2000
    BY DEF ChannelNilChanges
  <2>3. QED
    BY <1>11, <2>1, <2>2, <1>1, ChannelNilChangesThrows
<1>12. QED
  BY <1>2, <1>3, <1>4, <1>5, <1>6, <1>7, <1>8, <1>9, <1>10, <1>11
  DEF ModelEvents, BindingsEvents

-----------------------------------------------------------------------------
(* What a step does to what has been heard                                 *)

Hears(i, name, b) ==
    \/ /\ name = "DmUnknown"
       /\ heard' = heard /\ running' = running
    \/ /\ name \in Refused
       /\ heard' = heard /\ running' = FALSE
    \/ /\ name \notin Unheard
       /\ heard' = Append(heard, [of |-> i, value |-> Occurrence(name, b).facts])
       /\ running' = running

LEMMA EventUpdateHears ==
    ASSUME NEW w \in Workers, NEW name \in ModelEvents[w] \cup BindingsEvents[w],
           NEW b, NEW i, EventUpdate(w, i, Occurrence(name, b))
    PROVE  Hears(i, name, b)
<1>1. CASE w = "dm"
  <2>1. OnDmEvent(i, Occurrence(name, b))
    BY <1>1 DEF EventUpdate
  <2>2. QED
    BY <1>1, <2>1, DmEventsDecode, ParsedIsJson DEF OnDmEvent, Emit, Hears, Unheard
<1>2. CASE w = "channels"
  <2>1. ChannelEventHandler(i, Occurrence(name, b))
    BY <1>2 DEF EventUpdate
  <2>2. name # "DmUnknown"
    BY <1>2 DEF ModelEvents, BindingsEvents
  <2>3. QED
    BY <1>2, <2>1, <2>2, ChannelEventsDecode, ParsedIsJson
    DEF ChannelEventHandler, Emit, Hears, Unheard
<1>3. QED
  BY <1>1, <1>2 DEF Workers

LEMMA AnswerHears ==
    ASSUME NEW name \in AnswerNames, NEW b, NEW form \in {"bytes", "string", "parsed"}, NEW i,
           Emit(i, AnswerDecoder(name, Parsed(Given(form, Occurrence(name, b).json))))
    PROVE  Hears(i, name, b)
<1>1. Occurrence(name, b) = Answers(b)[name] /\ name \notin Unheard
  BY DEF Occurrence, AnswerNames, Unheard, Refused, Mistyped
<1>2. Parsed(Given(form, Occurrence(name, b).json)) = Occurrence(name, b).json
  BY <1>1, AnswersDecode, ParsedIsJson DEF Given
<1>3. QED
  BY <1>1, <1>2, AnswersDecode DEF Emit, Hears

-----------------------------------------------------------------------------
(* The inductive invariant                                                 *)

Facts == {Occurrence(name, b).facts : name \in AllNames, b \in BOOLEAN}

TypeInv ==
    /\ raised \in Seq([name : Names, b : BOOLEAN])
    /\ goroutines \in [Workers -> SUBSET Nat]
    /\ port \in [Workers -> Seq(Nat)]
    /\ heard \in Seq([of : Nat, value : Facts])
    /\ running \in BOOLEAN

Posted(w, i) == \E n \in 1..Len(port[w]) : port[w][n] = i
OnItsWay(w, i) == i \in goroutines[w] \/ Posted(w, i)

\* What is on its way from a worker was raised by its model, and is not heard.
WayInv ==
    \A w \in Workers, i \in Nat : OnItsWay(w, i) =>
        /\ i \in 1..Len(raised) /\ raised[i].name \in ModelEvents[w]
        /\ ~ IsHeard(i)

\* It is on its way once.
OnceInv ==
    \A w \in Workers : \A m \in 1..Len(port[w]) :
        /\ port[w][m] \notin goroutines[w]
        /\ \A n \in 1..Len(port[w]) : port[w][m] = port[w][n] => m = n

\* HeardAsRaised, of events that were raised and are not refused.
Says(h, i) ==
    /\ i \in 1..Len(raised) /\ raised[i].name \notin Refused
    /\ h.value = Event(i).facts
HeardInv ==
    /\ \A h \in 1..Len(heard) : Says(heard[h], heard[h].of)
    /\ \A g, h \in 1..Len(heard) : heard[g].of = heard[h].of => g = h

\* No event is lost but what this release does not know, and a refused event
\* that has stopped the program: every other one is heard or on its way from
\* the worker that raised it, whatever else the program hears or that stops it.
NothingIsLost ==
    \A i \in 1..Len(raised) :
        \/ raised[i].name = "DmUnknown"
        \/ raised[i].name \in Refused /\ ~ running
        \/ IsHeard(i)
        \/ \E w \in Workers : OnItsWay(w, i)

\* A refused event has been given to its decoder.
Reached(i) == raised[i].name \in Refused /\ \A w \in Workers : ~ OnItsWay(w, i)

\* Nothing else stops the program.
OnlyRefusedStop == running \/ \E i \in 1..Len(raised) : Reached(i)

IInv == TypeInv /\ WayInv /\ OnceInv /\ HeardInv /\ NothingIsLost /\ OnlyRefusedStop

LEMMA ElementOfSeq ==
    ASSUME NEW S, NEW s \in Seq(S), NEW i \in 1..Len(s)
    PROVE  s[i] \in S
  OBVIOUS

LEMMA Initially == Init => IInv
  BY DEF Init, IInv, TypeInv, WayInv, OnceInv, HeardInv, NothingIsLost, OnlyRefusedStop,
         OnItsWay, Posted, IsHeard

LEMMA Grows ==
    ASSUME TypeInv, NEW name \in Names, NEW b \in BOOLEAN, raised' = Raised(name, b)
    PROVE  /\ raised' \in Seq([name : Names, b : BOOLEAN])
           /\ Len(raised) \in Nat /\ Len(raised') = Len(raised) + 1
           /\ raised'[ThisEvent] = [name |-> name, b |-> b]
           /\ \A i \in 1..Len(raised) : raised'[i] = raised[i]
  BY DEF TypeInv, Raised, ThisEvent

\* An event that is heard for the first time, when the events raised before
\* are still the same.
LEMMA HeardOnce ==
    ASSUME TypeInv, HeardInv, NEW i \in 1..Len(raised'), ~ IsHeard(i),
           raised' \in Seq([name : Names, b : BOOLEAN]),
           Len(raised) <= Len(raised'),
           \A j \in 1..Len(raised) : raised'[j] = raised[j],
           NEW name \in Names, NEW b \in BOOLEAN, raised'[i] = [name |-> name, b |-> b],
           Hears(i, name, b)
    PROVE  /\ heard' \in Seq([of : Nat, value : Facts]) /\ running' \in BOOLEAN
           /\ HeardInv'
           /\ \A j : IsHeard(j)' <=>
                IsHeard(j) \/ (j = i /\ name \notin Unheard)
           /\ running' # running => name \in Refused
           /\ name \in Refused => ~ running'
           /\ running' => running
<1> DEFINE new == [of |-> i, value |-> Occurrence(name, b).facts]
<1>1. i \in Nat
  BY DEF TypeInv
<1>2. new \in [of : Nat, value : Facts]
  BY <1>1, EventNames DEF Facts
<1>3. ASSUME NEW h, NEW j, Says(h, j)
      PROVE  Says(h, j)'
  <2>1. j \in 1..Len(raised') /\ raised'[j] = raised[j]
    BY <1>3 DEF Says, TypeInv
  <2>2. QED
    BY <1>3, <2>1 DEF Says, Event
<1>4. CASE heard' = heard /\ name \in Unheard /\ (running' => running)
           /\ (name \in Refused => ~ running')
           /\ (running' # running => running' = FALSE /\ name \in Refused)
  <2>1. HeardInv'
    BY <1>3, <1>4 DEF HeardInv
  <2>2. QED
    BY <1>4, <2>1 DEF TypeInv, IsHeard
<1>5. CASE heard' = Append(heard, new) /\ name \notin Unheard
           /\ running' = running
  <2>1. /\ heard' \in Seq([of : Nat, value : Facts]) /\ Len(heard) \in Nat
        /\ Len(heard') = Len(heard) + 1 /\ heard'[Len(heard) + 1] = new
        /\ \A h \in 1..Len(heard) : heard'[h] = heard[h]
    BY <1>2, <1>5 DEF TypeInv
  <2>2. \A h \in 1..Len(heard') : h \in 1..Len(heard) \/ h = Len(heard) + 1
    BY <2>1
  <2>3. Says(new, i)'
    BY <1>5 DEF Says, Event, Unheard
  <2>4. \A h \in 1..Len(heard) : heard[h].of # i
    BY DEF IsHeard, TypeInv
  <2>5. HeardInv'
    <3>1. ASSUME NEW h \in 1..Len(heard')
          PROVE  Says(heard[h], heard[h].of)'
      <4>1. CASE h \in 1..Len(heard)
        BY <1>3, <2>1, <4>1 DEF HeardInv
      <4>2. CASE h = Len(heard) + 1
        BY <2>1, <2>3, <4>2
      <4>3. QED
        BY <2>2, <4>1, <4>2
    <3>2. ASSUME NEW g \in 1..Len(heard'), NEW h \in 1..Len(heard'),
                 heard'[g].of = heard'[h].of
          PROVE  g = h
      <4>1. CASE g \in 1..Len(heard) /\ h \in 1..Len(heard)
        BY <2>1, <3>2, <4>1 DEF HeardInv
      <4>2. CASE g = Len(heard) + 1 \/ h = Len(heard) + 1
        BY <2>1, <2>2, <2>4, <3>2, <4>2
      <4>3. QED
        BY <2>2, <4>1, <4>2
    <3>3. QED
      BY <3>1, <3>2 DEF HeardInv
  <2>6. ASSUME NEW j
        PROVE  IsHeard(j)' <=> IsHeard(j) \/ j = i
    <3>1. /\ DOMAIN heard' = 1..Len(heard') /\ DOMAIN heard = 1..Len(heard)
          /\ Len(heard) + 1 \in 1..Len(heard')
          /\ 1..Len(heard) \subseteq 1..Len(heard')
      BY <2>1 DEF TypeInv
    <3>2. QED
      BY <2>1, <2>2, <3>1 DEF IsHeard
  <2>7. QED
    BY <1>5, <2>1, <2>5, <2>6 DEF TypeInv, Unheard
<1>6. CASE name = "DmUnknown" /\ heard' = heard /\ running' = running
  <2>1. name \in Unheard /\ name \notin Refused
    BY <1>6 DEF Unheard, Refused, Mistyped
  <2>2. QED
    BY <1>4, <1>6, <2>1
<1>7. CASE name \in Refused /\ heard' = heard /\ running' = FALSE
  BY <1>4, <1>7 DEF Unheard
<1>8. QED
  BY <1>5, <1>6, <1>7 DEF Hears


\* Nobody has heard of an event that is yet to be raised, nor is it on its way.
LEMMA Fresh ==
    ASSUME TypeInv, WayInv, HeardInv
    PROVE  /\ ThisEvent \in Nat /\ ThisEvent \notin 1..Len(raised)
           /\ ~ IsHeard(ThisEvent)
           /\ \A w \in Workers : ~ OnItsWay(w, ThisEvent)
<1>1. ThisEvent \in Nat /\ ThisEvent \notin 1..Len(raised)
  BY DEF TypeInv, ThisEvent
<1>2. QED
  BY <1>1 DEF TypeInv, WayInv, HeardInv, Says, IsHeard

LEMMA WorkersAreApart ==
    \A v, w \in Workers : ModelEvents[v] \cap ModelEvents[w] # {} => v = w
  BY DEF Workers, ModelEvents

LEMMA ModelRaisesStep ==
    ASSUME IInv, NEW w \in Workers, ModelRaises(w)
    PROVE  IInv'
<1> USE DEF IInv
<1>1. PICK name \in Names \cap ModelEvents[w], b \in BOOLEAN : raised' = Raised(name, b)
  BY DEF ModelRaises
<1>2. /\ goroutines' = [goroutines EXCEPT ![w] = @ \cup {ThisEvent}]
      /\ port' = port /\ heard' = heard /\ running' = running
  BY DEF ModelRaises
<1>3. /\ raised' \in Seq([name : Names, b : BOOLEAN])
      /\ Len(raised) \in Nat /\ Len(raised') = Len(raised) + 1
      /\ raised'[ThisEvent] = [name |-> name, b |-> b]
      /\ \A i \in 1..Len(raised) : raised'[i] = raised[i]
  BY <1>1, Grows
<1>4. /\ ThisEvent \in Nat /\ ThisEvent \notin 1..Len(raised)
      /\ ~ IsHeard(ThisEvent)
      /\ \A v \in Workers : ~ OnItsWay(v, ThisEvent)
  BY Fresh
<1>5. /\ ThisEvent \in 1..Len(raised') /\ 1..Len(raised) \subseteq 1..Len(raised')
      /\ \A i \in 1..Len(raised') : i \in 1..Len(raised) \/ i = ThisEvent
  BY <1>3 DEF ThisEvent
<1>6. \A i : IsHeard(i)' <=> IsHeard(i)
  BY <1>2 DEF IsHeard
<1>7. \A v \in Workers : \A i : OnItsWay(v, i)' <=> OnItsWay(v, i) \/ (v = w /\ i = ThisEvent)
  BY <1>2 DEF OnItsWay, Posted, TypeInv
<1>8. TypeInv'
  BY <1>2, <1>3, <1>4 DEF TypeInv
<1>9. WayInv'
  BY <1>1, <1>3, <1>4, <1>5, <1>6, <1>7 DEF WayInv
<1>10. OnceInv'
  BY <1>2, <1>4 DEF OnceInv, OnItsWay, Posted, TypeInv
<1>11. HeardInv'
  <2>1. ASSUME NEW h, NEW j, Says(h, j)
        PROVE  Says(h, j)'
    BY <1>3, <1>5, <2>1 DEF Says, Event
  <2>2. QED
    BY <1>2, <2>1 DEF HeardInv
<1>12. NothingIsLost'
  BY <1>2, <1>3, <1>5, <1>6, <1>7 DEF NothingIsLost
<1>13. OnlyRefusedStop'
  BY <1>2, <1>3, <1>4, <1>5, <1>7 DEF OnlyRefusedStop, Reached
<1>14. QED
  BY <1>8, <1>9, <1>10, <1>11, <1>12, <1>13

LEMMA SendStep ==
    ASSUME IInv, NEW w \in Workers, NEW i \in Nat, Send(w, i)
    PROVE  IInv'
<1> USE DEF IInv
<1>1. /\ i \in goroutines[w]
      /\ goroutines' = [goroutines EXCEPT ![w] = @ \ {i}]
      /\ port' = [port EXCEPT ![w] = Append(@, i)]
      /\ raised' = raised /\ heard' = heard /\ running' = running
  BY DEF Send
<1>2. port[w] \in Seq(Nat) /\ Len(port[w]) \in Nat
  BY DEF TypeInv
<1>3. /\ port'[w] \in Seq(Nat) /\ Len(port'[w]) = Len(port[w]) + 1
      /\ port'[w][Len(port[w]) + 1] = i
      /\ \A n \in 1..Len(port[w]) : port'[w][n] = port[w][n]
      /\ \A v \in Workers \ {w} : port'[v] = port[v] /\ goroutines'[v] = goroutines[v]
      /\ goroutines'[w] = goroutines[w] \ {i}
  BY <1>1, <1>2 DEF TypeInv
<1>4. /\ \A n \in 1..Len(port'[w]) : n \in 1..Len(port[w]) \/ n = Len(port[w]) + 1
      /\ Len(port[w]) + 1 \in 1..Len(port'[w])
      /\ 1..Len(port[w]) \subseteq 1..Len(port'[w])
  BY <1>2, <1>3
<1>5. ASSUME NEW v \in Workers, NEW j
      PROVE  OnItsWay(v, j)' <=> OnItsWay(v, j)
  <2>1. CASE v = w
    BY <1>1, <1>3, <1>4, <2>1 DEF OnItsWay, Posted
  <2>2. CASE v # w
    BY <1>3, <2>2 DEF OnItsWay, Posted
  <2>3. QED
    BY <2>1, <2>2
<1>6. \A j : IsHeard(j)' <=> IsHeard(j)
  BY <1>1 DEF IsHeard
<1>7. TypeInv'
  BY <1>1, <1>3 DEF TypeInv
<1>8. WayInv'
  BY <1>1, <1>5, <1>6 DEF WayInv
<1>9. OnceInv'
  BY <1>1, <1>3, <1>4 DEF OnceInv
<1>10. HeardInv' /\ OnlyRefusedStop'
  BY <1>1, <1>5 DEF HeardInv, Says, Event, OnlyRefusedStop, Reached
<1>11. NothingIsLost'
  BY <1>1, <1>5, <1>6 DEF NothingIsLost
<1>12. QED
  BY <1>7, <1>8, <1>9, <1>10, <1>11

LEMMA DeliverStep ==
    ASSUME IInv, NEW w \in Workers, Deliver(w)
    PROVE  IInv'
<1> USE DEF IInv
<1> DEFINE i == Head(port[w])
           name == raised[i].name
<1>1. /\ running /\ port[w] # <<>>
      /\ EventUpdate(w, i, Event(i))
      /\ port' = [port EXCEPT ![w] = Tail(@)]
      /\ raised' = raised /\ goroutines' = goroutines
  BY DEF Deliver
<1>2. /\ port[w] \in Seq(Nat) /\ Len(port[w]) \in Nat \ {0}
      /\ i = port[w][1] /\ i \in Nat /\ 1 \in 1..Len(port[w])
  BY <1>1 DEF TypeInv
<1>3. /\ port'[w] \in Seq(Nat) /\ Len(port'[w]) = Len(port[w]) - 1
      /\ \A n \in 1..Len(port'[w]) : n + 1 \in 1..Len(port[w]) /\ port'[w][n] = port[w][n + 1]
      /\ \A v \in Workers \ {w} : port'[v] = port[v]
  BY <1>1, <1>2 DEF TypeInv
<1>4. ASSUME NEW n \in 1..Len(port[w]), n # 1
      PROVE  \E m \in 1..Len(port'[w]) : port'[w][m] = port[w][n]
  <2>1. n - 1 \in 1..Len(port'[w]) /\ n - 1 + 1 = n
    BY <1>2, <1>3, <1>4
  <2>2. QED
    BY <1>3, <2>1
<1>5. OnItsWay(w, i) /\ i \notin goroutines[w]
  BY <1>2 DEF OnItsWay, Posted, OnceInv
<1>6. i \in 1..Len(raised) /\ name \in ModelEvents[w] /\ ~ IsHeard(i)
  BY <1>2, <1>5 DEF WayInv
<1> HIDE DEF i
<1>7. ASSUME NEW v \in Workers, NEW j
      PROVE  OnItsWay(v, j)' <=> OnItsWay(v, j) /\ ~ (v = w /\ j = i)
  <2>1. CASE v = w
    <3>1. ASSUME OnItsWay(v, j), j # i
          PROVE  OnItsWay(v, j)'
      <4>1. CASE j \in goroutines[w]
        BY <1>1, <2>1, <4>1 DEF OnItsWay
      <4>2. CASE Posted(w, j)
        <5>1. PICK n \in 1..Len(port[w]) : port[w][n] = j
          BY <4>2 DEF Posted
        <5>2. n # 1
          BY <1>2, <3>1, <5>1
        <5>3. \E m \in 1..Len(port'[w]) : port'[w][m] = j
          BY <1>4, <5>1, <5>2
        <5>4. QED
          BY <2>1, <5>3 DEF OnItsWay, Posted
      <4>3. QED
        BY <2>1, <3>1, <4>1, <4>2 DEF OnItsWay
    <3>2. ASSUME OnItsWay(v, j)'
          PROVE  OnItsWay(v, j)
      BY <1>1, <1>3, <2>1, <3>2 DEF OnItsWay, Posted
    <3>3. ASSUME OnItsWay(v, j)'
          PROVE  j # i
      <4>1. \A n \in 1..Len(port'[w]) : port'[w][n] # i
        BY <1>2, <1>3 DEF OnceInv
      <4>2. QED
        BY <1>1, <1>5, <2>1, <3>3, <4>1 DEF OnItsWay, Posted
    <3>4. QED
      BY <2>1, <3>1, <3>2, <3>3
  <2>2. CASE v # w
    BY <1>1, <1>3, <2>2 DEF OnItsWay, Posted
  <2>3. QED
    BY <2>1, <2>2
<1> DEFINE b == raised[i].b
<1>8. raised[i] \in [name : Names, b : BOOLEAN]
  BY <1>6, ElementOfSeq DEF TypeInv
<1>9. name \in Names /\ b \in BOOLEAN /\ raised[i] = [name |-> name, b |-> b]
  BY <1>8
<1> HIDE DEF name, b
<1>10. Hears(i, name, b)
  BY <1>1, <1>6, <1>9, EventUpdateHears DEF Event
<1>11. /\ heard' \in Seq([of : Nat, value : Facts]) /\ running' \in BOOLEAN
       /\ HeardInv'
       /\ \A j : IsHeard(j)' <=>
            IsHeard(j) \/ (j = i /\ name \notin Unheard)
       /\ running' # running => name \in Refused
       /\ name \in Refused => ~ running'
       /\ running' => running
  <2>1. /\ i \in 1..Len(raised') /\ raised' \in Seq([name : Names, b : BOOLEAN])
        /\ Len(raised) <= Len(raised') /\ raised'[i] = [name |-> name, b |-> b]
        /\ \A j \in 1..Len(raised) : raised'[j] = raised[j]
    BY <1>1, <1>6, <1>9 DEF TypeInv
  <2>2. TypeInv /\ HeardInv
    OBVIOUS
  <2> HIDE DEF IInv
  <2>3. QED
    BY <1>6, <1>9, <1>10, <2>1, <2>2, HeardOnce
<1>12. TypeInv'
  BY <1>1, <1>3, <1>11 DEF TypeInv
<1>13. WayInv'
  <2> SUFFICES ASSUME NEW v \in Workers, NEW j \in Nat, OnItsWay(v, j)'
               PROVE  /\ j \in 1..Len(raised) /\ raised[j].name \in ModelEvents[v]
                      /\ ~ IsHeard(j)'
    BY <1>1 DEF WayInv
  <2>1. OnItsWay(v, j) /\ ~ (v = w /\ j = i)
    BY <1>7
  <2>2. j \in 1..Len(raised) /\ raised[j].name \in ModelEvents[v] /\ ~ IsHeard(j)
    BY <2>1 DEF WayInv
  <2>3. raised[i].name \in ModelEvents[w]
    BY <1>6, <1>9
  <2>4. j # i
    BY <2>1, <2>2, <2>3, WorkersAreApart
  <2>5. QED
    BY <1>11, <2>2, <2>4
<1>14. OnceInv'
  <2> SUFFICES ASSUME NEW v \in Workers, NEW m \in 1..Len(port'[v])
               PROVE  /\ port'[v][m] \notin goroutines[v]
                      /\ \A n \in 1..Len(port'[v]) : port'[v][m] = port'[v][n] => m = n
    BY <1>1 DEF OnceInv
  <2>1. CASE v = w
    <3>1. /\ \A n \in 1..Len(port'[w]) : n \in Nat
          /\ \A k, n \in Nat : k + 1 = n + 1 => k = n
      BY <1>2, <1>3
    <3>2. m \in 1..Len(port'[w])
      BY <2>1
    <3>3. /\ port[w][m + 1] \notin goroutines[w]
          /\ \A n \in 1..Len(port'[w]) : port[w][m + 1] = port[w][n + 1] => m + 1 = n + 1
      BY <1>3, <3>2 DEF OnceInv
    <3>4. QED
      BY <1>3, <2>1, <3>1, <3>2, <3>3
  <2>2. CASE v # w
    BY <1>3, <2>2 DEF OnceInv
  <2>3. QED
    BY <2>1, <2>2
<1>15. NothingIsLost'
  BY <1>1, <1>7, <1>9, <1>11 DEF NothingIsLost, Unheard
<1>16. OnlyRefusedStop'
  <2>1. CASE running' # running
    <3>1. raised'[i].name \in Refused /\ i \in 1..Len(raised')
      BY <1>1, <1>6, <1>9, <1>11, <2>1
    <3>2. PICK k : k = i
      OBVIOUS
    <3>3. \A v \in Workers : ~ OnItsWay(v, k)'
      <4>1. \A v \in Workers : OnItsWay(v, i) => v = w
        BY <1>6, <1>9, WorkersAreApart DEF WayInv, TypeInv
      <4>2. QED
        BY <1>7, <3>2, <4>1
    <3>4. QED
      BY <3>1, <3>2, <3>3 DEF OnlyRefusedStop, Reached
  <2>2. CASE running' = running
    BY <1>1, <1>7, <2>2 DEF OnlyRefusedStop, Reached
  <2>3. QED
    BY <2>1, <2>2
<1>17. QED
  BY <1>11, <1>12, <1>13, <1>14, <1>15, <1>16

\* An event that the page hears in the step that raises it.
LEMMA DirectStep ==
    ASSUME IInv, NEW name \in Names, NEW b \in BOOLEAN, raised' = Raised(name, b),
           Hears(ThisEvent, name, b), UNCHANGED <<goroutines, port>>
    PROVE  IInv'
<1> USE DEF IInv
<1>1. /\ raised' \in Seq([name : Names, b : BOOLEAN])
      /\ Len(raised) \in Nat /\ Len(raised') = Len(raised) + 1
      /\ raised'[ThisEvent] = [name |-> name, b |-> b]
      /\ \A i \in 1..Len(raised) : raised'[i] = raised[i]
  BY Grows
<1>2. /\ ThisEvent \in Nat /\ ThisEvent \notin 1..Len(raised)
      /\ ~ IsHeard(ThisEvent)
      /\ \A v \in Workers : ~ OnItsWay(v, ThisEvent)
  BY Fresh
<1>3. /\ ThisEvent \in 1..Len(raised') /\ 1..Len(raised) \subseteq 1..Len(raised')
      /\ \A i \in 1..Len(raised') : i \in 1..Len(raised) \/ i = ThisEvent
  BY <1>1 DEF ThisEvent
<1>4. /\ heard' \in Seq([of : Nat, value : Facts]) /\ running' \in BOOLEAN
      /\ HeardInv'
      /\ \A j : IsHeard(j)' <=>
           IsHeard(j) \/ (j = ThisEvent /\ name \notin Unheard)
      /\ running' # running => name \in Refused
      /\ name \in Refused => ~ running'
      /\ running' => running
  <2>1. Len(raised) <= Len(raised')
    BY <1>1
  <2>2. TypeInv /\ HeardInv
    OBVIOUS
  <2> HIDE DEF IInv
  <2>3. QED
    BY <1>1, <1>2, <1>3, <2>1, <2>2, HeardOnce
<1>5. \A v \in Workers : \A i : OnItsWay(v, i)' <=> OnItsWay(v, i)
  BY DEF OnItsWay, Posted
<1>6. TypeInv'
  BY <1>1, <1>4 DEF TypeInv
<1>7. WayInv'
  <2> SUFFICES ASSUME NEW w \in Workers, NEW i \in Nat, OnItsWay(w, i)'
               PROVE  /\ i \in 1..Len(raised') /\ raised'[i].name \in ModelEvents[w]
                      /\ ~ IsHeard(i)'
    BY DEF WayInv
  <2>1. OnItsWay(w, i)
    BY <1>5
  <2>2. /\ i \in 1..Len(raised) /\ raised[i].name \in ModelEvents[w]
        /\ ~ IsHeard(i)
    BY <2>1 DEF WayInv
  <2>3. i # ThisEvent
    BY <1>2, <2>1
  <2>4. QED
    BY <1>1, <1>3, <1>4, <2>2, <2>3
<1>8. OnceInv'
  BY DEF OnceInv
<1>9. NothingIsLost'
  <2> SUFFICES ASSUME NEW i \in 1..Len(raised')
               PROVE  \/ raised'[i].name = "DmUnknown"
                      \/ raised'[i].name \in Refused /\ ~ running'
                      \/ IsHeard(i)'
                      \/ \E w \in Workers : OnItsWay(w, i)'
    BY DEF NothingIsLost
  <2>1. CASE i = ThisEvent
    <3>1. raised'[i].name = name
      BY <1>1, <2>1
    <3>2. QED
      BY <1>4, <2>1, <3>1 DEF Unheard
  <2>2. CASE i \in 1..Len(raised)
    BY <1>1, <1>4, <1>5, <2>2 DEF NothingIsLost
  <2>3. QED
    BY <1>3, <2>1, <2>2
<1>10. OnlyRefusedStop'
  <2>1. CASE running' # running
    <3>1. PICK k : k = ThisEvent
      OBVIOUS
    <3>2. Reached(k)'
      BY <1>1, <1>2, <1>4, <1>5, <2>1, <3>1 DEF Reached
    <3>3. QED
      BY <1>3, <3>1, <3>2 DEF OnlyRefusedStop
  <2>2. CASE running' = running
    BY <1>1, <1>3, <1>5, <2>2 DEF OnlyRefusedStop, Reached
  <2>3. QED
    BY <2>1, <2>2
<1>11. QED
  BY <1>4, <1>6, <1>7, <1>8, <1>9, <1>10

LEMMA Inductive == IInv /\ [Next]_vars => IInv'
<1> SUFFICES ASSUME IInv, [Next]_vars PROVE IInv'
  OBVIOUS
<1>1. ASSUME NEW w \in Workers, ModelRaises(w) PROVE IInv'
  BY <1>1, ModelRaisesStep
<1>2. ASSUME NEW w \in Workers, Deliver(w) PROVE IInv'
  BY <1>2, DeliverStep
<1>3. ASSUME NEW w \in Workers, BindingsRaise(w) PROVE IInv'
  <2>1. PICK name \in Names \cap BindingsEvents[w], b \in BOOLEAN :
           raised' = Raised(name, b) /\ EventUpdate(w, ThisEvent, Occurrence(name, b))
    BY <1>3 DEF BindingsRaise
  <2>2. Hears(ThisEvent, name, b)
    BY <2>1, EventUpdateHears
  <2>3. QED
    BY <1>3, <2>1, <2>2, DirectStep DEF BindingsRaise
<1>4. ASSUME NEW w \in Workers, NEW i \in 1..MaxEvents, Send(w, i) PROVE IInv'
  <2>1. i \in Nat
    BY EventNames
  <2>2. QED
    BY <1>4, <2>1, SendStep
<1>5. CASE Answer
  <2>1. PICK name \in Names \cap AnswerNames, b \in BOOLEAN,
             form \in {"bytes", "string", "parsed"} :
           /\ raised' = Raised(name, b)
           /\ Emit(ThisEvent, AnswerDecoder(name, Parsed(Given(form, Occurrence(name, b).json))))
    BY <1>5 DEF Answer
  <2>2. Hears(ThisEvent, name, b)
    BY <2>1, AnswerHears
  <2>3. QED
    BY <1>5, <2>1, <2>2, DirectStep DEF Answer
<1>6. CASE UNCHANGED vars
  <2>1. /\ raised' = raised /\ goroutines' = goroutines /\ port' = port
        /\ heard' = heard /\ running' = running
    BY <1>6 DEF vars
  <2>2. TypeInv' /\ WayInv' /\ OnceInv'
    BY <2>1 DEF IInv, TypeInv, WayInv, OnceInv, OnItsWay, Posted, IsHeard
  <2>3. HeardInv'
    BY <2>1 DEF IInv, HeardInv, Says, Event
  <2>4. NothingIsLost' /\ OnlyRefusedStop'
    BY <2>1 DEF IInv, NothingIsLost, OnlyRefusedStop, Reached, OnItsWay, Posted, IsHeard
  <2>5. QED
    BY <2>2, <2>3, <2>4 DEF IInv
<1>7. QED
  BY <1>1, <1>2, <1>3, <1>4, <1>5, <1>6 DEF Next

THEOREM Invariant == Spec => []IInv
  BY Initially, Inductive, PTL DEF Spec

\* What a listener or the application gets says what the Go program said, in
\* the fields of its Typescript type, and nobody hears an event twice: for
\* fields and lists of any content, and any events in any order.
THEOREM HeardIsAsRaised == Spec => []HeardAsRaised
<1>1. IInv => HeardAsRaised
  <2> SUFFICES ASSUME IInv PROVE HeardAsRaised
    OBVIOUS
  <2>1. DOMAIN heard = 1..Len(heard)
    BY DEF IInv, TypeInv
  <2>2. \A h \in 1..Len(heard) : heard[h].value = Event(heard[h].of).facts
    BY DEF IInv, HeardInv, Says
  <2>3. \A g, h \in 1..Len(heard) : heard[g].of = heard[h].of => g = h
    BY DEF IInv, HeardInv
  <2>4. QED
    BY <2>1, <2>2, <2>3 DEF HeardAsRaised
<1>2. QED
  BY <1>1, Invariant, PTL

\* The safety half of RaisedIsHeard: an event is heard, or is still on its way
\* from the worker that raised it; only events that this release does not know
\* get lost, and the refused events, which stop the program.
THEOREM NoneIsLost == Spec => []NothingIsLost
<1>1. IInv => NothingIsLost
  BY DEF IInv
<1>2. QED
  BY <1>1, Invariant, PTL

\* The program is stopped exactly when a refused event has been given to its
\* decoder: a deleted direct message, a notification update that leaves out a
\* list, or one with a list that is null.
StoppedByRefused == ~ running <=> \E i \in 1..Len(raised) : Reached(i)

THEOREM StopsForRefused == Spec => []StoppedByRefused
<1>1. IInv => StoppedByRefused
  <2> SUFFICES ASSUME IInv, NEW i \in 1..Len(raised), Reached(i) PROVE ~ running
    BY DEF IInv, OnlyRefusedStop, StoppedByRefused
  <2>1. ~ IsHeard(i)
    <3>1. \A h \in 1..Len(heard) : raised[heard[h].of].name \notin Refused
      BY DEF IInv, HeardInv, Says
    <3>2. DOMAIN heard = 1..Len(heard)
      BY DEF IInv, TypeInv
    <3>3. raised[i].name \in Refused
      BY DEF Reached
    <3>4. QED
      BY <3>1, <3>2, <3>3 DEF IsHeard
  <2>2. QED
    BY <2>1 DEF IInv, NothingIsLost, Reached, Refused, Mistyped
<1>2. QED
  BY <1>1, Invariant, PTL

\* Decoding events that their declared types allow never stops the program, but
\* for the lists that only the decoder requires.
THEOREM ButForAbsentLists ==
    ASSUME "ChannelListLeftOut" \notin Names
    PROVE  Spec => []DeclaredTypesDecode
<1>1. IInv => DeclaredTypesDecode
  <2> SUFFICES ASSUME IInv, ~ running PROVE WasRaised(Mistyped)
    BY DEF DeclaredTypesDecode
  <2>1. PICK i \in 1..Len(raised) : raised[i].name \in Refused
    BY DEF IInv, OnlyRefusedStop, Reached
  <2>2. raised[i] \in [name : Names, b : BOOLEAN]
    BY ElementOfSeq DEF IInv, TypeInv
  <2>3. QED
    BY <2>1, <2>2 DEF WasRaised, Refused
<1>2. QED
  BY <1>1, Invariant, PTL

=============================================================================
