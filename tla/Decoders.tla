------------------------------- MODULE Decoders -------------------------------
(***************************************************************************)
(* The decoders of src/utils/decoders.ts, through which everything the Go  *)
(* program hands to Javascript as JSON gets its Typescript type.           *)
(*                                                                         *)
(* A JSON value, or any other value a decoder is given, is a record of its *)
(* kind and what it holds: a string is a name, or the JSON text of a value *)
(* (kind "text"); "bytes" is a Uint8Array with a string in UTF-8; an       *)
(* object is a function of its keys.                                       *)
(***************************************************************************)
EXTENDS Naturals, Sequences

Str(name)    == [kind |-> "string", of |-> name]
Num(n)       == [kind |-> "number", of |-> n]
Bool(b)      == [kind |-> "boolean", of |-> b]
Arr(values)  == [kind |-> "array", of |-> values]
Obj(members) == [kind |-> "object", of |-> members]
Text(value)  == [kind |-> "text", of |-> value]
Bytes(str)   == [kind |-> "bytes", of |-> str]
Base64(str)  == [kind |-> "base64", of |-> str]
Null         == [kind |-> "null"]
Undefined    == [kind |-> "undefined"]

-----------------------------------------------------------------------------
(* ts.data.json: a decoder yields the value it makes of a value, or an     *)
(* error.                                                                  *)

Err == [kind |-> "error"]
IsErr(result) == result.kind = "error"

String(value)  == IF value.kind = "string" THEN value ELSE Err
Number(value)  == IF value.kind = "number" THEN value ELSE Err
Boolean(value) == IF value.kind = "boolean" THEN value ELSE Err

Array(Decoder(_), value) ==
    LET results == [i \in DOMAIN value.of |-> Decoder(value.of[i])]
    IN  IF value.kind = "array" /\ \A i \in DOMAIN results : ~ IsErr(results[i])
          THEN Arr(results) ELSE Err

Optional(Decoder(_), value) ==
    IF value.kind \in {"undefined", "null"} THEN Undefined ELSE Decoder(value)

Nullable(Decoder(_), value) == IF value.kind = "null" THEN Null ELSE Decoder(value)

\* Object.values of a numeric enum of Typescript holds the names of its
\* members as well as their numbers.
Enumeration(enum, value) ==
    IF \/ value.kind = "number" /\ \E m \in DOMAIN enum : enum[m] = value.of
       \/ value.kind = "string" /\ value.of \in DOMAIN enum
      THEN value ELSE Err

Member(value, key) ==
    IF value.kind = "object" /\ key \in DOMAIN value.of THEN value.of[key] ELSE Undefined

\* The results for the fields of a Typescript type.
Object(value, fields) ==
    IF value.kind \in {"object", "array"} /\ \A f \in DOMAIN fields : ~ IsErr(fields[f])
      THEN Obj(fields) ELSE Err

-----------------------------------------------------------------------------
(* makeDecoder                                                             *)

\* JSON.parse throws on a string that is not JSON; the string is kept.
AttemptParse(str) == IF str.kind = "text" THEN str.of ELSE str

\* What a decoder gets of the thing that it is to decode.
Parsed(thing) ==
    LET object == IF thing.kind = "bytes" THEN thing.of ELSE thing
    IN  IF object.kind \in {"string", "text"} THEN AttemptParse(object) ELSE object

-----------------------------------------------------------------------------
(* The decoders: each names the fields of a type and the keys they have in *)
(* the JSON of Go.                                                         *)

Uint8ArrayDecoder(v) == Array(Number, v)

MessageIdDecoder(v) ==
    LET bytes == Uint8ArrayDecoder(v) IN IF IsErr(bytes) THEN Err ELSE Base64(bytes)

ChannelDecoder(v) == Object(v,
    [receptionId |-> Optional(String, Member(v, "ReceptionID")),
     channelId |-> Optional(String, Member(v, "ChannelID")),
     name |-> String(Member(v, "Name")),
     description |-> String(Member(v, "Description"))])

IdentityDecoder(v) == Object(v,
    [pubkey |-> String(Member(v, "PubKey")),
     codename |-> String(Member(v, "Codename")),
     color |-> String(Member(v, "Color")),
     extension |-> String(Member(v, "Extension")),
     codeset |-> Number(Member(v, "CodesetVersion"))])

ShareUrlDecoder(v) == Object(v,
    [password |-> Optional(String, Member(v, "password")),
     url |-> String(Member(v, "url"))])

IsReadyInfoDecoder(v) == Object(v,
    [isReady |-> Boolean(Member(v, "IsReady")),
     howClose |-> Number(Member(v, "HowClose"))])

PubkeyArrayDecoder(v) == Array(String, v)
ChannelFavoritesDecoder(v) == Array(String, v)

VersionDecoder(v) == Object(v,
    [current |-> String(Member(v, "current")),
     updated |-> Boolean(Member(v, "updated")),
     old |-> String(Member(v, "old"))])

KvEntry(v) == Object(v,
    [data |-> String(Member(v, "Data")),
     version |-> Number(Member(v, "Version")),
     timestamp |-> String(Member(v, "Timestamp"))])
KvEntryDecoder(v) == Nullable(KvEntry, v)

MessageReceivedEventDecoder(v) == Object(v,
    [uuid |-> Number(Member(v, "uuid")),
     channelId |-> String(Member(v, "channelID")),
     update |-> Boolean(Member(v, "update"))])

UserMutedEventDecoder(v) == Object(v,
    [channelId |-> String(Member(v, "channelID")),
     pubkey |-> String(Member(v, "pubKey")),
     unmute |-> Boolean(Member(v, "unmute"))])

MessageDeletedEventDecoder(v) == Object(v,
    [messageId |-> MessageIdDecoder(Member(v, "MessageId"))])

NicknameUpdatedEventDecoder(v) == Object(v,
    [channelId |-> String(Member(v, "channelID")),
     nickname |-> String(Member(v, "nickname")),
     exists |-> Boolean(Member(v, "exists"))])

ChannelNotificationLevel == [NotifyNone |-> 10, NotifyPing |-> 20, NotifyAll |-> 40]
NotificationStatus == [Mute |-> 0, WhenOpen |-> 1, Push |-> 2]

NotificationStateDecoder(v) == Object(v,
    [channelId |-> String(Member(v, "channelID")),
     level |-> Enumeration(ChannelNotificationLevel, Member(v, "level")),
     status |-> Enumeration(NotificationStatus, Member(v, "status"))])

Strings(v) == Array(String, v)

NotificationUpdateEventDecoder(v) == Object(v,
    [changedNotificationStates |->
        Array(NotificationStateDecoder, Member(v, "changedNotificationStates")),
     deletedNotificationStates |->
        Nullable(Strings, Member(v, "deletedNotificationStates"))])

AdminKeysUpdateDecoder(v) == Object(v, [channelId |-> String(Member(v, "channelID"))])

ChannelDMTokenUpdateDecoder(v) == Object(v,
    [channelId |-> String(Member(v, "channelID")),
     sendToken |-> Boolean(Member(v, "sendToken"))])

ChannelStatus ==
    [SYNC_CREATED |-> 0, SYNC_UPDATED |-> 1, SYNC_DELETED |-> 2, SYNC_LOADED |-> 3]

ChannelUpdateDecoder(v) == Object(v,
    [channelId |-> String(Member(v, "channelID")),
     status |-> Enumeration(ChannelStatus, Member(v, "status"))])
ChannelUpdateEventDecoder(v) == Array(ChannelUpdateDecoder, v)

DMNotificationLevel == [NotifyNone |-> 10, NotifyAll |-> 40]

DmNotificationLevelStateDecoder(v) == Object(v,
    [pubkey |-> String(Member(v, "pubKey")),
     level |-> Enumeration(DMNotificationLevel, Member(v, "level"))])
DmNotificationLevelStatesDecoder(v) == Array(DmNotificationLevelStateDecoder, v)

DmDeletedNotificationStatesDecoder(v) == Array(String, v)

DmNotificationsUpdateEventDecoder(v) == Object(v,
    [changedNotificationStates |-> DmNotificationLevelStatesDecoder(Member(v, "changed")),
     deletedNotificationStates |-> DmDeletedNotificationStatesDecoder(Member(v, "deleted"))])

BlockedUserEventDecoder(v) == Object(v,
    [pubkey |-> String(Member(v, "user")),
     blocked |-> Boolean(Member(v, "blocked"))])

\* Mutant: a Javascript client that takes the update of the conversation for
\* that of the message.
DmReceivedEventDecoder_swapped(v) == Object(v,
    [uuid |-> Number(Member(v, "uuid")),
     pubkey |-> String(Member(v, "pubKey")),
     update |-> Boolean(Member(v, "conversationUpdate")),
     conversationUpdated |-> Boolean(Member(v, "messageUpdate"))])

DmReceivedEventDecoder(v) == Object(v,
    [uuid |-> Number(Member(v, "uuid")),
     pubkey |-> String(Member(v, "pubKey")),
     update |-> Boolean(Member(v, "messageUpdate")),
     conversationUpdated |-> Boolean(Member(v, "conversationUpdate"))])

=============================================================================
