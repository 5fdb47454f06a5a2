--------------------------- MODULE ChannelMessages ---------------------------
(***************************************************************************)
(* The data of the channels event model (indexedDb/impl/channels): message *)
(* records, and the calls that write them.  Of a record it keeps what a    *)
(* call can change: the message ID, the status (which stands for the       *)
(* timestamp and the round too) and the two flags.  The channel stands for *)
(* everything an update leaves alone, such as the text and the sender.     *)
(***************************************************************************)
EXTENDS Naturals

CONSTANTS
    Handlers,    \* goroutines that run the callbacks of the worker
    MessageIDs,
    ChannelIDs,
    Statuses,
    Flags,       \* the hidden flags of the messages received
    Changes,     \* the updates asked for by UUID or by message ID
    MaxUuid,     \* how many records are inserted (bound)
    None         \* nil, or no record

Uuid == 1..MaxUuid

Record == [mid: MessageIDs, channel: ChannelIDs, status: Statuses,
           hidden: BOOLEAN, pinned: BOOLEAN]

\* The nillable parameters of an update.
Change == [mid: MessageIDs \cup {None}, status: Statuses \cup {None},
           hidden: BOOLEAN \cup {None}, pinned: BOOLEAN \cup {None}]

ASSUME BoundAssumption == MaxUuid \in Nat
ASSUME FlagsAssumption == Flags \subseteq BOOLEAN
ASSUME ChangesAssumption == Changes \subseteq Change

\* updateMessage: a nil parameter makes no update.
Updated_always(old, new) == new
Updated(old, new) == IF new = None THEN old ELSE new

Merged(record, change) ==
    [record EXCEPT !.mid = Updated(@, change.mid),
                   !.status = Updated(@, change.status),
                   !.hidden = Updated(@, change.hidden),
                   !.pinned = Updated(@, change.pinned)]

\* A message received again is an update of what upsertMessage passes on.
Again(record) == [mid |-> None, status |-> record.status,
                  hidden |-> record.hidden, pinned |-> record.pinned]

\* The record built for a received message.  buildMessage takes the pinned
\* flag before the hidden one; ReceiveReply passes them the other way round.
Kinds == {"message", "reply", "reaction"}

Built(kind, record) ==
    IF kind = "reply"
    THEN [record EXCEPT !.pinned = record.hidden, !.hidden = FALSE]
    ELSE record

\* What a call asks for.
Received == {record \in Record : record.hidden \in Flags /\ ~ record.pinned}

Request ==
    [op: {"receive"}, kind: Kinds, record: Received]
    \cup [op: {"updateUuid"}, uuid: Uuid, change: Changes]
    \cup [op: {"updateMid"}, mid: MessageIDs, change: Changes]
    \cup [op: {"delete"}, mid: MessageIDs]
    \cup [op: {"join", "leave"}, channel: ChannelIDs]

ASSUME NilAssumption ==
    /\ None \notin MessageIDs /\ None \notin ChannelIDs
    /\ None \notin Statuses /\ None \notin BOOLEAN
    /\ None \notin Uuid /\ None \notin Record /\ None \notin Request

\* The record of a message ID, through the index; None if there is none.
ByMessageID(records, mid) ==
    IF \E u \in Uuid : records[u] # None /\ records[u].mid = mid
    THEN CHOOSE u \in Uuid : records[u] # None /\ records[u].mid = mid
    ELSE None

\* Another record than the one at key uuid holds the message ID.
Taken(records, uuid, mid) ==
    \E u \in Uuid \ {uuid} : records[u] # None /\ records[u].mid = mid

=============================================================================
