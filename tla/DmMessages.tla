------------------------------ MODULE DmMessages ------------------------------
(***************************************************************************)
(* The data of the direct message event model (indexedDb/impl/dm): message *)
(* records, conversations, and the calls that write them.  Of a record it  *)
(* keeps what the calls read or change: the message ID, the partner of the *)
(* conversation, the sender and the status.  A conversation is the name of *)
(* its partner: the nickname together with the token.                      *)
(***************************************************************************)
EXTENDS Naturals

CONSTANTS
    Handlers,    \* goroutines that run the callbacks of the worker
    MessageIDs,
    Users,       \* the partners
    Me,          \* the user of this client
    Names,
    Statuses,
    Inbox,       \* the messages the client library hands over, with the name
                 \* they give the partner
    MaxUuid,     \* how many records are inserted (bound)
    None         \* nil, or no record

Uuid == 1..MaxUuid

Record == [mid: MessageIDs, partner: Users, sender: Users \cup {Me},
           status: Statuses]

\* A message is of the partner or of this user.
Received ==
    [record: {record \in Record : record.sender \in {record.partner, Me}},
     name: Names]

ASSUME DmInbox == Inbox \subseteq Received

\* UpdateSentStatus is also called without a message ID.
Request ==
    [op: {"receive"}, message: Inbox]
    \cup [op: {"update"}, uuid: Uuid, mid: MessageIDs \cup {None},
          status: Statuses]
    \cup [op: {"delete"}, mid: MessageIDs, sender: Users \cup {Me}]

ASSUME DmBound == MaxUuid \in Nat
ASSUME DmNil ==
    /\ None \notin MessageIDs /\ None \notin Names
    /\ None \notin Uuid /\ None \notin Record /\ None \notin Request

\* UpdateSentStatus: the status always, the message ID if there is one.
Updated_always(record, r) ==
    [record EXCEPT !.status = r.status, !.mid = r.mid]
Updated(record, r) ==
    [record EXCEPT !.status = r.status,
                   !.mid = IF r.mid = None THEN @ ELSE r.mid]

\* receiveWrapper: a conversation is made for the first message, and follows
\* the name its partner has; messages of this user do not rename it.
Renames(convo, record, name) ==
    convo = None \/ (record.sender = record.partner /\ convo # name)

\* The record of a message ID, through the index; None if there is none.
ByMessageID(records, mid) ==
    IF \E u \in Uuid : records[u] # None /\ records[u].mid = mid
    THEN CHOOSE u \in Uuid : records[u] # None /\ records[u].mid = mid
    ELSE None

\* Another record than the one at key uuid holds the message ID.
Taken(records, uuid, mid) ==
    \E u \in Uuid \ {uuid} : records[u] # None /\ records[u].mid = mid

=============================================================================
