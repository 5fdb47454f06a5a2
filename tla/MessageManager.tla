--------------------------- MODULE MessageManager ---------------------------
(***************************************************************************)
(* worker/: the two MessageManagers at the ends of one Javascript port (a  *)
(* Worker and its creator, or the two ends of a MessageChannel).  The code *)
(* of the two ends is the same, so every action takes the end it runs at.  *)
(*                                                                         *)
(* An end is a WebAssembly program with one processor and no preemption:   *)
(* the event loop hands it a message only when all its goroutines are      *)
(* parked.  Each message event starts a goroutine that sends the event on  *)
(* the unbuffered channel `events'; the goroutines parked there are served *)
(* in arrival order and form `backlog'.                                    *)
(***************************************************************************)
EXTENDS Integers, Sequences, FiniteSets

CONSTANTS
    Main, Remote,  \* the ends of the port
    Threads,       \* goroutines that call Send
    Home,          \* the end each of them runs at
    CallTags,      \* tags the program passes to Send
    CastTags,      \* tags the program passes to SendNoResponse
    Faults,        \* what may go wrong: a subset of FaultKinds
    NoMessage,     \* no message is being processed
    MaxReplies,    \* how often a receiver callback may call reply (bound)
    MaxPosts       \* how many requests each end may post (bound)

FaultKinds == {"timeout", "postError", "crash", "stop", "silence", "errorEvent"}
Ends == {Main, Remote}
Tags == CallTags \cup CastTags

ASSUME EndsAssumption == Main # Remote
ASSUME ThreadsAssumption == Home \in [Threads -> Ends]
ASSUME BoundsAssumption == MaxReplies \in Nat \ {0} /\ MaxPosts \in [Ends -> Nat]
ASSUME FaultsAssumption == Faults \subseteq FaultKinds

Peer(e) == IF e = Main THEN Remote ELSE Main
initID == 0

(***************************************************************************)
(* `data' stands for the payload: a request carries the number its sender  *)
(* gave it (no two requests of an end are equal), and an answer carries    *)
(* the number of the request it was computed from.                         *)
(***************************************************************************)
Message == [tag: Tags, id: Nat, response: BOOLEAN, data: Nat]

ASSUME NoMessageAssumption == NoMessage \notin Message

VARIABLES
    port,              \* messages posted to an end, not yet dispatched
    backlog,           \* dispatched events whose goroutine waits on `events'
    listening,         \* the listeners are installed and `events' is open
    reception,         \* where the goroutine of messageReception is
    current,           \* the message that goroutine is processing
    replies,           \* how often its callback has replied
    receiverCallbacks, \* the tags with a receiver callback
    senderCallbacks,   \* the registered sender callbacks
    responseIDs,       \* the next ID of each tag
    pc, call, answer,  \* the Sends: state, number and answer
    stop,              \* progress of Stop
    status,            \* is the program running, gone, or has it panicked
    posts,             \* requests posted by each end
    handled            \* history: the requests an end's callbacks were run for

vars == <<port, backlog, listening, reception, current, replies,
          receiverCallbacks, senderCallbacks, responseIDs, pc, call, answer,
          stop, status, posts, handled>>

queueVars == <<port, backlog, listening>>
receptionVars == <<reception, current, replies>>
sendVars == <<senderCallbacks, responseIDs, pc, call, answer>>

Callback == [tag: Tags, id: Nat, call: Nat]

QueueTypes ==
    /\ port \in [Ends -> Seq(Message)]
    /\ backlog \in [Ends -> Seq(Message)]
    /\ listening \in [Ends -> BOOLEAN]

ReceptionTypes ==
    /\ reception \in [Ends -> {"select", "callback", "blocked", "thrown", "quit"}]
    /\ current \in [Ends -> Message \cup {NoMessage}]
    /\ replies \in [Ends -> 0..MaxReplies]

SendTypes ==
    /\ senderCallbacks \in [Ends -> SUBSET Callback]
    /\ responseIDs \in [Ends -> [Tags -> Nat]]
    /\ pc \in [Threads -> {"idle", "waiting", "answered", "failed"}]
    /\ call \in [Threads -> Nat]
    /\ answer \in [Threads -> Nat]

ControlTypes ==
    /\ receiverCallbacks \in [Ends -> SUBSET Tags]
    /\ stop \in [Ends -> {"none", "requested", "accepted", "returned"}]
    /\ status \in [Ends -> {"running", "terminated", "panicked"}]

HistoryTypes ==
    /\ posts \in [Ends -> Nat]
    /\ handled \in [Ends -> Seq(Nat)]

TypeOK ==
    QueueTypes /\ ReceptionTypes /\ SendTypes /\ ControlTypes /\ HistoryTypes

Init ==
    /\ port = [e \in Ends |-> <<>>]
    /\ backlog = [e \in Ends |-> <<>>]
    /\ listening = [e \in Ends |-> TRUE]
    /\ reception = [e \in Ends |-> "select"]
    /\ current = [e \in Ends |-> NoMessage]
    /\ replies = [e \in Ends |-> 0]
    /\ receiverCallbacks = [e \in Ends |-> {}]
    /\ senderCallbacks = [e \in Ends |-> {}]
    /\ responseIDs = [e \in Ends |-> [tag \in Tags |-> initID]]
    /\ pc = [t \in Threads |-> "idle"]
    /\ call = [t \in Threads |-> 0]
    /\ answer = [t \in Threads |-> 0]
    /\ stop = [e \in Ends |-> "none"]
    /\ status = [e \in Ends |-> "running"]
    /\ posts = [e \in Ends |-> 0]
    /\ handled = [e \in Ends |-> <<>>]

-----------------------------------------------------------------------------
Running(e) == status[e] = "running"

\* An event with no listener, or for a program that is gone, is lost.
Post(e, m) ==
    port' = IF Running(Peer(e)) /\ listening[Peer(e)]
            THEN [port EXCEPT ![Peer(e)] = Append(@, m)]
            ELSE port

\* Mutant: the tag is left out of the message.
Request_noTag(tag, id, data) ==
    [tag |-> "", id |-> id, response |-> FALSE, data |-> data]

Request(tag, id, data) ==
    [tag |-> tag, id |-> id, response |-> FALSE, data |-> data]

\* Registering over an existing callback overwrites it.
Registered(e, tag, id, n) ==
    {c \in senderCallbacks[e] : ~ (c.tag = tag /\ c.id = id)}
        \cup {[tag |-> tag, id |-> id, call |-> n]}

\* getNextID: IDs count up from initID, for each tag.
NextIDs_stuck(e, tag) == responseIDs
NextIDs(e, tag) == [responseIDs EXCEPT ![e][tag] = @ + 1]

\* Send and SendTimeout up to the select.  Registering and posting do not
\* yield.  If the post throws, the call fails and its callback stays.
Send(t, tag) ==
    LET e == Home[t]
        id == responseIDs[e][tag]
    IN  /\ Running(e)
        /\ pc[t] # "waiting"
        /\ posts[e] < MaxPosts[e]
        /\ responseIDs' = NextIDs(e, tag)
        /\ senderCallbacks' =
               [senderCallbacks EXCEPT ![e] = Registered(e, tag, id, posts[e])]
        /\ call' = [call EXCEPT ![t] = posts[e]]
        /\ posts' = [posts EXCEPT ![e] = @ + 1]
        /\ \/ /\ Post(e, Request(tag, id, posts[e]))
              /\ pc' = [pc EXCEPT ![t] = "waiting"]
           \/ /\ "postError" \in Faults
              /\ pc' = [pc EXCEPT ![t] = "failed"]
              /\ UNCHANGED port
        /\ UNCHANGED <<backlog, listening, receptionVars, receiverCallbacks,
                       answer, stop, status, handled>>

\* The timer runs as long as the program of the caller does.
TimerFires_needsPeer(t) == Running(Home[t]) /\ Running(Peer(Home[t]))
TimerFires(t) == Running(Home[t])

\* The timer of SendTimeout fires first.  The sender callback stays.
Timeout(t) ==
    /\ "timeout" \in Faults
    /\ pc[t] = "waiting"
    /\ TimerFires(t)
    /\ pc' = [pc EXCEPT ![t] = "failed"]
    /\ UNCHANGED <<queueVars, receptionVars, receiverCallbacks,
                   senderCallbacks, responseIDs, call, answer, stop, status,
                   posts, handled>>

\* Every message of SendNoResponse carries initID.
SendNoResponse(e, tag) ==
    /\ Running(e)
    /\ posts[e] < MaxPosts[e]
    /\ Post(e, Request(tag, initID, posts[e]))
    /\ posts' = [posts EXCEPT ![e] = @ + 1]
    /\ UNCHANGED <<backlog, listening, receptionVars, receiverCallbacks,
                   sendVars, stop, status, handled>>

RegisterCallback(e, tag) ==
    /\ Running(e)
    /\ tag \notin receiverCallbacks[e]
    /\ receiverCallbacks' = [receiverCallbacks EXCEPT ![e] = @ \cup {tag}]
    /\ UNCHANGED <<queueVars, receptionVars, sendVars, stop, status, posts,
                   handled>>

-----------------------------------------------------------------------------
(***************************************************************************)
(* Reception.                                                              *)
(***************************************************************************)

\* Listen's message handler, while nobody receives from `events'.
Dispatch(e) ==
    /\ Running(e) /\ listening[e]
    /\ reception[e] \in {"callback", "blocked", "thrown"}
    /\ port[e] # <<>>
    /\ backlog' = [backlog EXCEPT ![e] = Append(@, Head(port[e]))]
    /\ port' = [port EXCEPT ![e] = Tail(@)]
    /\ UNCHANGED <<listening, receptionVars, receiverCallbacks, sendVars,
                   stop, status, posts, handled>>

\* messageReception is in its select; it leaves the loop on quit.
InSelect_keepsLooping(e) == reception[e] \in {"select", "quit"}
InSelect(e) == reception[e] = "select"

\* Of the goroutines parked on `events' the oldest is served first.
NextParked_newest(q) == [m |-> q[Len(q)], rest |-> SubSeq(q, 1, Len(q) - 1)]
NextParked(q) == [m |-> Head(q), rest |-> Tail(q)]

\* The event messageReception receives: from a parked goroutine, else from
\* the one that the next message event starts.  The event loop only runs when
\* no Stop is parked on `quit' while messageReception is in its select.
HasEvent(e) == backlog[e] # <<>> \/ port[e] # <<>>

NextEvent(e) ==
    IF backlog[e] # <<>> THEN NextParked(backlog[e]).m ELSE Head(port[e])

TakeEvent(e) ==
    /\ Running(e) /\ listening[e]
    /\ InSelect(e)
    /\ \/ /\ backlog[e] # <<>>
          /\ backlog' = [backlog EXCEPT ![e] = NextParked(@).rest]
          /\ UNCHANGED port
       \/ /\ backlog[e] = <<>>
          /\ stop[e] # "requested"
          /\ port[e] # <<>>
          /\ port' = [port EXCEPT ![e] = Tail(@)]
          /\ UNCHANGED backlog
    /\ UNCHANGED listening

\* processReceivedMessage for a request: its callback starts, or the message
\* is dropped because its tag has none.
ProcessRequest(e) ==
    /\ HasEvent(e)
    /\ LET m == NextEvent(e) IN
         /\ TakeEvent(e)
         /\ ~ m.response
         /\ IF m.tag \in receiverCallbacks[e]
            THEN /\ reception' = [reception EXCEPT ![e] = "callback"]
                 /\ current' = [current EXCEPT ![e] = m]
                 /\ replies' = [replies EXCEPT ![e] = 0]
                 /\ handled' = [handled EXCEPT ![e] = Append(@, m.data)]
            ELSE UNCHANGED <<receptionVars, handled>>
    /\ UNCHANGED <<receiverCallbacks, sendVars, stop, status, posts>>

\* getSenderCallback: the callback of m, deleted when it is found.
CallbackOf_byTag(e, m) == {c \in senderCallbacks[e] : c.tag = m.tag}
CallbackOf(e, m) ==
    {c \in senderCallbacks[e] : c.tag = m.tag /\ c.id = m.id}

Without_kept(e, C) == senderCallbacks[e]
Without(e, C) == senderCallbacks[e] \ C

\* Goroutines in the select of SendTimeout that receive from the response
\* channel of a callback in C.
WaitingFor(e, C) ==
    {t \in Threads : Home[t] = e /\ pc[t] = "waiting"
                        /\ \E c \in C : c.call = call[t]}

\* processReceivedMessage for an answer.  The sender callback writes to an
\* unbuffered channel: if its Send no longer reads, it never returns.
ProcessResponse(e) ==
    /\ HasEvent(e)
    /\ LET m == NextEvent(e)
           C == CallbackOf(e, m)
           W == WaitingFor(e, C)
       IN  /\ TakeEvent(e)
           /\ m.response
           /\ senderCallbacks' = [senderCallbacks EXCEPT ![e] = Without(e, C)]
           /\ pc' = [t \in Threads |-> IF t \in W THEN "answered" ELSE pc[t]]
           /\ answer' = [t \in Threads |-> IF t \in W THEN m.data ELSE answer[t]]
           /\ IF C # {} /\ W = {}
              THEN /\ reception' = [reception EXCEPT ![e] = "blocked"]
                   /\ current' = [current EXCEPT ![e] = m]
              ELSE UNCHANGED <<reception, current>>
    /\ UNCHANGED <<replies, receiverCallbacks, responseIDs, call, stop,
                   status, posts, handled>>

\* messageReception receives an error event of the port (of a Worker: an
\* exception that nothing in it has caught).  exception.Throwf leaves the
\* goroutine, which never goes on; the program does.
ErrorEvent(e) ==
    /\ "errorEvent" \in Faults
    /\ Running(e)
    /\ reception[e] = "select"
    /\ reception' = [reception EXCEPT ![e] = "thrown"]
    /\ UNCHANGED <<queueVars, current, replies, receiverCallbacks, sendVars,
                   stop, status, posts, handled>>

\* The running receiver callback calls reply.
Reply(e) ==
    /\ Running(e)
    /\ reception[e] = "callback"
    /\ replies[e] < MaxReplies
    /\ Post(e, [current[e] EXCEPT !.response = TRUE])
    /\ replies' = [replies EXCEPT ![e] = @ + 1]
    /\ UNCHANGED <<backlog, listening, reception, current, receiverCallbacks,
                   sendVars, stop, status, posts, handled>>

\* The receiver callback returns.  A handler of a tag that is sent with Send
\* replies before it returns, unless it is allowed to be silent.
Return(e) ==
    /\ Running(e)
    /\ reception[e] = "callback"
    /\ \/ replies[e] > 0
       \/ current[e].tag \notin CallTags
       \/ "silence" \in Faults
    /\ reception' = [reception EXCEPT ![e] = "select"]
    /\ current' = [current EXCEPT ![e] = NoMessage]
    /\ replies' = [replies EXCEPT ![e] = 0]
    /\ UNCHANGED <<queueVars, receiverCallbacks, sendVars, stop, status,
                   posts, handled>>

-----------------------------------------------------------------------------
(***************************************************************************)
(* Shutdown and crashes.                                                   *)
(***************************************************************************)

\* MessageManager.Stop parks on the unbuffered channel `quit'.
Stop(e) ==
    /\ "stop" \in Faults
    /\ Running(e)
    /\ stop[e] = "none"
    /\ stop' = [stop EXCEPT ![e] = "requested"]
    /\ UNCHANGED <<queueVars, receptionVars, receiverCallbacks, sendVars,
                   status, posts, handled>>

\* messageReception receives from `quit'.  Its select may do so even when
\* events are waiting as well.
Quit(e) ==
    /\ Running(e)
    /\ reception[e] = "select"
    /\ stop[e] = "requested"
    /\ reception' = [reception EXCEPT ![e] = "quit"]
    /\ stop' = [stop EXCEPT ![e] = "accepted"]
    /\ UNCHANGED <<queueVars, current, replies, receiverCallbacks, sendVars,
                   status, posts, handled>>

\* The goroutine of Listen removes the listeners and closes `events'.  A
\* goroutine still parked in a send on that channel panics.
CloseEvents(e) ==
    /\ Running(e)
    /\ reception[e] = "quit"
    /\ listening[e]
    /\ listening' = [listening EXCEPT ![e] = FALSE]
    /\ port' = [port EXCEPT ![e] = <<>>]
    /\ status' = IF backlog[e] = <<>> THEN status
                 ELSE [status EXCEPT ![e] = "panicked"]
    /\ UNCHANGED <<backlog, receptionVars, receiverCallbacks, sendVars, stop,
                   posts, handled>>

\* Manager.Stop terminates the worker, ThreadManager.Stop closes it.
StopReturns(e) ==
    /\ Running(e)
    /\ stop[e] = "accepted"
    /\ stop' = [stop EXCEPT ![e] = "returned"]
    /\ status' = [status EXCEPT ![Remote] =
                     IF @ = "running" THEN "terminated" ELSE @]
    /\ port' = [port EXCEPT ![Remote] = <<>>]
    /\ UNCHANGED <<backlog, listening, receptionVars, receiverCallbacks,
                   sendVars, posts, handled>>

\* The worker dies: a panic (a failed sendResponse is one) or the browser.
Crash ==
    /\ "crash" \in Faults
    /\ Running(Remote)
    /\ status' = [status EXCEPT ![Remote] = "terminated"]
    /\ port' = [port EXCEPT ![Remote] = <<>>]
    /\ UNCHANGED <<backlog, listening, receptionVars, receiverCallbacks,
                   sendVars, stop, posts, handled>>

-----------------------------------------------------------------------------
Next ==
    \/ \E t \in Threads : Timeout(t) \/ \E tag \in CallTags : Send(t, tag)
    \/ \E e \in Ends :
          \/ \E tag \in CastTags : SendNoResponse(e, tag)
          \/ \E tag \in Tags : RegisterCallback(e, tag)
          \/ Dispatch(e)
          \/ ProcessRequest(e) \/ ProcessResponse(e)
          \/ ErrorEvent(e)
          \/ Reply(e) \/ Return(e)
          \/ Stop(e) \/ Quit(e) \/ CloseEvents(e) \/ StopReturns(e)
    \/ Crash

Spec == Init /\ [][Next]_vars

(***************************************************************************)
(* The Go scheduler and the event loop starve nobody, timers fire, and     *)
(* receiver callbacks reply and return; nobody has to send or to stop.     *)
(***************************************************************************)
Fairness ==
    /\ \A t \in Threads : WF_vars(Timeout(t))
    /\ \A e \in Ends :
          /\ WF_vars(Dispatch(e))
          /\ WF_vars(ProcessRequest(e))
          /\ WF_vars(ProcessResponse(e))
          /\ WF_vars(Reply(e))
          /\ WF_vars(Return(e))
          /\ WF_vars(Quit(e))
          /\ WF_vars(CloseEvents(e))
          /\ WF_vars(StopReturns(e))

FairSpec == Spec /\ Fairness

-----------------------------------------------------------------------------
(***************************************************************************)
(* Properties.                                                             *)
(***************************************************************************)

\* The answer that Send returns was computed from the very request that this
\* Send posted: IDs connect replies to their messages (senderCallbacks).
AnswerMatchesRequest ==
    \A t \in Threads : pc[t] = "answered" => answer[t] = call[t]

\* As long as a Send waits, its own callback is registered: no other Send,
\* answer or late answer has replaced or deleted it.
WaitingHasCallback ==
    \A t \in Threads : pc[t] = "waiting" =>
        \E c \in senderCallbacks[Home[t]] : c.call = call[t]

(***************************************************************************)
(* Why answers match: the inductive invariant.  At(e) are the messages an  *)
(* end has yet to finish, About(e) those that name a callback of e.        *)
(***************************************************************************)
Elements(q) == {q[i] : i \in 1..Len(q)}

At(e) ==
    Elements(port[e]) \cup Elements(backlog[e])
        \cup {m \in {current[e]} : reception[e] = "callback"}

About(e) ==
    {m \in At(Peer(e)) : ~ m.response} \cup {m \in At(e) : m.response}

\* The callback of a Send has an ID, and a request number, already given out.
CallbacksIssued ==
    \A e \in Ends : \A c \in senderCallbacks[e] :
        c.tag \in CallTags /\ c.id < responseIDs[e][c.tag] /\ c.call < posts[e]

CallbacksUnique ==
    \A e \in Ends : \A c, d \in senderCallbacks[e] :
        (c.tag = d.tag /\ c.id = d.id) \/ c.call = d.call => c = d

\* A request or an answer names the callback of the Send that started it.
IDsConnect ==
    \A e \in Ends : \A m \in About(e) : m.tag \in CallTags =>
        /\ m.id < responseIDs[e][m.tag]
        /\ \A c \in senderCallbacks[e] :
              c.tag = m.tag /\ c.id = m.id => c.call = m.data

\* Two goroutines of an end never wait for the same request.
WaitingUnique ==
    \A t, u \in Threads :
        /\ pc[t] = "waiting" /\ pc[u] = "waiting"
        /\ Home[t] = Home[u] /\ call[t] = call[u]
        => t = u

MatchingInv ==
    /\ CallbacksIssued /\ CallbacksUnique /\ IDsConnect
    /\ WaitingHasCallback /\ WaitingUnique /\ AnswerMatchesRequest

\* messageReception goes on to the next message: it is never stuck in the
\* sender callback of a Send that no longer reads its channel, not even when
\* a receiver callback replies more than once.
ReceptionNeverBlocked == \A e \in Ends : reception[e] # "blocked"

\* Why, when no Send gives up: each registered callback has a Send that reads
\* its channel.
CallbackAwaited ==
    \A e \in Ends : \A c \in senderCallbacks[e] : \E t \in Threads :
        Home[t] = e /\ pc[t] = "waiting" /\ call[t] = c.call

\* Once Stop has ended the reception of an end, that end runs no callback and
\* no Send of it gets an answer any more.
StoppedIsSilent ==
    [][\A e \in Ends : reception[e] = "quit" =>
          /\ handled'[e] = handled[e]
          /\ \A t \in Threads :
                Home[t] = e /\ pc[t] = "waiting" => pc'[t] # "answered"]_vars

\* Send always returns, whatever happens to the other end.
SendReturns ==
    \A t \in Threads : pc[t] = "waiting" ~> pc[t] # "waiting" \/ ~Running(Home[t])

\* A request that reaches an end with a receiver callback for its tag is
\* answered, and the Send that posted it returns that answer, unless one of
\* the two ends is stopped or gone.
Reaches(t, e) ==
    /\ pc[t] = "waiting" /\ e = Peer(Home[t])
    /\ \E q \in {port[e], backlog[e]} : \E i \in DOMAIN q :
          ~ q[i].response /\ q[i].data = call[t] /\ q[i].tag \in receiverCallbacks[e]

ReachedIsAnswered ==
    \A t \in Threads : \A e \in Ends :
        Reaches(t, e) ~> \/ pc[t] = "answered" /\ answer[t] = call[t]
                         \/ \E d \in Ends : ~ Running(d) \/ stop[d] # "none"

\* Stop ends the reception goroutine and returns.
StopCompletes ==
    \A e \in Ends : stop[e] = "requested" ~> stop[e] = "returned" \/ ~Running(e)

-----------------------------------------------------------------------------
(***************************************************************************)
(* Why requests are handled in order and at most once, and answered only   *)
(* after that: Queued(e) are the messages under way to e.                  *)
(***************************************************************************)
Queued(e) == Elements(port[e]) \cup Elements(backlog[e])

InOrder(q) ==
    \A i, j \in 1..Len(q) :
        i < j /\ ~ q[i].response /\ ~ q[j].response => q[i].data < q[j].data

QueuesOrdered ==
    \A e \in Ends :
        /\ InOrder(backlog[e]) /\ InOrder(port[e])
        /\ \A m \in Elements(backlog[e]), n \in Elements(port[e]) :
              ~ m.response /\ ~ n.response => m.data < n.data

QueuedIsNew ==
    \A e \in Ends :
        /\ \A m \in Queued(e) : ~ m.response =>
              /\ m.data < posts[Peer(e)]
              /\ \A h \in Elements(handled[e]) : h < m.data
        /\ \A h \in Elements(handled[e]) : h < posts[Peer(e)]

AnsweredIsHandled ==
    \A e \in Ends :
        /\ reception[e] = "callback" => current[e].data \in Elements(handled[e])
        /\ \A m \in Queued(e) :
              m.response => m.data \in Elements(handled[Peer(e)])

OrderInv == QueuesOrdered /\ QueuedIsNew /\ AnsweredIsHandled

(***************************************************************************)
(* What the two ends promise their callers.                                *)
(***************************************************************************)
Promise == INSTANCE RequestReply WITH
    posts <- posts, handled <- handled, pc <- pc, call <- call, answer <- answer
ImplementsPromise == Promise!Spec

=============================================================================
