------------------------- MODULE MessageManager_proofs -------------------------
(***************************************************************************)
(* Theorems about MessageManager for any number of goroutines, tags,       *)
(* requests and replies, and any combination of faults.                    *)
(***************************************************************************)
EXTENDS MessageManager, TLAPS

USE EndsAssumption, ThreadsAssumption, BoundsAssumption, NoMessageAssumption

-----------------------------------------------------------------------------
(***************************************************************************)
(* Sequences.                                                              *)
(***************************************************************************)
LEMMA AppendElements ==
    ASSUME NEW S, NEW s \in Seq(S), NEW m \in S
    PROVE  /\ Append(s, m) \in Seq(S)
           /\ Elements(Append(s, m)) = Elements(s) \cup {m}
  <1>1. /\ Append(s, m) \in Seq(S)
        /\ Len(s) \in Nat
        /\ Len(Append(s, m)) = Len(s) + 1
        /\ \A i \in 1..Len(s) : Append(s, m)[i] = s[i]
        /\ Append(s, m)[Len(s) + 1] = m
    OBVIOUS
  <1>. QED  BY <1>1 DEF Elements

LEMMA PopElements ==
    ASSUME NEW S, NEW s \in Seq(S), s # <<>>
    PROVE  /\ Tail(s) \in Seq(S)
           /\ Head(s) \in S
           /\ Head(s) \in Elements(s)
           /\ Elements(Tail(s)) \subseteq Elements(s)
  <1>1. /\ Tail(s) \in Seq(S)
        /\ Head(s) \in S
        /\ Head(s) = s[1]
        /\ Len(s) \in Nat /\ Len(s) > 0
        /\ Len(Tail(s)) = Len(s) - 1
        /\ \A i \in 1..Len(Tail(s)) : Tail(s)[i] = s[i + 1]
    OBVIOUS
  <1>. QED  BY <1>1 DEF Elements

LEMMA ElementsType ==
    ASSUME NEW S, NEW s \in Seq(S)
    PROVE  Elements(s) \subseteq S
  BY DEF Elements

LEMMA EmptyElements == Elements(<<>>) = {}
  BY DEF Elements

LEMMA PeerEnd ==
    ASSUME NEW e \in Ends
    PROVE  /\ Peer(e) \in Ends
           /\ Peer(e) # e
           /\ Peer(Peer(e)) = e
           /\ \A d \in Ends : d = e \/ d = Peer(e)
  BY DEF Peer, Ends

-----------------------------------------------------------------------------
(***************************************************************************)
(* Type correctness.                                                       *)
(***************************************************************************)
\* The message whose callback runs is a request.
CurrentOK ==
    \A e \in Ends : reception[e] = "callback" =>
        current[e] \in Message /\ ~ current[e].response

\* A group of variables that a step leaves alone keeps its types.
LEMMA UnchangedTypes ==
    /\ QueueTypes /\ UNCHANGED queueVars => QueueTypes'
    /\ ReceptionTypes /\ UNCHANGED receptionVars => ReceptionTypes'
    /\ SendTypes /\ UNCHANGED sendVars => SendTypes'
    /\ ControlTypes /\ UNCHANGED <<receiverCallbacks, stop, status>> => ControlTypes'
    /\ HistoryTypes /\ UNCHANGED <<posts, handled>> => HistoryTypes'
  <1>1. QueueTypes /\ UNCHANGED queueVars => QueueTypes'
    BY DEF QueueTypes, queueVars
  <1>2. ReceptionTypes /\ UNCHANGED receptionVars => ReceptionTypes'
    BY DEF ReceptionTypes, receptionVars
  <1>3. SendTypes /\ UNCHANGED sendVars => SendTypes'
    BY DEF SendTypes, sendVars
  <1>4. ControlTypes /\ UNCHANGED <<receiverCallbacks, stop, status>> => ControlTypes'
    BY DEF ControlTypes
  <1>5. HistoryTypes /\ UNCHANGED <<posts, handled>> => HistoryTypes'
    BY DEF HistoryTypes
  <1>. QED  BY <1>1, <1>2, <1>3, <1>4, <1>5

LEMMA PostType ==
    ASSUME QueueTypes, NEW e \in Ends, NEW m \in Message, Post(e, m),
           UNCHANGED <<backlog, listening>>
    PROVE  QueueTypes'
  BY PeerEnd, AppendElements DEF QueueTypes, Post

LEMMA TakeEventType ==
    ASSUME QueueTypes, NEW e \in Ends, TakeEvent(e)
    PROVE  QueueTypes' /\ NextEvent(e) \in Message
  <1>1. CASE /\ backlog[e] # <<>>
             /\ backlog' = [backlog EXCEPT ![e] = NextParked(@).rest]
             /\ UNCHANGED port
    <2>1. Head(backlog[e]) \in Message /\ Tail(backlog[e]) \in Seq(Message)
      BY <1>1, PopElements DEF QueueTypes
    <2>. QED  BY <1>1, <2>1 DEF QueueTypes, TakeEvent, NextParked, NextEvent
  <1>2. CASE /\ backlog[e] = <<>>
             /\ port[e] # <<>>
             /\ port' = [port EXCEPT ![e] = Tail(@)]
             /\ UNCHANGED backlog
    <2>1. Head(port[e]) \in Message /\ Tail(port[e]) \in Seq(Message)
      BY <1>2, PopElements DEF QueueTypes
    <2>. QED  BY <1>2, <2>1 DEF QueueTypes, TakeEvent, NextEvent
  <1>. QED  BY <1>1, <1>2 DEF TakeEvent

\* Every variable keeps its type.
LEMMA TypeStep == TypeOK /\ CurrentOK /\ [Next]_vars => TypeOK'
  <1>. SUFFICES ASSUME TypeOK, CurrentOK, [Next]_vars
                PROVE  TypeOK'
    OBVIOUS
  <1>0. QueueTypes /\ ReceptionTypes /\ SendTypes /\ ControlTypes /\ HistoryTypes
    BY DEF TypeOK
  <1>1. ASSUME NEW t \in Threads, NEW tag \in CallTags, Send(t, tag)
        PROVE  TypeOK'
    <2>. DEFINE e == Home[t]
                id == responseIDs[e][tag]
    <2>1. e \in Ends /\ tag \in Tags
      BY DEF Tags
    <2>2. id \in Nat /\ posts[e] \in Nat
      BY <1>0, <2>1 DEF SendTypes, HistoryTypes
    <2>3. Request(tag, id, posts[e]) \in Message
      BY <2>1, <2>2 DEF Request, Message
    <2>4. QueueTypes'
      <3>1. CASE Post(e, Request(tag, id, posts[e]))
        BY <3>1, <1>0, <1>1, <2>1, <2>3, PostType DEF Send
      <3>2. CASE UNCHANGED port
        BY <3>2, <1>0, <1>1, UnchangedTypes DEF Send, queueVars
      <3>. QED  BY <1>1, <3>1, <3>2 DEF Send
    <2>5. Registered(e, tag, id, posts[e]) \in SUBSET Callback
      BY <1>0, <2>1, <2>2 DEF SendTypes, Registered, Callback
    <2>6. SendTypes'
      <3>1. senderCallbacks' \in [Ends -> SUBSET Callback]
        BY <1>0, <1>1, <2>1, <2>5 DEF SendTypes, Send
      <3>2. responseIDs' \in [Ends -> [Tags -> Nat]]
        BY <1>0, <1>1, <2>1, <2>2 DEF SendTypes, Send, NextIDs
      <3>3. call' \in [Threads -> Nat] /\ answer' = answer
        BY <1>0, <1>1, <2>2 DEF SendTypes, Send
      <3>4. pc' \in [Threads -> {"idle", "waiting", "answered", "failed"}]
        BY <1>0, <1>1 DEF SendTypes, Send
      <3>. QED  BY <1>0, <3>1, <3>2, <3>3, <3>4 DEF SendTypes
    <2>7. HistoryTypes'
      BY <1>0, <1>1, <2>1, <2>2 DEF HistoryTypes, Send
    <2>. QED
      BY <1>0, <1>1, <2>4, <2>6, <2>7, UnchangedTypes DEF TypeOK, Send
  <1>2. ASSUME NEW t \in Threads, Timeout(t)
        PROVE  TypeOK'
    <2>1. SendTypes'
      BY <1>0, <1>2 DEF SendTypes, Timeout
    <2>. QED  BY <1>0, <1>2, <2>1, UnchangedTypes DEF TypeOK, Timeout
  <1>3. ASSUME NEW e \in Ends, NEW tag \in CastTags, SendNoResponse(e, tag)
        PROVE  TypeOK'
    <2>1. Request(tag, initID, posts[e]) \in Message
      BY <1>0 DEF Request, Message, Tags, initID, HistoryTypes
    <2>2. QueueTypes'
      BY <1>0, <1>3, <2>1, PostType DEF SendNoResponse
    <2>3. HistoryTypes'
      BY <1>0, <1>3 DEF HistoryTypes, SendNoResponse
    <2>. QED
      BY <1>0, <1>3, <2>2, <2>3, UnchangedTypes DEF TypeOK, SendNoResponse
  <1>4. ASSUME NEW e \in Ends, NEW tag \in Tags, RegisterCallback(e, tag)
        PROVE  TypeOK'
    <2>1. ControlTypes'
      BY <1>0, <1>4 DEF ControlTypes, RegisterCallback
    <2>. QED
      BY <1>0, <1>4, <2>1, UnchangedTypes DEF TypeOK, RegisterCallback
  <1>5. ASSUME NEW e \in Ends, Dispatch(e)
        PROVE  TypeOK'
    <2>1. Head(port[e]) \in Message /\ Tail(port[e]) \in Seq(Message)
      BY <1>0, <1>5, PopElements DEF Dispatch, QueueTypes
    <2>2. Append(backlog[e], Head(port[e])) \in Seq(Message)
      BY <1>0, <2>1, AppendElements DEF QueueTypes
    <2>3. QueueTypes'
      BY <1>0, <1>5, <2>1, <2>2 DEF QueueTypes, Dispatch
    <2>. QED  BY <1>0, <1>5, <2>3, UnchangedTypes DEF TypeOK, Dispatch
  <1>6. ASSUME NEW e \in Ends, ProcessRequest(e)
        PROVE  TypeOK'
    <2>. DEFINE m == NextEvent(e)
    <2>1. QueueTypes' /\ m \in Message
      BY <1>0, <1>6, TakeEventType DEF ProcessRequest
    <2>2. CASE m.tag \in receiverCallbacks[e]
      <3>0. /\ reception' = [reception EXCEPT ![e] = "callback"]
            /\ current' = [current EXCEPT ![e] = m]
            /\ replies' = [replies EXCEPT ![e] = 0]
            /\ handled' = [handled EXCEPT ![e] = Append(@, m.data)]
        BY <1>6, <2>2 DEF ProcessRequest
      <3>1. ReceptionTypes'
        BY <1>0, <2>1, <3>0 DEF ReceptionTypes
      <3>2. Append(handled[e], m.data) \in Seq(Nat)
        BY <1>0, <2>1, AppendElements DEF HistoryTypes, Message
      <3>3. HistoryTypes'
        BY <1>0, <1>6, <3>0, <3>2 DEF HistoryTypes, ProcessRequest
      <3>. QED
        BY <1>0, <1>6, <2>1, <3>1, <3>3, UnchangedTypes DEF TypeOK, ProcessRequest
    <2>3. CASE m.tag \notin receiverCallbacks[e]
      BY <1>0, <1>6, <2>1, <2>3, UnchangedTypes DEF TypeOK, ProcessRequest
    <2>. QED  BY <2>2, <2>3
  <1>7. ASSUME NEW e \in Ends, ProcessResponse(e)
        PROVE  TypeOK'
    <2>. DEFINE m == NextEvent(e)
    <2>1. QueueTypes' /\ m \in Message
      BY <1>0, <1>7, TakeEventType DEF ProcessResponse
    <2>2. ReceptionTypes'
      BY <1>0, <1>7, <2>1 DEF ReceptionTypes, ProcessResponse
    <2>3. SendTypes'
      BY <1>0, <1>7, <2>1 DEF SendTypes, ProcessResponse, Without, Message
    <2>. QED
      BY <1>0, <1>7, <2>1, <2>2, <2>3, UnchangedTypes DEF TypeOK, ProcessResponse
  <1>8. ASSUME NEW e \in Ends, Reply(e)
        PROVE  TypeOK'
    <2>1. [current[e] EXCEPT !.response = TRUE] \in Message
      BY <1>8 DEF CurrentOK, Reply, Message
    <2>2. QueueTypes'
      BY <1>0, <1>8, <2>1, PostType DEF Reply
    <2>3. ReceptionTypes'
      BY <1>0, <1>8 DEF ReceptionTypes, Reply
    <2>. QED
      BY <1>0, <1>8, <2>2, <2>3, UnchangedTypes DEF TypeOK, Reply
  <1>9. ASSUME NEW e \in Ends, Return(e)
        PROVE  TypeOK'
    <2>1. ReceptionTypes'
      BY <1>0, <1>9 DEF ReceptionTypes, Return
    <2>. QED  BY <1>0, <1>9, <2>1, UnchangedTypes DEF TypeOK, Return
  <1>10. ASSUME NEW e \in Ends, Stop(e)
         PROVE  TypeOK'
    <2>1. ControlTypes'
      BY <1>0, <1>10 DEF ControlTypes, Stop
    <2>. QED  BY <1>0, <1>10, <2>1, UnchangedTypes DEF TypeOK, Stop
  <1>11. ASSUME NEW e \in Ends, Quit(e)
         PROVE  TypeOK'
    <2>1. ControlTypes' /\ ReceptionTypes'
      BY <1>0, <1>11 DEF ControlTypes, ReceptionTypes, Quit
    <2>. QED  BY <1>0, <1>11, <2>1, UnchangedTypes DEF TypeOK, Quit
  <1>12. ASSUME NEW e \in Ends, CloseEvents(e)
         PROVE  TypeOK'
    <2>1. ControlTypes' /\ QueueTypes'
      BY <1>0, <1>12 DEF ControlTypes, QueueTypes, CloseEvents
    <2>. QED  BY <1>0, <1>12, <2>1, UnchangedTypes DEF TypeOK, CloseEvents
  <1>13. ASSUME NEW e \in Ends, StopReturns(e)
         PROVE  TypeOK'
    <2>1. Remote \in Ends
      BY DEF Ends
    <2>2. ControlTypes'
      BY <1>0, <1>13, <2>1 DEF ControlTypes, StopReturns
    <2>3. QueueTypes'
      BY <1>0, <1>13, <2>1 DEF QueueTypes, StopReturns
    <2>. QED  BY <1>0, <1>13, <2>2, <2>3, UnchangedTypes DEF TypeOK, StopReturns
  <1>14. ASSUME Crash
         PROVE  TypeOK'
    <2>1. Remote \in Ends
      BY DEF Ends
    <2>2. ControlTypes'
      BY <1>0, <1>14, <2>1 DEF ControlTypes, Crash
    <2>3. QueueTypes'
      BY <1>0, <1>14, <2>1 DEF QueueTypes, Crash
    <2>. QED  BY <1>0, <1>14, <2>2, <2>3, UnchangedTypes DEF TypeOK, Crash
  <1>15. ASSUME NEW e \in Ends, ErrorEvent(e)
         PROVE  TypeOK'
    <2>1. ReceptionTypes'
      BY <1>0, <1>15 DEF ReceptionTypes, ErrorEvent
    <2>. QED  BY <1>0, <1>15, <2>1, UnchangedTypes DEF TypeOK, ErrorEvent
  <1>16. CASE UNCHANGED vars
    BY <1>0, <1>16, UnchangedTypes DEF TypeOK, vars, queueVars, receptionVars, sendVars
  <1>. QED
    BY <1>1, <1>2, <1>3, <1>4, <1>5, <1>6, <1>7, <1>8, <1>9, <1>10, <1>11,
       <1>12, <1>13, <1>14, <1>15, <1>16 DEF Next

LEMMA CurrentStep == TypeOK /\ CurrentOK /\ [Next]_vars => CurrentOK'
  <1>. SUFFICES ASSUME TypeOK, CurrentOK, [Next]_vars
                PROVE  CurrentOK'
    OBVIOUS
  <1>1. ASSUME NEW e \in Ends, ProcessRequest(e)
        PROVE  CurrentOK'
    <2>. DEFINE m == NextEvent(e)
    <2>1. m \in Message /\ ~ m.response
      BY <1>1, TakeEventType DEF TypeOK, ProcessRequest
    <2>2. CASE m.tag \in receiverCallbacks[e]
      <3>1. /\ reception' = [reception EXCEPT ![e] = "callback"]
            /\ current' = [current EXCEPT ![e] = m]
        BY <1>1, <2>2 DEF ProcessRequest
      <3>. QED  BY <2>1, <3>1 DEF CurrentOK, TypeOK, ReceptionTypes
    <2>3. CASE m.tag \notin receiverCallbacks[e]
      BY <1>1, <2>3 DEF CurrentOK, ProcessRequest, receptionVars
    <2>. QED  BY <2>2, <2>3
  <1>2. ASSUME NEW e \in Ends, ProcessResponse(e)
        PROVE  CurrentOK'
    BY <1>2 DEF TypeOK, ReceptionTypes, CurrentOK, ProcessResponse, TakeEvent, InSelect
  <1>3. ASSUME NEW e \in Ends, Return(e) \/ Quit(e) \/ ErrorEvent(e) \/ Reply(e)
        PROVE  CurrentOK'
    BY <1>3 DEF TypeOK, ReceptionTypes, CurrentOK, Return, Quit, ErrorEvent, Reply
  <1>4. CASE UNCHANGED <<reception, current>>
    BY <1>4 DEF CurrentOK
  <1>5. ASSUME NEW t \in Threads, NEW tag \in CallTags, Send(t, tag) \/ Timeout(t)
        PROVE  UNCHANGED <<reception, current>>
    BY <1>5 DEF Send, Timeout, receptionVars
  <1>. QED
    BY <1>1, <1>2, <1>3, <1>4, <1>5 DEF Next, vars, SendNoResponse, Timeout,
       RegisterCallback, Dispatch, Stop, CloseEvents, StopReturns, Crash,
       receptionVars

\* The initial values have their types, and every step keeps them: each
\* variable of the two managers always has its type.
THEOREM TypeCorrect == Spec => []TypeOK
  <1>1. Init => TypeOK /\ CurrentOK
    BY DEF Init, TypeOK, CurrentOK, QueueTypes, ReceptionTypes, SendTypes,
       ControlTypes, HistoryTypes, initID
  <1>2. TypeOK /\ CurrentOK /\ [Next]_vars => (TypeOK /\ CurrentOK)'
    BY TypeStep, CurrentStep
  <1>. QED  BY <1>1, <1>2, PTL DEF Spec

-----------------------------------------------------------------------------
(***************************************************************************)
(* Answers match requests, as long as no tag is used both with Send and    *)
(* with SendNoResponse.                                                    *)
(***************************************************************************)
LEMMA AtType ==
    ASSUME TypeOK, CurrentOK, NEW e \in Ends
    PROVE  At(e) \subseteq Message
  BY ElementsType DEF TypeOK, QueueTypes, CurrentOK, At

\* A step that leaves the callbacks and the Sends alone and adds no message
\* but those that name a request already under way keeps the invariant.
LEMMA QuietStep ==
    ASSUME MatchingInv, UNCHANGED sendVars,
           TypeOK, TypeOK',
           \A e \in Ends : posts[e] <= posts'[e],
           \A e \in Ends : \A m \in About(e)' : m.tag \in CallTags =>
               \E n \in About(e) :
                  n.tag = m.tag /\ n.id = m.id /\ n.data = m.data
    PROVE  MatchingInv'
  <1>1. CallbacksIssued'
    BY DEF MatchingInv, CallbacksIssued, sendVars, TypeOK, HistoryTypes, SendTypes, Callback
  <1>2. IDsConnect'
    BY DEF MatchingInv, IDsConnect, sendVars
  <1>3. CallbacksUnique' /\ WaitingUnique'
    BY DEF MatchingInv, CallbacksUnique, WaitingUnique, sendVars
  <1>4. WaitingHasCallback' /\ AnswerMatchesRequest'
    BY DEF MatchingInv, WaitingHasCallback, AnswerMatchesRequest, sendVars
  <1>. QED  BY <1>1, <1>2, <1>3, <1>4 DEF MatchingInv

LEMMA PostAt ==
    ASSUME TypeOK, NEW e \in Ends, NEW m \in Message, Post(e, m),
           UNCHANGED <<backlog, reception, current>>
    PROVE  /\ At(e)' = At(e)
           /\ At(Peer(e))' \subseteq At(Peer(e)) \cup {m}
  <1>1. port'[e] = port[e]
    BY PeerEnd DEF Post, TypeOK, QueueTypes
  <1>2. Elements(port'[Peer(e)]) \subseteq Elements(port[Peer(e)]) \cup {m}
    BY PeerEnd, AppendElements DEF Post, TypeOK, QueueTypes
  <1>. QED  BY <1>1, <1>2 DEF At

LEMMA TakeEventAt ==
    ASSUME TypeOK, NEW e \in Ends, TakeEvent(e)
    PROVE  /\ NextEvent(e) \in Elements(port[e]) \cup Elements(backlog[e])
           /\ \A d \in Ends :
                 /\ Elements(port'[d]) \subseteq Elements(port[d])
                 /\ Elements(backlog'[d]) \subseteq Elements(backlog[d])
  <1>1. CASE /\ backlog[e] # <<>>
             /\ backlog' = [backlog EXCEPT ![e] = NextParked(@).rest]
             /\ UNCHANGED port
    <2>1. /\ Head(backlog[e]) \in Elements(backlog[e])
          /\ Elements(Tail(backlog[e])) \subseteq Elements(backlog[e])
      BY <1>1, PopElements DEF TypeOK, QueueTypes
    <2>. QED  BY <1>1, <2>1 DEF TypeOK, QueueTypes, NextParked, NextEvent
  <1>2. CASE /\ backlog[e] = <<>>
             /\ port[e] # <<>>
             /\ port' = [port EXCEPT ![e] = Tail(@)]
             /\ UNCHANGED backlog
    <2>1. /\ Head(port[e]) \in Elements(port[e])
          /\ Elements(Tail(port[e])) \subseteq Elements(port[e])
      BY <1>2, PopElements DEF TypeOK, QueueTypes
    <2>. QED  BY <1>2, <2>1 DEF TypeOK, QueueTypes, NextEvent
  <1>. QED  BY <1>1, <1>2 DEF TakeEvent

\* A step that posts nothing moves messages along, or drops them.
LEMMA ShrinkAt ==
    ASSUME TypeOK, NEW e \in Ends,
           \/ Dispatch(e) \/ ProcessRequest(e) \/ ProcessResponse(e)
           \/ Return(e) \/ Quit(e) \/ ErrorEvent(e)
           \/ CloseEvents(e) \/ StopReturns(e) \/ Stop(e) \/ Crash
           \/ \E tag \in Tags : RegisterCallback(e, tag)
           \/ \E t \in Threads : Timeout(t)
           \/ UNCHANGED vars
    PROVE  /\ \A d \in Ends : At(d)' \subseteq At(d)
           /\ \A d \in Ends : About(d)' \subseteq About(d)
           /\ UNCHANGED posts
  <1>1. CASE Dispatch(e)
    <2>1. port[e] # <<>> /\ port[e] \in Seq(Message) /\ backlog[e] \in Seq(Message)
      BY <1>1 DEF Dispatch, TypeOK, QueueTypes
    <2>2. /\ Head(port[e]) \in Message
          /\ Head(port[e]) \in Elements(port[e])
          /\ Elements(Tail(port[e])) \subseteq Elements(port[e])
      BY <2>1, PopElements
    <2>3. Elements(Append(backlog[e], Head(port[e]))) =
             Elements(backlog[e]) \cup {Head(port[e])}
      BY <2>1, <2>2, AppendElements
    <2>4. \A d \in Ends : At(d)' \subseteq At(d)
      BY <1>1, <2>2, <2>3 DEF Dispatch, At, receptionVars, TypeOK, QueueTypes
    <2>. QED  BY <1>1, <2>4, PeerEnd DEF Dispatch, About
  <1>2. CASE ProcessRequest(e)
    <2>1. \A d \in Ends : reception'[d] = "callback" =>
             \/ reception[d] = "callback" /\ current'[d] = current[d]
             \/ d = e /\ current'[d] = NextEvent(e)
      <3>1. CASE NextEvent(e).tag \in receiverCallbacks[e]
        BY <1>2, <3>1 DEF ProcessRequest, TypeOK, ReceptionTypes
      <3>2. CASE NextEvent(e).tag \notin receiverCallbacks[e]
        BY <1>2, <3>2 DEF ProcessRequest, receptionVars
      <3>. QED  BY <3>1, <3>2
    <2>2. \A d \in Ends : At(d)' \subseteq At(d)
      BY <1>2, <2>1, TakeEventAt DEF ProcessRequest, At
    <2>. QED  BY <1>2, <2>2, PeerEnd DEF ProcessRequest, About
  <1>3. CASE ProcessResponse(e)
    <2>1. \A d \in Ends : reception'[d] = "callback" =>
             reception[d] = "callback" /\ current'[d] = current[d]
      BY <1>3 DEF ProcessResponse, TakeEvent, InSelect, TypeOK, ReceptionTypes
    <2>2. \A d \in Ends : At(d)' \subseteq At(d)
      BY <1>3, <2>1, TakeEventAt DEF ProcessResponse, At
    <2>. QED  BY <1>3, <2>2, PeerEnd DEF ProcessResponse, About
  <1>4. CASE Return(e) \/ Quit(e) \/ ErrorEvent(e)
    <2>1. \A d \in Ends : reception'[d] = "callback" =>
             reception[d] = "callback" /\ current'[d] = current[d]
      BY <1>4 DEF Return, Quit, ErrorEvent, TypeOK, ReceptionTypes
    <2>2. \A d \in Ends : At(d)' \subseteq At(d)
      BY <1>4, <2>1 DEF Return, Quit, ErrorEvent, At, queueVars
    <2>. QED  BY <1>4, <2>2, PeerEnd DEF Return, Quit, ErrorEvent, About
  <1>5. CASE \/ CloseEvents(e) \/ StopReturns(e) \/ Stop(e) \/ Crash
             \/ \E tag \in Tags : RegisterCallback(e, tag)
             \/ \E t \in Threads : Timeout(t)
    <2>1. /\ \A d \in Ends : port'[d] = port[d] \/ port'[d] = <<>>
          /\ UNCHANGED <<backlog, reception, current, posts>>
      BY <1>5 DEF CloseEvents, StopReturns, Stop, RegisterCallback, Crash, Timeout,
         queueVars, receptionVars, TypeOK, QueueTypes, Ends
    <2>2. \A d \in Ends : At(d)' \subseteq At(d)
      BY <2>1, EmptyElements DEF At
    <2>. QED  BY <2>1, <2>2, PeerEnd DEF About
  <1>6. CASE UNCHANGED vars
    BY <1>6 DEF At, About, vars
  <1>. QED  BY <1>1, <1>2, <1>3, <1>4, <1>5, <1>6

\* An answer names the request that it was computed from.
LEMMA ReplyAbout ==
    ASSUME TypeOK, CurrentOK, NEW e \in Ends, Reply(e)
    PROVE  \A d \in Ends : \A m \in About(d)' :
              \E n \in About(d) : n.tag = m.tag /\ n.id = m.id /\ n.data = m.data
  <1>. DEFINE r == [current[e] EXCEPT !.response = TRUE]
  <1>1. /\ r \in Message /\ current[e] \in Message
        /\ r.tag = current[e].tag /\ r.id = current[e].id
        /\ r.data = current[e].data /\ r.response /\ ~ current[e].response
    BY DEF CurrentOK, Reply, Message
  <1>2. At(e)' = At(e) /\ At(Peer(e))' \subseteq At(Peer(e)) \cup {r}
    BY <1>1, PostAt DEF Reply
  <1>3. About(e)' \subseteq About(e) /\ About(Peer(e))' \subseteq About(Peer(e)) \cup {r}
    BY <1>1, <1>2, PeerEnd DEF About
  <1>4. current[e] \in About(Peer(e))
    BY <1>1, PeerEnd DEF Reply, About, At
  <1>. HIDE DEF r
  <1>. QED  BY <1>1, <1>3, <1>4, PeerEnd

\* No step but Send and ProcessResponse does more than move messages along.
LEMMA ShrinkingStep ==
    ASSUME TypeOK, TypeOK', MatchingInv, UNCHANGED <<sendVars, posts>>,
           \A e \in Ends : At(e)' \subseteq At(e)
    PROVE  MatchingInv'
  <1>1. \A e \in Ends : About(e)' \subseteq About(e)
    BY PeerEnd DEF About
  <1>2. \A e \in Ends : posts[e] <= posts'[e]
    BY DEF TypeOK, HistoryTypes
  <1>. QED  BY <1>1, <1>2, QuietStep

\* Send registers a callback under an ID never used before.
LEMMA SendMatching ==
    ASSUME TypeOK, TypeOK', CurrentOK, MatchingInv,
           NEW t \in Threads, NEW tag \in CallTags, Send(t, tag)
    PROVE  MatchingInv'
  <1>. DEFINE e == Home[t]
              id == responseIDs[e][tag]
              new == [tag |-> tag, id |-> id, call |-> posts[e]]
              req == Request(tag, id, posts[e])
  <1>1. e \in Ends /\ tag \in Tags
    BY DEF Tags
  <1>2. id \in Nat /\ posts[e] \in Nat
    BY <1>1 DEF TypeOK, SendTypes, HistoryTypes
  <1>3. /\ responseIDs' = [responseIDs EXCEPT ![e][tag] = id + 1]
        /\ posts' = [posts EXCEPT ![e] = @ + 1]
        /\ call' = [call EXCEPT ![t] = posts[e]]
        /\ senderCallbacks' =
             [senderCallbacks EXCEPT ![e] = Registered(e, tag, id, posts[e])]
        /\ pc[t] # "waiting"
        /\ answer' = answer
        /\ UNCHANGED <<backlog, reception, current>>
    BY DEF Send, NextIDs, receptionVars
  <1>4. \E s \in {"waiting", "failed"} : pc' = [pc EXCEPT ![t] = s]
    BY DEF Send
  <1>5. senderCallbacks'[e] = senderCallbacks[e] \cup {new}
    <2>1. \A c \in senderCallbacks[e] : c.tag = tag => c.id < id /\ c.id \in Nat
      BY <1>1 DEF MatchingInv, CallbacksIssued, TypeOK, SendTypes, Callback
    <2>2. Registered(e, tag, id, posts[e]) = senderCallbacks[e] \cup {new}
      BY <1>2, <2>1 DEF Registered
    <2>. QED  BY <1>1, <1>3, <2>2 DEF TypeOK, SendTypes
  <1>6. \A d \in Ends : d # e => senderCallbacks'[d] = senderCallbacks[d]
    BY <1>1, <1>3 DEF TypeOK, SendTypes
  <1>7. \A d \in Ends : \A g \in Tags :
           /\ responseIDs[d][g] \in Nat
           /\ responseIDs'[d][g] =
                 IF d = e /\ g = tag THEN id + 1 ELSE responseIDs[d][g]
    BY <1>1, <1>3 DEF TypeOK, SendTypes
  <1>8. \A d \in Ends : posts[d] \in Nat /\ posts'[d] \in Nat /\ posts[d] <= posts'[d]
    BY <1>1, <1>3 DEF TypeOK, HistoryTypes
  <1>9. posts'[e] = posts[e] + 1
    BY <1>1, <1>3 DEF TypeOK, HistoryTypes
  <1>10. \A d \in Ends : \A c \in senderCallbacks[d] :
            c.tag \in CallTags /\ c.tag \in Tags /\ c.id \in Nat /\ c.call \in Nat
            /\ c.id < responseIDs[d][c.tag] /\ c.call < posts[d]
    BY DEF MatchingInv, CallbacksIssued, TypeOK, SendTypes, Callback
  <1>11. CallbacksIssued'
    <2>1. \A c \in senderCallbacks[e] :
             c.id < responseIDs'[e][c.tag] /\ c.call < posts'[e]
      BY <1>1, <1>2, <1>7, <1>8, <1>10
    <2>2. new.id < responseIDs'[e][new.tag] /\ new.call < posts'[e]
      BY <1>1, <1>2, <1>7, <1>9
    <2>3. \A d \in Ends : d # e => \A c \in senderCallbacks[d] :
             c.id < responseIDs'[d][c.tag] /\ c.call < posts'[d]
      BY <1>7, <1>8, <1>10
    <2>. QED  BY <1>5, <1>6, <1>10, <2>1, <2>2, <2>3 DEF CallbacksIssued
  <1>12. CallbacksUnique'
    <2>1. \A c \in senderCallbacks[e] :
             ~ ((c.tag = new.tag /\ c.id = new.id) \/ c.call = new.call)
      BY <1>1, <1>2, <1>10
    <2>. QED  BY <1>5, <1>6, <2>1 DEF MatchingInv, CallbacksUnique
  <1>13. IDsConnect'
    <2>1. req \in Message /\ ~ req.response
          /\ req.tag = tag /\ req.id = id /\ req.data = posts[e]
      BY <1>1, <1>2 DEF Request, Message
    <2>2. /\ At(e)' = At(e)
          /\ At(Peer(e))' \subseteq At(Peer(e)) \cup {req}
      <3>1. CASE Post(e, req)
        BY <3>1, <1>1, <1>3, <2>1, PostAt
      <3>2. CASE UNCHANGED port
        BY <3>2, <1>3 DEF At
      <3>. QED  BY <3>1, <3>2 DEF Send
    <2>3. About(e)' \subseteq About(e) \cup {req}
      BY <1>1, <2>1, <2>2, PeerEnd DEF About
    <2>4. About(Peer(e))' \subseteq About(Peer(e))
      BY <1>1, <2>1, <2>2, PeerEnd DEF About
    <2>5. ASSUME NEW m \in About(e), m.tag \in CallTags
          PROVE  /\ m.id < responseIDs'[e][m.tag]
                 /\ \A c \in senderCallbacks'[e] :
                       c.tag = m.tag /\ c.id = m.id => c.call = m.data
      <3>1. m \in Message
        BY <1>1, AtType, PeerEnd DEF About
      <3>2. m.id \in Nat /\ m.tag \in Tags
        BY <3>1 DEF Message
      <3>3. m.id < responseIDs[e][m.tag]
        BY <1>1, <2>5 DEF MatchingInv, IDsConnect
      <3>4. ~ (new.tag = m.tag /\ new.id = m.id)
        BY <1>2, <3>2, <3>3
      <3>5. m.id < responseIDs'[e][m.tag]
        BY <1>1, <1>2, <1>7, <3>2, <3>3
      <3>. QED
        BY <1>1, <1>5, <2>5, <3>4, <3>5 DEF MatchingInv, IDsConnect
    <2>6. /\ req.id < responseIDs'[e][req.tag]
          /\ \A c \in senderCallbacks'[e] :
                c.tag = req.tag /\ c.id = req.id => c.call = req.data
      BY <1>1, <1>2, <1>5, <1>7, <1>10, <2>1
    <2>7. ASSUME NEW m \in About(Peer(e)), m.tag \in CallTags
          PROVE  /\ m.id < responseIDs'[Peer(e)][m.tag]
                 /\ \A c \in senderCallbacks'[Peer(e)] :
                       c.tag = m.tag /\ c.id = m.id => c.call = m.data
      <3>1. /\ senderCallbacks'[Peer(e)] = senderCallbacks[Peer(e)]
            /\ responseIDs'[Peer(e)][m.tag] = responseIDs[Peer(e)][m.tag]
        BY <1>1, <1>6, <1>7, <2>7, PeerEnd DEF Tags
      <3>. QED
        BY <1>1, <2>7, <3>1, PeerEnd DEF MatchingInv, IDsConnect
    <2>. QED
      BY <1>1, <2>3, <2>4, <2>5, <2>6, <2>7, PeerEnd DEF IDsConnect
  <1>14. WaitingHasCallback'
    <2>1. ASSUME NEW u \in Threads, pc'[u] = "waiting"
          PROVE  \E c \in senderCallbacks'[Home[u]] : c.call = call'[u]
      <3>1. CASE u = t
        <4>1. new \in senderCallbacks'[Home[u]] /\ new.call = posts[e]
          BY <1>5, <3>1
        <4>2. call'[u] = posts[e]
          BY <1>3, <3>1 DEF TypeOK, SendTypes
        <4>. QED  BY <4>1, <4>2
      <3>2. CASE u # t
        <4>1. pc[u] = "waiting" /\ call'[u] = call[u]
          BY <1>3, <1>4, <2>1, <3>2 DEF TypeOK, SendTypes
        <4>2. PICK c \in senderCallbacks[Home[u]] : c.call = call[u]
          BY <4>1 DEF MatchingInv, WaitingHasCallback
        <4>3. c \in senderCallbacks'[Home[u]]
          BY <1>5, <1>6, <4>2
        <4>. QED  BY <4>1, <4>2, <4>3
      <3>. QED  BY <3>1, <3>2
    <2>. QED  BY <2>1 DEF WaitingHasCallback
  <1>15. WaitingUnique'
    <2>1. ASSUME NEW u \in Threads, u # t, pc[u] = "waiting", Home[u] = e
          PROVE  call[u] # posts[e]
      <3>1. PICK c \in senderCallbacks[e] : c.call = call[u]
        BY <2>1 DEF MatchingInv, WaitingHasCallback
      <3>. QED  BY <1>1, <1>2, <1>10, <3>1
    <2>2. \A u \in Threads : u # t => pc'[u] = pc[u] /\ call'[u] = call[u]
      BY <1>3, <1>4 DEF TypeOK, SendTypes
    <2>3. call'[t] = posts[e]
      BY <1>3 DEF TypeOK, SendTypes
    <2>. QED
      BY <2>1, <2>2, <2>3 DEF MatchingInv, WaitingUnique
  <1>16. AnswerMatchesRequest'
    BY <1>3, <1>4 DEF MatchingInv, AnswerMatchesRequest, TypeOK, SendTypes
  <1>. QED
    BY <1>11, <1>12, <1>13, <1>14, <1>15, <1>16 DEF MatchingInv

\* An answer goes to the Send whose request it was computed from, and
\* deleting its callback takes it from no other Send.
LEMMA ResponseMatching ==
    ASSUME TypeOK, TypeOK', CurrentOK, MatchingInv,
           NEW e \in Ends, ProcessResponse(e)
    PROVE  MatchingInv'
  <1>. DEFINE m == NextEvent(e)
              C == CallbackOf(e, m)
              W == WaitingFor(e, C)
  <1>1. /\ TakeEvent(e)
        /\ m.response
        /\ senderCallbacks' = [senderCallbacks EXCEPT ![e] = @ \ C]
        /\ pc' = [t \in Threads |-> IF t \in W THEN "answered" ELSE pc[t]]
        /\ answer' = [t \in Threads |-> IF t \in W THEN m.data ELSE answer[t]]
        /\ UNCHANGED <<responseIDs, call, posts>>
    BY DEF ProcessResponse, Without
  <1>2. \A d \in Ends : About(d)' \subseteq About(d)
    BY ShrinkAt
  <1>3. m \in About(e)
    BY <1>1, TakeEventAt DEF About, At
  <1>4. \A d \in Ends : senderCallbacks'[d] \subseteq senderCallbacks[d]
    BY <1>1 DEF TypeOK, SendTypes
  <1>5. CallbacksIssued' /\ CallbacksUnique'
    BY <1>1, <1>4 DEF MatchingInv, CallbacksIssued, CallbacksUnique
  <1>6. IDsConnect'
    BY <1>1, <1>2, <1>4 DEF MatchingInv, IDsConnect
  <1>7. WaitingHasCallback'
    <2>1. ASSUME NEW t \in Threads, pc'[t] = "waiting"
          PROVE  \E c \in senderCallbacks'[Home[t]] : c.call = call'[t]
      <3>1. t \notin W /\ pc[t] = "waiting" /\ call'[t] = call[t]
        BY <1>1, <2>1
      <3>2. PICK c \in senderCallbacks[Home[t]] : c.call = call[t]
        BY <3>1 DEF MatchingInv, WaitingHasCallback
      <3>3. Home[t] = e => c \notin C
        BY <3>1, <3>2 DEF WaitingFor
      <3>4. c \in senderCallbacks'[Home[t]]
        BY <1>1, <3>2, <3>3 DEF TypeOK, SendTypes
      <3>. QED  BY <3>1, <3>2, <3>4
    <2>. QED  BY <2>1 DEF WaitingHasCallback
  <1>8. WaitingUnique'
    BY <1>1 DEF MatchingInv, WaitingUnique
  <1>9. AnswerMatchesRequest'
    <2>1. ASSUME NEW t \in W
          PROVE  m.data = call[t]
      <3>1. PICK c \in C : c.call = call[t]
        BY DEF WaitingFor
      <3>2. /\ c \in senderCallbacks[e]
            /\ c.tag = m.tag /\ c.id = m.id
        BY DEF CallbackOf
      <3>3. m.tag \in CallTags
        BY <3>2 DEF MatchingInv, CallbacksIssued
      <3>. QED  BY <1>3, <3>1, <3>2, <3>3 DEF MatchingInv, IDsConnect
    <2>. QED  BY <1>1, <2>1 DEF MatchingInv, AnswerMatchesRequest
  <1>. QED
    BY <1>5, <1>6, <1>7, <1>8, <1>9 DEF MatchingInv

LEMMA ReplyMatching ==
    ASSUME TypeOK, TypeOK', CurrentOK, MatchingInv, NEW e \in Ends, Reply(e)
    PROVE  MatchingInv'
  <1>1. UNCHANGED sendVars /\ \A d \in Ends : posts[d] <= posts'[d]
    BY DEF Reply, TypeOK, HistoryTypes
  <1>. QED  BY <1>1, ReplyAbout, QuietStep

LEMMA MatchingStep ==
    ASSUME CallTags \cap CastTags = {},
           TypeOK, TypeOK', CurrentOK, MatchingInv, [Next]_vars
    PROVE  MatchingInv'
  <1>1. ASSUME NEW t \in Threads, NEW tag \in CallTags, Send(t, tag)
        PROVE  MatchingInv'
    BY <1>1, SendMatching
  <1>2. ASSUME NEW t \in Threads, Timeout(t)
        PROVE  MatchingInv'
    <2>1. \A e \in Ends : About(e)' = About(e)
      BY <1>2 DEF Timeout, queueVars, receptionVars, About, At
    <2>2. /\ pc' = [pc EXCEPT ![t] = "failed"]
          /\ UNCHANGED <<senderCallbacks, responseIDs, call, answer, posts>>
      BY <1>2 DEF Timeout
    <2>3. CallbacksIssued' /\ CallbacksUnique' /\ IDsConnect'
      BY <2>1, <2>2 DEF MatchingInv, CallbacksIssued, CallbacksUnique, IDsConnect
    <2>4. WaitingHasCallback' /\ WaitingUnique' /\ AnswerMatchesRequest'
      BY <2>2 DEF MatchingInv, WaitingHasCallback, WaitingUnique,
         AnswerMatchesRequest, TypeOK, SendTypes
    <2>. QED  BY <2>3, <2>4 DEF MatchingInv
  <1>3. ASSUME NEW e \in Ends, NEW tag \in CastTags, SendNoResponse(e, tag)
        PROVE  MatchingInv'
    <2>. DEFINE req == Request(tag, initID, posts[e])
    <2>1. req \in Message /\ ~ req.response /\ req.tag \notin CallTags
      BY DEF Request, Message, Tags, initID, TypeOK, HistoryTypes
    <2>2. At(e)' = At(e) /\ At(Peer(e))' \subseteq At(Peer(e)) \cup {req}
      BY <1>3, <2>1, PostAt DEF SendNoResponse, receptionVars
    <2>3. About(e)' \subseteq About(e) \cup {req}
      BY <2>1, <2>2, PeerEnd DEF About
    <2>4. About(Peer(e))' \subseteq About(Peer(e))
      BY <2>1, <2>2, PeerEnd DEF About
    <2>5. UNCHANGED sendVars /\ \A d \in Ends : posts[d] <= posts'[d]
      BY <1>3 DEF SendNoResponse, TypeOK, HistoryTypes
    <2>6. \A d \in Ends : \A m \in About(d)' : m.tag \in CallTags => m \in About(d)
      BY <2>1, <2>3, <2>4, PeerEnd
    <2>. QED  BY <2>5, <2>6, QuietStep
  <1>4. ASSUME NEW e \in Ends, \/ Dispatch(e) \/ ProcessRequest(e)
                               \/ Return(e) \/ Quit(e) \/ ErrorEvent(e)
                               \/ CloseEvents(e) \/ StopReturns(e) \/ Stop(e) \/ Crash
                               \/ \E tag \in Tags : RegisterCallback(e, tag)
                               \/ UNCHANGED vars
        PROVE  MatchingInv'
    <2>1. UNCHANGED posts /\ \A d \in Ends : At(d)' \subseteq At(d)
      BY <1>4, ShrinkAt
    <2>2. UNCHANGED sendVars
      BY <1>4 DEF Dispatch, ProcessRequest, Return, Quit, ErrorEvent, CloseEvents, StopReturns,
         Stop, Crash, RegisterCallback, vars, sendVars
    <2>. QED  BY <2>1, <2>2, ShrinkingStep
  <1>5. ASSUME NEW e \in Ends, ProcessResponse(e)
        PROVE  MatchingInv'
    BY <1>5, ResponseMatching
  <1>6. ASSUME NEW e \in Ends, Reply(e)
        PROVE  MatchingInv'
    BY <1>6, ReplyMatching
  <1>7. Main \in Ends
    BY DEF Ends
  <1>. QED
    BY <1>1, <1>2, <1>3, <1>4, <1>5, <1>6, <1>7 DEF Next

LEMMA InitMatching == Init => TypeOK /\ CurrentOK /\ MatchingInv
  <1>. SUFFICES ASSUME Init
                PROVE  TypeOK /\ CurrentOK /\ MatchingInv
    OBVIOUS
  <1>1. TypeOK /\ CurrentOK
    BY DEF Init, TypeOK, CurrentOK, QueueTypes, ReceptionTypes, SendTypes,
       ControlTypes, HistoryTypes, initID
  <1>2. \A e \in Ends : About(e) = {}
    BY EmptyElements, PeerEnd DEF Init, About, At
  <1>3. CallbacksIssued /\ CallbacksUnique /\ IDsConnect
    BY <1>2 DEF Init, CallbacksIssued, CallbacksUnique, IDsConnect
  <1>4. WaitingHasCallback /\ WaitingUnique /\ AnswerMatchesRequest
    BY DEF Init, WaitingHasCallback, WaitingUnique, AnswerMatchesRequest
  <1>. QED  BY <1>1, <1>3, <1>4 DEF MatchingInv

\* The answer a Send returns was computed from the request it posted, whatever
\* times out, fails, replies twice, stops or crashes, provided that no tag is
\* used both with Send and with SendNoResponse (whose messages all carry the
\* first ID of their tag).
THEOREM AnswersMatch ==
    ASSUME CallTags \cap CastTags = {}
    PROVE  Spec => []AnswerMatchesRequest
  <1>1. Init => TypeOK /\ CurrentOK /\ MatchingInv
    BY InitMatching
  <1>2. TypeOK /\ CurrentOK /\ MatchingInv /\ [Next]_vars
           => (TypeOK /\ CurrentOK /\ MatchingInv)'
    BY TypeStep, CurrentStep, MatchingStep
  <1>3. MatchingInv => AnswerMatchesRequest
    BY DEF MatchingInv
  <1>. QED  BY <1>1, <1>2, <1>3, PTL DEF Spec

\* A Send that waits has its own callback registered, under the same proviso.
THEOREM CallbackStays ==
    ASSUME CallTags \cap CastTags = {}
    PROVE  Spec => []WaitingHasCallback
  <1>1. Init => TypeOK /\ CurrentOK /\ MatchingInv
    BY InitMatching
  <1>2. TypeOK /\ CurrentOK /\ MatchingInv /\ [Next]_vars
           => (TypeOK /\ CurrentOK /\ MatchingInv)'
    BY TypeStep, CurrentStep, MatchingStep
  <1>3. MatchingInv => WaitingHasCallback
    BY DEF MatchingInv
  <1>. QED  BY <1>1, <1>2, <1>3, PTL DEF Spec

-----------------------------------------------------------------------------
(***************************************************************************)
(* An end whose reception has stopped is silent.                           *)
(***************************************************************************)
LEMMA SilentStep ==
    ASSUME TypeOK, [Next]_vars, NEW e \in Ends, reception[e] = "quit"
    PROVE  /\ handled'[e] = handled[e]
           /\ \A t \in Threads :
                 Home[t] = e /\ pc[t] = "waiting" => pc'[t] # "answered"
  <1>. USE DEF TypeOK, HistoryTypes, SendTypes
  <1>1. ASSUME NEW t \in Threads, NEW tag \in CallTags, Send(t, tag)
        PROVE  /\ handled'[e] = handled[e]
               /\ \A u \in Threads :
                     Home[u] = e /\ pc[u] = "waiting" => pc'[u] # "answered"
    BY <1>1 DEF Send
  <1>2. ASSUME NEW t \in Threads, Timeout(t)
        PROVE  /\ handled'[e] = handled[e]
               /\ \A u \in Threads :
                     Home[u] = e /\ pc[u] = "waiting" => pc'[u] # "answered"
    BY <1>2 DEF Timeout
  <1>3. ASSUME NEW d \in Ends, ProcessRequest(d)
        PROVE  /\ handled'[e] = handled[e]
               /\ \A u \in Threads :
                     Home[u] = e /\ pc[u] = "waiting" => pc'[u] # "answered"
    <2>1. d # e
      BY <1>3 DEF ProcessRequest, TakeEvent, InSelect
    <2>2. handled'[e] = handled[e] /\ pc' = pc
      BY <1>3, <2>1 DEF ProcessRequest, sendVars
    <2>. QED  BY <2>2
  <1>4. ASSUME NEW d \in Ends, ProcessResponse(d)
        PROVE  /\ handled'[e] = handled[e]
               /\ \A u \in Threads :
                     Home[u] = e /\ pc[u] = "waiting" => pc'[u] # "answered"
    <2>1. d # e
      BY <1>4 DEF ProcessResponse, TakeEvent, InSelect
    <2>. DEFINE W == WaitingFor(d, CallbackOf(d, NextEvent(d)))
    <2>2. /\ handled' = handled
          /\ pc' = [t \in Threads |-> IF t \in W THEN "answered" ELSE pc[t]]
      BY <1>4 DEF ProcessResponse
    <2>3. \A t \in W : Home[t] # e
      BY <2>1 DEF WaitingFor
    <2>. QED  BY <2>2, <2>3
  <1>5. ASSUME UNCHANGED <<handled, pc>>
        PROVE  /\ handled'[e] = handled[e]
               /\ \A u \in Threads :
                     Home[u] = e /\ pc[u] = "waiting" => pc'[u] # "answered"
    BY <1>5
  <1>6. ASSUME NEW d \in Ends
        PROVE  /\ \A tag \in CastTags : SendNoResponse(d, tag) => UNCHANGED <<handled, pc>>
               /\ \A tag \in Tags : RegisterCallback(d, tag) => UNCHANGED <<handled, pc>>
               /\ Dispatch(d) \/ Reply(d) \/ Return(d) => UNCHANGED <<handled, pc>>
               /\ Stop(d) \/ Quit(d) \/ ErrorEvent(d) \/ CloseEvents(d) \/ StopReturns(d)
                     => UNCHANGED <<handled, pc>>
    BY DEF SendNoResponse, RegisterCallback, Dispatch, Reply, Return, Stop, Quit, ErrorEvent,
       CloseEvents, StopReturns, sendVars
  <1>7. Crash \/ UNCHANGED vars => UNCHANGED <<handled, pc>>
    BY DEF Crash, vars, sendVars
  <1>. QED
    BY <1>1, <1>2, <1>3, <1>4, <1>5, <1>6, <1>7 DEF Next

\* Once Stop has ended the reception of an end, that end runs no callback and
\* no Send of it gets an answer any more, whatever else happens.
THEOREM Silent == Spec => StoppedIsSilent
  <1>1. TypeOK /\ [Next]_vars =>
          [\A e \in Ends : reception[e] = "quit" =>
              /\ handled'[e] = handled[e]
              /\ \A t \in Threads :
                    Home[t] = e /\ pc[t] = "waiting" => pc'[t] # "answered"]_vars
    BY SilentStep
  <1>. QED  BY <1>1, TypeCorrect, PTL DEF Spec, StoppedIsSilent

-----------------------------------------------------------------------------
(***************************************************************************)
(* Reception is never stuck if no Send gives up.                           *)
(***************************************************************************)
LEMMA AwaitedStep ==
    ASSUME "timeout" \notin Faults, "postError" \notin Faults,
           TypeOK, TypeOK', MatchingInv, CallbackAwaited, ReceptionNeverBlocked,
           [Next]_vars
    PROVE  CallbackAwaited' /\ ReceptionNeverBlocked'
  <1>1. ASSUME NEW t \in Threads, NEW tag \in CallTags, Send(t, tag)
        PROVE  CallbackAwaited' /\ ReceptionNeverBlocked'
    <2>. DEFINE e == Home[t]
                new == [tag |-> tag, id |-> responseIDs[e][tag], call |-> posts[e]]
    <2>1. e \in Ends
      BY ThreadsAssumption
    <2>2. /\ pc[t] # "waiting"
          /\ pc' = [pc EXCEPT ![t] = "waiting"]
          /\ call' = [call EXCEPT ![t] = posts[e]]
          /\ UNCHANGED reception
      BY <1>1 DEF Send, receptionVars
    <2>3. /\ senderCallbacks'[e] \subseteq senderCallbacks[e] \cup {new}
          /\ \A d \in Ends : d # e => senderCallbacks'[d] = senderCallbacks[d]
      BY <1>1, <2>1 DEF Send, Registered, TypeOK, SendTypes
    <2>4. /\ pc'[t] = "waiting" /\ call'[t] = posts[e]
          /\ \A u \in Threads : u # t => pc'[u] = pc[u] /\ call'[u] = call[u]
      BY <2>2 DEF TypeOK, SendTypes
    <2>5. ASSUME NEW d \in Ends, NEW c \in senderCallbacks'[d]
          PROVE  \E u \in Threads :
                    Home[u] = d /\ pc'[u] = "waiting" /\ call'[u] = c.call
      <3>1. CASE d = e /\ c = new
        BY <2>4, <3>1
      <3>2. CASE c \in senderCallbacks[d]
        <4>1. PICK u \in Threads :
                 Home[u] = d /\ pc[u] = "waiting" /\ call[u] = c.call
          BY <3>2 DEF CallbackAwaited
        <4>. QED  BY <2>2, <2>4, <4>1
      <3>. QED  BY <2>3, <3>1, <3>2
    <2>. QED  BY <2>2, <2>5 DEF CallbackAwaited, ReceptionNeverBlocked
  <1>2. ASSUME NEW e \in Ends, ProcessResponse(e)
        PROVE  CallbackAwaited' /\ ReceptionNeverBlocked'
    <2>. DEFINE m == NextEvent(e)
                C == CallbackOf(e, m)
                W == WaitingFor(e, C)
    <2>1. /\ senderCallbacks' = [senderCallbacks EXCEPT ![e] = Without(e, C)]
          /\ pc' = [t \in Threads |-> IF t \in W THEN "answered" ELSE pc[t]]
          /\ UNCHANGED call
          /\ ~ (C # {} /\ W = {}) => UNCHANGED reception
      BY <1>2 DEF ProcessResponse
    <2>2. C \subseteq senderCallbacks[e]
      BY DEF CallbackOf
    <2>3. ASSUME NEW d \in Ends, NEW c \in senderCallbacks'[d]
          PROVE  \E t \in Threads :
                    Home[t] = d /\ pc'[t] = "waiting" /\ call'[t] = c.call
      <3>1. c \in senderCallbacks[d] /\ (d = e => c \notin C)
        BY <2>1 DEF Without, TypeOK, SendTypes
      <3>2. PICK t \in Threads :
               Home[t] = d /\ pc[t] = "waiting" /\ call[t] = c.call
        BY <3>1 DEF CallbackAwaited
      <3>3. t \notin W
        <4>1. ASSUME t \in W
              PROVE  FALSE
          <5>1. PICK b \in C : d = e /\ b.call = c.call
            BY <3>2, <4>1 DEF WaitingFor
          <5>. QED
            BY <2>2, <3>1, <5>1 DEF MatchingInv, CallbacksUnique
        <4>. QED  BY <4>1
      <3>. QED  BY <2>1, <3>2, <3>3
    <2>4. C # {} => W # {}
      <3>1. ASSUME NEW c \in C
            PROVE  W # {}
        <4>1. PICK t \in Threads :
                 Home[t] = e /\ pc[t] = "waiting" /\ call[t] = c.call
          BY <2>2 DEF CallbackAwaited
        <4>. QED  BY <4>1 DEF WaitingFor
      <3>. QED  BY <3>1
    <2>5. UNCHANGED reception
      BY <2>1, <2>4
    <2>. QED  BY <2>3, <2>5 DEF CallbackAwaited, ReceptionNeverBlocked
  <1>3. ASSUME NEW e \in Ends, \/ ProcessRequest(e) \/ Return(e) \/ Quit(e) \/ ErrorEvent(e)
                               \/ Dispatch(e) \/ Reply(e) \/ Stop(e)
                               \/ CloseEvents(e) \/ StopReturns(e) \/ Crash
                               \/ \E tag \in Tags : RegisterCallback(e, tag)
                               \/ \E tag \in CastTags : SendNoResponse(e, tag)
        PROVE  CallbackAwaited' /\ ReceptionNeverBlocked'
    <2>1. UNCHANGED <<senderCallbacks, pc, call>>
      BY <1>3 DEF ProcessRequest, Return, Quit, ErrorEvent, Dispatch, Reply, Stop,
         CloseEvents, StopReturns, Crash, RegisterCallback, SendNoResponse, sendVars
    <2>2. \A d \in Ends : reception'[d] \in {reception[d], "callback", "select", "thrown", "quit"}
      <3>1. CASE ProcessRequest(e)
        BY <3>1 DEF ProcessRequest, receptionVars, TypeOK, ReceptionTypes
      <3>2. CASE Return(e) \/ Quit(e) \/ ErrorEvent(e)
        BY <3>2 DEF Return, Quit, ErrorEvent, TypeOK, ReceptionTypes
      <3>3. CASE UNCHANGED reception
        BY <3>3
      <3>. QED
        BY <1>3, <3>1, <3>2, <3>3 DEF Dispatch, Reply, Stop, CloseEvents,
           StopReturns, Crash, RegisterCallback, SendNoResponse, receptionVars
    <2>. QED  BY <2>1, <2>2 DEF CallbackAwaited, ReceptionNeverBlocked
  <1>4. CASE UNCHANGED vars
    BY <1>4 DEF vars, CallbackAwaited, ReceptionNeverBlocked
  <1>5. ASSUME NEW t \in Threads
        PROVE  ~ Timeout(t)
    BY DEF Timeout
  <1>6. Main \in Ends
    BY DEF Ends
  <1>. QED
    BY <1>1, <1>2, <1>3, <1>4, <1>5, <1>6 DEF Next

\* If no Send ever gives up - no timeout fires and no post fails - then the
\* reception goroutine is never stuck in a sender callback, even if receiver
\* callbacks reply several times and the other end stops or crashes.
THEOREM NeverBlocked ==
    ASSUME CallTags \cap CastTags = {},
           "timeout" \notin Faults, "postError" \notin Faults
    PROVE  Spec => []ReceptionNeverBlocked
  <1>. DEFINE IInv == /\ TypeOK /\ CurrentOK /\ MatchingInv
                      /\ CallbackAwaited /\ ReceptionNeverBlocked
  <1>1. Init => IInv
    BY InitMatching DEF Init, CallbackAwaited, ReceptionNeverBlocked
  <1>2. IInv /\ [Next]_vars => IInv'
    BY TypeStep, CurrentStep, MatchingStep, AwaitedStep
  <1>3. IInv => ReceptionNeverBlocked
    OBVIOUS
  <1>. HIDE DEF IInv
  <1>. QED  BY <1>1, <1>2, <1>3, PTL DEF Spec

-----------------------------------------------------------------------------
(***************************************************************************)
(* Ordered queues, for RequestReply.                                       *)
(***************************************************************************)
LEMMA AppendInOrder ==
    ASSUME NEW s \in Seq(Message), NEW m \in Message, InOrder(s),
           ~ m.response => \A n \in Elements(s) : ~ n.response => n.data < m.data
    PROVE  InOrder(Append(s, m))
  <1>1. /\ Len(s) \in Nat
        /\ Len(Append(s, m)) = Len(s) + 1
        /\ \A i \in 1..Len(s) : Append(s, m)[i] = s[i]
        /\ Append(s, m)[Len(s) + 1] = m
    OBVIOUS
  <1>2. ASSUME NEW i \in 1..(Len(s) + 1), NEW j \in 1..(Len(s) + 1), i < j,
               ~ Append(s, m)[i].response, ~ Append(s, m)[j].response
        PROVE  Append(s, m)[i].data < Append(s, m)[j].data
    <2>1. i \in 1..Len(s) /\ s[i] \in Elements(s)
      BY <1>1, <1>2 DEF Elements
    <2>2. CASE j \in 1..Len(s)
      BY <1>1, <1>2, <2>1, <2>2 DEF InOrder
    <2>3. CASE j = Len(s) + 1
      BY <1>1, <1>2, <2>1, <2>3
    <2>. QED  BY <1>1, <2>2, <2>3
  <1>. QED  BY <1>1, <1>2 DEF InOrder

LEMMA PopInOrder ==
    ASSUME NEW s \in Seq(Message), s # <<>>, InOrder(s)
    PROVE  /\ InOrder(Tail(s))
           /\ ~ Head(s).response =>
                 \A n \in Elements(Tail(s)) : ~ n.response => Head(s).data < n.data
  <1>1. /\ Head(s) = s[1]
        /\ Len(s) \in Nat /\ Len(s) > 0
        /\ Len(Tail(s)) = Len(s) - 1
        /\ \A i \in 1..Len(Tail(s)) : Tail(s)[i] = s[i + 1]
    OBVIOUS
  <1>2. InOrder(Tail(s))
    BY <1>1 DEF InOrder
  <1>3. ASSUME NEW n \in Elements(Tail(s)), ~ n.response, ~ Head(s).response
        PROVE  Head(s).data < n.data
    <2>1. PICK i \in 1..Len(Tail(s)) : n = Tail(s)[i]
      BY DEF Elements
    <2>2. i + 1 \in 1..Len(s) /\ 1 \in 1..Len(s) /\ 1 < i + 1 /\ n = s[i + 1]
      BY <1>1, <2>1
    <2>. QED  BY <1>1, <1>3, <2>2 DEF InOrder
  <1>. QED  BY <1>2, <1>3

LEMMA EmptyInOrder == InOrder(<<>>)
  BY DEF InOrder

\* What happens to the queues of every end when e takes an event.
LEMMA TakeEventOrder ==
    ASSUME TypeOK, QueuesOrdered, NEW e \in Ends, TakeEvent(e)
    PROVE  /\ QueuesOrdered'
           /\ NextEvent(e) \in Queued(e) /\ NextEvent(e) \in Message
           /\ \A d \in Ends : Queued(d)' \subseteq Queued(d)
           /\ ~ NextEvent(e).response =>
                 \A n \in Queued(e)' : ~ n.response => NextEvent(e).data < n.data
  <1>. DEFINE m == NextEvent(e)
  <1>1. /\ m \in Queued(e)
        /\ \A d \in Ends : /\ Elements(port'[d]) \subseteq Elements(port[d])
                           /\ Elements(backlog'[d]) \subseteq Elements(backlog[d])
    BY TakeEventAt DEF Queued
  <1>2. m \in Message
    BY TakeEventType DEF TypeOK
  <1>3. \A d \in Ends : Queued(d)' \subseteq Queued(d)
    BY <1>1 DEF Queued
  <1>4. backlog[e] \in Seq(Message) /\ port[e] \in Seq(Message)
    BY DEF TypeOK, QueueTypes
  <1>5. CASE /\ backlog[e] # <<>>
             /\ backlog' = [backlog EXCEPT ![e] = NextParked(@).rest]
             /\ UNCHANGED port
    <2>1. m = Head(backlog[e]) /\ backlog'[e] = Tail(backlog[e])
      BY <1>5 DEF NextEvent, NextParked, TypeOK, QueueTypes
    <2>2. /\ InOrder(Tail(backlog[e]))
          /\ ~ m.response =>
                \A n \in Elements(backlog'[e]) : ~ n.response => m.data < n.data
      BY <1>4, <1>5, <2>1, PopInOrder DEF QueuesOrdered
    <2>3. m \in Elements(backlog[e])
      BY <1>4, <1>5, <2>1, PopElements
    <2>4. \A d \in Ends : d # e => backlog'[d] = backlog[d]
      BY <1>5 DEF TypeOK, QueueTypes
    <2>5. QueuesOrdered'
      <3>1. \A d \in Ends : InOrder(backlog'[d])
        BY <2>1, <2>2, <2>4 DEF QueuesOrdered
      <3>2. \A d \in Ends : InOrder(port'[d])
        BY <1>5 DEF QueuesOrdered
      <3>3. \A d \in Ends : \A x \in Elements(backlog'[d]), y \in Elements(port'[d]) :
               ~ x.response /\ ~ y.response => x.data < y.data
        BY <1>1 DEF QueuesOrdered
      <3>. QED  BY <3>1, <3>2, <3>3 DEF QueuesOrdered
    <2>6. ~ m.response =>
             \A n \in Elements(port'[e]) : ~ n.response => m.data < n.data
      BY <1>5, <2>3 DEF QueuesOrdered
    <2>. QED  BY <1>1, <1>2, <1>3, <2>2, <2>5, <2>6 DEF Queued
  <1>6. CASE /\ backlog[e] = <<>>
             /\ port[e] # <<>>
             /\ port' = [port EXCEPT ![e] = Tail(@)]
             /\ UNCHANGED backlog
    <2>1. m = Head(port[e]) /\ port'[e] = Tail(port[e])
      BY <1>6 DEF NextEvent, TypeOK, QueueTypes
    <2>2. /\ InOrder(Tail(port[e]))
          /\ ~ m.response =>
                \A n \in Elements(port'[e]) : ~ n.response => m.data < n.data
      BY <1>4, <1>6, <2>1, PopInOrder DEF QueuesOrdered
    <2>3. Elements(backlog'[e]) = {}
      BY <1>6, EmptyElements
    <2>4. \A d \in Ends : d # e => port'[d] = port[d]
      BY <1>6 DEF TypeOK, QueueTypes
    <2>5. QueuesOrdered'
      <3>1. \A d \in Ends : InOrder(port'[d])
        BY <2>1, <2>2, <2>4 DEF QueuesOrdered
      <3>2. \A d \in Ends : InOrder(backlog'[d])
        BY <1>6 DEF QueuesOrdered
      <3>3. \A d \in Ends : \A x \in Elements(backlog'[d]), y \in Elements(port'[d]) :
               ~ x.response /\ ~ y.response => x.data < y.data
        BY <1>1 DEF QueuesOrdered
      <3>. QED  BY <3>1, <3>2, <3>3 DEF QueuesOrdered
    <2>. QED  BY <1>1, <1>2, <1>3, <2>2, <2>3, <2>5 DEF Queued
  <1>. QED  BY <1>5, <1>6 DEF TakeEvent

LEMMA PostQueued ==
    ASSUME TypeOK, NEW e \in Ends, NEW m \in Message, Post(e, m), UNCHANGED backlog
    PROVE  /\ Queued(e)' = Queued(e)
           /\ Queued(Peer(e))' \subseteq Queued(Peer(e)) \cup {m}
  <1>1. port'[e] = port[e]
    BY PeerEnd DEF Post, TypeOK, QueueTypes
  <1>2. Elements(port'[Peer(e)]) \subseteq Elements(port[Peer(e)]) \cup {m}
    BY PeerEnd, AppendElements DEF Post, TypeOK, QueueTypes
  <1>. QED  BY <1>1, <1>2 DEF Queued

\* Posting at the end of the order keeps the order.
LEMMA PostOrder ==
    ASSUME TypeOK, QueuesOrdered, NEW e \in Ends, NEW m \in Message, Post(e, m),
           UNCHANGED backlog,
           ~ m.response => \A n \in Queued(Peer(e)) : ~ n.response => n.data < m.data
    PROVE  QueuesOrdered'
  <1>1. Peer(e) \in Ends /\ port[Peer(e)] \in Seq(Message)
    BY PeerEnd DEF TypeOK, QueueTypes
  <1>2. port'[Peer(e)] \in {port[Peer(e)], Append(port[Peer(e)], m)}
    BY <1>1 DEF Post, TypeOK, QueueTypes
  <1>3. \A d \in Ends : d # Peer(e) => port'[d] = port[d]
    BY <1>1 DEF Post, TypeOK, QueueTypes
  <1>4. InOrder(Append(port[Peer(e)], m))
    <2>1. ~ m.response =>
             \A n \in Elements(port[Peer(e)]) : ~ n.response => n.data < m.data
      BY DEF Queued
    <2>2. InOrder(port[Peer(e)])
      BY <1>1 DEF QueuesOrdered
    <2>. QED  BY <1>1, <2>1, <2>2, AppendInOrder
  <1>5. \A d \in Ends : InOrder(port'[d])
    BY <1>2, <1>3, <1>4 DEF QueuesOrdered
  <1>6. Elements(port'[Peer(e)]) \subseteq Elements(port[Peer(e)]) \cup {m}
    <2>1. Elements(Append(port[Peer(e)], m)) = Elements(port[Peer(e)]) \cup {m}
      BY <1>1, AppendElements
    <2>. QED  BY <1>2, <2>1
  <1>7. \A d \in Ends : \A x \in Elements(backlog'[d]), y \in Elements(port'[d]) :
           ~ x.response /\ ~ y.response => x.data < y.data
    <2>1. ASSUME NEW x \in Elements(backlog[Peer(e)]), NEW y \in Elements(port'[Peer(e)]),
                 ~ x.response, ~ y.response
          PROVE  x.data < y.data
      <3>1. CASE y = m
        BY <2>1, <3>1 DEF Queued
      <3>2. CASE y \in Elements(port[Peer(e)])
        BY <1>1, <2>1, <3>2 DEF QueuesOrdered
      <3>. QED  BY <1>6, <3>1, <3>2
    <2>. QED  BY <1>3, <2>1 DEF QueuesOrdered
  <1>. QED  BY <1>5, <1>7 DEF QueuesOrdered

-----------------------------------------------------------------------------
(***************************************************************************)
(* Requests are handled in order, and answered only then.                  *)
(***************************************************************************)

\* A step that takes messages out of the queues, or leaves them alone.
LEMMA OrderQuietStep ==
    ASSUME TypeOK, TypeOK', OrderInv,
           UNCHANGED handled,
           \A e \in Ends : posts[e] <= posts'[e],
           \A e \in Ends : Queued(e)' \subseteq Queued(e),
           QueuesOrdered',
           \A e \in Ends : reception'[e] = "callback" =>
               reception[e] = "callback" /\ current'[e] = current[e]
    PROVE  OrderInv'
  <1>1. \A e \in Ends : Queued(e) \subseteq Message
    BY ElementsType DEF Queued, TypeOK, QueueTypes
  <1>2. \A e \in Ends : /\ Elements(handled[e]) \subseteq Nat
                        /\ posts[e] \in Nat /\ posts'[e] \in Nat
    BY ElementsType DEF TypeOK, HistoryTypes
  <1>3. QueuedIsNew'
    BY <1>1, <1>2, PeerEnd DEF OrderInv, QueuedIsNew, Message
  <1>4. AnsweredIsHandled'
    BY PeerEnd DEF OrderInv, AnsweredIsHandled
  <1>. QED  BY <1>3, <1>4 DEF OrderInv

\* e posts a request under the next number.
LEMMA OrderPostStep ==
    ASSUME TypeOK, TypeOK', OrderInv, NEW e \in Ends, NEW m \in Message,
           ~ m.response, m.data = posts[e],
           posts' = [posts EXCEPT ![e] = @ + 1],
           UNCHANGED <<backlog, handled, reception, current>>,
           Post(e, m) \/ UNCHANGED port
    PROVE  OrderInv'
  <1>1. \A d \in Ends : posts[d] \in Nat /\ posts'[d] \in Nat /\ posts[d] <= posts'[d]
    BY DEF TypeOK, HistoryTypes
  <1>2. posts'[e] = posts[e] + 1
    BY DEF TypeOK, HistoryTypes
  <1>3. CASE UNCHANGED port
    <2>1. QueuesOrdered' /\ \A d \in Ends : Queued(d)' = Queued(d)
      BY <1>3 DEF OrderInv, QueuesOrdered, Queued
    <2>. QED  BY <1>1, <2>1, OrderQuietStep
  <1>4. CASE Post(e, m)
    <2>1. /\ Queued(e)' = Queued(e)
          /\ Queued(Peer(e))' \subseteq Queued(Peer(e)) \cup {m}
      BY <1>4, PostQueued
    <2>2. \A n \in Queued(Peer(e)) : ~ n.response => n.data < posts[e]
      BY PeerEnd DEF OrderInv, QueuedIsNew
    <2>3. QueuesOrdered'
      BY <1>4, <2>2, PostOrder DEF OrderInv
    <2>4. \A d \in Ends : Queued(d) \subseteq Message
      BY ElementsType DEF Queued, TypeOK, QueueTypes
    <2>5. \A d \in Ends : Elements(handled[d]) \subseteq Nat
      BY ElementsType DEF TypeOK, HistoryTypes
    <2>6. \A n \in Queued(e)' : ~ n.response =>
             /\ n.data < posts'[Peer(e)]
             /\ \A h \in Elements(handled[e]) : h < n.data
      BY <1>1, <2>1, <2>4, PeerEnd DEF OrderInv, QueuedIsNew, Message
    <2>7. \A n \in Queued(Peer(e))' : ~ n.response =>
             /\ n.data < posts'[e]
             /\ \A h \in Elements(handled[Peer(e)]) : h < n.data
      <3>1. ASSUME NEW n \in Queued(Peer(e)), ~ n.response
            PROVE  /\ n.data < posts'[e]
                   /\ \A h \in Elements(handled[Peer(e)]) : h < n.data
        <4>1. n.data \in Nat
          BY <2>4, PeerEnd DEF Message
        <4>. QED
          BY <1>1, <2>2, <3>1, <4>1, PeerEnd DEF OrderInv, QueuedIsNew
      <3>2. /\ m.data < posts'[e]
            /\ \A h \in Elements(handled[Peer(e)]) : h < m.data
        BY <1>1, <1>2, PeerEnd DEF OrderInv, QueuedIsNew
      <3>. QED  BY <2>1, <3>1, <3>2
    <2>8. \A d \in Ends : \A h \in Elements(handled[d]) : h < posts'[Peer(d)]
      <3>1. \A d \in Ends : \A h \in Elements(handled[d]) :
               h \in Nat /\ h < posts[Peer(d)]
        BY <2>5 DEF OrderInv, QueuedIsNew
      <3>. QED  BY <1>1, <3>1, PeerEnd
    <2>9. QueuedIsNew'
      BY <2>6, <2>7, <2>8, PeerEnd DEF QueuedIsNew
    <2>10. AnsweredIsHandled'
      BY <2>1, PeerEnd DEF OrderInv, AnsweredIsHandled
    <2>. QED  BY <2>3, <2>9, <2>10 DEF OrderInv
  <1>. QED  BY <1>3, <1>4

LEMMA OrderReplyStep ==
    ASSUME TypeOK, TypeOK', CurrentOK, OrderInv, NEW e \in Ends, Reply(e)
    PROVE  OrderInv'
  <1>. DEFINE r == [current[e] EXCEPT !.response = TRUE]
  <1>1. r \in Message /\ r.data = current[e].data /\ r.response
    BY DEF CurrentOK, Reply, Message
  <1>2. /\ Queued(e)' = Queued(e)
        /\ Queued(Peer(e))' \subseteq Queued(Peer(e)) \cup {r}
    BY <1>1, PostQueued DEF Reply
  <1>3. QueuesOrdered'
    BY <1>1, PostOrder DEF Reply, OrderInv
  <1>4. UNCHANGED <<posts, handled, reception, current>> /\ reception[e] = "callback"
    BY DEF Reply
  <1>5. QueuedIsNew'
    <2>1. \A d \in Ends : Queued(d)' \subseteq Queued(d) \cup {r}
      BY <1>2, PeerEnd
    <2>2. \A d \in Ends : \A n \in Queued(d)' : ~ n.response => n \in Queued(d)
      BY <1>1, <2>1
    <2>. QED  BY <1>4, <2>2 DEF OrderInv, QueuedIsNew
  <1>6. AnsweredIsHandled'
    <2>1. r.data \in Elements(handled[e])
      BY <1>1, <1>4 DEF OrderInv, AnsweredIsHandled
    <2>2. \A m \in Queued(Peer(e))' : m.response => m.data \in Elements(handled[e])
      BY <1>2, <2>1, PeerEnd DEF OrderInv, AnsweredIsHandled
    <2>. QED
      BY <1>2, <1>4, <2>2, PeerEnd DEF OrderInv, AnsweredIsHandled
  <1>. QED  BY <1>3, <1>5, <1>6 DEF OrderInv

LEMMA OrderRequestStep ==
    ASSUME TypeOK, TypeOK', OrderInv, NEW e \in Ends, ProcessRequest(e)
    PROVE  OrderInv'
  <1>. DEFINE m == NextEvent(e)
  <1>1. /\ QueuesOrdered'
        /\ m \in Queued(e) /\ m \in Message /\ ~ m.response
        /\ \A d \in Ends : Queued(d)' \subseteq Queued(d)
        /\ \A n \in Queued(e)' : ~ n.response => m.data < n.data
        /\ posts' = posts
    BY TakeEventOrder DEF ProcessRequest, OrderInv
  <1>2. \A d \in Ends : posts[d] \in Nat /\ posts[d] <= posts'[d]
    BY <1>1 DEF TypeOK, HistoryTypes
  <1>3. CASE m.tag \notin receiverCallbacks[e]
    <2>1. UNCHANGED <<handled, reception, current>>
      BY <1>3 DEF ProcessRequest, receptionVars
    <2>. QED  BY <1>1, <1>2, <2>1, OrderQuietStep
  <1>4. CASE m.tag \in receiverCallbacks[e]
    <2>1. /\ handled' = [handled EXCEPT ![e] = Append(@, m.data)]
          /\ reception' = [reception EXCEPT ![e] = "callback"]
          /\ current' = [current EXCEPT ![e] = m]
      BY <1>4 DEF ProcessRequest
    <2>2. m.data \in Nat /\ \A d \in Ends : handled[d] \in Seq(Nat)
      BY <1>1 DEF Message, TypeOK, HistoryTypes
    <2>3. Elements(Append(handled[e], m.data)) = Elements(handled[e]) \cup {m.data}
      BY <2>2, AppendElements
    <2>4. /\ Elements(handled'[e]) = Elements(handled[e]) \cup {m.data}
          /\ \A d \in Ends : d # e => handled'[d] = handled[d]
      BY <2>1, <2>3 DEF TypeOK, HistoryTypes
    <2>5. m.data < posts[Peer(e)]
      BY <1>1 DEF OrderInv, QueuedIsNew
    <2>6. QueuedIsNew'
      <3>1. \A n \in Queued(e)' : ~ n.response =>
               /\ n.data < posts[Peer(e)]
               /\ \A h \in Elements(handled'[e]) : h < n.data
        BY <1>1, <2>4 DEF OrderInv, QueuedIsNew
      <3>2. \A h \in Elements(handled'[e]) : h < posts[Peer(e)]
        BY <2>4, <2>5 DEF OrderInv, QueuedIsNew
      <3>3. \A d \in Ends : d # e =>
               /\ \A n \in Queued(d)' : ~ n.response =>
                     /\ n.data < posts[Peer(d)]
                     /\ \A h \in Elements(handled'[d]) : h < n.data
               /\ \A h \in Elements(handled'[d]) : h < posts[Peer(d)]
        BY <1>1, <2>4 DEF OrderInv, QueuedIsNew
      <3>. QED  BY <1>1, <3>1, <3>2, <3>3 DEF QueuedIsNew
    <2>7. AnsweredIsHandled'
      <3>1. \A d \in Ends : Elements(handled[d]) \subseteq Elements(handled'[d])
        BY <2>4
      <3>2. \A d \in Ends : \A n \in Queued(d)' :
               n.response => n.data \in Elements(handled'[Peer(d)])
        BY <1>1, <3>1, PeerEnd DEF OrderInv, AnsweredIsHandled
      <3>3. current'[e].data \in Elements(handled'[e])
        BY <2>1, <2>4 DEF TypeOK, ReceptionTypes
      <3>4. \A d \in Ends : d # e /\ reception'[d] = "callback" =>
               current'[d].data \in Elements(handled'[d])
        BY <2>1, <3>1 DEF OrderInv, AnsweredIsHandled, TypeOK, ReceptionTypes
      <3>. QED  BY <3>2, <3>3, <3>4 DEF AnsweredIsHandled
    <2>. QED  BY <1>1, <2>6, <2>7 DEF OrderInv
  <1>. QED  BY <1>3, <1>4

LEMMA DispatchOrder ==
    ASSUME TypeOK, QueuesOrdered, NEW e \in Ends, Dispatch(e)
    PROVE  QueuesOrdered' /\ \A d \in Ends : Queued(d)' \subseteq Queued(d)
  <1>. DEFINE m == Head(port[e])
  <1>1. port[e] # <<>> /\ port[e] \in Seq(Message) /\ backlog[e] \in Seq(Message)
    BY DEF Dispatch, TypeOK, QueueTypes
  <1>2. /\ m \in Message /\ m \in Elements(port[e])
        /\ Elements(Tail(port[e])) \subseteq Elements(port[e])
    BY <1>1, PopElements
  <1>3. Elements(Append(backlog[e], m)) = Elements(backlog[e]) \cup {m}
    BY <1>1, <1>2, AppendElements
  <1>4. /\ backlog'[e] = Append(backlog[e], m)
        /\ port'[e] = Tail(port[e])
        /\ \A d \in Ends : d # e => backlog'[d] = backlog[d] /\ port'[d] = port[d]
    BY DEF Dispatch, TypeOK, QueueTypes
  <1>5. /\ InOrder(Tail(port[e]))
        /\ ~ m.response => \A n \in Elements(port'[e]) : ~ n.response => m.data < n.data
    BY <1>1, <1>4, PopInOrder DEF QueuesOrdered
  <1>6. ~ m.response =>
           \A n \in Elements(backlog[e]) : ~ n.response => n.data < m.data
    BY <1>2 DEF QueuesOrdered
  <1>7. InOrder(Append(backlog[e], m))
    BY <1>1, <1>2, <1>6, AppendInOrder DEF QueuesOrdered
  <1>8. \A x \in Elements(backlog'[e]), y \in Elements(port'[e]) :
           ~ x.response /\ ~ y.response => x.data < y.data
    BY <1>2, <1>3, <1>4, <1>5 DEF QueuesOrdered
  <1>9. QueuesOrdered'
    BY <1>4, <1>5, <1>7, <1>8 DEF QueuesOrdered
  <1>10. \A d \in Ends : Queued(d)' \subseteq Queued(d)
    BY <1>2, <1>3, <1>4 DEF Queued
  <1>. QED  BY <1>9, <1>10

LEMMA OrderStep ==
    ASSUME TypeOK, TypeOK', CurrentOK, OrderInv, [Next]_vars
    PROVE  OrderInv'
  <1>0. \A e \in Ends : posts[e] <= posts[e]
    BY DEF TypeOK, HistoryTypes
  <1>1. ASSUME NEW t \in Threads, NEW tag \in CallTags, Send(t, tag)
        PROVE  OrderInv'
    <2>. DEFINE e == Home[t]
                req == Request(tag, responseIDs[e][tag], posts[e])
    <2>1. e \in Ends /\ tag \in Tags
      BY ThreadsAssumption DEF Tags
    <2>2. req \in Message /\ ~ req.response /\ req.data = posts[e]
      BY <2>1 DEF Request, Message, TypeOK, SendTypes, HistoryTypes
    <2>3. /\ posts' = [posts EXCEPT ![e] = @ + 1]
          /\ UNCHANGED <<backlog, handled, reception, current>>
      BY <1>1 DEF Send, receptionVars
    <2>4. Post(e, req) \/ UNCHANGED port
      BY <1>1 DEF Send
    <2>. HIDE DEF e, req
    <2>. QED  BY <2>1, <2>2, <2>3, <2>4, OrderPostStep
  <1>2. ASSUME NEW e \in Ends, NEW tag \in CastTags, SendNoResponse(e, tag)
        PROVE  OrderInv'
    <2>. DEFINE req == Request(tag, initID, posts[e])
    <2>1. req \in Message /\ ~ req.response /\ req.data = posts[e]
      BY DEF Request, Message, Tags, initID, TypeOK, HistoryTypes
    <2>. QED
      BY <1>2, <2>1, OrderPostStep DEF SendNoResponse, receptionVars
  <1>3. ASSUME NEW e \in Ends, Dispatch(e)
        PROVE  OrderInv'
    <2>1. UNCHANGED <<handled, posts, reception, current>>
      BY <1>3 DEF Dispatch, receptionVars
    <2>. QED
      BY <1>0, <1>3, <2>1, DispatchOrder, OrderQuietStep DEF OrderInv
  <1>4. ASSUME NEW e \in Ends, ProcessRequest(e)
        PROVE  OrderInv'
    BY <1>4, OrderRequestStep
  <1>5. ASSUME NEW e \in Ends, ProcessResponse(e)
        PROVE  OrderInv'
    <2>1. QueuesOrdered' /\ \A d \in Ends : Queued(d)' \subseteq Queued(d)
      BY <1>5, TakeEventOrder DEF ProcessResponse, OrderInv
    <2>2. \A d \in Ends : reception'[d] = "callback" =>
             reception[d] = "callback" /\ current'[d] = current[d]
      BY <1>5 DEF ProcessResponse, TakeEvent, InSelect, TypeOK, ReceptionTypes
    <2>3. UNCHANGED <<handled, posts>>
      BY <1>5 DEF ProcessResponse
    <2>. QED  BY <1>0, <2>1, <2>2, <2>3, OrderQuietStep
  <1>6. ASSUME NEW e \in Ends, Reply(e)
        PROVE  OrderInv'
    BY <1>6, OrderReplyStep
  <1>7. ASSUME NEW e \in Ends, Return(e) \/ Quit(e) \/ ErrorEvent(e)
        PROVE  OrderInv'
    <2>1. \A d \in Ends : reception'[d] = "callback" =>
             reception[d] = "callback" /\ current'[d] = current[d]
      BY <1>7 DEF Return, Quit, ErrorEvent, TypeOK, ReceptionTypes
    <2>2. QueuesOrdered' /\ \A d \in Ends : Queued(d)' \subseteq Queued(d)
      BY <1>7 DEF Return, Quit, ErrorEvent, queueVars, OrderInv, QueuesOrdered, Queued
    <2>3. UNCHANGED <<handled, posts>>
      BY <1>7 DEF Return, Quit, ErrorEvent
    <2>. QED  BY <1>0, <2>1, <2>2, <2>3, OrderQuietStep
  <1>8. ASSUME NEW e \in Ends, \/ CloseEvents(e) \/ StopReturns(e) \/ Stop(e)
                               \/ \E tag \in Tags : RegisterCallback(e, tag)
                               \/ \E t \in Threads : Timeout(t)
                               \/ Crash
        PROVE  OrderInv'
    <2>1. /\ \A d \in Ends : port'[d] = port[d] \/ port'[d] = <<>>
          /\ UNCHANGED <<backlog, reception, current, handled, posts>>
      BY <1>8 DEF CloseEvents, StopReturns, Stop, RegisterCallback, Crash,
         Timeout, queueVars, receptionVars, TypeOK, QueueTypes, Ends
    <2>2. \A d \in Ends : Elements(port'[d]) \subseteq Elements(port[d])
      BY <2>1, EmptyElements
    <2>3. \A d \in Ends : InOrder(port[d]) => InOrder(port'[d])
      BY <2>1, EmptyInOrder
    <2>4. QueuesOrdered' /\ \A d \in Ends : Queued(d)' \subseteq Queued(d)
      BY <2>1, <2>2, <2>3 DEF OrderInv, QueuesOrdered, Queued
    <2>. QED  BY <1>0, <2>1, <2>4, OrderQuietStep
  <1>9. CASE UNCHANGED vars
    <2>1. QueuesOrdered' /\ \A d \in Ends : Queued(d)' \subseteq Queued(d)
      BY <1>9 DEF vars, OrderInv, QueuesOrdered, Queued
    <2>. QED  BY <1>0, <1>9, <2>1, OrderQuietStep DEF vars
  <1>10. Main \in Ends
    BY DEF Ends
  <1>. QED
    BY <1>1, <1>2, <1>3, <1>4, <1>5, <1>6, <1>7, <1>8, <1>9, <1>10 DEF Next

-----------------------------------------------------------------------------
(***************************************************************************)
(* Every step of the managers is a step of RequestReply, or stutters.      *)
(***************************************************************************)
LEMMA PromiseEnds == Promise!Ends = Ends /\ \A e \in Ends : Promise!Peer(e) = Peer(e)
  BY DEF Promise!Ends, Promise!Peer, Ends, Peer

LEMMA SendRefines ==
    ASSUME TypeOK, NEW t \in Threads, NEW tag \in CallTags, Send(t, tag)
    PROVE  Promise!Next
  <1>1. pc[t] # "waiting" /\ posts[Home[t]] < MaxPosts[Home[t]]
    BY DEF Send
  <1>2. /\ posts' = [posts EXCEPT ![Home[t]] = @ + 1]
        /\ call' = [call EXCEPT ![t] = posts[Home[t]]]
        /\ UNCHANGED <<handled, answer>>
    BY DEF Send
  <1>3. \E s \in {"waiting", "failed"} : pc' = [pc EXCEPT ![t] = s]
    BY DEF Send
  <1>4. Promise!Call(t)
    BY <1>1, <1>2, <1>3 DEF Promise!Call
  <1>. QED  BY <1>4 DEF Promise!Next

LEMMA CastRefines ==
    ASSUME NEW e \in Ends, NEW tag \in CastTags, SendNoResponse(e, tag)
    PROVE  Promise!Next
  <1>1. Promise!Cast(e)
    BY DEF SendNoResponse, sendVars, Promise!Cast
  <1>. QED  BY <1>1, PromiseEnds DEF Promise!Next

LEMMA TimeoutRefines ==
    ASSUME NEW t \in Threads, Timeout(t)
    PROVE  Promise!Next
  <1>1. Promise!Fail(t)
    BY DEF Timeout, Promise!Fail
  <1>. QED  BY <1>1 DEF Promise!Next

\* A request is handled when its callback starts; one that is dropped is a
\* stutter.
LEMMA RequestRefines ==
    ASSUME TypeOK, OrderInv, NEW e \in Ends, ProcessRequest(e)
    PROVE  Promise!Next \/ UNCHANGED <<posts, handled, pc, call, answer>>
  <1>. DEFINE m == NextEvent(e)
  <1>1. m \in Queued(e) /\ m \in Message /\ ~ m.response
    BY TakeEventOrder DEF ProcessRequest, OrderInv
  <1>2. UNCHANGED <<posts, pc, call, answer>>
    BY DEF ProcessRequest, sendVars
  <1>3. CASE m.tag \notin receiverCallbacks[e]
    BY <1>2, <1>3 DEF ProcessRequest
  <1>4. CASE m.tag \in receiverCallbacks[e]
    <2>1. handled' = [handled EXCEPT ![e] = Append(@, m.data)]
      BY <1>4 DEF ProcessRequest
    <2>2. /\ m.data < posts[Peer(e)]
          /\ \A h \in Elements(handled[e]) : h < m.data
      BY <1>1 DEF OrderInv, QueuedIsNew
    <2>3. m.data \in 0..(posts[Peer(e)] - 1)
      BY <1>1, <2>2, PeerEnd DEF Message, TypeOK, HistoryTypes
    <2>4. handled[e] \in Seq(Nat)
      BY DEF TypeOK, HistoryTypes
    <2>5. \A i \in DOMAIN handled[e] : handled[e][i] < m.data
      BY <2>2, <2>4 DEF Elements
    <2>6. Promise!Handle(e)
      BY <1>2, <2>1, <2>3, <2>5, PromiseEnds DEF Promise!Handle
    <2>. QED  BY <2>6, PromiseEnds DEF Promise!Next
  <1>. QED  BY <1>3, <1>4

\* An answer that reaches a waiting Send is the answer to its own request; an
\* answer that nobody waits for is a stutter.
LEMMA ResponseRefines ==
    ASSUME TypeOK, MatchingInv, OrderInv, NEW e \in Ends, ProcessResponse(e)
    PROVE  Promise!Next \/ UNCHANGED <<posts, handled, pc, call, answer>>
  <1>. DEFINE m == NextEvent(e)
              C == CallbackOf(e, m)
              W == WaitingFor(e, C)
  <1>1. /\ pc' = [t \in Threads |-> IF t \in W THEN "answered" ELSE pc[t]]
        /\ answer' = [t \in Threads |-> IF t \in W THEN m.data ELSE answer[t]]
        /\ UNCHANGED <<posts, handled, call>>
        /\ m.response
    BY DEF ProcessResponse
  <1>2. m \in Queued(e) /\ m \in Message
    BY TakeEventOrder DEF ProcessResponse, OrderInv
  <1>3. pc \in [Threads -> {"idle", "waiting", "answered", "failed"}]
        /\ answer \in [Threads -> Nat]
    BY DEF TypeOK, SendTypes
  <1>4. CASE W = {}
    <2>1. pc' = [t \in Threads |-> pc[t]] /\ answer' = [t \in Threads |-> answer[t]]
      BY <1>1, <1>4
    <2>2. pc' = pc /\ answer' = answer
      BY <1>3, <2>1
    <2>. QED  BY <1>1, <2>2
  <1>5. CASE W # {}
    <2>1. PICK t \in Threads : t \in W
      BY <1>5 DEF WaitingFor
    <2>2. Home[t] = e /\ pc[t] = "waiting"
      BY <2>1 DEF WaitingFor
    <2>3. PICK c \in C : c.call = call[t]
      BY <2>1 DEF WaitingFor
    <2>4. c \in senderCallbacks[e] /\ c.tag = m.tag /\ c.id = m.id
      BY DEF CallbackOf
    <2>5. m.tag \in CallTags
      BY <2>4 DEF MatchingInv, CallbacksIssued
    <2>6. m \in About(e)
      BY <1>1, <1>2 DEF Queued, About, At
    <2>7. m.data = call[t]
      BY <2>3, <2>4, <2>5, <2>6 DEF MatchingInv, IDsConnect
    <2>8. ASSUME NEW u \in W
          PROVE  u = t
      <3>1. u \in Threads /\ Home[u] = e /\ pc[u] = "waiting"
        BY DEF WaitingFor
      <3>2. PICK d \in C : d.call = call[u]
        BY DEF WaitingFor
      <3>3. d = c
        BY <2>4, <3>2 DEF MatchingInv, CallbacksUnique, CallbackOf
      <3>4. call[u] = call[t]
        BY <2>3, <3>2, <3>3
      <3>. QED  BY <2>2, <3>1, <3>4 DEF MatchingInv, WaitingUnique
    <2>9. /\ pc' = [pc EXCEPT ![t] = "answered"]
          /\ answer' = [answer EXCEPT ![t] = call[t]]
      <3>1. W = {t}
        BY <2>1, <2>8
      <3>. HIDE DEF W
      <3>2. pc' = [u \in Threads |-> IF u = t THEN "answered" ELSE pc[u]]
        BY <1>1, <3>1
      <3>3. answer' = [u \in Threads |-> IF u = t THEN m.data ELSE answer[u]]
        BY <1>1, <3>1
      <3>. QED  BY <1>3, <2>7, <3>2, <3>3
    <2>10. m.data \in Elements(handled[Peer(e)])
      BY <1>1, <1>2 DEF OrderInv, AnsweredIsHandled
    <2>11. handled[Peer(e)] \in Seq(Nat)
      BY PeerEnd DEF TypeOK, HistoryTypes
    <2>12. \E i \in DOMAIN handled[Peer(e)] : handled[Peer(e)][i] = call[t]
      BY <2>7, <2>10, <2>11 DEF Elements
    <2>13. Promise!Answer(t)
      BY <1>1, <2>2, <2>9, <2>12, PromiseEnds DEF Promise!Answer
    <2>. QED  BY <2>13 DEF Promise!Next
  <1>. QED  BY <1>4, <1>5

LEMMA RefineStep ==
    ASSUME TypeOK, MatchingInv, OrderInv, [Next]_vars
    PROVE  [Promise!Next]_(Promise!vars)
  <1>1. ASSUME NEW t \in Threads, NEW tag \in CallTags, Send(t, tag)
        PROVE  Promise!Next
    BY <1>1, SendRefines
  <1>2. ASSUME NEW t \in Threads, Timeout(t)
        PROVE  Promise!Next
    BY <1>2, TimeoutRefines
  <1>3. ASSUME NEW e \in Ends, NEW tag \in CastTags, SendNoResponse(e, tag)
        PROVE  Promise!Next
    BY <1>3, CastRefines
  <1>4. ASSUME NEW e \in Ends, ProcessRequest(e)
        PROVE  Promise!Next \/ UNCHANGED <<posts, handled, pc, call, answer>>
    BY <1>4, RequestRefines
  <1>5. ASSUME NEW e \in Ends, ProcessResponse(e)
        PROVE  Promise!Next \/ UNCHANGED <<posts, handled, pc, call, answer>>
    BY <1>5, ResponseRefines
  <1>6. ASSUME NEW e \in Ends, \/ Dispatch(e) \/ Reply(e) \/ Return(e)
                               \/ Stop(e) \/ Quit(e) \/ ErrorEvent(e) \/ CloseEvents(e)
                               \/ StopReturns(e) \/ Crash
                               \/ \E tag \in Tags : RegisterCallback(e, tag)
        PROVE  UNCHANGED <<posts, handled, pc, call, answer>>
    BY <1>6 DEF Dispatch, Reply, Return, Stop, Quit, ErrorEvent, CloseEvents, StopReturns,
       Crash, RegisterCallback, sendVars
  <1>7. CASE UNCHANGED vars
    BY <1>7 DEF vars, Promise!vars
  <1>8. Main \in Ends
    BY DEF Ends
  <1>9. Promise!Next \/ UNCHANGED <<posts, handled, pc, call, answer>>
    BY <1>1, <1>2, <1>3, <1>4, <1>5, <1>6, <1>7, <1>8 DEF Next, vars
  <1>. QED  BY <1>9 DEF Promise!vars

\* Requests of an end are handled by the other end at most once and in the
\* order they were posted, and a Send that returns an answer returns the one to
\* its own request, after that request was handled - whatever times out, fails,
\* replies twice, stops or crashes, if no tag is used with both Send and
\* SendNoResponse.
THEOREM Implements ==
    ASSUME CallTags \cap CastTags = {}
    PROVE  Spec => ImplementsPromise
  <1>. DEFINE IInv == TypeOK /\ CurrentOK /\ MatchingInv /\ OrderInv
  <1>1. Init => IInv
    <2>. SUFFICES ASSUME Init
                  PROVE  IInv
      OBVIOUS
    <2>1. TypeOK /\ CurrentOK /\ MatchingInv
      BY InitMatching
    <2>2. \A e \in Ends : Queued(e) = {} /\ Elements(handled[e]) = {}
      BY EmptyElements DEF Init, Queued
    <2>3. QueuesOrdered
      BY EmptyElements, EmptyInOrder DEF Init, QueuesOrdered
    <2>4. QueuedIsNew /\ AnsweredIsHandled
      BY <2>2 DEF Init, QueuedIsNew, AnsweredIsHandled
    <2>. QED  BY <2>1, <2>3, <2>4 DEF OrderInv
  <1>2. IInv /\ [Next]_vars => IInv'
    BY TypeStep, CurrentStep, MatchingStep, OrderStep
  <1>3. IInv /\ [Next]_vars => [Promise!Next]_(Promise!vars)
    BY RefineStep
  <1>4. Init => Promise!Init
    BY PromiseEnds DEF Init, Promise!Init
  <1>. HIDE DEF IInv
  <1>. QED
    BY <1>1, <1>2, <1>3, <1>4, PTL DEF Spec, ImplementsPromise, Promise!Spec

-----------------------------------------------------------------------------
(***************************************************************************)
(* No request is forgotten: the safety part of ReachedIsAnswered.          *)
(***************************************************************************)
AllUp == \A e \in Ends : Running(e) /\ stop[e] = "none"

\* Neither end is stopping or gone after this step: it is a step of the
\* program, not one that ends it.
Alive ==
    \/ \E t \in Threads : Timeout(t) \/ \E tag \in CallTags : Send(t, tag)
    \/ \E e \in Ends :
          \/ \E tag \in CastTags : SendNoResponse(e, tag)
          \/ \E tag \in Tags : RegisterCallback(e, tag)
          \/ Dispatch(e)
          \/ ProcessRequest(e) \/ ProcessResponse(e)
          \/ ErrorEvent(e)
          \/ Reply(e) \/ Return(e)
    \/ UNCHANGED vars

Up == AllUp => \A e \in Ends : listening[e] /\ reception[e] # "quit"

LEMMA AliveStep ==
    ASSUME TypeOK, Up, [Next]_vars
    PROVE  /\ AllUp' => AllUp /\ Alive
           /\ Up'
  <1>0. Main \in Ends /\ Remote \in Ends
    BY DEF Ends
  <1>1. \A e \in Ends : Stop(e) \/ Quit(e) \/ StopReturns(e) => ~ AllUp'
    BY DEF Stop, Quit, StopReturns, AllUp, TypeOK, ControlTypes
  <1>2. Crash => ~ AllUp'
    BY <1>0 DEF Crash, AllUp, Running, TypeOK, ControlTypes
  <1>3. ASSUME NEW e \in Ends, CloseEvents(e)
        PROVE  ~ AllUp'
    <2>1. ~ AllUp
      BY <1>3 DEF CloseEvents, Up
    <2>2. \A d \in Ends : status'[d] = status[d] \/ status'[d] = "panicked"
      BY <1>3 DEF CloseEvents, TypeOK, ControlTypes
    <2>3. stop' = stop
      BY <1>3 DEF CloseEvents
    <2>. QED  BY <2>1, <2>2, <2>3 DEF AllUp, Running
  <1>4. AllUp' => Alive
    BY <1>1, <1>2, <1>3 DEF Next, Alive
  <1>5. ASSUME Alive
        PROVE  /\ UNCHANGED <<stop, status, listening>>
               /\ \A d \in Ends : reception'[d] = "quit" => reception[d] = "quit"
    <2>1. ASSUME NEW t \in Threads, NEW tag \in CallTags, Send(t, tag)
          PROVE  UNCHANGED <<stop, status, listening, reception>>
      BY <2>1 DEF Send, queueVars, receptionVars
    <2>2. ASSUME NEW t \in Threads, Timeout(t)
          PROVE  UNCHANGED <<stop, status, listening, reception>>
      BY <2>2 DEF Timeout, queueVars, receptionVars
    <2>3. ASSUME NEW e \in Ends, \/ \E tag \in CastTags : SendNoResponse(e, tag)
                                 \/ \E tag \in Tags : RegisterCallback(e, tag)
                                 \/ Dispatch(e) \/ Reply(e)
          PROVE  UNCHANGED <<stop, status, listening, reception>>
      BY <2>3 DEF SendNoResponse, RegisterCallback, Dispatch, Reply, queueVars,
         receptionVars
    <2>4. ASSUME NEW e \in Ends, ProcessRequest(e)
          PROVE  /\ UNCHANGED <<stop, status, listening>>
                 /\ \A d \in Ends : reception'[d] \in {reception[d], "callback"}
      BY <2>4 DEF ProcessRequest, TakeEvent, receptionVars, TypeOK, ReceptionTypes
    <2>5. ASSUME NEW e \in Ends, ProcessResponse(e)
          PROVE  /\ UNCHANGED <<stop, status, listening>>
                 /\ \A d \in Ends : reception'[d] \in {reception[d], "blocked"}
      BY <2>5 DEF ProcessResponse, TakeEvent, TypeOK, ReceptionTypes
    <2>6. ASSUME NEW e \in Ends, Return(e)
          PROVE  /\ UNCHANGED <<stop, status, listening>>
                 /\ \A d \in Ends : reception'[d] \in {reception[d], "select"}
      BY <2>6 DEF Return, queueVars, TypeOK, ReceptionTypes
    <2>7. ASSUME NEW e \in Ends, ErrorEvent(e)
          PROVE  /\ UNCHANGED <<stop, status, listening>>
                 /\ \A d \in Ends : reception'[d] \in {reception[d], "thrown"}
      BY <2>7 DEF ErrorEvent, queueVars, TypeOK, ReceptionTypes
    <2>8. CASE UNCHANGED vars
      BY <2>8 DEF vars
    <2>. QED  BY <1>5, <2>1, <2>2, <2>3, <2>4, <2>5, <2>6, <2>7, <2>8 DEF Alive
  <1>6. AllUp' => AllUp
    BY <1>4, <1>5 DEF AllUp, Running
  <1>7. Up'
    BY <1>4, <1>5, <1>6 DEF Up
  <1>. QED  BY <1>4, <1>6, <1>7

LEMMA PopExactly ==
    ASSUME NEW S, NEW s \in Seq(S), s # <<>>
    PROVE  Elements(s) = {Head(s)} \cup Elements(Tail(s))
  <1>1. /\ Head(s) = s[1]
        /\ Len(s) \in Nat /\ Len(s) > 0
        /\ Len(Tail(s)) = Len(s) - 1
        /\ \A i \in 1..Len(Tail(s)) : Tail(s)[i] = s[i + 1]
    OBVIOUS
  <1>2. ASSUME NEW i \in 1..Len(s), i # 1
        PROVE  s[i] \in Elements(Tail(s))
    <2>1. i - 1 \in 1..Len(Tail(s)) /\ Tail(s)[i - 1] = s[i]
      BY <1>1, <1>2
    <2>. QED  BY <2>1 DEF Elements
  <1>3. Elements(s) \subseteq {Head(s)} \cup Elements(Tail(s))
    BY <1>1, <1>2 DEF Elements
  <1>. QED  BY <1>3, PopElements

\* A post adds to the queue of an end that listens.
LEMMA PostKeeps ==
    ASSUME TypeOK, NEW e \in Ends, NEW m \in Message, Post(e, m), UNCHANGED backlog
    PROVE  /\ \A d \in Ends : Queued(d) \subseteq Queued(d)'
           /\ Running(Peer(e)) /\ listening[Peer(e)] => m \in Queued(Peer(e))'
  <1>1. Peer(e) \in Ends /\ port[Peer(e)] \in Seq(Message)
    BY PeerEnd DEF TypeOK, QueueTypes
  <1>2. Elements(Append(port[Peer(e)], m)) = Elements(port[Peer(e)]) \cup {m}
    BY <1>1, AppendElements
  <1>3. \A d \in Ends : d # Peer(e) => port'[d] = port[d]
    BY <1>1 DEF Post, TypeOK, QueueTypes
  <1>4. port'[Peer(e)] = IF Running(Peer(e)) /\ listening[Peer(e)]
                           THEN Append(port[Peer(e)], m) ELSE port[Peer(e)]
    BY <1>1 DEF Post, TypeOK, QueueTypes
  <1>. QED  BY <1>2, <1>3, <1>4 DEF Queued

LEMMA TakeKeeps ==
    ASSUME TypeOK, NEW e \in Ends, TakeEvent(e), NEW d \in Ends, NEW m \in Queued(d)
    PROVE  m \in Queued(d)' \/ (d = e /\ m = NextEvent(e))
  <1>1. CASE /\ backlog[e] # <<>>
             /\ backlog' = [backlog EXCEPT ![e] = NextParked(@).rest]
             /\ UNCHANGED port
    <2>1. Elements(backlog[e]) = {NextEvent(e)} \cup Elements(Tail(backlog[e]))
      BY <1>1, PopExactly DEF TypeOK, QueueTypes, NextEvent, NextParked
    <2>2. /\ backlog'[e] = Tail(backlog[e])
          /\ \A o \in Ends : o # e => backlog'[o] = backlog[o]
      BY <1>1 DEF TypeOK, QueueTypes, NextParked
    <2>. QED  BY <1>1, <2>1, <2>2 DEF Queued
  <1>2. CASE /\ backlog[e] = <<>>
             /\ port[e] # <<>>
             /\ port' = [port EXCEPT ![e] = Tail(@)]
             /\ UNCHANGED backlog
    <2>1. Elements(port[e]) = {NextEvent(e)} \cup Elements(Tail(port[e]))
      BY <1>2, PopExactly DEF TypeOK, QueueTypes, NextEvent
    <2>2. /\ port'[e] = Tail(port[e])
          /\ \A o \in Ends : o # e => port'[o] = port[o]
      BY <1>2 DEF TypeOK, QueueTypes
    <2>. QED  BY <1>2, <2>1, <2>2 DEF Queued
  <1>. QED  BY <1>1, <1>2 DEF TakeEvent

\* As long as both ends live, a message leaves a queue only for messageReception.
LEMMA QueueKeeps ==
    ASSUME TypeOK, CurrentOK, Alive, NEW d \in Ends, NEW m \in Queued(d)
    PROVE  \/ m \in Queued(d)'
           \/ /\ m = NextEvent(d)
              /\ ProcessRequest(d) \/ ProcessResponse(d)
  <1>1. ASSUME NEW t \in Threads, NEW tag \in CallTags, Send(t, tag)
        PROVE  m \in Queued(d)'
    <2>0. Home[t] \in Ends
      BY ThreadsAssumption
    <2>1. Home[t] \in Ends /\ UNCHANGED backlog
      BY <1>1, <2>0 DEF Send
    <2>2. Request(tag, responseIDs[Home[t]][tag], posts[Home[t]]) \in Message
      BY <2>1 DEF Request, Message, Tags, TypeOK, SendTypes, HistoryTypes
    <2>3. CASE UNCHANGED port
      BY <2>1, <2>3 DEF Queued
    <2>. QED  BY <1>1, <2>1, <2>2, <2>3, PostKeeps DEF Send
  <1>2. ASSUME NEW e \in Ends, NEW tag \in CastTags, SendNoResponse(e, tag)
        PROVE  m \in Queued(d)'
    <2>1. Request(tag, initID, posts[e]) \in Message
      BY DEF Request, Message, Tags, initID, TypeOK, HistoryTypes
    <2>. QED  BY <1>2, <2>1, PostKeeps DEF SendNoResponse
  <1>3. ASSUME NEW e \in Ends, Dispatch(e)
        PROVE  m \in Queued(d)'
    <2>1. port[e] # <<>> /\ port[e] \in Seq(Message) /\ backlog[e] \in Seq(Message)
      BY <1>3 DEF Dispatch, TypeOK, QueueTypes
    <2>2. /\ Elements(port[e]) = {Head(port[e])} \cup Elements(Tail(port[e]))
          /\ Head(port[e]) \in Message
      BY <2>1, PopExactly, PopElements
    <2>3. Elements(Append(backlog[e], Head(port[e]))) =
             Elements(backlog[e]) \cup {Head(port[e])}
      BY <2>1, <2>2, AppendElements
    <2>4. /\ backlog'[e] = Append(backlog[e], Head(port[e]))
          /\ port'[e] = Tail(port[e])
          /\ \A o \in Ends : o # e => backlog'[o] = backlog[o] /\ port'[o] = port[o]
      BY <1>3 DEF Dispatch, TypeOK, QueueTypes
    <2>. QED  BY <2>2, <2>3, <2>4 DEF Queued
  <1>4. ASSUME NEW e \in Ends, ProcessRequest(e) \/ ProcessResponse(e)
        PROVE  \/ m \in Queued(d)'
               \/ /\ m = NextEvent(d)
                  /\ ProcessRequest(d) \/ ProcessResponse(d)
    BY <1>4, TakeKeeps DEF ProcessRequest, ProcessResponse
  <1>5. ASSUME NEW e \in Ends, Reply(e)
        PROVE  m \in Queued(d)'
    <2>1. [current[e] EXCEPT !.response = TRUE] \in Message
      BY <1>5 DEF CurrentOK, Reply, Message
    <2>. QED  BY <1>5, <2>1, PostKeeps DEF Reply
  <1>6. ASSUME UNCHANGED <<port, backlog>>
        PROVE  m \in Queued(d)'
    BY <1>6 DEF Queued
  <1>7. ASSUME NEW e \in Ends, \/ Return(e) \/ ErrorEvent(e)
                               \/ \E tag \in Tags : RegisterCallback(e, tag)
        PROVE  UNCHANGED <<port, backlog>>
    BY <1>7 DEF Return, ErrorEvent, RegisterCallback, queueVars
  <1>8. ASSUME UNCHANGED vars \/ \E t \in Threads : Timeout(t)
        PROVE  UNCHANGED <<port, backlog>>
    BY <1>8 DEF vars, Timeout, queueVars
  <1>. QED
    BY <1>1, <1>2, <1>3, <1>4, <1>5, <1>6, <1>7, <1>8 DEF Alive

\* A callback that runs goes on, or returns.
LEMMA CurrentKeeps ==
    ASSUME TypeOK, Alive, NEW d \in Ends, reception[d] = "callback"
    PROVE  \/ reception'[d] = "callback" /\ current'[d] = current[d]
           \/ Return(d)
  <1>1. ASSUME NEW e \in Ends, ProcessRequest(e) \/ ProcessResponse(e)
        PROVE  reception'[d] = reception[d] /\ current'[d] = current[d]
    <2>1. e # d
      BY <1>1 DEF ProcessRequest, ProcessResponse, TakeEvent, InSelect
    <2>. QED
      BY <1>1, <2>1 DEF ProcessRequest, ProcessResponse, receptionVars, TypeOK,
         ReceptionTypes
  <1>2. ASSUME NEW e \in Ends, (Return(e) /\ e # d) \/ ErrorEvent(e)
        PROVE  reception'[d] = reception[d] /\ current'[d] = current[d]
    BY <1>2 DEF Return, ErrorEvent, TypeOK, ReceptionTypes
  <1>3. ASSUME NEW e \in Ends, \/ \E tag \in CastTags : SendNoResponse(e, tag)
                               \/ \E tag \in Tags : RegisterCallback(e, tag)
                               \/ Dispatch(e) \/ Reply(e)
        PROVE  UNCHANGED <<reception, current>>
    BY <1>3 DEF SendNoResponse, RegisterCallback, Dispatch, Reply, receptionVars
  <1>4. ASSUME NEW t \in Threads, Timeout(t) \/ \E tag \in CallTags : Send(t, tag)
        PROVE  UNCHANGED <<reception, current>>
    BY <1>4 DEF Send, Timeout, receptionVars
  <1>5. CASE UNCHANGED vars
    BY <1>5 DEF vars
  <1>. QED  BY <1>1, <1>2, <1>3, <1>4, <1>5 DEF Alive

\* The number of a message identifies its request, and with it the callback.
Numbered ==
    \A e \in Ends : \A m \in About(e) :
        /\ m.data < posts[e]
        /\ \A c \in senderCallbacks[e] :
              c.call = m.data => c.tag = m.tag /\ c.id = m.id

\* Send and SendNoResponse give their requests numbers of their own.
LEMMA NumberedPost ==
    ASSUME TypeOK, TypeOK', CurrentOK, Numbered, NEW e \in Ends, NEW m \in Message,
           ~ m.response, m.data = posts[e],
           posts' = [posts EXCEPT ![e] = @ + 1],
           UNCHANGED <<backlog, reception, current>>,
           Post(e, m) \/ UNCHANGED port,
           \A d \in Ends : \A c \in senderCallbacks'[d] :
              \/ c \in senderCallbacks[d] /\ c.call < posts[d]
              \/ d = e /\ c.call = posts[e] /\ c.tag = m.tag /\ c.id = m.id
    PROVE  Numbered'
  <1>1. At(e)' = At(e) /\ At(Peer(e))' \subseteq At(Peer(e)) \cup {m}
    <2>1. CASE Post(e, m)
      BY <2>1, PostAt
    <2>2. CASE UNCHANGED port
      BY <2>2 DEF At
    <2>. QED  BY <2>1, <2>2
  <1>2. /\ About(e)' \subseteq About(e) \cup {m}
        /\ About(Peer(e))' \subseteq About(Peer(e))
    BY <1>1, PeerEnd DEF About
  <1>3. \A d \in Ends : /\ posts[d] \in Nat
                        /\ posts'[d] = IF d = e THEN posts[e] + 1 ELSE posts[d]
    BY DEF TypeOK, HistoryTypes
  <1>4. ASSUME NEW d \in Ends, NEW n \in About(d)'
        PROVE  /\ n.data < posts'[d]
               /\ \A c \in senderCallbacks'[d] :
                     c.call = n.data => c.tag = n.tag /\ c.id = n.id
    <2>1. CASE n \in About(d)
      <3>1. n \in Message
        BY <2>1, AtType, PeerEnd DEF About
      <3>2. n.data \in Nat /\ n.data < posts[d]
        BY <2>1, <3>1 DEF Numbered, Message
      <3>3. \A c \in senderCallbacks[d] :
               c.call = n.data => c.tag = n.tag /\ c.id = n.id
        BY <2>1 DEF Numbered
      <3>4. n.data < posts'[d] /\ n.data # posts[d]
        BY <1>3, <3>2
      <3>. QED  BY <3>3, <3>4
    <2>2. CASE n = m /\ d = e
      <3>1. n.data < posts'[d] /\ \A c : c < posts[d] => c # n.data
        BY <1>3, <2>2
      <3>. QED  BY <2>2, <3>1
    <2>. QED  BY <1>2, <2>1, <2>2, PeerEnd
  <1>. QED  BY <1>4 DEF Numbered

LEMMA NumberedQuiet ==
    ASSUME Numbered, UNCHANGED posts,
           \A d \in Ends : senderCallbacks'[d] \subseteq senderCallbacks[d],
           \A d \in Ends : \A m \in About(d)' :
               \E n \in About(d) : n.tag = m.tag /\ n.id = m.id /\ n.data = m.data
    PROVE  Numbered'
  BY DEF Numbered

LEMMA NumberedStep ==
    ASSUME TypeOK, TypeOK', CurrentOK, MatchingInv, Numbered, [Next]_vars
    PROVE  Numbered'
  <1>0. \A d \in Ends : \A c \in senderCallbacks[d] : c.call < posts[d]
    BY DEF MatchingInv, CallbacksIssued
  <1>1. ASSUME NEW t \in Threads, NEW tag \in CallTags, Send(t, tag)
        PROVE  Numbered'
    <2>. DEFINE e == Home[t]
                id == responseIDs[e][tag]
                req == Request(tag, id, posts[e])
    <2>1. e \in Ends /\ tag \in Tags
      BY ThreadsAssumption DEF Tags
    <2>2. /\ req \in Message /\ ~ req.response /\ req.data = posts[e]
          /\ req.tag = tag /\ req.id = id
      BY <2>1 DEF Request, Message, TypeOK, SendTypes, HistoryTypes
    <2>3. /\ posts' = [posts EXCEPT ![e] = @ + 1]
          /\ UNCHANGED <<backlog, reception, current>>
          /\ Post(e, req) \/ UNCHANGED port
      BY <1>1 DEF Send, receptionVars
    <2>4. \A d \in Ends : \A c \in senderCallbacks'[d] :
             \/ c \in senderCallbacks[d] /\ c.call < posts[d]
             \/ d = e /\ c.call = posts[e] /\ c.tag = req.tag /\ c.id = req.id
      <3>1. senderCallbacks' =
               [senderCallbacks EXCEPT ![e] = Registered(e, tag, id, posts[e])]
        BY <1>1 DEF Send
      <3>. QED  BY <1>0, <2>1, <2>2, <3>1 DEF Registered, TypeOK, SendTypes
    <2>. HIDE DEF e, id, req
    <2>. QED  BY <2>1, <2>2, <2>3, <2>4, NumberedPost
  <1>2. ASSUME NEW e \in Ends, NEW tag \in CastTags, SendNoResponse(e, tag)
        PROVE  Numbered'
    <2>. DEFINE req == Request(tag, initID, posts[e])
    <2>1. req \in Message /\ ~ req.response /\ req.data = posts[e]
      BY DEF Request, Message, Tags, initID, TypeOK, HistoryTypes
    <2>2. /\ posts' = [posts EXCEPT ![e] = @ + 1]
          /\ UNCHANGED <<backlog, reception, current, senderCallbacks>>
          /\ Post(e, req)
      BY <1>2 DEF SendNoResponse, receptionVars, sendVars
    <2>. HIDE DEF req
    <2>. QED  BY <1>0, <2>1, <2>2, NumberedPost
  <1>3. ASSUME NEW e \in Ends, Reply(e)
        PROVE  Numbered'
    <2>1. UNCHANGED <<posts, senderCallbacks>>
      BY <1>3 DEF Reply, sendVars
    <2>. QED  BY <1>3, <2>1, ReplyAbout, NumberedQuiet
  <1>4. ASSUME NEW e \in Ends,
               \/ Dispatch(e) \/ ProcessRequest(e) \/ ProcessResponse(e)
               \/ Return(e) \/ Quit(e) \/ ErrorEvent(e)
               \/ CloseEvents(e) \/ StopReturns(e) \/ Stop(e) \/ Crash
               \/ \E tag \in Tags : RegisterCallback(e, tag)
               \/ \E t \in Threads : Timeout(t)
               \/ UNCHANGED vars
        PROVE  Numbered'
    <2>1. \A d \in Ends : senderCallbacks'[d] \subseteq senderCallbacks[d]
      <3>1. CASE ProcessResponse(e)
        BY <3>1 DEF ProcessResponse, Without, TypeOK, SendTypes
      <3>2. CASE UNCHANGED senderCallbacks
        BY <3>2
      <3>. QED
        BY <1>4, <3>1, <3>2 DEF Dispatch, ProcessRequest, Return, Quit, ErrorEvent, CloseEvents,
           StopReturns, Stop, Crash, RegisterCallback, Timeout, vars, sendVars
    <2>2. UNCHANGED posts /\ \A d \in Ends : About(d)' \subseteq About(d)
      BY <1>4, ShrinkAt
    <2>. QED  BY <2>1, <2>2, NumberedQuiet
  <1>5. Main \in Ends
    BY DEF Ends
  <1>. QED  BY <1>1, <1>2, <1>3, <1>4, <1>5 DEF Next

\* An answer wakes the Send that waits for it.
LEMMA ResponseAnswers ==
    ASSUME TypeOK, MatchingInv, Numbered,
           NEW e \in Ends, ProcessResponse(e),
           NEW t \in Threads, Home[t] = e, pc[t] = "waiting",
           NextEvent(e).data = call[t]
    PROVE  pc'[t] = "answered" /\ answer'[t] = call[t]
  <1>. DEFINE m == NextEvent(e)
              C == CallbackOf(e, m)
              W == WaitingFor(e, C)
  <1>1. m \in About(e)
    BY TakeEventAt DEF ProcessResponse, About, At
  <1>2. PICK c \in senderCallbacks[e] : c.call = call[t]
    BY DEF MatchingInv, WaitingHasCallback
  <1>3. c \in C
    BY <1>1, <1>2 DEF Numbered, CallbackOf
  <1>4. t \in W
    BY <1>2, <1>3 DEF WaitingFor
  <1>. QED  BY <1>4 DEF ProcessResponse

\* A Send goes on waiting for its request unless it gets an answer or gives up.
LEMMA WaitingKeeps ==
    ASSUME TypeOK, Alive, NEW t \in Threads, pc[t] = "waiting"
    PROVE  \/ pc'[t] = "waiting" /\ call'[t] = call[t]
           \/ "timeout" \in Faults /\ pc'[t] = "failed"
           \/ ProcessResponse(Home[t]) /\ pc'[t] = "answered"
  <1>1. ASSUME NEW u \in Threads, NEW tag \in CallTags, Send(u, tag)
        PROVE  pc'[t] = "waiting" /\ call'[t] = call[t]
    <2>1. u # t
      BY <1>1 DEF Send
    <2>2. /\ \/ pc' = [pc EXCEPT ![u] = "waiting"]
             \/ pc' = [pc EXCEPT ![u] = "failed"]
          /\ call' = [call EXCEPT ![u] = posts[Home[u]]]
      BY <1>1 DEF Send
    <2>. QED  BY <2>1, <2>2 DEF TypeOK, SendTypes
  <1>2. ASSUME NEW u \in Threads, Timeout(u)
        PROVE  \/ pc'[t] = "waiting" /\ call'[t] = call[t]
               \/ "timeout" \in Faults /\ pc'[t] = "failed"
    BY <1>2 DEF Timeout, TypeOK, SendTypes
  <1>3. ASSUME NEW e \in Ends, ProcessResponse(e)
        PROVE  \/ pc'[t] = "waiting" /\ call'[t] = call[t]
               \/ ProcessResponse(Home[t]) /\ pc'[t] = "answered"
    <2>1. /\ pc'[t] \in {pc[t], "answered"}
          /\ pc'[t] # pc[t] => Home[t] = e
          /\ call' = call
      BY <1>3 DEF ProcessResponse, WaitingFor
    <2>. QED  BY <1>3, <2>1
  <1>4. ASSUME NEW e \in Ends, \/ \E tag \in CastTags : SendNoResponse(e, tag)
                               \/ \E tag \in Tags : RegisterCallback(e, tag)
                               \/ Dispatch(e) \/ ProcessRequest(e)
                               \/ Reply(e) \/ Return(e) \/ ErrorEvent(e)
        PROVE  UNCHANGED <<pc, call>>
    BY <1>4 DEF SendNoResponse, RegisterCallback, Dispatch, ProcessRequest, Reply,
       Return, ErrorEvent, sendVars
  <1>5. UNCHANGED vars => UNCHANGED <<pc, call>>
    BY DEF vars
  <1>. QED  BY <1>1, <1>2, <1>3, <1>4, <1>5 DEF Alive

AnswerUnderWay(e, n) == \E m \in Queued(e) : m.response /\ m.data = n

\* What a callback has replied is under way, as long as its Send waits for it.
Replied ==
    AllUp => \A e \in Ends : \A t \in Threads :
        /\ reception[e] = "callback" /\ replies[e] > 0
        /\ Home[t] = Peer(e) /\ pc[t] = "waiting" /\ call[t] = current[e].data
        => AnswerUnderWay(Peer(e), call[t])

\* An answer under way gets to its Send.
LEMMA AnswerKeeps ==
    ASSUME TypeOK, TypeOK', CurrentOK, MatchingInv, Numbered, Alive,
           NEW t \in Threads, pc[t] = "waiting",
           AnswerUnderWay(Home[t], call[t])
    PROVE  \/ AnswerUnderWay(Home[t], call[t])'
           \/ pc'[t] = "answered" /\ answer'[t] = call[t]
           \/ "timeout" \in Faults /\ pc'[t] = "failed"
  <1>. DEFINE e == Home[t]
  <1>0. e \in Ends
    BY ThreadsAssumption
  <1>1. PICK m \in Queued(e) : m.response /\ m.data = call[t]
    BY DEF AnswerUnderWay
  <1>2. CASE m = NextEvent(e) /\ (ProcessRequest(e) \/ ProcessResponse(e))
    <2>1. ProcessResponse(e)
      BY <1>1, <1>2 DEF ProcessRequest
    <2>. QED  BY <1>0, <1>1, <1>2, <2>1, ResponseAnswers
  <1>3. CASE m \in Queued(e)'
    <2>1. CASE ProcessResponse(e) /\ pc'[t] = "answered"
      <3>1. MatchingInv' /\ call' = call
        BY <1>0, <2>1, ResponseMatching DEF ProcessResponse
      <3>. QED  BY <2>1, <3>1 DEF MatchingInv, AnswerMatchesRequest
    <2>2. CASE pc'[t] = "waiting" /\ call'[t] = call[t]
      BY <1>1, <1>3, <2>2 DEF AnswerUnderWay
    <2>. QED  BY <2>1, <2>2, WaitingKeeps
  <1>. QED  BY <1>0, <1>1, <1>2, <1>3, QueueKeeps

LEMMA RepliesKeep ==
    ASSUME TypeOK, Alive, NEW e \in Ends, ~ Reply(e),
           reception'[e] = "callback", replies'[e] > 0
    PROVE  reception[e] = "callback" /\ current'[e] = current[e] /\ replies[e] > 0
  <1>1. ASSUME NEW d \in Ends, ProcessRequest(d)
        PROVE  /\ reception'[e] = reception[e] /\ current'[e] = current[e]
               /\ replies'[e] = replies[e]
    <2>1. CASE NextEvent(d).tag \notin receiverCallbacks[d]
      BY <1>1, <2>1 DEF ProcessRequest, receptionVars
    <2>2. CASE NextEvent(d).tag \in receiverCallbacks[d]
      <3>1. /\ reception' = [reception EXCEPT ![d] = "callback"]
            /\ current' = [current EXCEPT ![d] = NextEvent(d)]
            /\ replies' = [replies EXCEPT ![d] = 0]
        BY <1>1, <2>2 DEF ProcessRequest
      <3>2. d # e
        BY <3>1 DEF TypeOK, ReceptionTypes
      <3>. QED  BY <3>1, <3>2 DEF TypeOK, ReceptionTypes
    <2>. QED  BY <2>1, <2>2
  <1>2. ASSUME NEW d \in Ends, ProcessResponse(d)
        PROVE  /\ reception'[e] = reception[e] /\ current'[e] = current[e]
               /\ replies' = replies
    <2>1. d # e
      BY <1>2 DEF ProcessResponse, TakeEvent, InSelect, TypeOK, ReceptionTypes
    <2>. QED  BY <1>2, <2>1 DEF ProcessResponse, TypeOK, ReceptionTypes
  <1>3. ASSUME NEW d \in Ends, Reply(d) \/ Return(d) \/ ErrorEvent(d)
        PROVE  /\ reception'[e] = reception[e] /\ current'[e] = current[e]
               /\ replies'[e] = replies[e]
    <2>1. d # e
      BY <1>3 DEF Return, ErrorEvent, TypeOK, ReceptionTypes
    <2>. QED  BY <1>3, <2>1 DEF Reply, Return, ErrorEvent, TypeOK, ReceptionTypes
  <1>4. ASSUME NEW d \in Ends, \/ \E tag \in CastTags : SendNoResponse(d, tag)
                               \/ \E tag \in Tags : RegisterCallback(d, tag)
                               \/ Dispatch(d)
        PROVE  UNCHANGED receptionVars
    BY <1>4 DEF SendNoResponse, RegisterCallback, Dispatch, receptionVars
  <1>5. ASSUME NEW u \in Threads, Timeout(u) \/ \E tag \in CallTags : Send(u, tag)
        PROVE  UNCHANGED receptionVars
    BY <1>5 DEF Send, Timeout, receptionVars
  <1>6. UNCHANGED vars => UNCHANGED receptionVars
    BY DEF vars, receptionVars
  <1>. QED  BY <1>1, <1>2, <1>3, <1>4, <1>5, <1>6 DEF Alive, receptionVars

\* A Send that waits has waited before, or posts its request in this step.
LEMMA WaitingBefore ==
    ASSUME TypeOK, Alive, NEW t \in Threads, pc'[t] = "waiting"
    PROVE  \/ pc[t] = "waiting" /\ call'[t] = call[t]
           \/ call'[t] = posts[Home[t]] /\ UNCHANGED receptionVars
  <1>1. ASSUME NEW u \in Threads, NEW tag \in CallTags, Send(u, tag)
        PROVE  \/ pc[t] = "waiting" /\ call'[t] = call[t]
               \/ call'[t] = posts[Home[t]] /\ UNCHANGED receptionVars
    <2>1. /\ \/ pc' = [pc EXCEPT ![u] = "waiting"]
             \/ pc' = [pc EXCEPT ![u] = "failed"]
          /\ call' = [call EXCEPT ![u] = posts[Home[u]]]
          /\ UNCHANGED receptionVars
      BY <1>1 DEF Send
    <2>. QED  BY <2>1 DEF TypeOK, SendTypes
  <1>2. ASSUME NEW u \in Threads, Timeout(u)
        PROVE  pc[t] = "waiting" /\ call'[t] = call[t]
    BY <1>2 DEF Timeout, TypeOK, SendTypes
  <1>3. ASSUME NEW e \in Ends, ProcessResponse(e)
        PROVE  pc[t] = "waiting" /\ call'[t] = call[t]
    BY <1>3 DEF ProcessResponse
  <1>4. ASSUME NEW e \in Ends, \/ \E tag \in CastTags : SendNoResponse(e, tag)
                               \/ \E tag \in Tags : RegisterCallback(e, tag)
                               \/ Dispatch(e) \/ ProcessRequest(e)
                               \/ Reply(e) \/ Return(e) \/ ErrorEvent(e)
        PROVE  UNCHANGED <<pc, call>>
    BY <1>4 DEF SendNoResponse, RegisterCallback, Dispatch, ProcessRequest, Reply,
       Return, ErrorEvent, sendVars
  <1>5. UNCHANGED vars => UNCHANGED <<pc, call>>
    BY DEF vars
  <1>. QED  BY <1>1, <1>2, <1>3, <1>4, <1>5 DEF Alive

LEMMA RepliedStep ==
    ASSUME TypeOK, TypeOK', CurrentOK, MatchingInv, Numbered, Up, Replied, [Next]_vars
    PROVE  Replied'
  <1>. SUFFICES ASSUME AllUp', NEW e \in Ends, NEW t \in Threads,
                       reception'[e] = "callback", replies'[e] > 0,
                       Home[t] = Peer(e), pc'[t] = "waiting",
                       call'[t] = current'[e].data
                PROVE  AnswerUnderWay(Peer(e), call[t])'
    BY DEF Replied
  <1>1. AllUp /\ Alive
    BY AliveStep
  <1>2. CASE Reply(e)
    <2>. DEFINE r == [current[e] EXCEPT !.response = TRUE]
    <2>1. r \in Message /\ r.response /\ r.data = current[e].data
      BY <1>2 DEF CurrentOK, Reply, Message
    <2>2. Running(Peer(e)) /\ listening[Peer(e)]
      BY <1>1, PeerEnd DEF AllUp, Up
    <2>3. r \in Queued(Peer(e))'
      BY <1>2, <2>1, <2>2, PostKeeps DEF Reply
    <2>4. current' = current
      BY <1>2 DEF Reply
    <2>. QED  BY <2>1, <2>3, <2>4 DEF AnswerUnderWay
  <1>3. CASE ~ Reply(e)
    <2>1. reception[e] = "callback" /\ current'[e] = current[e] /\ replies[e] > 0
      BY <1>1, <1>3, RepliesKeep
    <2>2. current[e].data < posts[Home[t]] /\ current[e].data \in Nat
      <3>1. current[e] \in About(Home[t])
        BY <2>1, PeerEnd DEF About, At, CurrentOK
      <3>. QED  BY <2>1, <3>1, ThreadsAssumption DEF Numbered, CurrentOK, Message
    <2>3. pc[t] = "waiting" /\ call'[t] = call[t]
      <3>1. call'[t] # posts[Home[t]]
        BY <2>1, <2>2
      <3>. QED  BY <1>1, <3>1, WaitingBefore
    <2>4. AnswerUnderWay(Home[t], call[t])
      BY <1>1, <2>1, <2>3 DEF Replied
    <2>. QED  BY <1>1, <2>3, <2>4, AnswerKeeps
  <1>. QED  BY <1>2, <1>3

\* Somebody is at work on the answer to t: its request is queued at an end
\* with a callback for its tag, or its callback runs, or its answer is queued.
AtWork(t) ==
    /\ pc[t] = "waiting"
    /\ \/ Reaches(t, Peer(Home[t]))
       \/ /\ reception[Peer(Home[t])] = "callback"
          /\ current[Peer(Home[t])].data = call[t]
       \/ AnswerUnderWay(Home[t], call[t])

\* The callback of its request returns without having replied.
LeftSilently(t) ==
    /\ "silence" \in Faults
    /\ Return(Peer(Home[t]))
    /\ current[Peer(Home[t])].data = call[t]
    /\ replies[Peer(Home[t])] = 0

LEMMA ElementsDomain ==
    ASSUME NEW S, NEW s \in Seq(S)
    PROVE  Elements(s) = {s[i] : i \in DOMAIN s}
  BY DEF Elements

LEMMA CallbacksKept ==
    ASSUME TypeOK, Alive, NEW e \in Ends
    PROVE  receiverCallbacks[e] \subseteq receiverCallbacks'[e]
  <1>1. ASSUME NEW d \in Ends, NEW tag \in Tags, RegisterCallback(d, tag)
        PROVE  receiverCallbacks[e] \subseteq receiverCallbacks'[e]
    BY <1>1 DEF RegisterCallback, TypeOK, ControlTypes
  <1>2. ASSUME NEW d \in Ends, \/ \E tag \in CastTags : SendNoResponse(d, tag)
                               \/ Dispatch(d) \/ ProcessRequest(d)
                               \/ ProcessResponse(d)
                               \/ Reply(d) \/ Return(d) \/ ErrorEvent(d)
        PROVE  UNCHANGED receiverCallbacks
    BY <1>2 DEF SendNoResponse, Dispatch, ProcessRequest, ProcessResponse, Reply, Return,
       ErrorEvent
  <1>3. ASSUME NEW u \in Threads, Timeout(u) \/ \E tag \in CallTags : Send(u, tag)
        PROVE  UNCHANGED receiverCallbacks
    BY <1>3 DEF Send, Timeout
  <1>4. UNCHANGED vars => UNCHANGED receiverCallbacks
    BY DEF vars
  <1>. QED  BY <1>1, <1>2, <1>3, <1>4 DEF Alive

LEMMA AtWorkStep ==
    ASSUME TypeOK, TypeOK', CurrentOK, MatchingInv, Numbered, Up, Replied,
           [Next]_vars, NEW t \in Threads, AtWork(t)
    PROVE  \/ AtWork(t)'
           \/ pc'[t] = "answered" /\ answer'[t] = call[t]
           \/ "timeout" \in Faults /\ pc'[t] = "failed"
           \/ LeftSilently(t)
           \/ ~ AllUp'
  <1>. SUFFICES ASSUME AllUp'
                PROVE  \/ AtWork(t)'
                       \/ pc'[t] = "answered" /\ answer'[t] = call[t]
                       \/ "timeout" \in Faults /\ pc'[t] = "failed"
                       \/ LeftSilently(t)
    OBVIOUS
  <1>. DEFINE h == Home[t]
              p == Peer(h)
  <1>0. h \in Ends /\ p \in Ends /\ pc[t] = "waiting"
    BY ThreadsAssumption, PeerEnd DEF AtWork
  <1>1. AllUp /\ Alive
    BY AliveStep
  <1>2. CASE AnswerUnderWay(h, call[t])
    <2>1. CASE AnswerUnderWay(h, call[t])' /\ pc'[t] = "waiting"
      BY <2>1 DEF AtWork
    <2>2. CASE ProcessResponse(h) /\ pc'[t] = "answered"
      <3>1. MatchingInv' /\ call' = call
        BY <1>0, <2>2, ResponseMatching DEF ProcessResponse
      <3>. QED  BY <2>2, <3>1 DEF MatchingInv, AnswerMatchesRequest
    <2>. QED  BY <1>0, <1>1, <1>2, <2>1, <2>2, AnswerKeeps, WaitingKeeps
  <1>3. CASE pc'[t] # "waiting" \/ call'[t] # call[t]
    <2>1. CASE ProcessResponse(h) /\ pc'[t] = "answered"
      <3>1. MatchingInv' /\ call' = call
        BY <1>0, <2>1, ResponseMatching DEF ProcessResponse
      <3>. QED  BY <2>1, <3>1 DEF MatchingInv, AnswerMatchesRequest
    <2>. QED  BY <1>0, <1>1, <1>3, <2>1, WaitingKeeps
  <1>4. CASE Reaches(t, p) /\ pc'[t] = "waiting" /\ call'[t] = call[t]
    <2>1. PICK m \in Queued(p) :
             ~ m.response /\ m.data = call[t] /\ m.tag \in receiverCallbacks[p]
      <3>1. /\ Elements(port[p]) = {port[p][i] : i \in DOMAIN port[p]}
            /\ Elements(backlog[p]) = {backlog[p][i] : i \in DOMAIN backlog[p]}
        BY <1>0, ElementsDomain DEF TypeOK, QueueTypes
      <3>. QED  BY <1>4, <3>1 DEF Reaches, Queued
    <2>2. m.tag \in receiverCallbacks'[p]
      BY <1>0, <1>1, <2>1, CallbacksKept
    <2>3. CASE m \in Queued(p)'
      <3>1. /\ Elements(port'[p]) = {port'[p][i] : i \in DOMAIN port'[p]}
            /\ Elements(backlog'[p]) = {backlog'[p][i] : i \in DOMAIN backlog'[p]}
        BY <1>0, ElementsDomain DEF TypeOK, QueueTypes
      <3>2. Reaches(t, p)'
        BY <1>4, <2>1, <2>2, <2>3, <3>1 DEF Reaches, Queued
      <3>. QED  BY <1>4, <3>2 DEF AtWork
    <2>4. CASE m = NextEvent(p) /\ (ProcessRequest(p) \/ ProcessResponse(p))
      <3>1. ProcessRequest(p)
        BY <2>1, <2>4 DEF ProcessResponse
      <3>2. reception'[p] = "callback" /\ current'[p] = m
        BY <1>0, <2>1, <2>4, <3>1 DEF ProcessRequest, TypeOK, ReceptionTypes
      <3>. QED  BY <1>4, <2>1, <3>2 DEF AtWork
    <2>. QED  BY <1>0, <1>1, <2>3, <2>4, QueueKeeps
  <1>5. CASE /\ reception[p] = "callback" /\ current[p].data = call[t]
             /\ pc'[t] = "waiting" /\ call'[t] = call[t]
    <2>1. CASE reception'[p] = "callback" /\ current'[p] = current[p]
      BY <1>5, <2>1 DEF AtWork
    <2>2. CASE Return(p)
      <3>1. CASE replies[p] > 0
        <4>1. AnswerUnderWay(h, call[t])
          BY <1>0, <1>1, <1>5, <3>1, PeerEnd DEF Replied
        <4>. QED  BY <1>2, <4>1
      <3>2. CASE ~ replies[p] > 0
        <4>1. replies[p] = 0
          BY <1>0, <3>2 DEF TypeOK, ReceptionTypes
        <4>2. current[p].tag \in CallTags
          <5>1. current[p] \in About(h)
            BY <1>0, <1>5 DEF About, At, CurrentOK
          <5>2. PICK c \in senderCallbacks[h] : c.call = call[t]
            BY <1>0 DEF MatchingInv, WaitingHasCallback
          <5>3. c.tag = current[p].tag
            BY <1>0, <1>5, <5>1, <5>2 DEF Numbered
          <5>. QED  BY <1>0, <5>2, <5>3 DEF MatchingInv, CallbacksIssued
        <4>. QED  BY <1>5, <2>2, <3>2, <4>1, <4>2 DEF Return, LeftSilently
      <3>. QED  BY <3>1, <3>2
    <2>. QED  BY <1>0, <1>1, <1>5, <2>1, <2>2, CurrentKeeps
  <1>. QED  BY <1>2, <1>3, <1>4, <1>5 DEF AtWork

\* No request is forgotten: once it waits for an end that has a callback for
\* its tag, it is queued, or its callback runs, or its answer is queued, until
\* its Send returns that answer or times out - unless the callback itself never
\* replies, or one of the ends stops or dies.  The safety part of
\* ReachedIsAnswered.
THEOREM NoneForgotten ==
    ASSUME CallTags \cap CastTags = {}
    PROVE  Spec => [][\A t \in Threads : AtWork(t) =>
                         \/ AtWork(t)'
                         \/ pc'[t] = "answered" /\ answer'[t] = call[t]
                         \/ "timeout" \in Faults /\ pc'[t] = "failed"
                         \/ LeftSilently(t)
                         \/ ~ AllUp']_vars
  <1>. DEFINE IInv == TypeOK /\ CurrentOK /\ MatchingInv /\ Numbered /\ Up /\ Replied
              Step == \A t \in Threads : AtWork(t) =>
                         \/ AtWork(t)'
                         \/ pc'[t] = "answered" /\ answer'[t] = call[t]
                         \/ "timeout" \in Faults /\ pc'[t] = "failed"
                         \/ LeftSilently(t)
                         \/ ~ AllUp'
  <1>1. Init => IInv
    <2>. SUFFICES ASSUME Init
                  PROVE  IInv
      OBVIOUS
    <2>1. TypeOK /\ CurrentOK /\ MatchingInv
      BY InitMatching
    <2>2. \A e \in Ends : About(e) = {}
      BY EmptyElements, PeerEnd DEF Init, About, At
    <2>3. Numbered /\ Up /\ Replied
      BY <2>2 DEF Init, Numbered, Up, Replied
    <2>. QED  BY <2>1, <2>3
  <1>2. IInv /\ [Next]_vars => IInv'
    BY TypeStep, CurrentStep, MatchingStep, NumberedStep, AliveStep, RepliedStep
  <1>3. IInv /\ IInv' /\ [Next]_vars => [Step]_vars
    BY AtWorkStep
  <1>. HIDE DEF IInv, Step
  <1>. QED  BY <1>1, <1>2, <1>3, PTL DEF Spec, Step

=============================================================================
