----------------------------- MODULE RequestReply -----------------------------
(***************************************************************************)
(* What worker/ promises the callers of Send and SendNoResponse, without   *)
(* ports, queues, IDs or callbacks.  Every end numbers the requests it     *)
(* posts; the other end handles some of them, each at most once and in     *)
(* the order they were posted; a Send ends with an error or with the       *)
(* answer to its own request, which then has been handled.                 *)
(***************************************************************************)
EXTENDS Integers, Sequences

CONSTANTS Main, Remote, Threads, Home, MaxPosts

Ends == {Main, Remote}
Peer(e) == IF e = Main THEN Remote ELSE Main

VARIABLES
    posts,    \* how many requests an end has posted
    handled,  \* the numbers of the requests an end has handled, in order
    pc,       \* the state of the last Send of a goroutine
    call,     \* the number of its request
    answer    \* the number of the request it got the answer of

vars == <<posts, handled, pc, call, answer>>

Init ==
    /\ posts = [e \in Ends |-> 0]
    /\ handled = [e \in Ends |-> <<>>]
    /\ pc = [t \in Threads |-> "idle"]
    /\ call = [t \in Threads |-> 0]
    /\ answer = [t \in Threads |-> 0]

\* A Send posts its request and waits, or fails at once.
Call(t) ==
    /\ pc[t] # "waiting"
    /\ posts[Home[t]] < MaxPosts[Home[t]]
    /\ posts' = [posts EXCEPT ![Home[t]] = @ + 1]
    /\ call' = [call EXCEPT ![t] = posts[Home[t]]]
    /\ \E s \in {"waiting", "failed"} : pc' = [pc EXCEPT ![t] = s]
    /\ UNCHANGED <<handled, answer>>

\* A SendNoResponse.
Cast(e) ==
    /\ posts[e] < MaxPosts[e]
    /\ posts' = [posts EXCEPT ![e] = @ + 1]
    /\ UNCHANGED <<handled, pc, call, answer>>

\* An end handles a posted request that is newer than all it has handled.
Handle(e) ==
    /\ \E n \in 0..(posts[Peer(e)] - 1) :
          /\ \A i \in DOMAIN handled[e] : handled[e][i] < n
          /\ handled' = [handled EXCEPT ![e] = Append(@, n)]
    /\ UNCHANGED <<posts, pc, call, answer>>

\* A Send gets the answer to its request.
Answer(t) ==
    /\ pc[t] = "waiting"
    /\ \E i \in DOMAIN handled[Peer(Home[t])] :
          handled[Peer(Home[t])][i] = call[t]
    /\ pc' = [pc EXCEPT ![t] = "answered"]
    /\ answer' = [answer EXCEPT ![t] = call[t]]
    /\ UNCHANGED <<posts, handled, call>>

\* A Send gives up.
Fail(t) ==
    /\ pc[t] = "waiting"
    /\ pc' = [pc EXCEPT ![t] = "failed"]
    /\ UNCHANGED <<posts, handled, call, answer>>

Next ==
    \/ \E t \in Threads : Call(t) \/ Answer(t) \/ Fail(t)
    \/ \E e \in Ends : Cast(e) \/ Handle(e)

Spec == Init /\ [][Next]_vars

=============================================================================
