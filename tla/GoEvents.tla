------------------------------- MODULE GoEvents -------------------------------
(***************************************************************************)
(* wasm_exec.js, class Go: how the Go program and the Javascript event     *)
(* loop call each other.  Both share one thread, so that what runs is the  *)
(* top of one stack: Go runs in run() or in a resume() until all           *)
(* goroutines are idle, Javascript runs in a call from Go or, with an      *)
(* empty stack, in the event loop.  A Javascript call of a Go function     *)
(* passes its event in `_pendingEvent', a timeout comes without one.  What *)
(* Go does while it runs (runtime/lock_js.go, syscall/js) is external and  *)
(* left open.                                                              *)
(***************************************************************************)
EXTENDS Naturals, Sequences

CONSTANTS
    Events,     \* the calls of Go functions by Javascript
    MaxID,      \* the timeouts that Go schedules (bound)
    MaxDepth,   \* the frames of the stack (bound)
    None

ASSUME NoneAssumption == None \notin Events /\ None \notin Nat
ASSUME EventsAssumption == Events \cap Nat = {}
ASSUME BoundsAssumption == MaxID \in Nat /\ MaxDepth \in Nat \ {0}

VARIABLES
    stack,      \* the frames of Javascript and Go that have not returned
    pending,    \* _pendingEvent
    nextID,     \* _nextCallbackTimeoutID
    scheduled,  \* the keys of _scheduledTimeouts
    armed,      \* the timeouts that the browser has yet to fire
    exited,     \* exited
    resolved,   \* whether _exitPromise is resolved
    status,     \* history: how far each call of a Go function is
    lost,       \* history: timeouts whose callback an exception has left
    torn        \* an exception went through Go frames that then go on

vars == <<stack, pending, nextID, scheduled, armed, exited, resolved, status,
          lost, torn>>
timeouts == <<nextID, scheduled, armed, lost>>
ending == <<exited, resolved, torn>>

IDs == 1..MaxID

(* A frame of Go in run(), in the resume() of an event or of a timeout, or  *)
(* a frame of Javascript called by Go.  A resumed one has not looked at     *)
(* _pendingEvent yet.                                                       *)
Frame == [kind: {"run", "event", "timeout", "call"}, of: Events \cup IDs \cup {None},
          phase: {"resumed", "running"}, handles: Events \cup {None}]

Entry(kind, of, phase) ==
    [kind |-> kind, of |-> of, phase |-> phase, handles |-> None]

TypeOK ==
    /\ stack \in Seq(Frame)
    /\ pending \in Events \cup {None}
    /\ nextID \in 1..(MaxID + 1)
    /\ scheduled \in SUBSET IDs /\ armed \in SUBSET IDs /\ lost \in SUBSET IDs
    /\ exited \in BOOLEAN /\ resolved \in BOOLEAN /\ torn \in BOOLEAN
    /\ status \in [Events -> {"new", "called", "answered", "returned", "thrown"}]

(* The timeouts are numbered from 0.                                        *)
Init_fromZero ==
    /\ stack = <<Entry("run", None, "running")>>
    /\ pending = None /\ nextID = 0 /\ scheduled = {} /\ armed = {} /\ lost = {}
    /\ exited = FALSE /\ resolved = FALSE /\ torn = FALSE
    /\ status = [e \in Events |-> "new"]

(* run: the program starts.                                                 *)
Init ==
    /\ stack = <<Entry("run", None, "running")>>
    /\ pending = None /\ nextID = 1 /\ scheduled = {} /\ armed = {} /\ lost = {}
    /\ exited = FALSE /\ resolved = FALSE /\ torn = FALSE
    /\ status = [e \in Events |-> "new"]

-----------------------------------------------------------------------------
Depth == Len(stack)
Top == stack[Depth]
Pop(n) == SubSeq(stack, 1, Depth - n)
ReplaceTop(f) == [stack EXCEPT ![Depth] = f]

JsRuns == ~torn /\ (stack # <<>> => Top.kind = "call")
GoRuns == ~torn /\ stack # <<>> /\ Top.kind # "call" /\ Top.phase = "running"

(* What the Javascript below a frame of Go sees of its end.                 *)
Ended(f, s) == status' = IF f.kind = "event" THEN [status EXCEPT ![f.of] = s] ELSE status

(* _resume, which enters Go unless it has exited.                           *)
Resume_exited(kind, of) == stack' = Append(stack, Entry(kind, of, "resumed"))
Resume(kind, of) == ~exited /\ stack' = Append(stack, Entry(kind, of, "resumed"))

(* _makeFuncWrapper: Javascript calls a Go function.                        *)
CallGo_outermost(e) ==
    /\ JsRuns /\ status[e] = "new" /\ Depth < MaxDepth
    /\ pending' = IF stack = <<>> THEN e ELSE pending
    /\ \/ /\ Resume("event", e)
          /\ status' = [status EXCEPT ![e] = "called"]
       \/ /\ exited
          /\ status' = [status EXCEPT ![e] = "thrown"]
          /\ UNCHANGED stack
    /\ UNCHANGED <<timeouts, ending>>

CallGo(e) ==
    /\ JsRuns /\ status[e] = "new" /\ Depth < MaxDepth
    /\ pending' = e
    /\ \/ /\ Resume("event", e)
          /\ status' = [status EXCEPT ![e] = "called"]
       \/ /\ exited
          /\ status' = [status EXCEPT ![e] = "thrown"]
          /\ UNCHANGED stack
    /\ UNCHANGED <<timeouts, ending>>

(* The callback of setTimeout; a Go that has exited throws.                 *)
FireTimeout(id) ==
    /\ JsRuns /\ stack = <<>> /\ id \in armed
    /\ armed' = armed \ {id}
    /\ Resume("timeout", id) \/ (exited /\ UNCHANGED stack)
    /\ UNCHANGED <<pending, nextID, scheduled, lost, status, ending>>

(* A Javascript function returns to Go: valueCall and its like take the new *)
(* stack pointer from _inst, which is gone if Go has exited meanwhile: the  *)
(* TypeError leaves the Go frame that made the call, too.                   *)
JsReturns ==
    /\ JsRuns /\ stack # <<>>
    /\ \/ /\ ~exited
          /\ stack' = Pop(1)
          /\ UNCHANGED status
       \/ /\ exited
          /\ stack' = Pop(2)
          /\ Ended(stack[Depth - 1], "thrown")
    /\ UNCHANGED <<pending, timeouts, ending>>

-----------------------------------------------------------------------------
(* What Go does.  handleEvent takes the pending event.                      *)
HandleEvent ==
    /\ ~torn /\ stack # <<>> /\ Top.phase = "resumed"
    /\ stack' = ReplaceTop([Top EXCEPT !.phase = "running", !.handles = pending])
    /\ pending' = None
    /\ UNCHANGED <<timeouts, status, ending>>

(* The function called by an event sets the event's result.                 *)
SetResult(e) ==
    /\ GoRuns /\ status[e] = "called"
    /\ \E n \in 1..Depth : stack[n].handles = e
    /\ status' = [status EXCEPT ![e] = "answered"]
    /\ UNCHANGED <<stack, pending, timeouts, ending>>

(* valueCall, valueInvoke, valueNew, valueGet: Go calls Javascript.         *)
CallJs ==
    /\ GoRuns /\ Depth < MaxDepth
    /\ stack' = Append(stack, Entry("call", None, "running"))
    /\ UNCHANGED <<pending, timeouts, status, ending>>

ScheduleTimeoutEvent ==
    /\ GoRuns /\ nextID \in IDs
    /\ nextID' = nextID + 1
    /\ scheduled' = scheduled \cup {nextID}
    /\ armed' = armed \cup {nextID}
    /\ UNCHANGED <<stack, pending, lost, status, ending>>

ClearTimeoutEvent_keepsTimer(id) ==
    /\ GoRuns /\ id \in scheduled
    /\ scheduled' = scheduled \ {id}
    /\ UNCHANGED <<armed, stack, pending, nextID, lost, status, ending>>

ClearTimeoutEvent(id) ==
    /\ GoRuns /\ id \in scheduled
    /\ scheduled' = scheduled \ {id}
    /\ armed' = armed \ {id}
    /\ UNCHANGED <<stack, pending, nextID, lost, status, ending>>

(* All goroutines are idle: Go returns from run() or resume(), from that of *)
(* an event only when the event has its result.  The callback of a timeout  *)
(* resumes Go again as long as Go has not taken notice of it.               *)
CanPause == GoRuns /\ (Top.handles # None => status[Top.handles] = "answered")

Missed == Top.kind = "timeout" /\ Top.of \in scheduled

Pause_noRetry ==
    /\ CanPause
    /\ stack' = Pop(1)
    /\ Ended(Top, "returned")
    /\ UNCHANGED <<pending, timeouts, ending>>

Pause ==
    /\ CanPause
    /\ \/ /\ Missed
          /\ stack' = ReplaceTop(Entry(Top.kind, Top.of, "resumed"))
          /\ UNCHANGED status
       \/ /\ ~Missed
          /\ stack' = Pop(1)
          /\ Ended(Top, "returned")
    /\ UNCHANGED <<pending, timeouts, ending>>

(* wasmExit, which unwinds to the innermost run() or resume(): this resolves*)
(* _exitPromise, and a call of a Go function returns undefined.             *)
WasmExit ==
    /\ GoRuns /\ ~exited
    /\ exited' = TRUE /\ resolved' = TRUE
    /\ stack' = Pop(1)
    /\ Ended(Top, "returned")
    /\ UNCHANGED <<pending, timeouts, torn>>

(* exception.throw: the Error leaves the frames of Go.  The event loop      *)
(* reports it, but a valueCall further down catches it and goes on with     *)
(* the stack pointer of the function that threw.                            *)
Throw ==
    /\ GoRuns
    /\ torn' = (Depth > 1)
    /\ stack' = Pop(1)
    /\ Ended(Top, "thrown")
    /\ lost' = IF Missed THEN lost \cup {Top.of} ELSE lost
    /\ UNCHANGED <<pending, nextID, scheduled, armed, exited, resolved>>

Go ==
    \/ HandleEvent \/ CallJs \/ ScheduleTimeoutEvent \/ Pause \/ WasmExit \/ Throw
    \/ \E e \in Events : SetResult(e)
    \/ \E id \in IDs : ClearTimeoutEvent(id)

Js ==
    \/ JsReturns
    \/ \E e \in Events : CallGo(e)
    \/ \E id \in IDs : FireTimeout(id)

Next == Go \/ Js

(* The event loop does not starve a timer; Javascript functions return; Go  *)
(* runs, answers its calls, and becomes idle; and it takes notice of a      *)
(* timeout in the end, when its clock has reached the deadline.             *)
TakesNotice == ~torn /\ stack # <<>> /\ Top.kind = "timeout" /\ ClearTimeoutEvent(Top.of)

Fairness ==
    /\ WF_vars(HandleEvent) /\ WF_vars(JsReturns)
    /\ SF_vars(Pause) /\ SF_vars(TakesNotice)
    /\ \A e \in Events : SF_vars(SetResult(e))
    /\ \A id \in IDs : SF_vars(FireTimeout(id))

Spec == Init /\ [][Next]_vars /\ Fairness

-----------------------------------------------------------------------------
(* Each call of a Go function makes Go handle its own event, and a timeout  *)
(* none, however the calls nest: nothing else takes _pendingEvent.          *)
OwnEventIsHandled ==
    ~torn => \A n \in 1..Depth :
        LET f == stack[n] IN
        /\ f.phase = "resumed" => pending = (IF f.kind = "event" THEN f.of ELSE None)
        /\ f.phase = "running" => f.handles = (IF f.kind = "event" THEN f.of ELSE None)

(* While Go has not exited, a call of a Go function returns with the result *)
(* that Go has set for it.                                                  *)
ReturnsItsResult ==
    [][\A e \in Events :
          status'[e] = "returned" /\ status[e] # "returned" /\ ~exited'
             => status[e] = "answered"]_vars

(* Go is not entered after it has exited, and whoever waits for its end is  *)
(* told so, also when it exits in a nested call.                            *)
ExitIsTheEnd ==
    [][exited => /\ resolved'
                 /\ exited' /\ scheduled' = scheduled
                 /\ Len(stack') <= Depth]_vars

(* A timeout that Go has scheduled is to fire, or its callback is running   *)
(* (or was left by an exception before Go took notice); one that Go has     *)
(* cleared does not fire.                                                   *)
TimeoutWillFire ==
    /\ \A id \in scheduled :
          \/ exited \/ torn \/ id \in armed \/ id \in lost
          \/ \E n \in 1..Depth : stack[n].kind = "timeout" /\ stack[n].of = id
    /\ armed \subseteq scheduled

(* Go takes notice of every timeout in the end.                             *)
TimeoutIsNoticed ==
    \A id \in IDs :
        id \in scheduled ~> (id \notin scheduled \/ exited \/ torn \/ id \in lost)

=============================================================================
