---------------------------- MODULE GoEvents_proofs ----------------------------
(***************************************************************************)
(* Theorems about GoEvents for any calls, any number of timeouts and any   *)
(* depth of the stack: a call of a Go function handles its own event and   *)
(* returns its result, Go is not entered after its exit, no timeout is     *)
(* lost, and no call is left behind or stuck.                              *)
(***************************************************************************)
EXTENDS GoEvents, SequenceTheorems, TLAPS

USE NoneAssumption, EventsAssumption, BoundsAssumption

-----------------------------------------------------------------------------
(***************************************************************************)
(* The inductive invariant.  Frames of Go and of Javascript take turns on  *)
(* the stack; what is not on top is running; each frame that runs handles  *)
(* the event that it is for; `_pendingEvent' is that of the top frame if it*)
(* has just been resumed, and there is none otherwise; and after an exit   *)
(* only Javascript runs.                                                   *)
(***************************************************************************)
Alternate(s) ==
    \A n \in 1..Len(s) : s[n].kind = "call" <=> (n # 1 /\ s[n - 1].kind # "call")

Fits(f) ==
    /\ f.kind = "event" => f.of \in Events
    /\ f.kind = "call" => f.phase = "running"
    /\ f.phase = "running" => f.handles = (IF f.kind = "event" THEN f.of ELSE None)

Sound(s) ==
    /\ s \in Seq(Frame)
    /\ Alternate(s)
    /\ \A n \in 1..Len(s) : Fits(s[n])
    /\ \A n \in 1..Len(s) : n # Len(s) => s[n].phase = "running"

Running(s) == \A n \in 1..Len(s) : s[n].phase = "running"

Awaited ==
    pending = IF stack # <<>> /\ Top.phase = "resumed" /\ Top.kind = "event"
                THEN Top.of ELSE None

IInv ==
    /\ TypeOK
    /\ exited => resolved
    /\ TimeoutWillFire
    /\ ~torn => /\ Sound(stack)
                /\ ~exited => Awaited
                /\ exited /\ stack # <<>> => Top.kind = "call"

-----------------------------------------------------------------------------
(***************************************************************************)
(* Frames and stacks.                                                      *)
(***************************************************************************)
LEMMA FrameFields ==
    ASSUME NEW f \in Frame
    PROVE  /\ f.kind \in {"run", "event", "timeout", "call"}
           /\ f.of \in Events \cup IDs \cup {None}
           /\ f.phase \in {"resumed", "running"}
           /\ f.handles \in Events \cup {None}
  BY DEF Frame

LEMMA Entries ==
    ASSUME NEW kind \in {"run", "event", "timeout", "call"},
           NEW of \in Events \cup IDs \cup {None}, NEW phase \in {"resumed", "running"}
    PROVE  /\ Entry(kind, of, phase) \in Frame
           /\ Entry(kind, of, phase).kind = kind /\ Entry(kind, of, phase).of = of
           /\ Entry(kind, of, phase).phase = phase
           /\ Entry(kind, of, phase).handles = None
  BY DEF Entry, Frame

LEMMA Handling ==
    ASSUME NEW f \in Frame, NEW e \in Events \cup {None}
    PROVE  LET g == [f EXCEPT !.phase = "running", !.handles = e] IN
           /\ g \in Frame /\ g.kind = f.kind /\ g.of = f.of
           /\ g.phase = "running" /\ g.handles = e
  BY DEF Frame

LEMMA AllButLast ==
    ASSUME NEW S, NEW s \in Seq(S), s # <<>>
    PROVE  LET t == SubSeq(s, 1, Len(s) - 1) IN
           /\ Len(s) \in Nat \ {0} /\ s[Len(s)] \in S
           /\ t \in Seq(S) /\ Len(t) = Len(s) - 1
           /\ \A n \in 1..Len(t) : t[n] = s[n] /\ n \in 1..Len(s) /\ n # Len(s)
  <1>1. Len(s) \in Nat \ {0} /\ \A m \in 1..Len(s) : s[m] \in S
    OBVIOUS
  <1>. PICK n \in Nat : n = Len(s) - 1
    BY <1>1
  <1>2. \A m \in 1..n : s[m] \in S /\ m \in 1..Len(s) /\ m # Len(s)
    BY <1>1
  <1>3. /\ SubSeq(s, 1, n) \in Seq(S) /\ Len(SubSeq(s, 1, n)) = n
        /\ \A m \in 1..n : SubSeq(s, 1, n)[m] = s[m]
    <2>1. /\ SubSeq(s, 1, n) \in Seq(S)
          /\ Len(SubSeq(s, 1, n)) = IF 1 <= n THEN n - 1 + 1 ELSE 0
          /\ \A m \in 1..(n - 1 + 1) : SubSeq(s, 1, n)[m] = s[1 + m - 1]
      BY <1>2, SubSeqProperties
    <2>2. /\ n - 1 + 1 = n /\ (1 <= n \/ n = 0)
          /\ \A m \in 1..n : 1 + m - 1 = m
      OBVIOUS
    <2>. QED  BY <2>1, <2>2
  <1>4. n = Len(s) - 1 /\ s[Len(s)] \in S
    BY <1>1
  <1>. QED  BY <1>1, <1>2, <1>3, <1>4, Zenon

(* A frame returns: what is below it runs, and is of the other kind.        *)
LEMMA Popped ==
    ASSUME NEW s, Sound(s), s # <<>>
    PROVE  LET t == SubSeq(s, 1, Len(s) - 1) IN
           /\ Sound(t) /\ Running(t) /\ Len(t) = Len(s) - 1
           /\ t # <<>> => (t[Len(t)].kind = "call" <=> s[Len(s)].kind # "call")
           /\ \A n \in 1..Len(t) : n \in 1..Len(s) /\ t[n] = s[n]
           /\ \A n \in 1..Len(s) : n = Len(s) \/ n \in 1..Len(t)
  <1>. DEFINE t == SubSeq(s, 1, Len(s) - 1)
  <1>1. s \in Seq(Frame)
    BY DEF Sound
  <1>2. /\ Len(s) \in Nat \ {0} /\ s[Len(s)] \in Frame
        /\ t \in Seq(Frame) /\ Len(t) = Len(s) - 1
        /\ \A n \in 1..Len(t) : t[n] = s[n] /\ n \in 1..Len(s) /\ n # Len(s)
    BY <1>1, AllButLast
  <1>. HIDE DEF t
  <1>3. Running(t) /\ \A n \in 1..Len(t) : Fits(t[n])
    BY <1>2 DEF Sound, Running
  <1>4. Alternate(t)
    <2>. SUFFICES ASSUME NEW n \in 1..Len(t)
                  PROVE  t[n].kind = "call" <=> (n # 1 /\ t[n - 1].kind # "call")
      BY DEF Alternate
    <2>1. n # 1 => n - 1 \in 1..Len(t)
      BY <1>2
    <2>2. s[n].kind = "call" <=> (n # 1 /\ s[n - 1].kind # "call")
      BY <1>2 DEF Sound, Alternate
    <2>. QED  BY <1>2, <2>1, <2>2
  <1>5. t # <<>> => (t[Len(t)].kind = "call" <=> s[Len(s)].kind # "call")
    <2>. SUFFICES ASSUME t # <<>>
                  PROVE  t[Len(t)].kind = "call" <=> s[Len(s)].kind # "call"
      OBVIOUS
    <2>1. Len(t) \in 1..Len(t) /\ Len(s) # 1 /\ Len(s) \in 1..Len(s)
      BY <1>2
    <2>2. t[Len(t)] = s[Len(s) - 1]
      BY <1>2, <2>1
    <2>. QED  BY <2>1, <2>2 DEF Sound, Alternate
  <1>6. \A n \in 1..Len(s) : n = Len(s) \/ n \in 1..Len(t)
    BY <1>2
  <1>7. Sound(t)
    BY <1>2, <1>3, <1>4 DEF Sound, Running
  <1>. QED  BY <1>2, <1>3, <1>5, <1>6, <1>7 DEF t

(* A frame is called by one of the other kind, which goes on running.       *)
LEMMA Pushed ==
    ASSUME NEW s, Sound(s), Running(s), NEW f \in Frame, Fits(f),
           f.kind = "call" <=> (s # <<>> /\ s[Len(s)].kind # "call")
    PROVE  LET t == Append(s, f) IN
           /\ Sound(t) /\ Len(t) = Len(s) + 1 /\ t # <<>> /\ t[Len(t)] = f
           /\ \A n \in 1..Len(s) : n \in 1..Len(t) /\ t[n] = s[n]
           /\ Len(t) \in 1..Len(t)
  <1>. DEFINE t == Append(s, f)
  <1>1. s \in Seq(Frame)
    BY DEF Sound
  <1>2. /\ t \in Seq(Frame) /\ Len(s) \in Nat /\ Len(t) = Len(s) + 1
        /\ t[Len(t)] = f /\ t # <<>>
        /\ \A n \in 1..Len(s) : n \in 1..Len(t) /\ t[n] = s[n]
        /\ \A n \in 1..Len(t) : n = Len(t) \/ n \in 1..Len(s)
        /\ Len(t) \in 1..Len(t)
    BY <1>1
  <1>. HIDE DEF t
  <1>3. \A n \in 1..Len(t) : Fits(t[n]) /\ (n # Len(t) => t[n].phase = "running")
    BY <1>2 DEF Sound, Running
  <1>4. Alternate(t)
    <2>. SUFFICES ASSUME NEW n \in 1..Len(t)
                  PROVE  t[n].kind = "call" <=> (n # 1 /\ t[n - 1].kind # "call")
      BY DEF Alternate
    <2>1. CASE n = Len(t)
      <3>1. s # <<>> <=> n # 1
        BY <1>1, <1>2, <2>1
      <3>2. n # 1 => t[n - 1] = s[Len(s)]
        BY <1>2, <2>1
      <3>. QED  BY <1>2, <2>1, <3>1, <3>2
    <2>2. CASE n # Len(t)
      <3>1. n \in 1..Len(s) /\ (n # 1 => n - 1 \in 1..Len(s))
        BY <1>2, <2>2
      <3>2. s[n].kind = "call" <=> (n # 1 /\ s[n - 1].kind # "call")
        BY <3>1 DEF Sound, Alternate
      <3>. QED  BY <1>2, <3>1, <3>2
    <2>. QED  BY <2>1, <2>2
  <1>5. Sound(t)
    BY <1>2, <1>3, <1>4 DEF Sound
  <1>. QED  BY <1>2, <1>5 DEF t

(* The top frame changes its phase.                                         *)
TopIsNow(s, f, t) ==
    /\ t \in Seq(Frame) /\ Len(t) = Len(s) /\ t # <<>> /\ t[Len(t)] = f
    /\ \A n \in 1..Len(s) : n # Len(s) => t[n] = s[n]

LEMMA TopReplaced ==
    ASSUME NEW s \in Seq(Frame), s # <<>>, NEW f \in Frame
    PROVE  TopIsNow(s, f, [s EXCEPT ![Len(s)] = f])
  BY DEF TopIsNow

LEMMA Replaced ==
    ASSUME NEW s, Sound(s), NEW f \in Frame, Fits(f), f.kind = s[Len(s)].kind,
           NEW t, TopIsNow(s, f, t)
    PROVE  Sound(t)
  <1>1. /\ t \in Seq(Frame) /\ Len(s) \in Nat \ {0} /\ Len(t) = Len(s)
        /\ t[Len(s)] = f /\ t # <<>> /\ Len(s) \in 1..Len(s)
        /\ \A n \in 1..Len(s) : n # Len(s) => t[n] = s[n]
    BY DEF Sound, TopIsNow
  <1>2. \A n \in 1..Len(t) : t[n].kind = s[n].kind
    BY <1>1
  <1>3. \A n \in 1..Len(t) : Fits(t[n]) /\ (n # Len(t) => t[n].phase = "running")
    BY <1>1 DEF Sound
  <1>4. Alternate(t)
    <2>. SUFFICES ASSUME NEW n \in 1..Len(t)
                  PROVE  t[n].kind = "call" <=> (n # 1 /\ t[n - 1].kind # "call")
      BY DEF Alternate
    <2>1. n # 1 => n - 1 \in 1..Len(t)
      BY <1>1
    <2>2. s[n].kind = "call" <=> (n # 1 /\ s[n - 1].kind # "call")
      BY <1>1 DEF Sound, Alternate
    <2>. QED  BY <1>2, <2>1, <2>2
  <1>. QED  BY <1>1, <1>3, <1>4 DEF Sound

-----------------------------------------------------------------------------
(***************************************************************************)
(* What runs.                                                              *)
(***************************************************************************)
LEMMA OfTop ==
    ASSUME IInv, ~torn, stack # <<>>
    PROVE  Top \in Frame /\ Fits(Top) /\ Depth \in Nat \ {0} /\ Depth \in 1..Depth
  <1>1. stack \in Seq(Frame) /\ Sound(stack)
    BY DEF IInv, Sound
  <1>2. Depth \in Nat \ {0} /\ Depth \in 1..Depth /\ Top \in Frame
    BY <1>1 DEF Depth, Top
  <1>. QED  BY <1>1, <1>2 DEF Sound, Top, Depth

LEMMA TopRuns ==
    ASSUME IInv, ~torn, stack = <<>> \/ Top.phase = "running"
    PROVE  Sound(stack) /\ Running(stack)
  BY DEF IInv, Sound, Running, Top, Depth

(* Go runs: it has not exited, and no event is pending.                     *)
LEMMA WhileGoRuns ==
    ASSUME IInv, GoRuns
    PROVE  /\ ~torn /\ ~exited /\ pending = None
           /\ stack # <<>> /\ Top \in Frame /\ Fits(Top)
           /\ Sound(stack) /\ Running(stack)
  <1>1. ~torn /\ stack # <<>> /\ Top.kind # "call" /\ Top.phase = "running"
    BY DEF GoRuns
  <1>2. Top \in Frame /\ Fits(Top) /\ Sound(stack) /\ Running(stack)
    BY <1>1, OfTop, TopRuns
  <1>3. ~exited /\ pending = None
    BY <1>1 DEF IInv, Awaited
  <1>. QED  BY <1>1, <1>2, <1>3

(* Javascript runs: no event is pending unless Go has exited.               *)
LEMMA WhileJsRuns ==
    ASSUME IInv, JsRuns
    PROVE  /\ ~torn /\ Sound(stack) /\ Running(stack)
           /\ ~exited => pending = None
           /\ stack # <<>> => Top.kind = "call"
  <1>1. ~torn /\ (stack # <<>> => Top.kind = "call")
    BY DEF JsRuns
  <1>2. stack # <<>> => Top.phase = "running"
    BY <1>1, OfTop DEF Fits
  <1>3. ~exited => pending = None
    BY <1>1, <1>2 DEF IInv, Awaited
  <1>. QED  BY <1>1, <1>2, <1>3, TopRuns

-----------------------------------------------------------------------------
(***************************************************************************)
(* The invariant, step by step.                                            *)
(***************************************************************************)
LEMMA Types ==
    ASSUME stack \in Seq(Frame), pending \in Events \cup {None}, nextID \in 1..(MaxID + 1),
           scheduled \subseteq IDs, armed \subseteq IDs, lost \subseteq IDs,
           exited \in BOOLEAN, resolved \in BOOLEAN, torn \in BOOLEAN,
           status \in [Events -> {"new", "called", "answered", "returned", "thrown"}]
    PROVE  TypeOK
  BY DEF TypeOK

LEMMA TypesAfter ==
    ASSUME TypeOK, stack' \in Seq(Frame), pending' \in Events \cup {None},
           UNCHANGED <<nextID, scheduled, lost, exited, resolved, torn>>,
           armed' \subseteq armed,
           status' \in [Events -> {"new", "called", "answered", "returned", "thrown"}]
    PROVE  TypeOK'
  BY DEF TypeOK

LEMMA InitIInv == Init => IInv
  <1>. SUFFICES ASSUME Init PROVE IInv
    OBVIOUS
  <1>. DEFINE f == Entry("run", None, "running")
  <1>1. /\ f \in Frame /\ f.kind = "run" /\ f.phase = "running" /\ f.handles = None
    BY Entries
  <1>. HIDE DEF f
  <1>2. stack = <<f>>
    BY DEF Init, f
  <1>3. /\ stack \in Seq(Frame) /\ Len(stack) = 1 /\ stack[1] = f /\ stack # <<>>
        /\ \A n \in 1..Len(stack) : n = 1
    BY <1>1, <1>2
  <1>4. Fits(f)
    BY <1>1 DEF Fits
  <1>5. Sound(stack)
    BY <1>1, <1>3, <1>4 DEF Sound, Alternate
  <1>6. Awaited
    BY <1>1, <1>3 DEF Awaited, Top, Depth, Init
  <1>7. TypeOK
    <2>1. 1 \in 1..(MaxID + 1)
      OBVIOUS
    <2>. QED  BY <1>3, <2>1, Types DEF Init
  <1>8. TimeoutWillFire
    BY DEF Init, TimeoutWillFire
  <1>. QED  BY <1>5, <1>6, <1>7, <1>8 DEF IInv, Init

LEMMA CallGoStep ==
    ASSUME IInv, NEW e \in Events, CallGo(e)
    PROVE  IInv'
  <1>. DEFINE f == Entry("event", e, "resumed")
  <1>1. /\ f \in Frame /\ f.kind = "event" /\ f.of = e /\ f.phase = "resumed"
    BY Entries
  <1>. HIDE DEF f
  <1>2. Fits(f)
    BY <1>1 DEF Fits
  <1>3. /\ ~torn /\ torn' = torn /\ pending' = e /\ exited' = exited /\ resolved' = resolved
        /\ UNCHANGED <<nextID, scheduled, armed, lost>>
    BY DEF CallGo, JsRuns, ending, timeouts
  <1>4. /\ Sound(stack) /\ Running(stack) /\ (stack # <<>> => Top.kind = "call")
    BY WhileJsRuns DEF CallGo
  <1>5. CASE Resume("event", e) /\ status' = [status EXCEPT ![e] = "called"]
    <2>1. ~exited /\ stack' = Append(stack, f)
      BY <1>5 DEF Resume, f
    <2>2. /\ Sound(stack') /\ stack' # <<>> /\ stack'[Len(stack')] = f
          /\ \A n \in 1..Len(stack) : n \in 1..Len(stack') /\ stack'[n] = stack[n]
      BY <1>1, <1>2, <1>4, <2>1, Pushed DEF Top, Depth
    <2>3. Awaited'
      BY <1>1, <1>3, <2>2 DEF Awaited, Top, Depth
    <2>4. TimeoutWillFire'
      BY <1>3, <2>2 DEF IInv, TimeoutWillFire, Depth
    <2>5. TypeOK'
      BY <1>3, <1>5, <2>2 DEF IInv, TypeOK, Sound
    <2>. QED  BY <1>3, <2>1, <2>2, <2>3, <2>4, <2>5 DEF IInv
  <1>6. CASE exited /\ status' = [status EXCEPT ![e] = "thrown"] /\ UNCHANGED stack
    <2>1. TypeOK'
      BY <1>3, <1>6 DEF IInv, TypeOK
    <2>2. TimeoutWillFire'
      BY <1>3, <1>6 DEF IInv, TimeoutWillFire, Depth
    <2>. QED  BY <1>3, <1>6, <2>1, <2>2 DEF IInv, Top, Depth
  <1>. QED  BY <1>5, <1>6 DEF CallGo

LEMMA FireTimeoutStep ==
    ASSUME IInv, NEW id \in IDs, FireTimeout(id)
    PROVE  IInv'
  <1>. DEFINE f == Entry("timeout", id, "resumed")
  <1>1. /\ f \in Frame /\ f.kind = "timeout" /\ f.of = id /\ f.phase = "resumed"
    BY Entries
  <1>. HIDE DEF f
  <1>2. Fits(f)
    BY <1>1 DEF Fits
  <1>3. /\ ~torn /\ torn' = torn /\ exited' = exited /\ resolved' = resolved /\ stack = <<>>
        /\ armed' = armed \ {id} /\ UNCHANGED <<pending, nextID, scheduled, lost, status>>
    BY DEF FireTimeout, JsRuns, ending
  <1>4. Sound(stack) /\ Running(stack) /\ (~exited => pending = None)
    BY WhileJsRuns DEF FireTimeout
  <1>5. CASE Resume("timeout", id)
    <2>1. ~exited /\ stack' = Append(stack, f)
      BY <1>5 DEF Resume, f
    <2>2. /\ Sound(stack') /\ stack' # <<>> /\ stack'[Len(stack')] = f
          /\ Len(stack') \in 1..Len(stack')
          /\ \A n \in 1..Len(stack) : n \in 1..Len(stack') /\ stack'[n] = stack[n]
      <3>1. f.kind = "call" <=> (stack # <<>> /\ stack[Len(stack)].kind # "call")
        BY <1>1, <1>3
      <3>. QED  BY <1>1, <1>2, <1>4, <2>1, <3>1, Pushed
    <2>3. Awaited'
      BY <1>1, <1>3, <1>4, <2>1, <2>2 DEF Awaited, Top, Depth
    <2>4. TimeoutWillFire'
      BY <1>1, <1>3, <2>2 DEF IInv, TimeoutWillFire, Depth
    <2>5. TypeOK'
      <3>1. stack' \in Seq(Frame) /\ armed' \subseteq armed /\ torn' = torn
        BY <1>3, <2>2 DEF Sound
      <3>. QED  BY <1>3, <3>1, TypesAfter DEF IInv, TypeOK
    <2>. QED  BY <1>3, <2>1, <2>2, <2>3, <2>4, <2>5 DEF IInv
  <1>6. CASE exited /\ UNCHANGED stack
    <2>1. TypeOK'
      BY <1>3, <1>6, TypesAfter DEF IInv, TypeOK
    <2>2. TimeoutWillFire'
      BY <1>3, <1>6 DEF IInv, TimeoutWillFire, Depth
    <2>. QED  BY <1>3, <1>6, <2>1, <2>2 DEF IInv
  <1>. QED  BY <1>5, <1>6 DEF FireTimeout

(* What the frame of Go that made the call sees.                            *)
LEMMA EndedType ==
    ASSUME TypeOK, NEW f, NEW s \in {"returned", "thrown"}, Ended(f, s)
    PROVE  status' \in [Events -> {"new", "called", "answered", "returned", "thrown"}]
  BY DEF TypeOK, Ended

LEMMA JsReturnsStep ==
    ASSUME IInv, JsReturns
    PROVE  IInv'
  <1>1. /\ ~torn /\ torn' = torn /\ exited' = exited /\ resolved' = resolved /\ stack # <<>>
        /\ UNCHANGED <<pending, nextID, scheduled, armed, lost>>
    BY DEF JsReturns, JsRuns, ending, timeouts
  <1>2. /\ Sound(stack) /\ Running(stack) /\ (~exited => pending = None)
        /\ Top.kind = "call"
    BY <1>1, WhileJsRuns DEF JsReturns
  <1>. DEFINE t == SubSeq(stack, 1, Len(stack) - 1)
  <1>3. /\ Sound(t) /\ Running(t) /\ Len(t) = Depth - 1
        /\ t # <<>> => t[Len(t)].kind # "call"
        /\ \A n \in 1..Len(t) : n \in 1..Depth /\ t[n] = stack[n]
        /\ \A n \in 1..Depth : n = Depth \/ n \in 1..Len(t)
    BY <1>1, <1>2, Popped DEF Top, Depth
  <1>4. CASE ~exited /\ stack' = Pop(1) /\ UNCHANGED status
    <2>1. stack' = t
      BY <1>4 DEF Pop, Depth
    <2>. HIDE DEF t
    <2>2. Awaited'
      <3>1. stack' # <<>> => stack'[Len(stack')].phase = "running"
        <4>1. stack' \in Seq(Frame)
          BY <1>3, <2>1 DEF Sound
        <4>. QED  BY <1>3, <2>1, <4>1 DEF Running
      <3>. QED  BY <1>1, <1>2, <1>4, <3>1 DEF Awaited, Top, Depth
    <2>3. TimeoutWillFire'
      <3>1. \A id \in scheduled :
              (\E n \in 1..Depth : stack[n].kind = "timeout" /\ stack[n].of = id)
                => \E n \in 1..Len(t) : t[n].kind = "timeout" /\ t[n].of = id
        BY <1>2, <1>3 DEF Top
      <3>. QED  BY <1>1, <2>1, <3>1 DEF IInv, TimeoutWillFire, Depth
    <2>4. TypeOK'
      <3>1. stack' \in Seq(Frame) /\ armed' \subseteq armed
        BY <1>1, <1>3, <2>1 DEF Sound
      <3>. QED  BY <1>1, <1>4, <3>1, TypesAfter DEF IInv, TypeOK
    <2>. QED  BY <1>1, <1>3, <1>4, <2>1, <2>2, <2>3, <2>4 DEF IInv
  <1>5. CASE exited /\ stack' = Pop(2) /\ Ended(stack[Depth - 1], "thrown")
    <2>1. t # <<>> /\ t \in Seq(Frame) /\ stack \in Seq(Frame)
      <3>1. Depth \in 1..Depth /\ Len(t) = Depth - 1 /\ stack \in Seq(Frame)
        BY <1>1, <1>2, <1>3 DEF Sound, Depth
      <3>2. Depth # 1
        BY <1>2, <3>1 DEF Sound, Alternate, Top, Depth
      <3>3. t \in Seq(Frame)
        BY <1>3 DEF Sound
      <3>. HIDE DEF t
      <3>. QED  BY <3>1, <3>2, <3>3
    <2>. DEFINE u == SubSeq(t, 1, Len(t) - 1)
    <2>2. /\ Sound(u) /\ (u # <<>> => u[Len(u)].kind = "call")
      <3>. HIDE DEF t
      <3>. QED  BY <1>3, <2>1, Popped
    <2>3. stack' = u
      <3>1. Depth \in Nat /\ Depth - 1 \in Nat /\ Len(t) = Depth - 1 /\ Len(t) - 1 = Depth - 2
            /\ Len(t) # 0
        <4>. HIDE DEF t
        <4>. QED  BY <1>3, <2>1 DEF Depth
      <3>2. \A i \in 1..(Depth - 2) : i \in 1..(Depth - 1)
        BY <3>1
      <3>3. stack' = SubSeq(stack, 1, Depth - 2)
        BY <1>5 DEF Pop
      <3>4. \A s \in Seq(Frame) : \A m, n \in Nat : m <= n /\ n <= Len(s)
               => SubSeq(SubSeq(s, 1, n), 1, m) = SubSeq(s, 1, m)
        OBVIOUS
      <3>. QED  BY <2>1, <3>1, <3>3, <3>4 DEF Depth
    <2>. HIDE DEF u, t
    <2>4. TypeOK'
      <3>1. stack' \in Seq(Frame)
        BY <2>2, <2>3 DEF Sound
      <3>2. status' \in [Events -> {"new", "called", "answered", "returned", "thrown"}]
        BY <1>5, EndedType DEF IInv
      <3>. QED  BY <1>1, <3>1, <3>2, TypesAfter DEF IInv, TypeOK
    <2>5. TimeoutWillFire'
      BY <1>1, <1>5 DEF IInv, TimeoutWillFire
    <2>. QED  BY <1>1, <1>5, <2>2, <2>3, <2>4, <2>5 DEF IInv, Top, Depth
  <1>6. \/ ~exited /\ stack' = Pop(1) /\ UNCHANGED status
        \/ exited /\ stack' = Pop(2) /\ Ended(stack[Depth - 1], "thrown")
    BY DEF JsReturns
  <1>. QED  BY <1>4, <1>5, <1>6

LEMMA HandleEventStep ==
    ASSUME IInv, HandleEvent
    PROVE  IInv'
  <1>1. /\ ~torn /\ torn' = torn /\ exited' = exited /\ resolved' = resolved /\ stack # <<>>
        /\ UNCHANGED <<nextID, scheduled, armed, lost, status>> /\ pending' = None
        /\ Top.phase = "resumed"
    BY DEF HandleEvent, ending, timeouts
  <1>2. Top \in Frame /\ Fits(Top) /\ Top.kind # "call" /\ Sound(stack)
    BY <1>1, OfTop DEF Fits, IInv
  <1>3. ~exited /\ pending = IF Top.kind = "event" THEN Top.of ELSE None
    BY <1>1, <1>2 DEF IInv, Awaited
  <1>. DEFINE f == [Top EXCEPT !.phase = "running", !.handles = pending]
  <1>4. /\ f \in Frame /\ f.kind = Top.kind /\ f.of = Top.of
        /\ f.phase = "running" /\ f.handles = pending
    BY <1>2, Handling DEF IInv, TypeOK
  <1>5. stack' = [stack EXCEPT ![Len(stack)] = f]
    BY DEF HandleEvent, ReplaceTop, Depth
  <1>. HIDE DEF f
  <1>6. Fits(f)
    BY <1>2, <1>3, <1>4 DEF Fits
  <1>7. /\ Sound(stack') /\ Len(stack') = Len(stack) /\ stack' # <<>>
        /\ stack'[Len(stack')] = f
        /\ \A n \in 1..Len(stack) : n # Len(stack) => stack'[n] = stack[n]
    <2>1. f.kind = stack[Len(stack)].kind
      BY <1>4 DEF Top, Depth
    <2>2. TopIsNow(stack, f, stack')
      BY <1>1, <1>2, <1>4, <1>5, TopReplaced DEF Sound
    <2>3. Sound(stack')
      BY <1>2, <1>4, <1>6, <2>1, <2>2, Replaced
    <2>. QED  BY <2>2, <2>3 DEF TopIsNow
  <1>8. Awaited'
    BY <1>1, <1>4, <1>7 DEF Awaited, Top, Depth
  <1>9. TimeoutWillFire'
    <2>1. \A n \in 1..Len(stack) : stack'[n].kind = stack[n].kind /\ stack'[n].of = stack[n].of
      BY <1>4, <1>7 DEF Top, Depth
    <2>. QED  BY <1>1, <1>7, <2>1 DEF IInv, TimeoutWillFire, Depth
  <1>10. TypeOK'
    <2>1. stack' \in Seq(Frame)
      BY <1>7 DEF Sound
    <2>. QED  BY <1>1, <2>1, TypesAfter DEF IInv, TypeOK
  <1>. QED  BY <1>1, <1>3, <1>7, <1>8, <1>9, <1>10 DEF IInv

(* Steps of Go that leave the stack alone.                                  *)
LEMMA SameStack ==
    ASSUME IInv, GoRuns, UNCHANGED <<stack, pending, exited, resolved, torn>>,
           TypeOK', TimeoutWillFire'
    PROVE  IInv'
  BY DEF IInv, Awaited, Top, Depth

LEMMA SetResultStep ==
    ASSUME IInv, NEW e \in Events, SetResult(e)
    PROVE  IInv'
  <1>1. /\ GoRuns /\ UNCHANGED <<stack, pending, exited, resolved, torn, nextID,
                                 scheduled, armed, lost>>
        /\ status' = [status EXCEPT ![e] = "answered"]
    BY DEF SetResult, timeouts, ending
  <1>2. TypeOK'
    BY <1>1 DEF IInv, TypeOK
  <1>3. TimeoutWillFire'
    BY <1>1 DEF IInv, TimeoutWillFire, Depth
  <1>. QED  BY <1>1, <1>2, <1>3, SameStack

LEMMA ScheduleTimeoutEventStep ==
    ASSUME IInv, ScheduleTimeoutEvent
    PROVE  IInv'
  <1>1. /\ GoRuns /\ UNCHANGED <<stack, pending, exited, resolved, torn, lost, status>>
        /\ nextID \in IDs /\ nextID' = nextID + 1
        /\ scheduled' = scheduled \cup {nextID} /\ armed' = armed \cup {nextID}
    BY DEF ScheduleTimeoutEvent, ending
  <1>2. TypeOK'
    BY <1>1 DEF IInv, TypeOK, IDs
  <1>3. TimeoutWillFire'
    BY <1>1 DEF IInv, TimeoutWillFire, Depth
  <1>. QED  BY <1>1, <1>2, <1>3, SameStack

LEMMA ClearTimeoutEventStep ==
    ASSUME IInv, NEW id \in IDs, ClearTimeoutEvent(id)
    PROVE  IInv'
  <1>1. /\ GoRuns /\ UNCHANGED <<stack, pending, exited, resolved, torn, lost, status, nextID>>
        /\ scheduled' = scheduled \ {id} /\ armed' = armed \ {id}
    BY DEF ClearTimeoutEvent, ending
  <1>2. TypeOK'
    BY <1>1 DEF IInv, TypeOK
  <1>3. TimeoutWillFire'
    BY <1>1 DEF IInv, TimeoutWillFire, Depth
  <1>. QED  BY <1>1, <1>2, <1>3, SameStack

LEMMA CallJsStep ==
    ASSUME IInv, CallJs
    PROVE  IInv'
  <1>. DEFINE f == Entry("call", None, "running")
  <1>1. /\ f \in Frame /\ f.kind = "call" /\ f.phase = "running" /\ f.handles = None
    BY Entries
  <1>. HIDE DEF f
  <1>2. Fits(f)
    BY <1>1 DEF Fits
  <1>3. /\ GoRuns /\ Top.kind # "call" /\ stack' = Append(stack, f)
        /\ UNCHANGED <<pending, nextID, scheduled, armed, lost, status, exited, resolved, torn>>
    BY DEF CallJs, GoRuns, timeouts, ending, f
  <1>4. /\ ~torn /\ ~exited /\ pending = None /\ stack # <<>>
        /\ Sound(stack) /\ Running(stack)
    BY <1>3, WhileGoRuns
  <1>5. /\ Sound(stack') /\ stack' # <<>> /\ stack'[Len(stack')] = f
        /\ \A n \in 1..Len(stack) : n \in 1..Len(stack') /\ stack'[n] = stack[n]
    BY <1>1, <1>2, <1>3, <1>4, Pushed DEF Top, Depth
  <1>6. Awaited'
    BY <1>1, <1>3, <1>4, <1>5 DEF Awaited, Top, Depth
  <1>7. TimeoutWillFire'
    BY <1>3, <1>5 DEF IInv, TimeoutWillFire, Depth
  <1>8. TypeOK'
    BY <1>3, <1>5 DEF IInv, TypeOK, Sound
  <1>. QED  BY <1>3, <1>4, <1>5, <1>6, <1>7, <1>8 DEF IInv

(* A frame of Go ends: what is below it is a frame of Javascript.           *)
LEMMA GoEnds ==
    ASSUME IInv, GoRuns, stack' = Pop(1)
    PROVE  /\ Sound(stack') /\ (stack' # <<>> => stack'[Len(stack')].kind = "call")
           /\ stack' # <<>> => stack'[Len(stack')].phase = "running"
           /\ \A id \in IDs :
                 (\E n \in 1..Depth : stack[n].kind = "timeout" /\ stack[n].of = id)
                   => \/ Top.kind = "timeout" /\ Top.of = id
                      \/ \E n \in 1..Len(stack') : stack'[n].kind = "timeout"
                                                      /\ stack'[n].of = id
  <1>1. stack # <<>> /\ Sound(stack) /\ Running(stack) /\ Top.kind # "call"
    BY WhileGoRuns DEF GoRuns
  <1>. DEFINE t == SubSeq(stack, 1, Len(stack) - 1)
  <1>2. stack' = t
    BY DEF Pop, Depth
  <1>3. /\ Sound(t) /\ Running(t)
        /\ t # <<>> => t[Len(t)].kind = "call"
        /\ \A n \in 1..Len(t) : n \in 1..Depth /\ t[n] = stack[n]
        /\ \A n \in 1..Depth : n = Depth \/ n \in 1..Len(t)
    BY <1>1, Popped DEF Top, Depth
  <1>. HIDE DEF t
  <1>4. t # <<>> => t[Len(t)].phase = "running"
    <2>1. t \in Seq(Frame)
      BY <1>3 DEF Sound
    <2>. QED  BY <1>3, <2>1 DEF Running
  <1>5. \A id \in IDs :
            (\E n \in 1..Depth : stack[n].kind = "timeout" /\ stack[n].of = id)
              => \/ Top.kind = "timeout" /\ Top.of = id
                 \/ \E n \in 1..Len(t) : t[n].kind = "timeout" /\ t[n].of = id
    BY <1>3 DEF Top
  <1>. QED  BY <1>2, <1>3, <1>4, <1>5

LEMMA PauseStep ==
    ASSUME IInv, Pause
    PROVE  IInv'
  <1>1. /\ GoRuns /\ UNCHANGED <<pending, nextID, scheduled, armed, lost, exited, resolved, torn>>
    BY DEF Pause, CanPause, timeouts, ending
  <1>2. /\ ~torn /\ ~exited /\ pending = None /\ stack # <<>>
        /\ Top \in Frame /\ Sound(stack) /\ Running(stack)
    BY <1>1, WhileGoRuns
  <1>3. CASE Missed /\ stack' = ReplaceTop(Entry(Top.kind, Top.of, "resumed"))
                /\ UNCHANGED status
    <2>. DEFINE f == Entry(Top.kind, Top.of, "resumed")
    <2>1. Top.kind = "timeout"
      BY <1>3 DEF Missed
    <2>2. /\ f \in Frame /\ f.kind = Top.kind /\ f.of = Top.of /\ f.phase = "resumed"
      BY <1>2, FrameFields, Entries
    <2>3. stack' = [stack EXCEPT ![Len(stack)] = f]
      BY <1>3 DEF ReplaceTop, Depth
    <2>. HIDE DEF f
    <2>4. Fits(f)
      BY <2>1, <2>2 DEF Fits
    <2>5. /\ Sound(stack') /\ Len(stack') = Len(stack) /\ stack' # <<>>
          /\ stack'[Len(stack')] = f
          /\ \A n \in 1..Len(stack) : n # Len(stack) => stack'[n] = stack[n]
      <3>1. f.kind = stack[Len(stack)].kind
        BY <2>2 DEF Top, Depth
      <3>2. TopIsNow(stack, f, stack')
        BY <1>2, <2>2, <2>3, TopReplaced DEF Sound
      <3>3. Sound(stack')
        BY <1>2, <2>2, <2>4, <3>1, <3>2, Replaced
      <3>. QED  BY <3>2, <3>3 DEF TopIsNow
    <2>6. Awaited'
      BY <1>1, <1>2, <2>1, <2>2, <2>5 DEF Awaited, Top, Depth
    <2>7. TimeoutWillFire'
      <3>1. \A n \in 1..Len(stack) :
               stack'[n].kind = stack[n].kind /\ stack'[n].of = stack[n].of
        BY <2>2, <2>5 DEF Top, Depth
      <3>. QED  BY <1>1, <2>5, <3>1 DEF IInv, TimeoutWillFire, Depth
    <2>8. TypeOK'
      BY <1>1, <1>3, <2>5 DEF IInv, TypeOK, Sound
    <2>. QED  BY <1>1, <1>2, <2>5, <2>6, <2>7, <2>8 DEF IInv
  <1>4. CASE ~Missed /\ stack' = Pop(1) /\ Ended(Top, "returned")
    <2>1. /\ Sound(stack') /\ (stack' # <<>> => stack'[Len(stack')].phase = "running")
          /\ \A id \in IDs :
                (\E n \in 1..Depth : stack[n].kind = "timeout" /\ stack[n].of = id)
                  => \/ Top.kind = "timeout" /\ Top.of = id
                     \/ \E n \in 1..Len(stack') : stack'[n].kind = "timeout"
                                                     /\ stack'[n].of = id
      BY <1>1, <1>4, GoEnds
    <2>2. Awaited'
      BY <1>1, <1>2, <2>1 DEF Awaited, Top, Depth
    <2>3. TimeoutWillFire'
      <3>1. \A id \in scheduled : id \in IDs
        BY DEF IInv, TypeOK
      <3>2. \A id \in scheduled : ~(Top.kind = "timeout" /\ Top.of = id)
        BY <1>4 DEF Missed
      <3>. QED  BY <1>1, <2>1, <3>1, <3>2 DEF IInv, TimeoutWillFire, Depth
    <2>4. TypeOK'
      <3>1. stack' \in Seq(Frame)
        BY <2>1 DEF Sound
      <3>. QED  BY <1>1, <1>4, <3>1, EndedType DEF IInv, TypeOK
    <2>. QED  BY <1>1, <1>2, <2>1, <2>2, <2>3, <2>4 DEF IInv
  <1>. QED  BY <1>3, <1>4 DEF Pause

LEMMA WasmExitStep ==
    ASSUME IInv, WasmExit
    PROVE  IInv'
  <1>1. /\ GoRuns /\ exited' /\ resolved' /\ stack' = Pop(1) /\ Ended(Top, "returned")
        /\ exited' = TRUE /\ resolved' = TRUE
        /\ UNCHANGED <<pending, nextID, scheduled, armed, lost, torn>>
    BY DEF WasmExit, timeouts
  <1>2. Sound(stack') /\ (stack' # <<>> => stack'[Len(stack')].kind = "call")
    BY <1>1, GoEnds
  <1>3. TypeOK'
    <2>1. stack' \in Seq(Frame)
      BY <1>2 DEF Sound
    <2>. QED  BY <1>1, <2>1, EndedType DEF IInv, TypeOK
  <1>4. TimeoutWillFire'
    BY <1>1 DEF IInv, TimeoutWillFire
  <1>. QED  BY <1>1, <1>2, <1>3, <1>4 DEF IInv, Top, Depth

LEMMA ThrowStep ==
    ASSUME IInv, Throw
    PROVE  IInv'
  <1>1. /\ GoRuns /\ torn' = (Depth > 1) /\ stack' = Pop(1) /\ Ended(Top, "thrown")
        /\ lost' = IF Missed THEN lost \cup {Top.of} ELSE lost
        /\ UNCHANGED <<pending, nextID, scheduled, armed, exited, resolved>>
    BY DEF Throw
  <1>2. /\ ~torn /\ ~exited /\ pending = None
    BY <1>1, WhileGoRuns
  <1>3. /\ Sound(stack') /\ (stack' # <<>> => stack'[Len(stack')].phase = "running")
        /\ \A id \in IDs :
              (\E n \in 1..Depth : stack[n].kind = "timeout" /\ stack[n].of = id)
                => \/ Top.kind = "timeout" /\ Top.of = id
                   \/ \E n \in 1..Len(stack') : stack'[n].kind = "timeout"
                                                   /\ stack'[n].of = id
    BY <1>1, GoEnds
  <1>4. Awaited'
    BY <1>1, <1>2, <1>3 DEF Awaited, Top, Depth
  <1>5. TimeoutWillFire'
    <2>1. \A id \in scheduled : id \in IDs
      BY DEF IInv, TypeOK
    <2>2. /\ lost \subseteq lost'
          /\ \A id \in scheduled : Top.kind = "timeout" /\ Top.of = id => id \in lost'
      BY <1>1 DEF Missed
    <2>. QED  BY <1>1, <1>2, <1>3, <2>1, <2>2 DEF IInv, TimeoutWillFire, Depth
  <1>6. TypeOK'
    <2>1. stack' \in Seq(Frame)
      BY <1>3 DEF Sound
    <2>2. lost' \in SUBSET IDs
      BY <1>1 DEF IInv, TypeOK, Missed
    <2>3. torn' \in BOOLEAN
      BY <1>1
    <2>. QED  BY <1>1, <2>1, <2>2, <2>3, EndedType DEF IInv, TypeOK
  <1>. QED  BY <1>1, <1>2, <1>3, <1>4, <1>5, <1>6 DEF IInv

LEMMA Stuttering ==
    ASSUME IInv, UNCHANGED vars
    PROVE  IInv'
  BY DEF IInv, vars, TypeOK, TimeoutWillFire, Awaited, Top, Depth

LEMMA NextIInv == IInv /\ [Next]_vars => IInv'
  <1>. SUFFICES ASSUME IInv, [Next]_vars PROVE IInv'
    OBVIOUS
  <1>1. CASE Go
    BY <1>1, HandleEventStep, CallJsStep, ScheduleTimeoutEventStep, PauseStep,
       WasmExitStep, ThrowStep, SetResultStep, ClearTimeoutEventStep DEF Go
  <1>2. CASE Js
    BY <1>2, JsReturnsStep, CallGoStep, FireTimeoutStep DEF Js
  <1>3. CASE UNCHANGED vars
    BY <1>3, Stuttering
  <1>. QED  BY <1>1, <1>2, <1>3 DEF Next

-----------------------------------------------------------------------------
(***************************************************************************)
(* Theorems.                                                               *)
(***************************************************************************)
(* What the invariant says holds in every state.                           *)
THEOREM Invariance == Spec => []IInv
  BY InitIInv, NextIInv, PTL DEF Spec

(* The stack, the event and the timeouts of class Go have their types.     *)
THEOREM TypeCorrect == Spec => []TypeOK
  <1>1. IInv => TypeOK
    BY DEF IInv
  <1>. QED  BY <1>1, Invariance, PTL

(* wasm_exec.js:563-571: each call of a Go function makes Go handle its own *)
(* event, however the calls nest.                                          *)
THEOREM OwnEvent == Spec => []OwnEventIsHandled
  <1>1. IInv => OwnEventIsHandled
    <2>. SUFFICES ASSUME IInv, ~torn, NEW n \in 1..Depth
                  PROVE  LET f == stack[n] IN
                         /\ f.phase = "resumed"
                              => pending = (IF f.kind = "event" THEN f.of ELSE None)
                         /\ f.phase = "running"
                              => f.handles = (IF f.kind = "event" THEN f.of ELSE None)
      BY DEF OwnEventIsHandled
    <2>1. Sound(stack) /\ stack \in Seq(Frame) /\ stack # <<>> /\ Fits(stack[n])
      BY DEF IInv, Sound, Depth
    <2>2. CASE stack[n].phase = "resumed"
      <3>1. stack[n] = Top /\ Top.kind # "call"
        BY <2>1, <2>2 DEF Sound, Top, Depth, Fits
      <3>2. pending = IF Top.kind = "event" THEN Top.of ELSE None
        BY <2>1, <2>2, <3>1 DEF IInv, Awaited
      <3>. QED  BY <2>2, <3>1, <3>2
    <2>. QED  BY <2>1, <2>2 DEF Fits
  <1>. QED  BY <1>1, Invariance, PTL

(* wasm_exec.js:264-290: no timeout that Go waits for is lost, and none     *)
(* that it has cleared fires.                                              *)
THEOREM TimeoutsFire == Spec => []TimeoutWillFire
  <1>1. IInv => TimeoutWillFire
    BY DEF IInv
  <1>. QED  BY <1>1, Invariance, PTL

LEMMA Returned ==
    ASSUME IInv, [Next]_vars, NEW e \in Events, status'[e] = "returned",
           status[e] # "returned", ~exited'
    PROVE  status[e] = "answered"
  <1>1. CASE Pause
    <2>1. GoRuns /\ CanPause /\ Ended(Top, "returned") /\ Top.phase = "running"
      BY <1>1 DEF Pause, CanPause, GoRuns, Ended
    <2>2. Top.kind = "event" /\ Top.of = e
      BY <2>1 DEF Ended, IInv, TypeOK
    <2>3. Top.handles = e
      BY <2>1, <2>2, WhileGoRuns DEF Fits
    <2>. QED  BY <2>1, <2>3 DEF CanPause
  <1>2. CASE \E d \in Events : SetResult(d)
    BY <1>2 DEF SetResult, IInv, TypeOK
  <1>3. CASE \E d \in Events : CallGo(d)
    BY <1>3 DEF CallGo, IInv, TypeOK
  <1>4. CASE JsReturns \/ Throw
    BY <1>4 DEF JsReturns, Throw, Ended, IInv, TypeOK
  <1>5. CASE WasmExit
    BY <1>5 DEF WasmExit
  <1>6. CASE \/ HandleEvent \/ CallJs \/ ScheduleTimeoutEvent
             \/ \E id \in IDs : ClearTimeoutEvent(id) \/ FireTimeout(id)
    BY <1>6 DEF HandleEvent, CallJs, ScheduleTimeoutEvent, ClearTimeoutEvent, FireTimeout
  <1>7. CASE UNCHANGED vars
    BY <1>7 DEF vars
  <1>. QED  BY <1>1, <1>2, <1>3, <1>4, <1>5, <1>6, <1>7 DEF Next, Go, Js

(* wasm_exec.js:566-569: while Go has not exited, a call of a Go function   *)
(* returns with the result that Go has set for it.                         *)
THEOREM OwnResult == Spec => ReturnsItsResult
  <1>1. IInv /\ [Next]_vars =>
          [\A e \in Events : status'[e] = "returned" /\ status[e] # "returned" /\ ~exited'
              => status[e] = "answered"]_vars
    BY Returned
  <1>. QED  BY <1>1, Invariance, PTL DEF Spec, ReturnsItsResult

LEMMA Exited ==
    ASSUME IInv, Next, exited
    PROVE  resolved' /\ exited' /\ scheduled' = scheduled /\ Len(stack') <= Depth
  <1>1. resolved /\ Depth \in Nat
    BY DEF IInv, TypeOK, Depth
  <1>2. ~GoRuns
    BY WhileGoRuns
  <1>3. ~HandleEvent
    <2>1. ~torn /\ stack # <<>> => Top.phase = "running"
      BY OfTop DEF IInv, Fits
    <2>. QED  BY <2>1 DEF HandleEvent
  <1>4. ~Go
    BY <1>2, <1>3 DEF Go, CallJs, ScheduleTimeoutEvent, Pause, CanPause, WasmExit, Throw,
                      SetResult, ClearTimeoutEvent
  <1>5. CASE JsReturns
    <2>1. stack' = Pop(2) /\ UNCHANGED <<exited, resolved, scheduled>>
      BY <1>5 DEF JsReturns, timeouts, ending
    <2>2. Len(stack') <= Depth
      <3>1. stack \in Seq(Frame) /\ IInv'
        BY <1>5, JsReturnsStep DEF IInv, TypeOK
      <3>2. Depth - 2 <= Depth /\ Depth - 2 \in Int
        BY <1>1
      <3>3. Len(SubSeq(stack, 1, Depth - 2)) = IF 1 <= Depth - 2 THEN Depth - 2 - 1 + 1 ELSE 0
        BY <1>1, <3>1, <3>2 DEF Depth
      <3>. QED  BY <1>1, <2>1, <3>3 DEF Pop
    <2>. QED  BY <1>1, <2>1, <2>2
  <1>6. CASE \E e \in Events : CallGo(e)
    BY <1>1, <1>6 DEF CallGo, Resume, timeouts, ending, Depth
  <1>7. CASE \E id \in IDs : FireTimeout(id)
    BY <1>1, <1>7 DEF FireTimeout, Resume, ending, Depth
  <1>. QED  BY <1>4, <1>5, <1>6, <1>7 DEF Next, Js

(* wasm_exec.js:553-561: nothing enters Go after its exit, and whoever      *)
(* waits for the end is told.                                              *)
THEOREM ExitEnds == Spec => ExitIsTheEnd
  <1>1. IInv /\ [Next]_vars =>
          [exited => resolved' /\ exited' /\ scheduled' = scheduled
                       /\ Len(stack') <= Depth]_vars
    BY Exited
  <1>. QED  BY <1>1, Invariance, PTL DEF Spec, ExitIsTheEnd

-----------------------------------------------------------------------------
(***************************************************************************)
(* A call that Javascript has made and that has not returned is one frame  *)
(* of Go on the stack, whatever exits and exceptions have unwound.         *)
(***************************************************************************)
Begun == {"called", "answered"}

IsOf(f, e) == f.kind = "event" /\ f.of = e

OneFrameEach(s, st) ==
    /\ \A n \in 1..Len(s) : s[n].kind = "event" => st[s[n].of] \in Begun
    /\ \A m, n \in 1..Len(s) :
          s[m].kind = "event" /\ s[n].kind = "event" /\ s[m].of = s[n].of => m = n
    /\ \A e \in Events : st[e] \in Begun => \E n \in 1..Len(s) : IsOf(s[n], e)

CallsAreFrames == torn \/ OneFrameEach(stack, status)

(* The guards of JsReturns, HandleEvent, Pause, and SetResult for the event *)
(* of the top frame.                                                       *)
SomethingRuns ==
    \/ torn \/ stack = <<>>
    \/ JsRuns
    \/ Top.phase = "resumed"
    \/ CanPause
    \/ GoRuns /\ status[Top.handles] = "called" /\ \E n \in 1..Depth : stack[n].handles = Top.handles

LEMMA FramesStay ==
    ASSUME NEW s, NEW t, NEW st, NEW sp, OneFrameEach(s, st), Len(t) = Len(s),
           \A n \in 1..Len(s) : t[n].kind = s[n].kind /\ t[n].of = s[n].of,
           \A n \in 1..Len(s) : s[n].kind = "event" => s[n].of \in Events,
           \A e \in Events : sp[e] \in Begun <=> st[e] \in Begun
    PROVE  OneFrameEach(t, sp)
  <1>1. \A n \in 1..Len(t) : t[n].kind = "event" => sp[t[n].of] \in Begun
    BY DEF OneFrameEach
  <1>2. \A m, n \in 1..Len(t) :
           t[m].kind = "event" /\ t[n].kind = "event" /\ t[m].of = t[n].of => m = n
    BY DEF OneFrameEach
  <1>3. ASSUME NEW e \in Events, sp[e] \in Begun
        PROVE  \E n \in 1..Len(t) : IsOf(t[n], e)
    BY <1>3 DEF OneFrameEach, IsOf
  <1>. QED  BY <1>1, <1>2, <1>3 DEF OneFrameEach

LEMMA FramePushed ==
    ASSUME NEW s \in Seq(Frame), NEW t, NEW st, NEW sp, OneFrameEach(s, st),
           NEW f, t = Append(s, f),
           \A n \in 1..Len(s) : s[n].kind = "event" => s[n].of \in Events,
           \/ f.kind # "event" /\ sp = st
           \/ \E e \in Events : /\ IsOf(f, e) /\ st[e] \notin Begun /\ sp[e] \in Begun
                                /\ \A d \in Events \ {e} : sp[d] = st[d]
    PROVE  OneFrameEach(t, sp)
  <1>1. /\ Len(s) \in Nat /\ Len(t) = Len(s) + 1 /\ t[Len(t)] = f /\ Len(t) \in 1..Len(t)
        /\ \A n \in 1..Len(s) : n \in 1..Len(t) /\ t[n] = s[n] /\ n # Len(t)
        /\ \A n \in 1..Len(t) : n = Len(t) \/ n \in 1..Len(s)
    OBVIOUS
  <1>2. CASE f.kind # "event" /\ sp = st
    BY <1>1, <1>2 DEF OneFrameEach, IsOf
  <1>3. ASSUME NEW e \in Events, IsOf(f, e), st[e] \notin Begun, sp[e] \in Begun,
               \A d \in Events \ {e} : sp[d] = st[d]
        PROVE  OneFrameEach(t, sp)
    <2>1. \A n \in 1..Len(s) : s[n].kind = "event" => s[n].of # e /\ sp[s[n].of] = st[s[n].of]
      BY <1>3 DEF OneFrameEach
    <2>2. \A n \in 1..Len(t) : t[n].kind = "event" => sp[t[n].of] \in Begun
      BY <1>1, <1>3, <2>1 DEF OneFrameEach, IsOf
    <2>3. \A m, n \in 1..Len(t) :
             t[m].kind = "event" /\ t[n].kind = "event" /\ t[m].of = t[n].of => m = n
      BY <1>1, <1>3, <2>1 DEF OneFrameEach, IsOf
    <2>4. ASSUME NEW d \in Events, sp[d] \in Begun
          PROVE  \E n \in 1..Len(t) : IsOf(t[n], d)
      <3>1. CASE d = e
        BY <1>1, <1>3, <3>1
      <3>2. CASE d # e
        <4>1. PICK n \in 1..Len(s) : IsOf(s[n], d)
          BY <1>3, <2>4, <3>2 DEF OneFrameEach
        <4>. QED  BY <1>1, <4>1
      <3>. QED  BY <3>1, <3>2
    <2>. QED  BY <2>2, <2>3, <2>4 DEF OneFrameEach
  <1>. QED  BY <1>2, <1>3

LEMMA FramePopped ==
    ASSUME NEW s, Sound(s), s # <<>>, NEW st, NEW sp, NEW x, x \notin Begun,
           OneFrameEach(s, st), st \in [Events -> STRING],
           sp = IF s[Len(s)].kind = "event" THEN [st EXCEPT ![s[Len(s)].of] = x] ELSE st
    PROVE  OneFrameEach(SubSeq(s, 1, Len(s) - 1), sp)
  <1>. DEFINE t == SubSeq(s, 1, Len(s) - 1)
              f == s[Len(s)]
  <1>1. /\ Len(s) \in 1..Len(s)
        /\ \A n \in 1..Len(t) : n \in 1..Len(s) /\ t[n] = s[n] /\ n # Len(s)
        /\ \A n \in 1..Len(s) : n = Len(s) \/ n \in 1..Len(t)
    <2>1. s \in Seq(Frame)
      BY DEF Sound
    <2>2. Len(s) \in 1..Len(s) /\ \A n \in 1..Len(t) : n # Len(s)
      BY <2>1, AllButLast
    <2>. QED  BY <2>2, Popped
  <1>2. \A n \in 1..Len(s) : s[n].kind = "event" => s[n].of \in Events
    BY DEF Sound, Fits
  <1>. HIDE DEF t
  <1>3. \A n \in 1..Len(t) : t[n].kind = "event" =>
            t[n].of \in Events /\ (f.kind = "event" => t[n].of # f.of)
    BY <1>1, <1>2 DEF OneFrameEach
  <1>4. \A n \in 1..Len(t) : t[n].kind = "event" => sp[t[n].of] \in Begun
    BY <1>1, <1>3 DEF OneFrameEach
  <1>5. \A m, n \in 1..Len(t) :
           t[m].kind = "event" /\ t[n].kind = "event" /\ t[m].of = t[n].of => m = n
    BY <1>1 DEF OneFrameEach
  <1>6. ASSUME NEW e \in Events, sp[e] \in Begun
        PROVE  \E n \in 1..Len(t) : IsOf(t[n], e)
    <2>1. st[e] \in Begun /\ ~ IsOf(f, e)
      BY <1>6 DEF IsOf
    <2>2. PICK n \in 1..Len(s) : IsOf(s[n], e)
      BY <2>1 DEF OneFrameEach
    <2>. QED  BY <1>1, <2>1, <2>2
  <1>7. OneFrameEach(t, sp)
    BY <1>4, <1>5, <1>6 DEF OneFrameEach
  <1>. QED  BY <1>7 DEF t

LEMMA NextCallsAreFrames ==
    ASSUME IInv, CallsAreFrames, [Next]_vars
    PROVE  CallsAreFrames'
  <1>. SUFFICES ASSUME ~torn' PROVE OneFrameEach(stack, status)'
    BY DEF CallsAreFrames
  <1>e. ~torn => \A n \in 1..Len(stack) : stack[n].kind = "event" => stack[n].of \in Events
    BY DEF IInv, Sound, Fits
  <1>s. /\ status \in [Events -> STRING]
        /\ stack \in Seq(Frame)
        /\ ~torn => OneFrameEach(stack, status)
    BY DEF IInv, TypeOK, CallsAreFrames
  <1>1. ASSUME ~torn, Len(stack') = Len(stack),
               \A n \in 1..Len(stack) : stack'[n].kind = stack[n].kind /\ stack'[n].of = stack[n].of,
               \A e \in Events : status'[e] \in Begun <=> status[e] \in Begun
        PROVE  OneFrameEach(stack, status)'
    BY <1>1, <1>e, <1>s, FramesStay
  <1>2. ASSUME GoRuns, stack' = Pop(1), NEW x \in {"returned", "thrown"}, Ended(Top, x)
        PROVE  OneFrameEach(stack, status)'
    <2>1. Sound(stack) /\ stack # <<>> /\ ~torn /\ x \notin Begun
      BY <1>2, WhileGoRuns DEF Begun
    <2>2. /\ stack' = SubSeq(stack, 1, Len(stack) - 1)
          /\ status' = IF stack[Len(stack)].kind = "event"
                         THEN [status EXCEPT ![stack[Len(stack)].of] = x] ELSE status
      BY <1>2 DEF Pop, Ended, Top, Depth
    <2>3. OneFrameEach(SubSeq(stack, 1, Len(stack) - 1), status')
      BY <1>s, <2>1, <2>2, FramePopped
    <2>. QED  BY <2>2, <2>3
  <1>3. CASE HandleEvent
    <2>1. ~torn /\ stack # <<>> /\ UNCHANGED status
      BY <1>3 DEF HandleEvent
    <2>. DEFINE f == [Top EXCEPT !.phase = "running", !.handles = pending]
    <2>2. Top \in Frame /\ f \in Frame /\ f.kind = Top.kind /\ f.of = Top.of
      BY <2>1, OfTop, Handling DEF IInv, TypeOK
    <2>3. stack' = [stack EXCEPT ![Len(stack)] = f]
      BY <1>3 DEF HandleEvent, ReplaceTop, Depth
    <2>. HIDE DEF f
    <2>4. TopIsNow(stack, f, stack')
      BY <1>s, <2>1, <2>2, <2>3, TopReplaced
    <2>. QED  BY <1>1, <2>1, <2>2, <2>4 DEF TopIsNow, Top, Depth
  <1>4. ASSUME NEW e \in Events, SetResult(e)
        PROVE  OneFrameEach(stack, status)'
    <2>1. /\ ~torn /\ UNCHANGED stack /\ status[e] = "called"
          /\ status' = [status EXCEPT ![e] = "answered"]
      BY <1>4 DEF SetResult, GoRuns
    <2>2. \A d \in Events : status'[d] \in Begun <=> status[d] \in Begun
      BY <1>s, <2>1 DEF Begun
    <2>. QED  BY <1>1, <2>1, <2>2
  <1>5. ASSUME ~torn, UNCHANGED <<stack, status>>
        PROVE  OneFrameEach(stack, status)'
    BY <1>s, <1>5
  <1>6. CASE ScheduleTimeoutEvent \/ \E id \in IDs : ClearTimeoutEvent(id)
    BY <1>5, <1>6 DEF ScheduleTimeoutEvent, ClearTimeoutEvent, GoRuns
  <1>7. CASE CallJs
    <2>1. ~torn /\ stack' = Append(stack, Entry("call", None, "running")) /\ UNCHANGED status
      BY <1>7 DEF CallJs, GoRuns
    <2>2. Entry("call", None, "running").kind # "event"
      BY DEF Entry
    <2>. QED  BY <1>e, <1>s, <2>1, <2>2, FramePushed
  <1>8. CASE Pause
    <2>1. GoRuns
      BY <1>8 DEF Pause, CanPause
    <2>2. CASE Missed /\ stack' = ReplaceTop(Entry(Top.kind, Top.of, "resumed")) /\ UNCHANGED status
      <3>. DEFINE f == Entry(Top.kind, Top.of, "resumed")
      <3>1. ~torn /\ stack # <<>> /\ f \in Frame /\ f.kind = Top.kind /\ f.of = Top.of
        BY <2>1, WhileGoRuns, FrameFields, Entries
      <3>2. stack' = [stack EXCEPT ![Len(stack)] = f]
        BY <2>2 DEF ReplaceTop, Depth
      <3>. HIDE DEF f
      <3>3. TopIsNow(stack, f, stack')
        BY <1>s, <3>1, <3>2, TopReplaced
      <3>. QED  BY <1>1, <2>2, <3>1, <3>3 DEF TopIsNow, Top, Depth
    <2>3. CASE stack' = Pop(1) /\ Ended(Top, "returned")
      BY <1>2, <2>1, <2>3
    <2>. QED  BY <1>8, <2>2, <2>3 DEF Pause
  <1>9. CASE WasmExit
    BY <1>2, <1>9 DEF WasmExit
  <1>10. CASE Throw
    BY <1>2, <1>10 DEF Throw
  <1>11. CASE JsReturns
    <2>1. /\ ~torn /\ Sound(stack) /\ stack # <<>> /\ stack[Len(stack)].kind = "call"
      BY <1>11, WhileJsRuns DEF JsReturns, Top, Depth
    <2>. DEFINE t == SubSeq(stack, 1, Len(stack) - 1)
    <2>2. OneFrameEach(t, status)
      <3>1. "returned" \notin Begun
        BY DEF Begun
      <3>2. status = IF stack[Len(stack)].kind = "event"
                       THEN [status EXCEPT ![stack[Len(stack)].of] = "returned"] ELSE status
        BY <2>1
      <3>3. OneFrameEach(SubSeq(stack, 1, Len(stack) - 1), status)
        BY <1>s, <2>1, <3>1, <3>2, FramePopped
      <3>. QED  BY <3>3
    <2>3. CASE stack' = Pop(1) /\ UNCHANGED status
      BY <2>2, <2>3 DEF Pop, Depth
    <2>4. CASE stack' = Pop(2) /\ Ended(stack[Depth - 1], "thrown")
      <3>1. Sound(t) /\ Len(t) = Len(stack) - 1 /\ t \in Seq(Frame)
        BY <2>1, Popped DEF Sound
      <3>2. /\ Len(stack) \in Nat /\ Len(stack) # 1 /\ Len(stack) # 0
            /\ Len(stack) - 1 \in 1..Len(t) /\ t[Len(t)] = stack[Len(stack) - 1]
        <4>1. Len(stack) \in Nat \ {0} /\ Len(stack) \in 1..Len(stack)
          BY <1>s, <2>1
        <4>2. Len(stack) # 1
          BY <2>1, <4>1 DEF Sound, Alternate
        <4>3. Len(stack) - 1 \in 1..Len(t)
          <5>. HIDE DEF t
          <5>. QED  BY <3>1, <4>1, <4>2
        <4>4. t[Len(t)] = stack[Len(stack) - 1]
          BY <2>1, <3>1, <4>3, Popped
        <4>. QED  BY <4>1, <4>2, <4>3, <4>4
      <3>3. stack' = SubSeq(t, 1, Len(t) - 1)
        <4>1. \A s \in Seq(Frame) : \A m, n \in Nat : m <= n /\ n <= Len(s)
                 => SubSeq(SubSeq(s, 1, n), 1, m) = SubSeq(s, 1, m)
          OBVIOUS
        <4>2. Len(stack) - 1 \in Nat /\ Len(stack) - 2 \in Nat /\ Len(t) - 1 = Len(stack) - 2
          <5>. HIDE DEF t
          <5>. QED  BY <3>1, <3>2
        <4>3. stack' = SubSeq(stack, 1, Len(stack) - 2)
          BY <2>4 DEF Pop, Depth
        <4>4. SubSeq(t, 1, Len(stack) - 2) = SubSeq(stack, 1, Len(stack) - 2)
          BY <1>s, <4>1, <4>2
        <4>. QED  BY <4>2, <4>3, <4>4
      <3>. HIDE DEF t
      <3>4. status' = IF t[Len(t)].kind = "event"
                        THEN [status EXCEPT ![t[Len(t)].of] = "thrown"] ELSE status
        BY <2>4, <3>2 DEF Ended, Depth
      <3>5. t # <<>> /\ "thrown" \notin Begun
        BY <3>1, <3>2 DEF Begun
      <3>6. OneFrameEach(SubSeq(t, 1, Len(t) - 1), status')
        BY <1>s, <2>2, <3>1, <3>4, <3>5, FramePopped
      <3>. QED  BY <3>3, <3>6
    <2>. QED  BY <1>11, <2>3, <2>4 DEF JsReturns
  <1>12. ASSUME NEW e \in Events, CallGo(e)
         PROVE  OneFrameEach(stack, status)'
    <2>1. ~torn /\ status[e] = "new"
      BY <1>12 DEF CallGo, JsRuns
    <2>2. CASE Resume("event", e) /\ status' = [status EXCEPT ![e] = "called"]
      <3>1. stack' = Append(stack, Entry("event", e, "resumed"))
        BY <2>2 DEF Resume
      <3>2. IsOf(Entry("event", e, "resumed"), e)
        BY DEF IsOf, Entry
      <3>3. /\ status[e] \notin Begun /\ status'[e] \in Begun
            /\ \A d \in Events \ {e} : status'[d] = status[d]
        BY <1>s, <2>1, <2>2 DEF Begun
      <3>. QED  BY <1>e, <1>s, <2>1, <3>1, <3>2, <3>3, FramePushed
    <2>3. CASE UNCHANGED stack /\ status' = [status EXCEPT ![e] = "thrown"]
      <3>1. \A d \in Events : status'[d] \in Begun <=> status[d] \in Begun
        BY <1>s, <2>1, <2>3 DEF Begun
      <3>. QED  BY <1>1, <2>1, <2>3, <3>1
    <2>. QED  BY <1>12, <2>2, <2>3 DEF CallGo
  <1>13. ASSUME NEW id \in IDs, FireTimeout(id)
         PROVE  OneFrameEach(stack, status)'
    <2>1. ~torn /\ UNCHANGED status
      BY <1>13 DEF FireTimeout, JsRuns
    <2>2. CASE stack' = Append(stack, Entry("timeout", id, "resumed"))
      <3>1. Entry("timeout", id, "resumed").kind # "event"
        BY DEF Entry
      <3>. QED  BY <1>e, <1>s, <2>1, <2>2, <3>1, FramePushed
    <2>3. CASE UNCHANGED stack
      BY <1>5, <2>1, <2>3
    <2>. QED  BY <1>13, <2>2, <2>3 DEF FireTimeout, Resume
  <1>14. CASE UNCHANGED vars
    BY <1>5, <1>14 DEF vars
  <1>. QED  BY <1>3, <1>4, <1>6, <1>7, <1>8, <1>9, <1>10, <1>11, <1>12, <1>13, <1>14
            DEF Next, Go, Js

(* wasm_exec.js:563-571, 553-561: a call of a Go function that has begun is *)
(* one frame of Go, and no frame is of a call that is over: no exit and no *)
(* exception leaves a call behind, or a frame for which nobody waits.      *)
THEOREM CallsHaveFrames == Spec => []CallsAreFrames
  <1>1. Init => CallsAreFrames
    BY DEF Init, CallsAreFrames, OneFrameEach, Entry, Begun
  <1>2. IInv /\ CallsAreFrames /\ [Next]_vars => CallsAreFrames'
    BY NextCallsAreFrames
  <1>. QED  BY <1>1, <1>2, Invariance, PTL DEF Spec

(* Go and Javascript never wait for each other on the one stack: whatever  *)
(* frame is on top can take a step, which the ones below it wait for.      *)
THEOREM NeverStuck == Spec => []SomethingRuns
  <1>1. IInv /\ CallsAreFrames => SomethingRuns
    <2>. SUFFICES ASSUME IInv, ~torn, stack # <<>>, OneFrameEach(stack, status),
                         Top.kind # "call", Top.phase # "resumed", ~ CanPause
                  PROVE  /\ GoRuns /\ status[Top.handles] = "called"
                         /\ \E n \in 1..Depth : stack[n].handles = Top.handles
      BY DEF SomethingRuns, CallsAreFrames, JsRuns
    <2>1. Top \in Frame /\ Fits(Top) /\ Depth \in 1..Depth
      BY OfTop
    <2>2. Top.phase = "running" /\ GoRuns
      BY <2>1, FrameFields DEF GoRuns
    <2>3. Top.kind = "event" /\ Top.handles = Top.of /\ status[Top.handles] # "answered"
      BY <2>1, <2>2 DEF CanPause, Fits
    <2>4. status[Top.of] \in Begun
      BY <2>1, <2>3 DEF OneFrameEach, Top, Depth
    <2>. QED  BY <2>1, <2>2, <2>3, <2>4 DEF Begun, Top
  <1>. QED  BY <1>1, Invariance, CallsHaveFrames, PTL

=============================================================================
