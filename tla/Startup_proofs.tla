----------------------------- MODULE Startup_proofs -----------------------------
(***************************************************************************)
(* Theorems about Startup for any number of calls, databases and releases: *)
(* whoever has the API has that of a program which has started, a manager  *)
(* has its worker, and workers run files of one release;                   *)
(* and no call waits for what will not come.                               *)
(***************************************************************************)
EXTENDS Startup, TLAPS

USE StartupNames, StartupRelease DEF Loads

-----------------------------------------------------------------------------
(***************************************************************************)
(* The inductive invariant.  A load that is not over has no worker yet, so *)
(* that a manager is made once and hears one signal; what is in window is  *)
(* of a program whose logger's manager is up; and as long as the base path *)
(* has not been moved, everything loaded is from there.                    *)
(***************************************************************************)
Connected ==
    \A l \in Loads :
        /\ pc[l] \in {"idle", "import", "fetchExec", "fetched"}
              => worker[l] = "none" /\ (l \in Calls => program[l] = "none")
        /\ worker[l] = "none" => manager[l] = "none" /\ l \notin blocked
        /\ l \in signalled => worker[l] = "serving"
        /\ manager[l] = "connecting" => l \notin blocked
        /\ manager[l] = "up" => worker[l] = "serving" /\ l \notin signalled /\ l \notin blocked

Started(c) == c \in Calls /\ manager[c] = "up" /\ program[c] \in {"running", "exited"}

Offered ==
    /\ \A c \in Calls : program[c] = "running" => manager[c] = "up"
    /\ window.functions # None => Started(window.functions)
    /\ window.GetLogger # None => Started(window.GetLogger)
    /\ window.logger # None => Started(window.logger)
    /\ \A c \in Calls : c \in ready => window.functions # None /\ window.GetLogger # None
    /\ \A c \in Calls : pc[c] = "done" => api[c] # None /\ Started(api[c]) /\ window.logger # None

OneRelease ==
    /\ \A l \in Loads : pc[l] \in {"fetchExec", "fetched"} \/ worker[l] # "none"
                           => wasm[l] # None
    /\ window.xxdkWasmExecBlobURL # None => \E l \in Loads : wasm[l] # None
    /\ \/ moved
       \/ /\ window.xxdkWasmExecBlobURL \in {None, window.xxdkBasePath}
          /\ \A l \in Loads : wasm[l] # None
                => wasm[l] = window.xxdkBasePath /\ exec[l] = window.xxdkBasePath

IInv == TypeOK /\ Connected /\ Offered /\ OneRelease

-----------------------------------------------------------------------------
LEMMA InitIInv == Init => IInv
  <1>. SUFFICES ASSUME Init PROVE IInv
    OBVIOUS
  <1>1. TypeOK
    BY DEF Init, TypeOK, Window
  <1>2. Connected
    BY DEF Init, Connected
  <1>3. Offered
    BY DEF Init, Offered
  <1>4. OneRelease
    BY DEF Init, OneRelease
  <1>. QED  BY <1>1, <1>2, <1>3, <1>4 DEF IInv

LEMMA SetXXDKBasePathStep ==
    ASSUME IInv, NEW r \in Releases, SetXXDKBasePath(r)
    PROVE  IInv'
  <1>1. TypeOK'
    BY DEF IInv, TypeOK, Window, SetXXDKBasePath, loading, workers
  <1>2. Connected'
    BY DEF IInv, TypeOK, Connected, SetXXDKBasePath, loading, workers
  <1>3. Offered'
    BY DEF IInv, TypeOK, Window, Connected, Offered, Started, SetXXDKBasePath, loading, workers
  <1>4. OneRelease'
    BY DEF IInv, TypeOK, Window, OneRelease, SetXXDKBasePath, loading, workers
  <1>. QED  BY <1>1, <1>2, <1>3, <1>4 DEF IInv

LEMMA InitXXDKStep ==
    ASSUME IInv, NEW c \in Calls, InitXXDK(c)
    PROVE  IInv'
  <1>1. TypeOK'
    BY DEF IInv, TypeOK, Window, InitXXDK, loading, workers
  <1>2. Connected'
    BY DEF IInv, TypeOK, Connected, InitXXDK, loading, workers
  <1>3. Offered'
    BY DEF IInv, TypeOK, Window, Connected, Offered, Started, InitXXDK, loading, workers
  <1>4. OneRelease'
    BY DEF IInv, TypeOK, Window, OneRelease, InitXXDK, loading, workers
  <1>. QED  BY <1>1, <1>2, <1>3, <1>4 DEF IInv

LEMMA ImportedStep ==
    ASSUME IInv, NEW c \in Calls, Imported(c)
    PROVE  IInv'
  <1>1. TypeOK'
    BY DEF IInv, TypeOK, Window, Imported, WorkerPath, DownloadWorker, loading, workers
  <1>2. Connected'
    BY DEF IInv, TypeOK, Connected, Imported, WorkerPath, DownloadWorker, loading, workers
  <1>3. Offered'
    BY DEF IInv, TypeOK, Window, Connected, Offered, Started, Imported, WorkerPath, DownloadWorker, loading, workers
  <1>4. OneRelease'
    BY DEF IInv, TypeOK, Window, OneRelease, Imported, WorkerPath, DownloadWorker, loading, workers
  <1>. QED  BY <1>1, <1>2, <1>3, <1>4 DEF IInv

LEMMA RunStep ==
    ASSUME IInv, NEW c \in Calls, Run(c)
    PROVE  IInv'
  <1>1. TypeOK'
    BY DEF IInv, TypeOK, Window, Run, NewManager, loading, workers
  <1>2. Connected'
    BY DEF IInv, TypeOK, Connected, Run, NewManager, loading, workers
  <1>3. Offered'
    BY DEF IInv, TypeOK, Window, Connected, Offered, Started, Run, NewManager, loading, workers
  <1>4. OneRelease'
    BY DEF IInv, TypeOK, Window, OneRelease, Run, NewManager, loading, workers
  <1>. QED  BY <1>1, <1>2, <1>3, <1>4 DEF IInv

LEMMA ResolveStep ==
    ASSUME IInv, NEW c \in Calls, Resolve(c)
    PROVE  IInv'
  <1>1. TypeOK'
    BY DEF IInv, TypeOK, Window, Resolve, IsReady, loading, workers
  <1>2. Connected'
    BY DEF IInv, TypeOK, Connected, Resolve, IsReady, loading, workers
  <1>3. Offered'
    BY DEF IInv, TypeOK, Window, Connected, Offered, Started, Resolve, IsReady, loading, workers
  <1>4. OneRelease'
    BY DEF IInv, TypeOK, Window, OneRelease, Resolve, IsReady, loading, workers
  <1>. QED  BY <1>1, <1>2, <1>3, <1>4 DEF IInv

LEMMA MainStep ==
    ASSUME IInv, NEW c \in Calls, Main(c)
    PROVE  IInv'
  <1>1. /\ program[c] = "starting" /\ manager[c] = "up"
        /\ UNCHANGED <<pc, wasm, exec, moved, worker, signalled, manager, blocked, owner, api>>
    BY DEF Main, loading, workers
  <1>2. CASE /\ window.onWasmInitialized # None
             /\ program' = [program EXCEPT ![c] = "running"]
             /\ window' = [window EXCEPT !.GetLogger = c, !.functions = c]
             /\ ready' = ready \cup {window.onWasmInitialized}
             /\ UNCHANGED failed
    <2>0. /\ window \in Window /\ window' \in Window /\ ready' \subseteq Calls
          /\ window'.GetLogger = c /\ window'.functions = c
          /\ window'.logger = window.logger
          /\ window'.xxdkWasmExecBlobURL = window.xxdkWasmExecBlobURL
          /\ window'.xxdkBasePath = window.xxdkBasePath
      BY <1>2 DEF IInv, TypeOK, Window
    <2>1. TypeOK'
      BY <1>1, <1>2, <2>0 DEF IInv, TypeOK
    <2>2. Connected'
      BY <1>1, <1>2 DEF IInv, TypeOK, Connected
    <2>3. Offered'
      BY <1>1, <1>2, <2>0 DEF IInv, TypeOK, Offered, Started
    <2>4. OneRelease'
      BY <1>1, <2>0 DEF IInv, OneRelease
    <2>. QED  BY <2>1, <2>2, <2>3, <2>4 DEF IInv
  <1>3. CASE /\ Exit(c)
             /\ window' = [window EXCEPT !.GetLogger = c]
             /\ failed' = TRUE
             /\ UNCHANGED ready
    <2>0. /\ window \in Window /\ window' \in Window
          /\ window'.GetLogger = c /\ window'.functions = window.functions
          /\ window'.logger = window.logger
          /\ window'.xxdkWasmExecBlobURL = window.xxdkWasmExecBlobURL
          /\ window'.xxdkBasePath = window.xxdkBasePath
      BY <1>3 DEF IInv, TypeOK, Window
    <2>1. TypeOK'
      BY <1>1, <1>3, <2>0 DEF IInv, TypeOK, Exit
    <2>2. Connected'
      BY <1>1, <1>3 DEF IInv, TypeOK, Connected, Exit
    <2>3. Offered'
      BY <1>1, <1>3, <2>0 DEF IInv, TypeOK, Offered, Started, Exit
    <2>4. OneRelease'
      BY <1>1, <2>0 DEF IInv, OneRelease
    <2>. QED  BY <2>1, <2>2, <2>3, <2>4 DEF IInv
  <1>. QED  BY <1>2, <1>3 DEF Main

LEMMA CrashStep ==
    ASSUME IInv, NEW c \in Calls, Crash(c)
    PROVE  IInv'
  <1>1. TypeOK'
    BY DEF IInv, TypeOK, Window, Crash, Exit, loading, workers
  <1>2. Connected'
    BY DEF IInv, TypeOK, Connected, Crash, Exit, loading, workers
  <1>3. Offered'
    BY DEF IInv, TypeOK, Window, Connected, Offered, Started, Crash, Exit, loading, workers
  <1>4. OneRelease'
    BY DEF IInv, TypeOK, Window, OneRelease, Crash, Exit, loading, workers
  <1>. QED  BY <1>1, <1>2, <1>3, <1>4 DEF IInv

LEMMA OpenDatabaseStep ==
    ASSUME IInv, NEW d \in Databases, OpenDatabase(d)
    PROVE  IInv'
  <1>1. TypeOK'
    BY DEF IInv, TypeOK, Window, OpenDatabase, WorkerPath, DownloadWorker, loading, workers
  <1>2. Connected'
    BY DEF IInv, TypeOK, Connected, OpenDatabase, WorkerPath, DownloadWorker, loading, workers
  <1>3. Offered'
    BY DEF IInv, TypeOK, Window, Connected, Offered, Started, OpenDatabase, WorkerPath, DownloadWorker, loading, workers
  <1>4. OneRelease'
    BY DEF IInv, TypeOK, Window, OneRelease, OpenDatabase, WorkerPath, DownloadWorker, loading, workers
  <1>. QED  BY <1>1, <1>2, <1>3, <1>4 DEF IInv

LEMMA NewEventModelStep ==
    ASSUME IInv, NEW d \in Databases, NewEventModel(d)
    PROVE  IInv'
  <1>1. TypeOK'
    BY DEF IInv, TypeOK, Window, NewEventModel, NewManager, loading, workers
  <1>2. Connected'
    BY DEF IInv, TypeOK, Connected, NewEventModel, NewManager, loading, workers
  <1>3. Offered'
    BY DEF IInv, TypeOK, Window, Connected, Offered, Started, NewEventModel, NewManager, loading, workers
  <1>4. OneRelease'
    BY DEF IInv, TypeOK, Window, OneRelease, NewEventModel, NewManager, loading, workers
  <1>. QED  BY <1>1, <1>2, <1>3, <1>4 DEF IInv

LEMMA WasmExecBlobStep ==
    ASSUME IInv, NEW l \in Loads, WasmExecBlob(l)
    PROVE  IInv'
  <1>1. TypeOK'
    BY DEF IInv, TypeOK, Window, WasmExecBlob, loading, workers
  <1>2. Connected'
    BY DEF IInv, TypeOK, Connected, WasmExecBlob, loading, workers
  <1>3. Offered'
    BY DEF IInv, TypeOK, Window, Connected, Offered, Started, WasmExecBlob, loading, workers
  <1>4. OneRelease'
    BY DEF IInv, TypeOK, Window, OneRelease, WasmExecBlob, loading, workers
  <1>. QED  BY <1>1, <1>2, <1>3, <1>4 DEF IInv

LEMMA WorkerStartsStep ==
    ASSUME IInv, NEW l \in Loads, WorkerStarts(l)
    PROVE  IInv'
  <1>1. TypeOK'
    BY DEF IInv, TypeOK, Window, WorkerStarts, loading, workers
  <1>2. Connected'
    BY DEF IInv, TypeOK, Connected, WorkerStarts, loading, workers
  <1>3. Offered'
    BY DEF IInv, TypeOK, Window, Connected, Offered, Started, WorkerStarts, loading, workers
  <1>4. OneRelease'
    BY DEF IInv, TypeOK, Window, OneRelease, WorkerStarts, loading, workers
  <1>. QED  BY <1>1, <1>2, <1>3, <1>4 DEF IInv

LEMMA ReadyStep ==
    ASSUME IInv, NEW l \in Loads, Ready(l)
    PROVE  IInv'
  <1>1. TypeOK'
    BY DEF IInv, TypeOK, Window, Ready, Alive, loading, workers
  <1>2. Connected'
    BY DEF IInv, TypeOK, Connected, Ready, Alive, loading, workers
  <1>3. Offered'
    BY DEF IInv, TypeOK, Window, Connected, Offered, Started, Ready, Alive, loading, workers
  <1>4. OneRelease'
    BY DEF IInv, TypeOK, Window, OneRelease, Ready, Alive, loading, workers
  <1>. QED  BY <1>1, <1>2, <1>3, <1>4 DEF IInv

LEMMA AwaitFailsStep ==
    ASSUME IInv, NEW l \in Loads, AwaitFails(l)
    PROVE  IInv'
  <1>1. TypeOK'
    BY DEF IInv, TypeOK, Window, AwaitFails, loading, workers
  <1>2. Connected'
    BY DEF IInv, TypeOK, Connected, AwaitFails, loading, workers
  <1>3. Offered'
    BY DEF IInv, TypeOK, Window, Connected, Offered, Started, AwaitFails, loading, workers
  <1>4. OneRelease'
    BY DEF IInv, TypeOK, Window, OneRelease, AwaitFails, loading, workers
  <1>. QED  BY <1>1, <1>2, <1>3, <1>4 DEF IInv

LEMMA TimeOutStep ==
    ASSUME IInv, NEW l \in Loads, TimeOut(l)
    PROVE  IInv'
  <1>1. TypeOK'
    BY DEF IInv, TypeOK, Window, TimeOut, Exit, Alive, loading, workers
  <1>2. Connected'
    BY DEF IInv, TypeOK, Connected, TimeOut, Exit, Alive, loading, workers
  <1>3. Offered'
    BY DEF IInv, TypeOK, Window, Connected, Offered, Started, TimeOut, Exit, Alive, loading, workers
  <1>4. OneRelease'
    BY DEF IInv, TypeOK, Window, OneRelease, TimeOut, Exit, Alive, loading, workers
  <1>. QED  BY <1>1, <1>2, <1>3, <1>4 DEF IInv

LEMMA NextIInv == IInv /\ [Next]_vars => IInv'
  <1>. SUFFICES ASSUME IInv, [Next]_vars PROVE IInv'
    OBVIOUS
  <1>1. CASE Next
    BY <1>1, SetXXDKBasePathStep, InitXXDKStep, ImportedStep, RunStep, ResolveStep, MainStep, CrashStep, OpenDatabaseStep, NewEventModelStep, WasmExecBlobStep, WorkerStartsStep, ReadyStep, AwaitFailsStep, TimeOutStep DEF Next, Faults
  <1>2. CASE UNCHANGED vars
    BY <1>2 DEF IInv, TypeOK, Connected, Offered, Started, OneRelease, vars, loading, workers
  <1>. QED  BY <1>1, <1>2

-----------------------------------------------------------------------------
(***************************************************************************)
(* Theorems.                                                               *)
(***************************************************************************)
(* What the invariant says holds in every state.                           *)
THEOREM Invariance == Spec => []IInv
  BY InitIInv, NextIInv, PTL DEF Spec

(* The start of any number of programs keeps to its types.                 *)
THEOREM TypeCorrect == Spec => []TypeOK
  <1>1. IInv => TypeOK
    BY DEF IInv
  <1>. QED  BY <1>1, Invariance, PTL

(* xxdk.ts:50-134: a call resolves with the functions of a program that has *)
(* got to the end of its start, also if other calls were faster.           *)
THEOREM ApiStarted == Spec => []ApiIsOfAStartedProgram
  <1>1. IInv => ApiIsOfAStartedProgram
    BY DEF IInv, Offered, Started, Connected, ApiIsOfAStartedProgram
  <1>. QED  BY <1>1, Invariance, PTL

(* manager.go:41-76: NewManager returns a manager only for a worker that   *)
(* has its callbacks and can be heard.                                     *)
THEOREM HaveWorkers == Spec => []ManagersHaveWorkers
  <1>1. IInv => ManagersHaveWorkers
    BY DEF IInv, Connected, ManagersHaveWorkers
  <1>. QED  BY <1>1, Invariance, PTL

(* paths.ts:80-112: a worker's wasm and wasm_exec.js are of one release,   *)
(* unless the base path is set after the first load.                       *)
THEOREM Match == Spec => []WorkersMatch
  <1>1. IInv => WorkersMatch
    BY DEF IInv, OneRelease, WorkersMatch
  <1>. QED  BY <1>1, Invariance, PTL

-----------------------------------------------------------------------------
(***************************************************************************)
(* No call is stuck.  What stays with TLC is that the start ends; what can *)
(* be proved of it is that as long as nothing has failed there is always a *)
(* step left to take, and that the steps are few.                          *)
(***************************************************************************)
AllWell ==
    /\ \A c \in Calls : program[c] # "exited"
    /\ \A l \in Loads : pc[l] # "hangs" /\ manager[l] # "timedOut"

\* NewManager waits for a worker whose signal is still to be sent or heard.
Awaited(l) == manager[l] = "connecting" => worker[l] = "loading" \/ l \in signalled

\* The last call has set its resolver, which no other has replaced when its
\* program gets to the end of main.
Waiting ==
    /\ \A l \in Loads : manager[l] # "none" => owner[l] \in Calls
    /\ \A c \in Calls :
          /\ pc[c] = "isReady" => program[c] # "none" /\ manager[c] # "none"
          /\ window.onWasmInitialized = c =>
                /\ pc[c] \notin {"idle", "import"}
                /\ program[c] = "running" => c \in ready

Kept == ~failed => AllWell /\ \A l \in Loads : Awaited(l)

GoesOn == Waiting /\ Kept

\* The steps that a call has to wait for until it is resolved.
Left(c) ==
    CASE pc[c] = "fetchExec" -> 6
      [] pc[c] = "fetched"   -> 5
      [] pc[c] = "isReady" /\ c \notin ready ->
            IF manager[c] = "up" THEN 2 ELSE IF worker[c] = "serving" THEN 3 ELSE 4
      [] pc[c] = "isReady" /\ c \in ready -> 1
      [] OTHER -> 0

Due(c) ==
    CASE Left(c) = 6 -> WasmExecBlob(c)
      [] Left(c) = 5 -> Run(c)
      [] Left(c) = 4 -> WorkerStarts(c)
      [] Left(c) = 3 -> Ready(c)
      [] Left(c) = 2 -> Main(c)
      [] OTHER       -> Resolve(c)

\* The guard of the step that is due.
Possible(c) ==
    CASE Left(c) = 4 -> worker[c] = "loading"
      [] Left(c) = 3 -> c \in signalled
      [] Left(c) = 2 -> program[c] = "starting"
      [] Left(c) = 1 -> window.GetLogger # None /\ program[window.GetLogger] # "exited"
      [] OTHER       -> Left(c) = 0 => pc[c] = "done"

\* A manager waits for a worker that will be heard.
ManagersAreHeard == failed \/ \A l \in Loads : Awaited(l)

\* The last call is resolved, or can take the step that is due.
LastCallGoesOn ==
    \A c \in Calls : window.onWasmInitialized = c => failed \/ Possible(c)

\* The step that is due is one less to take, and no other is one more.
LastCallAdvances ==
    \A c \in Calls :
        window.onWasmInitialized = c /\ ~failed' =>
            Left(c)' <= Left(c) /\ (Left(c) > 0 /\ Due(c) => Left(c)' < Left(c))

LEMMA SetXXDKBasePathGoesOn ==
    ASSUME IInv, IInv', GoesOn, NEW r \in Releases, SetXXDKBasePath(r)
    PROVE  GoesOn'
  <1>1. Waiting'
    BY DEF IInv, TypeOK, Window, GoesOn, Waiting, SetXXDKBasePath, loading, workers
  <1>2. Kept'
    BY DEF IInv, TypeOK, Connected, GoesOn, Kept, AllWell, Awaited, SetXXDKBasePath, loading, workers
  <1>. QED  BY <1>1, <1>2 DEF GoesOn

LEMMA InitXXDKGoesOn ==
    ASSUME IInv, IInv', GoesOn, NEW c \in Calls, InitXXDK(c)
    PROVE  GoesOn'
  <1>1. Waiting'
    BY DEF IInv, TypeOK, Window, GoesOn, Waiting, InitXXDK, loading, workers
  <1>2. Kept'
    BY DEF IInv, TypeOK, Connected, GoesOn, Kept, AllWell, Awaited, InitXXDK, loading, workers
  <1>. QED  BY <1>1, <1>2 DEF GoesOn

LEMMA ImportedGoesOn ==
    ASSUME IInv, IInv', GoesOn, NEW c \in Calls, Imported(c)
    PROVE  GoesOn'
  <1>1. Waiting'
    BY DEF IInv, TypeOK, Window, Connected, GoesOn, Waiting, Imported, WorkerPath, DownloadWorker, loading, workers
  <1>2. Kept'
    BY DEF IInv, TypeOK, Connected, GoesOn, Kept, AllWell, Awaited, Imported, WorkerPath, DownloadWorker, loading, workers
  <1>. QED  BY <1>1, <1>2 DEF GoesOn

LEMMA RunGoesOn ==
    ASSUME IInv, IInv', GoesOn, NEW c \in Calls, Run(c)
    PROVE  GoesOn'
  <1>1. Waiting'
    BY DEF IInv, TypeOK, Window, GoesOn, Waiting, Run, NewManager, loading, workers
  <1>2. Kept'
    BY DEF IInv, TypeOK, Connected, GoesOn, Kept, AllWell, Awaited, Run, NewManager, loading, workers
  <1>. QED  BY <1>1, <1>2 DEF GoesOn

LEMMA ResolveGoesOn ==
    ASSUME IInv, IInv', GoesOn, NEW c \in Calls, Resolve(c)
    PROVE  GoesOn'
  <1>1. Waiting'
    <2>1. /\ window'.onWasmInitialized = window.onWasmInitialized
          /\ \A l \in Loads : pc'[l] = pc[l] \/ pc'[l] \in {"hangs", "done"}
          /\ UNCHANGED <<manager, owner, program, ready>>
      BY DEF IInv, TypeOK, Window, Resolve, workers
    <2>. QED  BY <2>1 DEF IInv, TypeOK, GoesOn, Waiting
  <1>2. Kept'
    BY DEF IInv, TypeOK, Offered, Started, GoesOn, Kept, AllWell, Awaited, Resolve, IsReady, loading, workers
  <1>. QED  BY <1>1, <1>2 DEF GoesOn

LEMMA MainGoesOn ==
    ASSUME IInv, IInv', GoesOn, NEW c \in Calls, Main(c)
    PROVE  GoesOn'
  <1>1. Waiting'
    <2>0. \/ window' = [window EXCEPT !.GetLogger = c, !.functions = c]
          \/ window' = [window EXCEPT !.GetLogger = c]
      BY DEF Main
    <2>1. window'.onWasmInitialized = window.onWasmInitialized
      <3>1. window \in Window
        BY DEF IInv, TypeOK
      <3>2. CASE window' = [window EXCEPT !.GetLogger = c, !.functions = c]
        BY <3>1, <3>2 DEF Window
      <3>3. CASE window' = [window EXCEPT !.GetLogger = c]
        BY <3>1, <3>3 DEF Window
      <3>. QED  BY <2>0, <3>2, <3>3
    <2>3. UNCHANGED <<pc, manager, owner>>
      BY DEF Main, workers
    <2>2. /\ \A b \in Calls : b \in ready => b \in ready'
          /\ \A b \in Calls : program'[b] = "none" => program[b] = "none"
          /\ \A b \in Calls : program'[b] = "running"
                => program[b] = "running" \/ window.onWasmInitialized \in ready'
      BY DEF IInv, TypeOK, Main, Exit
    <2>. QED  BY <2>1, <2>2, <2>3 DEF IInv, TypeOK, GoesOn, Waiting
  <1>2. Kept'
    BY DEF IInv, TypeOK, Connected, GoesOn, Kept, AllWell, Awaited, Main, Exit, loading, workers
  <1>. QED  BY <1>1, <1>2 DEF GoesOn

LEMMA CrashGoesOn ==
    ASSUME IInv, IInv', GoesOn, NEW c \in Calls, Crash(c)
    PROVE  GoesOn'
  <1>1. Waiting'
    BY DEF IInv, TypeOK, Window, GoesOn, Waiting, Crash, Exit, loading, workers
  <1>2. Kept'
    BY DEF IInv, TypeOK, Connected, GoesOn, Kept, AllWell, Awaited, Crash, Exit, loading, workers
  <1>. QED  BY <1>1, <1>2 DEF GoesOn

LEMMA OpenDatabaseGoesOn ==
    ASSUME IInv, IInv', GoesOn, NEW d \in Databases, OpenDatabase(d)
    PROVE  GoesOn'
  <1>1. Waiting'
    BY DEF IInv, TypeOK, Window, GoesOn, Waiting, OpenDatabase, WorkerPath, DownloadWorker, loading, workers
  <1>2. Kept'
    BY DEF IInv, TypeOK, Connected, GoesOn, Kept, AllWell, Awaited, OpenDatabase, WorkerPath, DownloadWorker, loading, workers
  <1>. QED  BY <1>1, <1>2 DEF GoesOn

LEMMA NewEventModelGoesOn ==
    ASSUME IInv, IInv', GoesOn, NEW d \in Databases, NewEventModel(d)
    PROVE  GoesOn'
  <1>1. Waiting'
    <2>1. PICK p \in Calls : NewManager(d, p)
      BY DEF IInv, TypeOK, NewEventModel
    <2>2. /\ d \in Loads /\ d \notin Calls
          /\ owner' = [owner EXCEPT ![d] = p]
          /\ manager' = [manager EXCEPT ![d] = "connecting"]
          /\ pc' = [pc EXCEPT ![d] = "isReady"]
          /\ UNCHANGED <<window, program, ready>>
      BY <2>1 DEF NewEventModel, NewManager
    <2>. QED  BY <2>2 DEF IInv, TypeOK, GoesOn, Waiting
  <1>2. Kept'
    BY DEF IInv, TypeOK, Connected, GoesOn, Kept, AllWell, Awaited, NewEventModel, NewManager, loading, workers
  <1>. QED  BY <1>1, <1>2 DEF GoesOn

LEMMA WasmExecBlobGoesOn ==
    ASSUME IInv, IInv', GoesOn, NEW l \in Loads, WasmExecBlob(l)
    PROVE  GoesOn'
  <1>1. Waiting'
    BY DEF IInv, TypeOK, Window, GoesOn, Waiting, WasmExecBlob, loading, workers
  <1>2. Kept'
    BY DEF IInv, TypeOK, Connected, GoesOn, Kept, AllWell, Awaited, WasmExecBlob, loading, workers
  <1>. QED  BY <1>1, <1>2 DEF GoesOn

LEMMA WorkerStartsGoesOn ==
    ASSUME IInv, IInv', GoesOn, NEW l \in Loads, WorkerStarts(l)
    PROVE  GoesOn'
  <1>1. Waiting'
    BY DEF IInv, TypeOK, Window, GoesOn, Waiting, WorkerStarts, loading, workers
  <1>2. Kept'
    BY DEF IInv, TypeOK, Connected, GoesOn, Kept, AllWell, Awaited, WorkerStarts, loading, workers
  <1>. QED  BY <1>1, <1>2 DEF GoesOn

LEMMA ReadyGoesOn ==
    ASSUME IInv, IInv', GoesOn, NEW l \in Loads, Ready(l)
    PROVE  GoesOn'
  <1>1. Waiting'
    BY DEF IInv, TypeOK, Window, GoesOn, Waiting, Ready, Alive, loading, workers
  <1>2. Kept'
    BY DEF IInv, TypeOK, Connected, GoesOn, Waiting, Kept, AllWell, Awaited, Ready, Alive, loading, workers
  <1>. QED  BY <1>1, <1>2 DEF GoesOn

LEMMA AwaitFailsGoesOn ==
    ASSUME IInv, IInv', GoesOn, NEW l \in Loads, AwaitFails(l)
    PROVE  GoesOn'
  <1>1. Waiting'
    BY DEF IInv, TypeOK, Window, GoesOn, Waiting, AwaitFails, loading, workers
  <1>2. Kept'
    BY DEF IInv, TypeOK, Connected, GoesOn, Kept, AllWell, Awaited, AwaitFails, loading, workers
  <1>. QED  BY <1>1, <1>2 DEF GoesOn

LEMMA TimeOutGoesOn ==
    ASSUME IInv, IInv', GoesOn, NEW l \in Loads, TimeOut(l)
    PROVE  GoesOn'
  <1>1. Waiting'
    BY DEF IInv, TypeOK, Window, GoesOn, Waiting, TimeOut, Exit, Alive, loading, workers
  <1>2. Kept'
    BY DEF IInv, TypeOK, Connected, GoesOn, Kept, AllWell, Awaited, TimeOut, Exit, Alive, loading, workers
  <1>. QED  BY <1>1, <1>2 DEF GoesOn

LEMMA NextGoesOn == IInv /\ IInv' /\ GoesOn /\ [Next]_vars => GoesOn'
  <1>. SUFFICES ASSUME IInv, IInv', GoesOn, [Next]_vars PROVE GoesOn'
    OBVIOUS
  <1>1. CASE Next
    BY <1>1, SetXXDKBasePathGoesOn, InitXXDKGoesOn, ImportedGoesOn, RunGoesOn, ResolveGoesOn, MainGoesOn, CrashGoesOn, OpenDatabaseGoesOn, NewEventModelGoesOn, WasmExecBlobGoesOn, WorkerStartsGoesOn, ReadyGoesOn, AwaitFailsGoesOn, TimeOutGoesOn DEF Next, Faults
  <1>2. CASE UNCHANGED vars
    BY <1>2 DEF GoesOn, Waiting, Kept, AllWell, Awaited, vars, workers
  <1>. QED  BY <1>1, <1>2

-----------------------------------------------------------------------------
(* While nothing has failed, whoever waits has something that it waits for. *)
THEOREM Going == Spec => [](IInv /\ GoesOn)
  <1>1. Init => GoesOn
    BY DEF Init, GoesOn, Waiting, Kept, AllWell, Awaited
  <1>2. IInv /\ GoesOn /\ [Next]_vars => GoesOn'
    BY NextIInv, NextGoesOn
  <1>. QED  BY <1>1, <1>2, Invariance, InitIInv, NextIInv, PTL DEF Spec

(* manager.go:41-76: while NewManager waits, its worker is still to start or *)
(* its ready signal is under way (the safety half of ManagersConnect).      *)
THEOREM ManagersHeard == Spec => []ManagersAreHeard
  <1>1. GoesOn => ManagersAreHeard
    BY DEF GoesOn, Kept, ManagersAreHeard
  <1>. QED  BY <1>1, Going, PTL

(* xxdk.ts:50-134, main.go:37-137: the call whose resolver is the last one is  *)
(* resolved, or the guard of its next step holds: no interleaving of calls *)
(* leaves it waiting for an isReady that nobody will resolve.              *)
THEOREM NeverStuck == Spec => []LastCallGoesOn
  <1>1. IInv /\ GoesOn => LastCallGoesOn
    <2>. SUFFICES ASSUME IInv, GoesOn, NEW c \in Calls, window.onWasmInitialized = c, ~failed
                  PROVE  Possible(c)
      BY DEF LastCallGoesOn
    <2>1. /\ AllWell /\ Awaited(c)
          /\ pc[c] \in {"fetchExec", "fetched", "isReady", "done"}
      BY DEF GoesOn, Kept, Waiting, AllWell, IInv, TypeOK
    <2>2. CASE pc[c] # "isReady"
      BY <2>1, <2>2 DEF Left, Possible
    <2>3. CASE pc[c] = "isReady" /\ c \notin ready
      <3>1. /\ program[c] = "starting" /\ manager[c] \in {"connecting", "up"}
            /\ worker[c] \in {"loading", "serving"}
        BY <2>1, <2>3 DEF GoesOn, Waiting, AllWell, IInv, TypeOK, Connected
      <3>2. manager[c] = "up" => Left(c) = 2
        BY <2>3 DEF Left
      <3>3. manager[c] # "up" => Left(c) = IF worker[c] = "serving" THEN 3 ELSE 4
        BY <2>3 DEF Left
      <3>. QED  BY <2>1, <3>1, <3>2, <3>3 DEF Possible, Awaited
    <2>4. CASE pc[c] = "isReady" /\ c \in ready
      <3>1. Left(c) = 1
        BY <2>4 DEF Left
      <3>2. window.GetLogger \in Calls /\ program[window.GetLogger] # "exited"
        BY <2>1, <2>4 DEF AllWell, IInv, Offered, Started
      <3>. QED  BY <3>1, <3>2 DEF Possible
    <2>. QED  BY <2>2, <2>3, <2>4
  <1>. QED  BY <1>1, Going, PTL

\* What a step may do to the progress of a call that has set its resolver.
Onward(c) ==
    /\ pc[c] = "fetchExec" => pc'[c] \in {"fetchExec", "fetched"}
    /\ pc[c] = "fetched" => pc'[c] \in {"fetched", "isReady"}
    /\ pc[c] = "isReady" => pc'[c] \in {"isReady", "done"}
    /\ pc[c] = "done" => pc'[c] = "done"
    /\ c \in ready => c \in ready'
    /\ manager[c] = "up" => manager'[c] = "up"
    /\ pc[c] = "isReady" /\ worker[c] = "serving" => worker'[c] = "serving"

LEMMA NextOnward ==
    ASSUME IInv, GoesOn, [Next]_vars, NEW c \in Calls, pc[c] \notin {"idle", "import"},
           pc'[c] # "hangs"
    PROVE  Onward(c)
  <1>. USE DEF IInv, TypeOK, Onward, loading, workers
  <1>0. c \in Loads
    OBVIOUS
  <1>1. ASSUME NEW r \in Releases, SetXXDKBasePath(r) PROVE Onward(c)
    BY <1>0, <1>1 DEF SetXXDKBasePath
  <1>2. ASSUME NEW b \in Calls, InitXXDK(b) PROVE Onward(c)
    BY <1>0, <1>2 DEF InitXXDK
  <1>3. ASSUME NEW b \in Calls, Imported(b) PROVE Onward(c)
    BY <1>0, <1>3 DEF Imported, WorkerPath, DownloadWorker
  <1>4. ASSUME NEW b \in Calls, Run(b) PROVE Onward(c)
    BY <1>0, <1>4 DEF Run, NewManager, Connected
  <1>5. ASSUME NEW b \in Calls, Resolve(b) PROVE Onward(c)
    BY <1>0, <1>5 DEF Resolve, IsReady
  <1>6. ASSUME NEW b \in Calls, Main(b) PROVE Onward(c)
    BY <1>0, <1>6 DEF Main
  <1>7. ASSUME NEW b \in Calls, Crash(b) PROVE Onward(c)
    BY <1>0, <1>7 DEF Crash
  <1>8. ASSUME NEW d \in Databases, OpenDatabase(d) PROVE Onward(c)
    BY <1>0, <1>8 DEF OpenDatabase, WorkerPath, DownloadWorker
  <1>9. ASSUME NEW d \in Databases, NewEventModel(d) PROVE Onward(c)
    BY <1>0, <1>9 DEF NewEventModel, NewManager
  <1>10. ASSUME NEW l \in Loads, WasmExecBlob(l) PROVE Onward(c)
    BY <1>0, <1>10 DEF WasmExecBlob
  <1>11. ASSUME NEW l \in Loads, WorkerStarts(l) PROVE Onward(c)
    BY <1>0, <1>11 DEF WorkerStarts
  <1>12. ASSUME NEW l \in Loads, Ready(l) PROVE Onward(c)
    BY <1>0, <1>12 DEF Ready
  <1>13. ASSUME NEW l \in Loads, AwaitFails(l) PROVE Onward(c)
    BY <1>0, <1>13 DEF AwaitFails
  <1>14. ASSUME NEW l \in Loads, TimeOut(l) PROVE Onward(c)
    BY <1>0, <1>14 DEF TimeOut
  <1>15. CASE UNCHANGED vars
    BY <1>15 DEF vars
  <1>. QED
    BY <1>1, <1>2, <1>3, <1>4, <1>5, <1>6, <1>7, <1>8, <1>9, <1>10, <1>11, <1>12, <1>13,
       <1>14, <1>15 DEF Next, Faults

LEMMA LeftFalls ==
    ASSUME NEW c \in Calls, Onward(c), pc[c] \in {"fetchExec", "fetched", "isReady", "done"}
    PROVE  Left(c)' <= Left(c)
  <1>1. CASE pc[c] \in {"fetchExec", "fetched"}
    BY <1>1 DEF Onward, Left
  <1>2. CASE pc[c] = "isReady" /\ pc'[c] = "done"
    <2>1. Left(c)' = 0
      BY <1>2 DEF Left
    <2>. QED  BY <1>2, <2>1 DEF Left
  <1>3. CASE pc[c] = "isReady" /\ pc'[c] = "isReady"
    BY <1>3 DEF Onward, Left
  <1>4. CASE pc[c] = "done"
    BY <1>4 DEF Onward, Left
  <1>. QED  BY <1>1, <1>2, <1>3, <1>4 DEF Onward

LEMMA DueAdvances ==
    ASSUME IInv, IInv', GoesOn, NEW c \in Calls, window.onWasmInitialized = c, ~failed,
           AllWell', ~failed', Onward(c), Left(c) > 0, Due(c)
    PROVE  Left(c)' < Left(c)
  <1>1. /\ AllWell /\ c \in Loads /\ owner[c] \in Calls \cup {None}
        /\ pc[c] \in {"fetchExec", "fetched", "isReady"}
    BY DEF GoesOn, Kept, Waiting, AllWell, IInv, TypeOK, Left
  <1>2. CASE pc[c] = "fetchExec"
    <2>1. Left(c) = 6 /\ WasmExecBlob(c)
      BY <1>2 DEF Left, Due
    <2>2. pc'[c] = "fetched"
      BY <1>1, <2>1 DEF WasmExecBlob, IInv, TypeOK
    <2>. QED  BY <2>1, <2>2 DEF Left
  <1>3. CASE pc[c] = "fetched"
    <2>1. Left(c) = 5 /\ Run(c)
      BY <1>3 DEF Left, Due
    <2>2. pc'[c] = "isReady"
      BY <1>1, <2>1 DEF Run, IInv, TypeOK
    <2>. QED  BY <2>1, <2>2 DEF Left
  <1>4. CASE pc[c] = "isReady" /\ c \notin ready
    <2>0. /\ manager[c] \in {"connecting", "up"} /\ owner[c] \in Calls
          /\ pc'[c] \in {"isReady", "done"}
      BY <1>1, <1>4 DEF GoesOn, Waiting, AllWell, IInv, TypeOK, Onward
    <2>1. CASE manager[c] = "up"
      <3>1. Left(c) = 2 /\ Main(c)
        BY <1>4, <2>1 DEF Left, Due
      <3>2. c \in ready'
        BY <3>1 DEF Main
      <3>. QED  BY <2>0, <3>1, <3>2 DEF Left
    <2>2. CASE manager[c] = "connecting" /\ worker[c] = "serving"
      <3>1. Left(c) = 3 /\ Ready(c)
        BY <1>4, <2>2 DEF Left, Due
      <3>2. Alive(c)
        BY <2>0, <1>1 DEF Alive, AllWell
      <3>3. manager'[c] = "up"
        BY <1>1, <2>2, <3>1, <3>2 DEF Ready, IInv, TypeOK
      <3>. QED  BY <2>0, <3>1, <3>3 DEF Left
    <2>3. CASE manager[c] = "connecting" /\ worker[c] # "serving"
      <3>1. Left(c) = 4 /\ WorkerStarts(c)
        BY <1>4, <2>3 DEF Left, Due
      <3>2. worker'[c] = "serving"
        BY <1>1, <3>1 DEF WorkerStarts, IInv, TypeOK
      <3>. QED  BY <2>0, <3>1, <3>2 DEF Left
    <2>. QED  BY <2>0, <2>1, <2>2, <2>3
  <1>5. CASE pc[c] = "isReady" /\ c \in ready
    <2>1. Left(c) = 1 /\ Resolve(c)
      BY <1>5 DEF Left, Due
    <2>2. pc'[c] \in {"hangs", "done"} /\ pc'[c] # "hangs"
      BY <1>1, <2>1 DEF Resolve, IInv, TypeOK, AllWell
    <2>. QED  BY <2>1, <2>2 DEF Left
  <1>. QED  BY <1>1, <1>2, <1>3, <1>4, <1>5

LEMMA FailedStays == [Next]_vars /\ failed => failed'
  BY DEF Next, Faults, vars, SetXXDKBasePath, InitXXDK, Imported, Run, Resolve, Main,
         Crash, OpenDatabase, NewEventModel, WasmExecBlob, WorkerStarts, Ready, AwaitFails, TimeOut

(* That step brings it nearer to its end, and none takes it away from it:  *)
(* at most six are left (the safety half of LastCallResolves).             *)
THEOREM LastCallIsNearer == Spec => [][LastCallAdvances]_vars
  <1>1. IInv /\ GoesOn /\ IInv' /\ GoesOn' /\ [Next]_vars => LastCallAdvances
    <2>. SUFFICES ASSUME IInv, GoesOn, IInv', GoesOn', [Next]_vars,
                         NEW c \in Calls, window.onWasmInitialized = c, ~failed'
                  PROVE  /\ Left(c)' <= Left(c)
                         /\ Left(c) > 0 /\ Due(c) => Left(c)' < Left(c)
      BY DEF LastCallAdvances
    <2>1. ~failed /\ AllWell'
      BY FailedStays DEF GoesOn, Kept
    <2>2. pc[c] \in {"fetchExec", "fetched", "isReady", "done"} /\ pc'[c] # "hangs"
      BY <2>1 DEF GoesOn, Waiting, Kept, AllWell, IInv, TypeOK
    <2>3. Onward(c)
      BY <2>2, NextOnward
    <2>4. Left(c)' <= Left(c)
      BY <2>2, <2>3, LeftFalls
    <2>5. Left(c) > 0 /\ Due(c) => Left(c)' < Left(c)
      BY <2>1, <2>3, DueAdvances
    <2>. QED  BY <2>4, <2>5
  <1>. QED  BY <1>1, Going, PTL DEF Spec

=============================================================================
