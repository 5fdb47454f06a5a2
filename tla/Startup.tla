-------------------------------- MODULE Startup --------------------------------
(***************************************************************************)
(* From InitXXDK (src/xxdk.ts) to a running Go program and its workers:    *)
(* the blobs that the workers are started from (src/paths.ts), the scripts *)
(* in them (src/workers.js), the start of the program (main.go, logging/)  *)
(* and the handshake of worker.NewManager.  Several calls of InitXXDK may  *)
(* be under way, each starting a program of its own; they meet in the      *)
(* properties of `window'.  Then the page opens databases, each in a       *)
(* worker of its own.                                                      *)
(***************************************************************************)
EXTENDS Naturals

CONSTANTS
    Calls,      \* calls of InitXXDK, and the programs and loggers they start
    Databases,  \* databases that the page opens
    Releases,   \* what xxdkBasePath may point to
    Default,    \* default_xxdk_path, one of them
    None

Loads == Calls \cup Databases

ASSUME StartupNames == Calls \cap Databases = {} /\ None \notin Loads \cup Releases
ASSUME StartupRelease == Default \in Releases

VARIABLES
    pc,           \* how far each call, or the opening of each database, is
    wasm, exec,   \* the releases a worker's blob takes its wasm and wasm_exec.js from
    worker,       \* the workers
    signalled,    \* ready signals under way
    manager,      \* the worker.Managers in the programs
    blocked,      \* managers whose reception thread hangs
    program,      \* the Go programs
    owner,        \* the program that a manager is in
    ready,        \* calls whose isReady is resolved
    api,          \* the program whose functions a call resolved with
    window,       \* the properties of window that the calls share
    moved,        \* history: xxdkBasePath was set after the first load began
    failed        \* history: a fault has happened

loading == <<wasm, exec, moved>>
workers == <<worker, signalled, manager, blocked, owner>>
vars == <<pc, loading, workers, program, ready, api, window, failed>>

Window == [xxdkBasePath: Releases, xxdkWasmExecBlobURL: Releases \cup {None},
           onWasmInitialized: Calls \cup {None}, GetLogger: Calls \cup {None},
           functions: Calls \cup {None}, logger: Calls \cup {None}]

TypeOK ==
    /\ pc \in [Loads -> {"idle", "import", "fetchExec", "fetched", "isReady",
                         "done", "hangs"}]
    /\ wasm \in [Loads -> Releases \cup {None}]
    /\ exec \in [Loads -> Releases \cup {None}]
    /\ worker \in [Loads -> {"none", "loading", "serving"}]
    /\ signalled \subseteq Loads /\ blocked \subseteq Loads
    /\ manager \in [Loads -> {"none", "connecting", "up", "timedOut"}]
    /\ program \in [Calls -> {"none", "starting", "running", "exited"}]
    /\ owner \in [Loads -> Calls \cup {None}]
    /\ ready \subseteq Calls
    /\ api \in [Calls -> Calls \cup {None}]
    /\ window \in Window
    /\ moved \in BOOLEAN /\ failed \in BOOLEAN

Init ==
    /\ pc = [l \in Loads |-> "idle"]
    /\ wasm = [l \in Loads |-> None] /\ exec = [l \in Loads |-> None]
    /\ worker = [l \in Loads |-> "none"] /\ manager = [l \in Loads |-> "none"]
    /\ owner = [l \in Loads |-> None]
    /\ signalled = {} /\ blocked = {} /\ ready = {}
    /\ program = [c \in Calls |-> "none"] /\ api = [c \in Calls |-> None]
    /\ window = [xxdkBasePath |-> Default, xxdkWasmExecBlobURL |-> None,
                 onWasmInitialized |-> None, GetLogger |-> None,
                 functions |-> None, logger |-> None]
    /\ moved = FALSE /\ failed = FALSE

-----------------------------------------------------------------------------
(* The blobs of the workers.                                                *)

SetXXDKBasePath(r) ==
    /\ r # window.xxdkBasePath
    /\ window' = [window EXCEPT !.xxdkBasePath = r]
    /\ moved' = \E l \in Loads : wasm[l] # None
    /\ UNCHANGED <<pc, wasm, exec, workers, program, ready, api, failed>>

(* downloadWorkerToBlobURL: the blob of a worker starts with the page's blob*)
(* of wasm_exec.js, which is downloaded first if there is none yet.         *)
DownloadWorker_default(l, w) ==
    /\ exec' = [exec EXCEPT ![l] = IF w.xxdkWasmExecBlobURL = None
                                     THEN Default ELSE w.xxdkWasmExecBlobURL]
    /\ pc' = [pc EXCEPT ![l] = IF w.xxdkWasmExecBlobURL = None
                                 THEN "fetchExec" ELSE "fetched"]

\* The blob is made of the promise of wasm_exec.js.
DownloadWorker_unawaited(l, w) ==
    /\ exec' = [exec EXCEPT ![l] = IF w.xxdkWasmExecBlobURL = None
                                     THEN "promise" ELSE w.xxdkWasmExecBlobURL]
    /\ pc' = [pc EXCEPT ![l] = "fetched"]

DownloadWorker(l, w) ==
    /\ exec' = [exec EXCEPT ![l] = IF w.xxdkWasmExecBlobURL = None
                                     THEN w.xxdkBasePath ELSE w.xxdkWasmExecBlobURL]
    /\ pc' = [pc EXCEPT ![l] = IF w.xxdkWasmExecBlobURL = None
                                 THEN "fetchExec" ELSE "fetched"]

(* logFileWorkerPath, channelsIndexedDbWorkerPath and their two sisters.    *)
WorkerPath(l, w) ==
    /\ wasm' = [wasm EXCEPT ![l] = w.xxdkBasePath]
    /\ DownloadWorker(l, w)
    /\ UNCHANGED moved

(* wasmExecBlob, when the download is there; another may have been faster.  *)
WasmExecBlob(l) ==
    /\ pc[l] = "fetchExec"
    /\ pc' = [pc EXCEPT ![l] = "fetched"]
    /\ window' = [window EXCEPT !.xxdkWasmExecBlobURL = exec[l]]
    /\ UNCHANGED <<loading, workers, program, ready, api, failed>>

-----------------------------------------------------------------------------
(* InitXXDK.                                                                *)

InitXXDK(c) ==
    /\ pc[c] = "idle"
    /\ pc' = [pc EXCEPT ![c] = "import"]
    /\ UNCHANGED <<loading, workers, program, ready, api, window, failed>>

(* wasm_exec.js is there: the resolver of isReady replaces any other.       *)
Imported(c) ==
    /\ pc[c] = "import"
    /\ window' = [window EXCEPT !.onWasmInitialized = c]
    /\ WorkerPath(c, window)
    /\ UNCHANGED <<workers, program, ready, api, failed>>

\* It does not wait.
NewManager_unwaited(l, p) ==
    /\ worker' = [worker EXCEPT ![l] = "loading"]
    /\ manager' = [manager EXCEPT ![l] = "up"]
    /\ owner' = [owner EXCEPT ![l] = p]
    /\ UNCHANGED <<signalled, blocked>>

(* worker.NewManager creates the worker and waits for its ready signal.     *)
NewManager(l, p) ==
    /\ worker' = [worker EXCEPT ![l] = "loading"]
    /\ manager' = [manager EXCEPT ![l] = "connecting"]
    /\ owner' = [owner EXCEPT ![l] = p]
    /\ UNCHANGED <<signalled, blocked>>

(* The wasm is compiled; go.run returns when EnableLogging waits for the    *)
(* worker of the log file, and the call for isReady.                        *)
Run(c) ==
    /\ pc[c] = "fetched"
    /\ pc' = [pc EXCEPT ![c] = "isReady"]
    /\ program' = [program EXCEPT ![c] = "starting"]
    /\ NewManager(c, c)
    /\ UNCHANGED <<loading, ready, api, window, failed>>

IsReady_unawaited(c) == pc[c] = "isReady"
IsReady(c) == pc[c] = "isReady" /\ c \in ready

(* After isReady: GetLogger is called, in a program that may have exited,   *)
(* and the promise is resolved with the functions in window.                *)
Resolve(c) ==
    /\ IsReady(c)
    /\ \/ /\ window.GetLogger # None
          /\ program[window.GetLogger] = "exited"
          /\ pc' = [pc EXCEPT ![c] = "hangs"]
          /\ UNCHANGED <<api, window>>
       \/ /\ window.GetLogger # None => program[window.GetLogger] # "exited"
          /\ pc' = [pc EXCEPT ![c] = "done"]
          /\ api' = [api EXCEPT ![c] = window.functions]
          /\ window' = [window EXCEPT !.logger = window.GetLogger]
    /\ UNCHANGED <<loading, workers, program, ready, failed>>

(* A rejected await leaves the promise pending: the executor is async.      *)
AwaitFails(l) ==
    /\ pc[l] \in {"import", "fetchExec"} \/ (l \in Calls /\ pc[l] = "fetched")
    /\ pc' = [pc EXCEPT ![l] = "hangs"]
    /\ failed' = TRUE
    /\ UNCHANGED <<loading, workers, program, ready, api, window>>

-----------------------------------------------------------------------------
(* The page opens a database once it has the functions of a program: it     *)
(* loads the blob of the worker, and NewManager is run by that program.     *)
OpenDatabase(d) ==
    /\ pc[d] = "idle"
    /\ \E c \in Calls : pc[c] = "done"
    /\ WorkerPath(d, window)
    /\ UNCHANGED <<workers, program, ready, api, window, failed>>

NewEventModel(d) ==
    /\ pc[d] = "fetched"
    /\ \E c \in Calls :
          /\ pc[c] = "done" /\ api[c] # None /\ program[api[c]] = "running"
          /\ NewManager(d, api[c])
    /\ pc' = [pc EXCEPT ![d] = "isReady"]
    /\ UNCHANGED <<loading, program, ready, api, window, failed>>

-----------------------------------------------------------------------------
(* A worker and the manager that waits for it.                              *)

(* The start functions of workers.js (and logFileWorker.js) run the Go      *)
(* program of the worker, which registers its callbacks, then SignalReady.  *)
WorkerStarts_silent(l) ==
    /\ worker[l] = "loading"
    /\ worker' = [worker EXCEPT ![l] = "serving"]
    /\ UNCHANGED <<pc, loading, signalled, manager, blocked, owner, program, ready,
                   api, window, failed>>

WorkerStarts(l) ==
    /\ worker[l] = "loading"
    /\ worker' = [worker EXCEPT ![l] = "serving"]
    /\ signalled' = signalled \cup {l}
    /\ UNCHANGED <<pc, loading, manager, blocked, owner, program, ready, api,
                   window, failed>>

Alive(l) == program[owner[l]] # "exited"

(* The callback of the signal hands it to NewManager; after the timeout     *)
(* nobody takes it, and the callback never returns.                         *)
Ready(l) ==
    /\ l \in signalled
    /\ signalled' = signalled \ {l}
    /\ manager' = IF Alive(l) /\ manager[l] = "connecting"
                    THEN [manager EXCEPT ![l] = "up"] ELSE manager
    /\ blocked' = IF Alive(l) /\ manager[l] # "connecting"
                    THEN blocked \cup {l} ELSE blocked
    /\ UNCHANGED <<pc, loading, worker, owner, program, ready, api, window,
                   failed>>

Exit(c) == program' = [program EXCEPT ![c] = "exited"]

(* The 90 s of NewManager are over.  Without its logger the program exits.  *)
TimeOut(l) ==
    /\ manager[l] = "connecting" /\ Alive(l)
    /\ manager' = [manager EXCEPT ![l] = "timedOut"]
    /\ IF l \in Calls THEN Exit(l) ELSE UNCHANGED program
    /\ failed' = TRUE
    /\ UNCHANGED <<pc, loading, worker, signalled, blocked, owner, ready, api,
                   window>>

-----------------------------------------------------------------------------
(* The program.                                                             *)

(* The log worker has answered NewLogFile.  Up to the end of main nothing   *)
(* waits: GetLogger is set, the versions are checked (a panic if they are   *)
(* wrong), the functions are set, and window.onWasmInitialized is called.   *)
Main_silent(c) ==
    /\ program[c] = "starting" /\ manager[c] = "up"
    /\ program' = [program EXCEPT ![c] = "running"]
    /\ window' = [window EXCEPT !.GetLogger = c, !.functions = c]
    /\ UNCHANGED <<pc, loading, workers, ready, api, failed>>

Main(c) ==
    /\ program[c] = "starting" /\ manager[c] = "up"
    /\ \/ /\ window.onWasmInitialized # None
          /\ program' = [program EXCEPT ![c] = "running"]
          /\ window' = [window EXCEPT !.GetLogger = c, !.functions = c]
          /\ ready' = ready \cup {window.onWasmInitialized}
          /\ UNCHANGED failed
       \/ /\ Exit(c)
          /\ window' = [window EXCEPT !.GetLogger = c]
          /\ failed' = TRUE
          /\ UNCHANGED ready
    /\ UNCHANGED <<pc, loading, workers, api>>

Crash(c) ==
    /\ program[c] \in {"starting", "running"}
    /\ Exit(c)
    /\ failed' = TRUE
    /\ UNCHANGED <<pc, loading, workers, ready, api, window>>

-----------------------------------------------------------------------------
Faults(l) == AwaitFails(l) \/ TimeOut(l)

Next ==
    \/ \E r \in Releases : SetXXDKBasePath(r)
    \/ \E c \in Calls : InitXXDK(c) \/ Imported(c) \/ Run(c) \/ Resolve(c) \/ Main(c)
                          \/ Crash(c)
    \/ \E d \in Databases : OpenDatabase(d) \/ NewEventModel(d)
    \/ \E l \in Loads : WasmExecBlob(l) \/ WorkerStarts(l) \/ Ready(l) \/ Faults(l)

Fairness ==
    /\ \A c \in Calls : WF_vars(Imported(c)) /\ WF_vars(Run(c)) /\ WF_vars(Resolve(c))
                          /\ WF_vars(Main(c))
    /\ \A d \in Databases : WF_vars(NewEventModel(d))
    /\ \A l \in Loads : WF_vars(WasmExecBlob(l)) /\ WF_vars(WorkerStarts(l))
                          /\ WF_vars(Ready(l))

Spec == Init /\ [][Next]_vars /\ Fairness

-----------------------------------------------------------------------------
(* Whoever has the API has functions of a program that got to the end of    *)
(* its start, and window.logger is one with a worker that has its callbacks *)
(* -- also if another call's program was the first to be ready.             *)
ApiIsOfAStartedProgram ==
    \A c \in Calls : pc[c] = "done" =>
        /\ api[c] # None /\ program[api[c]] \in {"running", "exited"}
        /\ manager[api[c]] = "up"
        /\ window.logger # None /\ worker[window.logger] = "serving"

(* NewManager returns a manager only for a worker that has its callbacks,   *)
(* and one that receives what the worker sends.                             *)
ManagersHaveWorkers ==
    \A l \in Loads : manager[l] = "up" => worker[l] = "serving" /\ l \notin blocked

(* The workers run a wasm and a wasm_exec.js of one release, unless the     *)
(* page has set another path when a load had begun.                         *)
WorkersMatch ==
    moved \/ \A l \in Loads : worker[l] # "none" => wasm[l] = exec[l]

(* A call whose resolver is the last one resolves, unless something fails.  *)
LastCallResolves ==
    \A c \in Calls :
        window.onWasmInitialized = c
            ~> (pc[c] = "done" \/ window.onWasmInitialized # c \/ failed)

(* A manager gets the ready signal of its worker, unless something fails.   *)
ManagersConnect ==
    \A l \in Loads : manager[l] = "connecting" ~> (manager[l] = "up" \/ failed)

=============================================================================
