# Verification of the xxDK WASM bindings

TLA+ models of the parts of this repository that keep state, run concurrently or
have to survive failures; TLC runs that check them on small instances; and TLAPS
proofs of the main safety properties for every value of the constants.
`PROJECT.json` lists components, runs, mutants, the map from definitions to source
lines, findings, hazards and theorems.

Check a run with `tlc -config <run>.cfg <module>` and a proof with
`tlapm <module>.tla`, both in this directory.

## 1. The system

The repository compiles a Go client library to WebAssembly. One tab runs

- the **main program** (`main.go`, `wasm/`): Javascript bindings of the client
  library, plus a little state of its own in the local storage of the page
  (`storage/`);
- the **Typescript package** (`src/`, `wasm_exec.js`): it loads the program and its
  workers, carries every call between Javascript and Go, and turns what Go reports
  into typed events and answers;
- one **worker per database** (`indexedDb/impl/channels`, `dm`, `state`): a second
  WebAssembly program that owns an IndexedDB database. The main program holds a
  proxy (`indexedDb/worker/...`) that implements the event model of the client
  library by sending each call to the worker;
- optionally a **log worker** (`logging/workerThread`), to which the main program
  and, through message channels, the other workers send their logs;
- between any two of them, a **message manager** at each end of a Javascript port
  (`worker/`): requests with a tag and an ID, answers, timeouts, callbacks.

A call of the client library, for instance "this message has arrived", takes this
way: proxy -> `Send` -> port -> `messageReception` of the worker -> receiver callback
-> several IndexedDB transactions -> `reply` -> port -> `messageReception` of the
main program -> sender callback -> `Send` returns. An event for the user interface
takes the way back with `SendNoResponse`, is decoded by the package, and reaches the
listeners of the page.

Under all of this lies `wasm_exec.js`: Go and Javascript share one thread and one
stack; a js.Value of Go is a number that names a slot of a table on the Javascript
side.

### Inventory

| Component | State | Operations | What is hard | What makes it correct |
|---|---|---|---|---|
| Message manager (`worker/messageManager.go`, `messagePort.go`) | registered sender and receiver callbacks, next ID of each tag, the channels `events` and `quit`, goroutines parked on them | `Send`, `SendTimeout`, `SendNoResponse`, `RegisterCallback`, `messageReception`, `Stop` | goroutines, timers and message events interleave; late, missing and double answers; a dying peer | an answer goes to its request; Sends return; reception never stops by itself; `Stop` stops it |
| Managers (`worker/manager.go`, `thread.go`, `messageChannel.go`) | managers, ready signal, ports handed over | `NewManager`, `SignalReady`, `CreateMessageChannel`, `Terminate` | the ready signal races its timeout; ports pass through two programs | a manager is returned only for a worker that is ready |
| Internal password (`storage/password.go`) | salt, parameters, encrypted password | `GetOrInitPassword`, `VerifyPassword`, `ChangeExternalPassword` | three keys written one by one; a yielding key derivation; crashes | a password that once worked keeps working |
| Databases and `Purge` (`storage/indexedDbList.go`, `indexedDbEncryptionTrack.go`, `purge.go`) | list of databases, a status byte for each, the number of followers | opening a database, `Purge` | read-modify-write of local storage; half a Purge | Purge finds every database; encrypted and clear messages never mix |
| Versions (`storage/version.go`) | two stored versions | `CheckAndStoreVersions` | a crash between the writes | an upgrade is never taken for done |
| Start (`src/xxdk.ts`, `paths.ts`, `workers.js`, `main.go`) | properties of `window`: base path, cached blob, resolver, functions, logger | `InitXXDK`, the worker paths, `main`, the start functions of workers | calls that overlap in `window`; downloads that fail; a path that moves between two downloads | a call resolves with a program that works; workers run files of one release |
| Go runtime support (`wasm_exec.js`) | table of values, counts, free slots; pending event, timeouts, exit | `storeValue`, `finalizeRef`; `_makeFuncWrapper`, `_resume`, `scheduleTimeoutEvent`, `wasmExit` | slots are reused; calls nest both ways; an exit or an exception inside a nested call | a js.Value denotes one value; a call gets its own event and result; no timeout is lost |
| Events and decoders (`src/events`, `src/utils/decoders.ts`) | none; events under way | decode, emit, `onDmEvent` | a goroutine for each event; names that differ between Go, JSON and Typescript; a decoder that throws inside a call from Go | a listener gets what Go said, once |
| Remote store (`src/types/collective.ts`) | time of the last write | `Read`, `Write`, ... | the time is set before the write succeeds | not modelled: forwards to the application |
| Channels event model (`indexedDb/impl/channels`, `impl/utils.go`) | object stores of messages and channels | receive, update by UUID or by message ID, delete, join, leave | every callback is several transactions, each of which may fail or commit after it has been given up | one record per message; no lost update; deleted stays deleted |
| DM event model (`indexedDb/impl/dm`) | object stores of messages and conversations | receive, update status, delete | as above; two stores that belong together; a check and a deletion in different transactions | a message has its conversation; only its sender deletes it |
| Proxies (`indexedDb/worker/...`) | none | a Send for each operation; a failed Send panics | one worker error ends the main program | a call returns what the worker did |
| State store (`indexedDb/impl/state`) | a key-value store | `Get`, `Set` | a panic after every successful Get | a value set is the value read |
| Logging (`logging/`) | circular log file, tags of the log worker | log, get the file, its size | two tags mixed up; a synchronous request inside a callback of the event loop | the reply to a request is what was asked for |
| Cipher tracker (`wasm/cipher.go`) | a map from IDs to ciphers under a lock | add, get, delete | concurrent calls | an ID is never given twice |
| Bindings (`wasm/`) | none | convert, call, convert | nothing of this repository | not modelled: pass-through |

## 2. The modules

| Module | What it is |
|---|---|
| `MessageManager` | both ends of a port: the code of `worker/` |
| `RequestReply` | what the two ends promise the callers of Send |
| `MCMessageManager` | small instances |
| `MessageManager_proofs` | invariants; the proof that it implements `RequestReply`; no request is forgotten |
| `Storage`, `MCStorage`, `Storage_proofs` | the code of `storage/` and the opening of databases |
| `ChannelMessages` | records and calls of the channels model, and what an update makes of a record |
| `MessageStore` | what the channels model promises: a store whose calls take effect in one step |
| `ChannelsModel`, `MCChannelsModel`, `ChannelsModel_proofs` | the code of `indexedDb/impl/channels` |
| `DmMessages`, `DmStore`, `DmModel`, `MCDmModel`, `DmModel_proofs` | the same for `indexedDb/impl/dm` |
| `JsHandles` | what the table of values promises to Go |
| `ValueTable`, `MCValueTable`, `ValueTable_proofs` | `wasm_exec.js`: `storeValue`, `loadValue`, `finalizeRef` |
| `GoEvents`, `MCGoEvents`, `GoEvents_proofs` | `wasm_exec.js`: how Go and the event loop call each other |
| `Startup`, `MCStartup`, `Startup_proofs` | `src/xxdk.ts`, `paths.ts`, `workers.js`, the start of `main.go`, `NewManager` |
| `Decoders` | `src/utils/decoders.ts` as values: what each decoder accepts and makes of it |
| `Events`, `MCEvents`, `Events_proofs` | events from the models and bindings to the page, `src/events` |

### MessageManager

The code at the two ends is the same, so each action takes the end it runs at.
`port`, `backlog` and `current` are the three places a message can be in: posted and
not dispatched by the event loop, parked in the goroutine that
`messagePort.go` starts for it, being processed. `senderCallbacks`, `responseIDs`,
`receiverCallbacks` are the fields of `MessageManager`; a goroutine in `SendTimeout`
has `pc` "waiting". `reception` is where the goroutine of `messageReception` is:
in its select, in a receiver callback, blocked in a sender callback nobody reads
from, or gone. `handled` is a history variable.

One Go program in a tab has one processor and no preemption, and the event loop
runs only when all its goroutines are parked. That decides the grain of the actions:
registering a callback and posting do not yield, so `Send` up to its select is one
action; a receiver callback may park (it waits for transactions), so its replies
and its return are actions of their own, between which messages are dispatched.
`TakeEvent` states which event comes next: parked goroutines are served in arrival
order, and only if none is parked does the event loop run.

Payloads are numbers: a request carries the number its sender gave it, an answer
the number of the request it was computed from. So "the right answer" can be stated.

Faults are a constant: a timer may fire ("timeout"), posting may throw ("postError"),
the worker may die ("crash"), `Stop` may be called ("stop"), a callback may return
without a reply ("silence"), the port may get an error event ("errorEvent").

`ErrorEvent` is the moment at which `messageReception` gets an error event of its port. It
calls `exception.Throwf`, which throws a Javascript exception out of the frames of Go: the
goroutine is gone for good (`reception` "thrown") and the program goes on, so later messages
are parked and `Stop` waits. Error events are not queued with the messages in the model; that one
arrives while a receiver callback runs is the same event, met at the next select. If
Go is entered from another frame of Go at that moment, what follows is undefined (`torn`, see
GoEvents), and the model claims nothing about it. Only a Worker object gets error events, the model lets either
end have one. A "messageerror" event has null data and no error: it is logged.

### Storage

Each access to local storage is one action, because any two of them may have
another tab's or, where the code yields, another promise's access between them, and
because a page may be closed there: `Crash` may happen at every step. So
`getInternalPassword` is `GetPassword`, `GetSalt`, `GetParams`, `Decrypt`; the encryption status
is `GetStatus` and, if there is none, `SetStatus`; and `Purge` is those four, then `CheckFollowers`,
`GetPurgeList`, one `DeleteDatabase` for each database, `Clear`, and one `RemoveKey` or `RemoveToggle` for
each key that there was when `Clear` looked. A key
derivation is a pairing of password and salt: the encrypted internal password opens
with the pair it was made with. The deletion of a database is requested by `Purge`
and done by the browser (`Deleted`, external) once no connection is open.

Each caller is a program of its own, with its number of followers. `VerifyPassword` reads what
`Purge` reads and does nothing else, so it has no action. `unlocked` forgets its passwords when `Clear`
begins: from there on they are being removed.

### ChannelsModel and DmModel

A callback is a sequence of IndexedDB transactions, each an action. `pc` of a handler
names the transaction it is about to run; `found` and `copy` are what it holds in
memory between two of them. A transaction may fail, and the one-second context of
`impl/utils.go` may end first: then the caller gets an error and the transaction
commits all the same. Transactions on one store are ordered by the browser, so what
follows a late one sees its effect. `Ready` is the sequential `messageReception`; there are
several handlers so that a model without it can be compared (it is what the mutants
of `DeletedStaysDeleted`, `ImplementsStore` and `OnlySenderDeletes` drop). A crash takes
the handlers and leaves the stores.

Of a record the models keep what a call reads or changes. In `ChannelMessages` the
channel stands for everything an update leaves alone; in `DmMessages` a conversation
is the name (nickname and token together) of its partner, and `Inbox` is the set of
messages that the client library hands over. `unannounced` relates a changed
conversation to the event that tells the user interface.

`MessageStore` and `DmStore` are the abstract specifications: no transactions, no
copies. A call writes in one step, on what is stored then; it may end with an error
before or after any of its effects. The refinement mapping is the identity on
stores and requests.

### ValueTable

`values`, `length`, `counts`, `ids` and `idPool` are the fields `_values`,
`_goRefCounts`, `_ids`, `_idPool` of class `Go`; `refs` is what Go holds: nothing, the bits
of a value that needs no slot, or a slot with its type flag. Go's garbage collector may
finalize a js.Value at any time, but only one with a flag (`FinalizeRef`); it drops the
others without a word (`Forget`), as it does with `NaN`, which has a slot and no count.
The seven permanent values have the count `Infinity`, as in the code. `JsHandles` is the
abstract specification: handles denote values, created and dropped. `Denoted` maps the
table to it. A bigint has no flag, so its slot is never freed (`Untyped`):
`SlotsAreUsedOrFree` leaves it out, and `MaxUntyped` bounds its count.

### GoEvents

`stack` holds the frames that have not returned: Go in `run`, or in a `resume` for an
event or a timeout, and Javascript called by Go. Only its top runs, because there is
one thread. `pending`, `nextID`, `scheduled`, `exited` are fields of the class; `armed` is
the browser's side of the timeouts. Go's own code (its scheduler, `handleEvent`) is
external and left open: at any time it may call Javascript, set a result, schedule or
clear a timeout, exit or throw. It can return from an event only when that event has
its result, which is what `syscall/js` waits for.

An exception that leaves Go frames with others below it (`Throw` at a depth above one)
puts Go in a state that its runtime does not define: the frame below goes on with the
stack pointer of the function that threw. `torn` marks it, the model stops there, and no
property claims anything about it. A timeout whose callback is left that way at the
bottom of the stack is in `lost`: nothing resumes Go for it again. Getters and setters
that run Go code are not modelled; `valueGet` is a call like the others.

### Startup

A load is a call of `InitXXDK` or the opening of a database: both get a worker blob
(`WorkerPath`, `WasmExecBlob`), and both end in a `NewManager` whose worker must signal.
`wasm` and `exec` are the releases that a blob takes its two files from. The record `window`
has the properties that all calls share; each await is a point between two actions, and
the microtask that runs `await isReady` may come any time after its promise is resolved,
which allows more orders than a browser does. A program is "starting" from `go.run` to
the end of `main`: `EnableLogging` waits for the log worker, nothing else in it waits.
Failing downloads, timeouts of the handshake, wrong versions and panics are the faults;
`failed` records that one has happened. `moved` records that `setXXDKBasePath` was called
when a load had begun: then the code mixes releases, through the blob it has cached, and
`WorkersMatch` leaves the case out.

### Decoders and Events

A decoder of `decoders.ts` is an object with a key map, so its model is a record: the
field of the Typescript type, the key of the JSON, and the decoder of the member.
`String`, `Number`, `Boolean`, `Array`, `Object`, `Optional`, `Nullable` and `Enumeration` are what the library
`ts.data.json` makes of a value, or `Err` (external). `Parsed` is what `makeDecoder` does before: it decodes
bytes, gives a string to `AttemptParse`, and takes an object as it is. JSON
text is a constructor around a value, not characters. A decoder that refuses throws.

An event is written down twice in `Events`: `facts`, in the names of its Typescript type,
and `json`, in the names that Go marshals (the structures of this repository; those of the
client library as the decoders and types expect them, external). `HeardAsRaised` compares what comes
out with the facts, so a key or field mixed up between the two is seen. The models raise
an event in a goroutine of its own, which posts it to the main program; the bindings call
the main program's callback directly. A throw inside that callback ends the program
(`running`): the goroutine that called it panics and nothing recovers.

Two kinds of events make it throw. `Mistyped` ones lack what the type of their number
requires: a deleted direct message, and a nil slice of Go where the type has a list (null in JSON). In
`ChannelListLeftOut` the type lets a list be absent and the decoder does not. Whether the bindings ever report a
null or an absent list is not decided in this repository; the model lets them, and names both in
`RaisedIsHeard`. `DeclaredTypesDecode` is about the second kind.

## 3. What is checked

| Run | Instance | States | Shows |
|---|---|---|---|
| `MMFaults` | two goroutines Send to a worker, every fault, 2 posts | 416 968 | callbacks of waiting Sends stay; a stopped end is silent; every Send returns |
| `MMTwoWay` | one goroutine at each end, casts, timeouts, crash, 3+1 posts | 580 262 | answers match; the ends implement `RequestReply` |
| `MMOnTime` | two goroutines, no timeouts, double replies, Stop, crash | 97 888 | reception never blocked; Stop completes; requests that reach a callback are answered |
| `StorageOneCaller` | one caller, 2 passwords, 2 databases, both statuses, 3 salts, all faults | 625 324 | never locked out; Purge knows every database; encrypted stays encrypted |
| `Channels` | 2 handlers, 2 messages, 2 channels, 2 keys, 4 updates, all faults | 316 500 | one record per message; deleted stays deleted; implements `MessageStore`; calls return |
| `Dm` | 2 handlers, 2 messages, 2 partners, 2 names, 2 keys, all faults | 68 164 (up to symmetry) | messages have conversations; only the sender deletes; implements `DmStore` |
| `Values` | three js.Values, two objects, a bigint, `undefined` and the permanent values | 211 550 | a js.Value denotes its value; every slot is in use or in the pool, once; implements `JsHandles` |
| `Glue` | three calls of Go functions, two timeouts, five frames, exits and exceptions | 22 205 | own event, own result; nothing enters Go after its exit; timeouts fire, and Go notices them |
| `Start` | two calls of `InitXXDK`, a database, two releases, all faults | 69 258 | APIs are of started programs; managers have workers; releases match; the last call resolves |
| `Events` | every event and answer, any two in a behaviour | 5 707 | what is heard is what was said, once; only refused events and what they stop are lost |

Five more configurations are kept beside the runs. Three have two tabs, on the part of the
storage that matters, and check the formulas of three theorems on a small instance; two
show disagreements described below.

| Configuration | Module | Instance | States | Shows |
|---|---|---|---|---|
| `PasswordTabs` | `MCStorage` | 2 passwords, 3 salts, no database, crashes | 299 875 | `SetUpUntilPurge` holds |
| `ListTabs` | `MCStorage` | 2 databases, 1 password | 2 302 902 | `EntryUntilPurge` holds |
| `DatabaseTabs` | `MCStorage` | 1 database, both statuses, crashes | 1 718 201 | `SealUntilPurge` holds |
| `ChannelLists` | `MCEvents` | notification updates | | `DeclaredTypesDecode` is violated |
| `MMErrorEvent` | `MCMessageManager` | two Sends, Stop, error events | | `StopCompletes` is violated |

Each property of a run has a mutant in `PROJECT.json`: a plausible bug of the code
under which the same run finds it violated.

**Bounds.** `MaxPosts` bounds the requests of an end: two make a late answer meet
a newer Send of the same tag, and three with one in the other direction make queues
of two in each. `MaxReplies` is 2 where double replies matter, because
`updateFromUuidCB` replies twice. `MaxSalts` is 3: two initialisations and one after
a Purge. Two tabs show each race of local storage. `MaxUuid` is 2: a record and another one it can clash with. Three
js.Values and three values with slots make a slot freed and given to another value
while a third shares one. Three calls and depth five are Go, Javascript, Go, Javascript, Go:
an event inside an event, with one to spare. Two calls of `InitXXDK` meet in each property of
`window`. Events are independent but for their order and for what stops the program, and
two show both; a field holds its own name and a list two entries (`Content`, `Entries`), so that
two fields mixed up are seen. `Events` has no type invariant, its values being of any shape. The proofs
do without these bounds: the constants are arbitrary there.

**Deadlock** is not checked where the bound stops the system (`MMxxx`, after the last
post; `Storage`, after the last salt; `Channels` without faults; `Glue`, `Start` and `Events`
when the last call, load or event is done), and the code has no final state of its own
except the exit of a program.

**Fairness** (`FairSpec`; a part of `Spec` in `GoEvents`, `Startup` and `Events`) is used for
liveness only. `MessageManager`: weak fairness of
dispatch, reception, replies, returns, timers and the steps of `Stop`. The Go
scheduler and the event loop are first-come-first-served, timers of a living
program fire, and the receiver callbacks of this repository end (they wait on
contexts of one second). Nothing makes a caller send, stop or crash. `ChannelsModel`:
weak fairness of each step, because a transaction is answered or given up after a
second. `GoEvents`: Javascript functions return and `handleEvent` runs (weak); timers fire,
Go becomes idle, sets the results of its calls and in the end takes notice of a timeout
that wakes it again and again (strong, since other calls may come in between). `Startup`:
weak fairness of each step that the browser or the Go scheduler takes by itself; nothing
makes the page call, and nothing makes a fault happen. `Events`: goroutines run and messages
are delivered.

### Findings

Two runs check what the repository says and find it violated.

| Run | What happens |
|---|---|
| `DmAnnounced` | Without any fault, and with nothing but arrivals: a message that arrives a second time, after one with a newer nickname, renames its conversation back, is refused by the unique index, and no event is sent, against `worker/dm/init.go:33`. |
| `DmDeletion` | A direct message is deleted. `impl/dm/implementation.go:413` announces it with the event type of a reception; `src/events/dm.ts:17` declares another content for that type. Its decoder throws inside the call from Go and the main program ends. |

### Met while modelling

Other disagreements between code and comments, visible in the models (a property stating
the comment fails there) or in the code alone:

- The timer of a `Send` fires, then its answer arrives: the sender callback, still
  registered, writes to a channel nobody reads, `messageReception` is stuck and `Stop`
  hangs (`messageManager.go:132`). `ReceptionNeverBlocked` is checked and proved without timeouts only, and
  `StopCompletes` and `ReachedIsAnswered` are checked without timeouts and error events.
- The lists of a notification update are optional (`src/types/events.ts:94`, `:95`), but its decoder requires
  them (`src/utils/decoders.ts:201`, `:202`): without one it throws inside the call from Go and the main program
  ends. `ChannelLists` shows it; `RaisedIsHeard` names such events as refused.
- An exception that nothing in a worker has caught is an error event for its creator (`messagePort.go:78`).
  `exception.Throwf` (`messageManager.go:224`) takes the reception goroutine with it; from then on no answer
  arrives and `Stop` waits for ever (`:405`), so that the worker which `manager.go:104` says is terminated goes on.
  `MMErrorEvent` shows it; Sends still end by their timers (`SendReturns` in `MMFaults`).
- `Stop` while messages are waiting closes `events` under the goroutines that are sending
  on it: the program panics (`messagePort.go:105`; `CloseEvents` of the model).
- Two first calls of `GetOrInitPassword` store the salt of one with the password of the
  other (`password.go:228`). `NeverLockedOut` is checked and proved for one caller.
- A page closed in the middle of `Clear` may leave a part of the keys of the password. If the initialisation
  that follows fails after its first write, a new salt stands beside the old password
  (`password.go:228`), which nobody opens any more. This begins with a Purge, so `NeverLockedOut` does not deny it.
- Two tabs that open databases at once lose an entry of the list (`indexedDbList.go:46`), and two that
  open one database for the first time at once, in the clear and encrypted, are both accepted
  (`indexedDbEncryptionTrack.go:28`, `:32`).
- The encryption status stored is always 1 (`indexedDbEncryptionTrack.go:32`): a database
  created without encryption is refused without and accepted with it.
- `ReceiveReply` swaps two flags (`impl/channels/implementation.go:211`): a reply received
  hidden is stored pinned and visible. The model does the same.
- `getCrashedLogFile` (`src/xxdk.ts:97`) posts a JSON text; `messageReception`
  (`messageManager.go:228`) expects an object and drops it, so that its promise stays pending.
- A second `InitXXDK` replaces the resolver of the first, which then stays pending; a
  failed download leaves the promise pending, too, because its executor is async (`src/xxdk.ts:27`).
- After `setXXDKBasePath` the cached blob of `wasm_exec.js` is still that of the old release
  (`src/paths.ts:95`).
- `getCB` calls `Error` on a nil error (`impl/state/callbacks.go:85`); `GetFile` and `MaxSize` of
  the log worker share a tag (`logging/workerThread/main.go:183`); `MaxSize` waits for an answer
  in a callback of the event loop that would bring it (`logging/logger.go:203`).
- `RemoteStore` sets `lastWrite` before the write has succeeded (`src/types/collective.ts:75`), and
  a `null` of it reaches Go as the text `<null>` (`wasm/collective.go`, `GetLastWrite`).

## 4. What is proved

All theorems are of the form `Spec => ...`, for every value of the constants that
satisfies the named assumptions of the modules.

**Message manager.** `TypeCorrect`. `AnswersMatch` and `CallbackStays`, under all faults,
provided no tag is used both for `Send` and for `SendNoResponse` (the code base keeps to
that; the ID of a cast is that of the first Send of its tag). `AnswerMatchesRequest` is
not inductive: an answer under way must be known to name the callback of the Send it
answers. `MatchingInv` says so: callbacks have IDs and numbers given out before
(`CallbacksIssued`), no two share one (`CallbacksUnique`), and every message under way about
a registered callback carries the number of its Send (`IDsConnect`). `NeverBlocked`:
if no Send gives up, each registered callback has a Send that reads its channel
(`CallbackAwaited`), so reception is not stuck. `Silent`: after `Quit` an end handles nothing.
`Implements`: every step is a step of `RequestReply` or a stutter. It needs `OrderInv`:
the numbers in the queues grow and are larger than those handled, and an answer under
way is of a handled request. A mutant with newest-first parking breaks it.

`NoneForgotten`, under the same assumption on tags, is the half of `ReachedIsAnswered` that
needs no fairness. A request that has got to an end with a callback for its tag is
`AtWork`: in a queue, in its callback, or its answer is in a queue of the way back; and
it stays there until its Send returns the answer. The ways out are named in the theorem: a timeout,
a callback that returns without a reply, and an end that stops or dies. The invariant adds
that numbers are of one request each (`Numbered`), that no end is lost while both run
(`Up`), and that a callback which has replied to a waiting Send has its answer under way (`Replied`).

**Storage.** `TypeCorrect` for any callers. With one caller at a time (`OneCaller`):
`NeverLocked`, `EveryListed`, `StaysEncrypted`, from an invariant on what the caller holds
between two accesses (what it read is what is stored). With several callers the three are
false: TLC finds the password behaviour described above, a lost entry of the list, and two
first opens of a database, one in the clear and one encrypted, that are both accepted. What any number of
callers can rely on are three action theorems, each about a condition that, once true, stays
true until a Purge has removed the key it is about: `SetUpStays` (`Quiet`: a password with its salt is stored, every call under
way has read what is there, and nobody is about to write one), `EntryStays` (`Entered`: every call about to write
the list has read the entry)
and `SealStays` (`Sealed`: the status of an encrypted database is stored, nobody has it open in the clear, and
no call asking for that is past reading the status, be it to store the first status or to open). `SetUpIsQuiet` shows that
the first is what one caller leaves behind. So tabs race when they set something up at the same time, and only then.
`PasswordTabs`, `ListTabs` and `DatabaseTabs` check the three on small instances.

**Channels and DM.** `TypeCorrect`; `OneRecord`, `Deleted`, `Implements`; `HaveConversation`,
`SenderDeletes`, `Implements`. All rest on two facts: calls do not overlap (`Sequential`,
from `Ready`), so that what a call has read is still so at its next transaction
(`CopiesFresh`, `Fresh`); and what a call holds at each transaction is determined by
its request (`Phases`). The second is needed even for types; the first is what fails
when two workers share a database. `CallsAdvance` (one in each) is the half of `CallsReturn` that
needs no fairness: every step taken while a call runs leaves it fewer transactions (`Left`, at
most three), because a failed insertion becomes an update and an update never an insertion.

**Table of values.** `TypeCorrect`, `Denotes`, `Slots`, `Implements`, for any values and any finite
number of js.Values. That a slot is freed when its count is 0 is safe only if the count
is the number of js.Values that hold the slot, which is what the invariant says
(`Counted`); it also says that `_ids` and `_values` agree (`Found`), that free slots are in the
pool once and nobody's (`Pooled`), that a slot nobody has is in the pool (`NoneLost`), and that each js.Value
has the slot of what it was made for (`Held`). So `Slots` says that `_values` is exactly the slots in use and those
of `_idPool`: the table grows only when none is free.

**Go and the event loop.** `TypeCorrect`, `OwnEvent`, `OwnResult`, `ExitEnds`, `TimeoutsFire`, for any
calls, timeouts and depth. The invariant describes the stack (`Sound`): frames of Go and of
Javascript take turns, only the top one may have been resumed without having run, and
each frame of an event handles that event; and `_pendingEvent` is that of a top frame just
resumed, or none (`Awaited`). So `handleEvent` finds the right event although there is one
variable for all. `CallsHaveFrames`: the calls that have begun and not ended are the frames of
Go, one each, also when `wasmExit` takes a frame, an exception leaves one, or a return to a Go that
has exited takes two. With it, `NeverStuck`: whatever frame is on top, one of its steps is possible,
so that no call below it waits for good except for what Go itself does (its fairness).

**Start.** `TypeCorrect`, `ApiStarted`, `HaveWorkers`, `Match`, for any calls, databases and releases. A
load that is not over has no worker (`Connected`), so that a manager hears one signal;
what is in `window` is of programs whose log manager is up (`Offered`); and until the path is
moved all files are from it (`OneRelease`). Of the two liveness properties the halves without
fairness: while nothing has failed, a manager that waits has a worker still to start
or a signal under way (`ManagersHeard`), and the last call has a step that it can take
(`NeverStuck`), which brings it nearer to its end while no other step takes it away from
there (`LastCallIsNearer`; `Left` counts at most six). They rest on `GoesOn`: the last call's resolver
is still there when its program gets to the end of `main`, since only a later call replaces it.

**Events.** `HeardIsAsRaised`, `NoneIsLost`, `StopsForRefused`, `ButForAbsentLists`, for any content of the fields and any
entries of the lists. Types do not help, values being of any shape: the proof takes every
kind of event through its JSON, its decoder and its Typescript names (`Content` and `Entries`
stay unknown), and the invariant says that what is on its way was raised, is there once and
has not been heard (`WayInv`, `OnceInv`). `NoneIsLost` is the half of `RaisedIsHeard` without
fairness: while the program runs, an event is heard or still on its way, unless it is one that this release does not
know. `StopsForRefused` says what ends the program: a refused event (a deleted direct message, a null list, or a list
left out) that has got to its decoder, and each of them does. `ButForAbsentLists`: without the last kind, every event
of its declared type decodes, so that what `ChannelLists` finds is the only
disagreement between `src/types` and the decoders for these events. What the client library really puts into the JSON
is outside this repository.

**Only model-checked.** Liveness (`SendReturns`, `StopCompletes`, `ReachedIsAnswered`,
`CallsReturn`, `TimeoutIsNoticed`, `LastCallResolves`, `ManagersConnect`, `RaisedIsHeard`): fairness and
ENABLED are out of the prover's reach, and the theorems named above are the parts of them
that are not. Findings are counterexamples, so TLC's.

## 5. What is not modelled, and what could follow

Not modelled for good: the bindings of `wasm/` other than followers, ciphers and the event
callbacks (pass-through to a library that is not in this repository); of `wasm_exec.js` the
stubs of `fs` and `process`, the copies between memories, clocks and random data; the types
of `src/types` (no code is left of them); `events/app.ts` (it imports from an application
that is not here); `RemoteStore` (it forwards to a store of the application); the file store of
the channels model and `BlockSender`/`UnblockSender` of the DM model (no callback of a worker
reaches them); encryption of message texts; `getCrashedLogFile` (nothing answers it).

Could follow, in this order:

1. **Proxies** (`indexedDb/worker/channels`, `dm`): a module composing `RequestReply` with
   `MessageStore` and `DmStore`: a call of the client library returns what the worker did, or
   the main program panics, and a call whose Send timed out may have taken effect.
2. **Logging** (`logging/`) and `CreateMessageChannel`: tags of the log worker and who answers
   them, `MaxSize` in a callback of the event loop; a port has exactly two ends.
3. **State store** (`indexedDb/impl/state`, `worker/state`): `Get` and `Set` over the message
   manager.
4. **Versions** (`storage/version.go`): crash points between the two writes.
5. **Cipher tracker** (`wasm/cipher.go`).
6. **Proofs**: the half without fairness of `StopCompletes`; theorems
   about the abstract specifications (what `MessageStore` and `DmStore` say of a record that
   follows for the models by refinement).
