------------------------------- MODULE Storage -------------------------------
(***************************************************************************)
(* storage/: the internal password, the list of databases, their           *)
(* encryption status and Purge, over the local storage of an origin and    *)
(* its IndexedDb databases.  A caller is one sequence of calls into the    *)
(* library.  Several callers are several tabs, or several promises of one  *)
(* tab: GetOrInitPassword runs in a goroutine of its own and deriving a    *)
(* key yields, and nothing locks local storage between two accesses.  Each *)
(* access to local storage is a step of its own, and so is the request to  *)
(* delete a database: other callers, and the end of the page, may come in  *)
(* between any two.                                                        *)
(***************************************************************************)
EXTENDS Integers, FiniteSets

CONSTANTS
    Callers,
    Passwords,  \* the passwords users type
    Databases,  \* database names
    Statuses,   \* the encryption statuses asked for: a subset of BOOLEAN
    Faults,     \* what may go wrong: a subset of FaultKinds
    None,       \* the key is not in local storage
    MaxSalts    \* how many salts are drawn (bound)

FaultKinds == {"setFails", "deleteFails", "crash"}

ASSUME StatusesAssumption == Statuses \subseteq BOOLEAN
ASSUME SaltsAssumption == MaxSalts \in Nat
ASSUME StorageFaults == Faults \subseteq FaultKinds

\* A salt is fresh whenever one is drawn: the next number.
Salt == 1..MaxSalts

\* The internal password is a function of the external one; encrypted, it
\* opens with the key of the same password and salt only.
Encrypted == [by: Passwords, salt: Salt]

ASSUME NoneAssumption == None \notin Salt \cup Encrypted \cup {0, 1} \cup BOOLEAN

VARIABLES
    salt,      \* xxInternalPasswordSalt
    params,    \* xxEncryptedInternalPasswordParams is stored
    password,  \* xxEncryptedInternalPassword
    list,      \* xxDkWasmIndexedDbList
    toggle,    \* xxdkWasmDatabaseEncryptionToggle/<name>: the byte stored
    salts,     \* how many salts have been drawn
    unlocked,  \* history: passwords GetOrInit returned for, until a Purge
    database,  \* None, or whether the database holds encrypted messages
    doomed,    \* databases a Purge has requested to delete
    open,      \* the databases a caller has open, with the status it asked for
    clients,   \* numClientsRunning of the caller's program
    pc,        \* what the caller is doing
    local      \* its local variables

vars == <<salt, params, password, list, toggle, salts, unlocked, database,
          doomed, open, clients, pc, local>>

passwordVars == <<salt, params, password, salts, unlocked>>
databaseVars == <<list, toggle, database, doomed, open>>

Steps == {"idle", "getPassword", "getSalt", "getParams", "decrypt",
          "setSalt", "setParams", "setPassword",
          "getList", "setList", "getStatus", "setStatus", "create",
          "followers", "purgeList", "deleting", "clearing"}

\* The keys of this library in local storage, but for the toggles.
Keys == {"salt", "params", "password", "list"}

\* What a call was asked for and what it has read or drawn: purge says that
\* Purge verifies a password, list is a list of databases read or the part
\* of it that is still to do, keys are the keys that Clear has yet to remove.
Nothing == [by |-> None, encrypted |-> None, salt |-> None, db |-> None,
            list |-> {}, status |-> None, purge |-> FALSE, keys |-> {}]

Local == [by: Passwords \cup {None}, encrypted: Encrypted \cup {None},
          salt: Salt \cup {None}, db: Databases \cup {None},
          list: SUBSET Databases, status: BOOLEAN \cup {None},
          purge: BOOLEAN, keys: SUBSET Keys]

TypeOK ==
    /\ salt \in Salt \cup {None}
    /\ params \in BOOLEAN
    /\ password \in Encrypted \cup {None}
    /\ list \subseteq Databases
    /\ toggle \in [Databases -> {0, 1, None}]
    /\ salts \in 0..MaxSalts
    /\ unlocked \subseteq Passwords
    /\ database \in [Databases -> BOOLEAN \cup {None}]
    /\ doomed \subseteq Databases
    /\ open \in [Callers -> [Databases -> BOOLEAN \cup {None}]]
    /\ clients \in [Callers -> {0, 1}]
    /\ pc \in [Callers -> Steps]
    /\ local \in [Callers -> Local]

Init ==
    /\ salt = None
    /\ params = FALSE
    /\ password = None
    /\ list = {}
    /\ toggle = [db \in Databases |-> None]
    /\ salts = 0
    /\ unlocked = {}
    /\ database = [db \in Databases |-> None]
    /\ doomed = {}
    /\ open = [c \in Callers |-> [db \in Databases |-> None]]
    /\ clients = [c \in Callers |-> 0]
    /\ pc = [c \in Callers |-> "idle"]
    /\ local = [c \in Callers |-> Nothing]

Goto(c, step) == pc' = [pc EXCEPT ![c] = step]

Note(c, l) == local' = [local EXCEPT ![c] = l]

Return(c) == Goto(c, "idle") /\ Note(c, Nothing)

\* Set fails, for want of space; the call returns an error.
SetFails(c) == "setFails" \in Faults /\ Return(c)

-----------------------------------------------------------------------------
(***************************************************************************)
(* GetOrInitPassword.                                                      *)
(***************************************************************************)
GetOrInit(c, p) ==
    /\ pc[c] = "idle"
    /\ Goto(c, "getPassword")
    /\ Note(c, [Nothing EXCEPT !.by = p])
    /\ UNCHANGED <<passwordVars, databaseVars, clients>>

\* getInternalPassword.  A missing key starts initInternalPassword, or tells
\* Purge that the password is wrong.
Missing(c) ==
    \/ local[c].purge /\ Return(c)
    \/ ~local[c].purge /\ Goto(c, "setSalt") /\ UNCHANGED local

GetPassword(c) ==
    /\ pc[c] = "getPassword"
    /\ \/ password = None /\ Missing(c)
       \/ /\ password # None
          /\ Note(c, [local[c] EXCEPT !.encrypted = password])
          /\ Goto(c, "getSalt")
    /\ UNCHANGED <<passwordVars, databaseVars, clients>>

GetSalt(c) ==
    /\ pc[c] = "getSalt"
    /\ \/ salt = None /\ Missing(c)
       \/ /\ salt # None
          /\ Note(c, [local[c] EXCEPT !.salt = salt])
          /\ Goto(c, "getParams")
    /\ UNCHANGED <<passwordVars, databaseVars, clients>>

GetParams(c) ==
    /\ pc[c] = "getParams"
    /\ \/ ~params /\ Missing(c)
       \/ params /\ Goto(c, "decrypt") /\ UNCHANGED local
    /\ UNCHANGED <<passwordVars, databaseVars, clients>>

Opens(enc, p, s) == enc = [by |-> p, salt |-> s]

OpensRead(c) == Opens(local[c].encrypted, local[c].by, local[c].salt)

\* A password that does not open it is taken for a missing one.
Decrypt_reinit(c) ==
    /\ pc[c] = "decrypt"
    /\ \/ OpensRead(c) /\ unlocked' = unlocked \cup {local[c].by} /\ Return(c)
       \/ ~OpensRead(c) /\ Missing(c) /\ UNCHANGED unlocked
    /\ UNCHANGED <<salt, params, password, salts, databaseVars, clients>>
Decrypt(c) ==
    /\ pc[c] = "decrypt"
    /\ \/ /\ OpensRead(c) /\ ~local[c].purge
          /\ unlocked' = unlocked \cup {local[c].by}
          /\ Return(c)
       \/ /\ OpensRead(c) /\ local[c].purge
          /\ Goto(c, "followers")
          /\ UNCHANGED <<unlocked, local>>
       \/ /\ ~OpensRead(c)
          /\ Return(c)
          /\ UNCHANGED unlocked
    /\ UNCHANGED <<salt, params, password, salts, databaseVars, clients>>

\* initInternalPassword.
SetSalt(c) ==
    /\ pc[c] = "setSalt"
    /\ salts < MaxSalts
    /\ salts' = salts + 1
    /\ \/ /\ salt' = salts + 1
          /\ Note(c, [local[c] EXCEPT !.salt = salts + 1])
          /\ Goto(c, "setParams")
       \/ SetFails(c) /\ UNCHANGED salt
    /\ UNCHANGED <<params, password, unlocked, databaseVars, clients>>

SetParams(c) ==
    /\ pc[c] = "setParams"
    /\ \/ params' = TRUE /\ Goto(c, "setPassword") /\ UNCHANGED local
       \/ SetFails(c) /\ UNCHANGED params
    /\ UNCHANGED <<salt, password, salts, unlocked, databaseVars, clients>>

SetPassword(c) ==
    /\ pc[c] = "setPassword"
    /\ \/ /\ password' = [by |-> local[c].by, salt |-> local[c].salt]
          /\ unlocked' = unlocked \cup {local[c].by}
          /\ Return(c)
       \/ SetFails(c) /\ UNCHANGED <<password, unlocked>>
    /\ UNCHANGED <<salt, params, salts, databaseVars, clients>>

-----------------------------------------------------------------------------
(***************************************************************************)
(* Opening a database: indexedDb/worker/channels/init.go and dm/init.go.   *)
(***************************************************************************)
OpenDatabase(c, db, status) ==
    /\ pc[c] = "idle"
    /\ Goto(c, "getList")
    /\ Note(c, [Nothing EXCEPT !.db = db, !.status = status])
    /\ UNCHANGED <<passwordVars, databaseVars, clients>>

\* StoreIndexedDb.
GetList(c) ==
    /\ pc[c] = "getList"
    /\ Note(c, [local[c] EXCEPT !.list = list])
    /\ Goto(c, "setList")
    /\ UNCHANGED <<passwordVars, databaseVars, clients>>

Added_alone(old, db) == {db}
Added(old, db) == old \cup {db}

SetList(c) ==
    /\ pc[c] = "setList"
    /\ \/ /\ list' = Added(local[c].list, local[c].db)
          /\ Note(c, [local[c] EXCEPT !.list = {}])
          /\ Goto(c, "getStatus")
       \/ SetFails(c) /\ UNCHANGED list
    /\ UNCHANGED <<passwordVars, toggle, database, doomed, open, clients>>

\* The byte that StoreIndexedDbEncryptionStatus stores for a status.
StoredStatus(status) == 1

\* Is a database whose byte is stored opened with this status?
Accepted_always(byte, status) == TRUE
Accepted(byte, status) == (byte = 1) = status

\* StoreIndexedDbEncryptionStatus and checkDbEncryptionStatus: the first
\* status asked for is accepted; later ones have to equal the stored byte.
GetStatus(c) ==
    /\ pc[c] = "getStatus"
    /\ LET byte == toggle[local[c].db] IN
         \/ byte = None /\ Goto(c, "setStatus") /\ UNCHANGED local
         \/ /\ byte # None /\ Accepted(byte, local[c].status)
            /\ Goto(c, "create") /\ UNCHANGED local
         \/ byte # None /\ ~Accepted(byte, local[c].status) /\ Return(c)
    /\ UNCHANGED <<passwordVars, databaseVars, clients>>

SetStatus(c) ==
    /\ pc[c] = "setStatus"
    /\ \/ /\ toggle' = [toggle EXCEPT ![local[c].db] = StoredStatus(local[c].status)]
          /\ Goto(c, "create") /\ UNCHANGED local
       \/ SetFails(c) /\ UNCHANGED toggle
    /\ UNCHANGED <<passwordVars, list, database, doomed, open, clients>>

\* The worker opens the database, which creates it if it is not there.  A
\* requested deletion comes first: until it is done the open times out, and
\* a database that the late open may still create is listed by then.
Create(c) ==
    /\ pc[c] = "create"
    /\ LET db == local[c].db IN
         IF db \notin doomed
         THEN /\ database' = [database EXCEPT
                    ![db] = IF @ = None THEN local[c].status ELSE @]
              /\ open' = [open EXCEPT ![c][db] = local[c].status]
         ELSE UNCHANGED <<database, open>>
    /\ Return(c)
    /\ UNCHANGED <<passwordVars, list, toggle, doomed, clients>>

-----------------------------------------------------------------------------
(***************************************************************************)
(* The network follower and Purge.  A program runs at most one follower    *)
(* here (bound); stopping one that is not running fails and counts nothing. *)
(***************************************************************************)
StartNetworkFollower(c) ==
    /\ pc[c] = "idle"
    /\ clients[c] = 0
    /\ clients' = [clients EXCEPT ![c] = 1]
    /\ UNCHANGED <<passwordVars, databaseVars, pc, local>>

StopNetworkFollower_unchecked(c) ==
    /\ pc[c] = "idle"
    /\ clients' = [clients EXCEPT ![c] = @ - 1]
    /\ UNCHANGED <<passwordVars, databaseVars, pc, local>>
StopNetworkFollower(c) ==
    /\ pc[c] = "idle"
    /\ clients[c] = 1
    /\ clients' = [clients EXCEPT ![c] = 0]
    /\ UNCHANGED <<passwordVars, databaseVars, pc, local>>

\* Purge first verifies the password, by getInternalPassword.
Purge(c, p) ==
    /\ pc[c] = "idle"
    /\ Goto(c, "getPassword")
    /\ Note(c, [Nothing EXCEPT !.by = p, !.purge = TRUE])
    /\ UNCHANGED <<passwordVars, databaseVars, clients>>

\* It looks at the followers of its own program only.
CheckFollowers(c) ==
    /\ pc[c] = "followers"
    /\ \/ clients[c] # 0 /\ Return(c)
       \/ clients[c] = 0 /\ Goto(c, "purgeList") /\ Note(c, Nothing)
    /\ UNCHANGED <<passwordVars, databaseVars, clients>>

GetPurgeList(c) ==
    /\ pc[c] = "purgeList"
    /\ Note(c, [Nothing EXCEPT !.list = list])
    /\ Goto(c, "deleting")
    /\ UNCHANGED <<passwordVars, databaseVars, clients>>

\* The deletion of a listed database is requested, not awaited; they come in
\* the order of a Go map, and one that fails ends the Purge.
DeleteDatabase(c, db) ==
    /\ pc[c] = "deleting"
    /\ db \in local[c].list
    /\ \/ /\ doomed' = doomed \cup {db}
          /\ Note(c, [local[c] EXCEPT !.list = @ \ {db}])
          /\ UNCHANGED pc
       \/ "deleteFails" \in Faults /\ Return(c) /\ UNCHANGED doomed
    /\ UNCHANGED <<passwordVars, list, toggle, database, open, clients>>

\* Clear takes the names of this library's keys, and removes them one by one.
Stored == {k \in Keys : \/ k = "salt" /\ salt # None
                        \/ k = "params" /\ params
                        \/ k = "password" /\ password # None
                        \/ k = "list" /\ list # {}}

Clear(c) ==
    /\ pc[c] = "deleting" /\ local[c].list = {}
    /\ unlocked' = {}
    /\ Note(c, [Nothing EXCEPT !.keys = Stored,
                               !.list = {db \in Databases : toggle[db] # None}])
    /\ Goto(c, "clearing")
    /\ UNCHANGED <<salt, params, password, salts, databaseVars, clients>>

RemoveKey(c, k) ==
    /\ pc[c] = "clearing"
    /\ k \in local[c].keys
    /\ Note(c, [local[c] EXCEPT !.keys = @ \ {k}])
    /\ salt' = IF k = "salt" THEN None ELSE salt
    /\ params' = (params /\ k # "params")
    /\ password' = IF k = "password" THEN None ELSE password
    /\ list' = IF k = "list" THEN {} ELSE list
    /\ UNCHANGED <<salts, unlocked, toggle, database, doomed, open, clients, pc>>

RemoveToggle(c, db) ==
    /\ pc[c] = "clearing"
    /\ db \in local[c].list
    /\ Note(c, [local[c] EXCEPT !.list = @ \ {db}])
    /\ toggle' = [toggle EXCEPT ![db] = None]
    /\ UNCHANGED <<passwordVars, list, database, doomed, open, clients, pc>>

Cleared(c) ==
    /\ pc[c] = "clearing"
    /\ local[c].keys = {} /\ local[c].list = {}
    /\ Return(c)
    /\ UNCHANGED <<passwordVars, databaseVars, clients>>

\* The browser deletes a database once no connection to it is left.
Deleted(db) ==
    /\ db \in doomed
    /\ \A c \in Callers : open[c][db] = None
    /\ doomed' = doomed \ {db}
    /\ database' = [database EXCEPT ![db] = None]
    /\ UNCHANGED <<passwordVars, list, toggle, open, clients, pc, local>>

\* The page is closed or reloaded, or its program panics, as it does in
\* ChangeExternalPassword.
Crash(c) ==
    /\ "crash" \in Faults
    /\ Return(c)
    /\ open' = [open EXCEPT ![c] = [db \in Databases |-> None]]
    /\ clients' = [clients EXCEPT ![c] = 0]
    /\ UNCHANGED <<passwordVars, list, toggle, database, doomed>>

-----------------------------------------------------------------------------
Next ==
    \/ \E c \in Callers :
          \/ \E p \in Passwords : GetOrInit(c, p) \/ Purge(c, p)
          \/ GetPassword(c) \/ GetSalt(c) \/ GetParams(c) \/ Decrypt(c)
          \/ SetSalt(c) \/ SetParams(c) \/ SetPassword(c)
          \/ \E db \in Databases, status \in Statuses : OpenDatabase(c, db, status)
          \/ GetList(c) \/ SetList(c)
          \/ GetStatus(c) \/ SetStatus(c) \/ Create(c)
          \/ StartNetworkFollower(c) \/ StopNetworkFollower(c)
          \/ CheckFollowers(c) \/ GetPurgeList(c)
          \/ \E db \in Databases : DeleteDatabase(c, db) \/ RemoveToggle(c, db)
          \/ Clear(c) \/ \E k \in Keys : RemoveKey(c, k)
          \/ Cleared(c)
          \/ Crash(c)
    \/ \E db \in Databases : Deleted(db)

Spec == Init /\ [][Next]_vars

-----------------------------------------------------------------------------
(***************************************************************************)
(* Properties.                                                             *)
(***************************************************************************)

\* A password that GetOrInitPassword has accepted opens the stored internal
\* password until a Purge begins to clear it, whatever fails and wherever a
\* page is closed.
NeverLockedOut ==
    \A p \in unlocked : params /\ Opens(password, p, salt)

\* Purge finds every database: one that exists is in the list, or its deletion
\* has been requested.
EveryDatabaseListed ==
    \A db \in Databases : database[db] # None => db \in list \cup doomed

\* A database of encrypted messages is never opened without encryption.
EncryptedStaysEncrypted ==
    \A c \in Callers, db \in Databases :
        database[db] = TRUE => open[c][db] # FALSE

(***************************************************************************)
(* What any number of callers can rely on.  NeverLockedOut is false for    *)
(* several of them, because they may set the password up at once; entries  *)
(* of the list are lost when databases are opened at once; and a database  *)
(* may get encrypted messages from one caller and be open for unencrypted  *)
(* ones in another if both asked for its first status at once.  So each of *)
(* these says what holds from a state where no such call is under way.     *)
(***************************************************************************)

\* The storage holds a password with its own salt, no call is about to write
\* one, and every call has read what is there.
Quiet ==
    /\ salt # None /\ params /\ password # None
    /\ Opens(password, password.by, salt)
    /\ unlocked \subseteq {password.by}
    /\ \A c \in Callers :
          /\ pc[c] \notin {"setSalt", "setParams", "setPassword"}
          /\ pc[c] \in {"getSalt", "getParams", "decrypt"} => local[c].encrypted = password
          /\ pc[c] \in {"getParams", "decrypt"} => local[c].salt = salt

\* Every call about to write the list has read the entry of this database.
Entered(db) ==
    /\ db \in list
    /\ \A c \in Callers : pc[c] = "setList" => db \in Added(local[c].list, local[c].db)

\* A database of encrypted messages with its byte; nobody has it open, or has
\* found that it may open it, without encryption.
Sealed(db) ==
    /\ database[db] = TRUE /\ toggle[db] = 1
    /\ \A c \in Callers :
          /\ open[c][db] # FALSE
          /\ pc[c] \in {"setStatus", "create"} /\ local[c].db = db => local[c].status = TRUE

\* In any number of tabs, a password that is set up stays as it is, and opens
\* what is stored, until a Purge removes its keys.
QuietOrPurged ==
    Quiet => \/ Quiet' /\ UNCHANGED <<salt, params, password>>
             \/ \E c \in Callers, k \in Keys \ {"list"} : RemoveKey(c, k)

SetUpUntilPurge == [][QuietOrPurged]_vars

\* Such an entry stays in the list until a Purge removes the list.
EnteredOrPurged ==
    \A db \in Databases :
        Entered(db) => Entered(db)' \/ \E c \in Callers : RemoveKey(c, "list")

EntryUntilPurge == [][EnteredOrPurged]_vars

\* Such a database is not opened without encryption until a Purge has removed
\* its byte, or the deletion it requested is done.
SealedOrPurged ==
    \A db \in Databases :
        Sealed(db) => \/ Sealed(db)'
                      \/ Deleted(db)
                      \/ \E c \in Callers : RemoveToggle(c, db)

SealUntilPurge == [][SealedOrPurged]_vars

=============================================================================
