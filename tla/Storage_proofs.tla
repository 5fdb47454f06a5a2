---------------------------- MODULE Storage_proofs ----------------------------
(***************************************************************************)
(* Theorems about Storage for any passwords, databases, statuses and       *)
(* faults: the types for any number of callers, and what one caller (one   *)
(* tab that awaits every call) can rely on.  With two callers the password *)
(* theorem is false, as Storage says; what any number of them can rely on  *)
(* is at the end.                                                          *)
(***************************************************************************)
EXTENDS Storage, TLAPS

USE StatusesAssumption, SaltsAssumption, NoneAssumption

-----------------------------------------------------------------------------
(***************************************************************************)
(* Type correctness.                                                       *)
(***************************************************************************)
\* What each step finds in the local variables of its call.
Operands ==
    \A c \in Callers :
        /\ pc[c] \in {"getPassword", "getSalt", "getParams", "decrypt",
                      "setSalt", "setParams", "setPassword"}
              => local[c].by \in Passwords
        /\ pc[c] \in {"setParams", "setPassword"} => local[c].salt \in Salt
        /\ pc[c] \in {"getList", "setList", "getStatus", "setStatus", "create"}
              => local[c].db \in Databases /\ local[c].status \in BOOLEAN

\* The steps of a caller: GetOrInitPassword, up to where Purge goes its own way;
\* opening a database; the followers, Purge and the end of the page.
PasswordStep(c) ==
    \/ \E p \in Passwords : GetOrInit(c, p) \/ Purge(c, p)
    \/ GetPassword(c) \/ GetSalt(c) \/ GetParams(c) \/ Decrypt(c)
    \/ SetSalt(c) \/ SetParams(c) \/ SetPassword(c)

OpenStep(c) ==
    \/ \E db \in Databases, s \in Statuses : OpenDatabase(c, db, s)
    \/ GetList(c) \/ SetList(c) \/ GetStatus(c) \/ SetStatus(c) \/ Create(c)

FollowerStep(c) == StartNetworkFollower(c) \/ StopNetworkFollower(c)

PurgeStep(c) ==
    \/ CheckFollowers(c) \/ GetPurgeList(c)
    \/ \E db \in Databases : DeleteDatabase(c, db) \/ RemoveToggle(c, db)
    \/ Clear(c) \/ \E k \in Keys : RemoveKey(c, k)
    \/ Cleared(c)
    \/ Crash(c)

LEMMA NextSteps ==
    Next <=> \/ \E c \in Callers :
                   PasswordStep(c) \/ OpenStep(c) \/ FollowerStep(c) \/ PurgeStep(c)
             \/ \E db \in Databases : Deleted(db)
  BY DEF Next, PasswordStep, OpenStep, FollowerStep, PurgeStep

LEMMA NothingType == Nothing \in Local
  BY DEF Nothing, Local

LEMMA ReturnType ==
    ASSUME TypeOK, NEW c \in Callers, Return(c)
    PROVE  /\ pc' \in [Callers -> Steps]
           /\ local' \in [Callers -> Local]
  BY NothingType DEF TypeOK, Return, Goto, Note, Steps

LEMMA NoteType ==
    ASSUME TypeOK, NEW c \in Callers, NEW l \in Local, Note(c, l)
    PROVE  local' \in [Callers -> Local]
  BY DEF TypeOK, Note

LEMMA GotoType ==
    ASSUME TypeOK, NEW c \in Callers, NEW s \in Steps, Goto(c, s)
    PROVE  pc' \in [Callers -> Steps]
  BY DEF TypeOK, Goto

LEMMA PasswordTypes ==
    ASSUME TypeOK, Operands, NEW c \in Callers, PasswordStep(c)
    PROVE  TypeOK'
  <1>t. /\ local[c] \in Local /\ Nothing \in Local
        /\ {"getPassword", "getSalt", "getParams", "decrypt", "setSalt",
            "setParams", "setPassword", "followers"} \subseteq Steps
    BY NothingType DEF TypeOK, Steps
  <1>m. Missing(c) => pc' \in [Callers -> Steps] /\ local' \in [Callers -> Local]
    BY <1>t, GotoType, ReturnType DEF Missing, TypeOK
  <1>1. ASSUME NEW p \in Passwords, GetOrInit(c, p) \/ Purge(c, p)
        PROVE  TypeOK'
    <2>1. /\ [Nothing EXCEPT !.by = p] \in Local
          /\ [Nothing EXCEPT !.by = p, !.purge = TRUE] \in Local
      BY <1>t DEF Local
    <2>2. pc' \in [Callers -> Steps] /\ local' \in [Callers -> Local]
      BY <1>1, <1>t, <2>1, GotoType, NoteType DEF GetOrInit, Purge
    <2>. QED  BY <1>1, <2>2 DEF GetOrInit, Purge, TypeOK, passwordVars, databaseVars
  <1>2. CASE GetPassword(c)
    <2>1. [local[c] EXCEPT !.encrypted = password] \in Local
      BY <1>t DEF Local, TypeOK
    <2>2. pc' \in [Callers -> Steps] /\ local' \in [Callers -> Local]
      BY <1>2, <1>t, <1>m, <2>1, GotoType, NoteType DEF GetPassword
    <2>. QED  BY <1>2, <2>2 DEF GetPassword, TypeOK, passwordVars, databaseVars
  <1>3. CASE GetSalt(c)
    <2>1. [local[c] EXCEPT !.salt = salt] \in Local
      BY <1>t DEF Local, TypeOK
    <2>2. pc' \in [Callers -> Steps] /\ local' \in [Callers -> Local]
      BY <1>3, <1>t, <1>m, <2>1, GotoType, NoteType DEF GetSalt
    <2>. QED  BY <1>3, <2>2 DEF GetSalt, TypeOK, passwordVars, databaseVars
  <1>4. CASE GetParams(c)
    <2>1. pc' \in [Callers -> Steps] /\ local' \in [Callers -> Local]
      BY <1>4, <1>t, <1>m, GotoType DEF GetParams, TypeOK
    <2>. QED  BY <1>4, <2>1 DEF GetParams, TypeOK, passwordVars, databaseVars
  <1>5. CASE Decrypt(c)
    <2>1. pc' \in [Callers -> Steps] /\ local' \in [Callers -> Local]
      BY <1>5, <1>t, GotoType, ReturnType DEF Decrypt, TypeOK
    <2>2. unlocked' \subseteq Passwords
      BY <1>5 DEF Decrypt, TypeOK, Operands
    <2>. QED  BY <1>5, <2>1, <2>2 DEF Decrypt, TypeOK, databaseVars
  <1>6. CASE SetSalt(c)
    <2>1. salts + 1 \in Salt /\ salts' \in 0..MaxSalts
      BY <1>6 DEF SetSalt, TypeOK, Salt
    <2>2. [local[c] EXCEPT !.salt = salts + 1] \in Local
      BY <1>t, <2>1 DEF Local
    <2>3. /\ pc' \in [Callers -> Steps] /\ local' \in [Callers -> Local]
          /\ salt' \in Salt \cup {None}
      BY <1>6, <1>t, <2>1, <2>2, GotoType, NoteType, ReturnType
         DEF SetSalt, SetFails, TypeOK
    <2>. QED  BY <1>6, <2>1, <2>3 DEF SetSalt, TypeOK, databaseVars
  <1>7. CASE SetParams(c)
    <2>1. pc' \in [Callers -> Steps] /\ local' \in [Callers -> Local]
          /\ params' \in BOOLEAN
      BY <1>7, <1>t, GotoType, ReturnType DEF SetParams, SetFails, TypeOK
    <2>. QED  BY <1>7, <2>1 DEF SetParams, TypeOK, databaseVars
  <1>8. CASE SetPassword(c)
    <2>1. pc' \in [Callers -> Steps] /\ local' \in [Callers -> Local]
      BY <1>8, ReturnType DEF SetPassword, SetFails
    <2>2. [by |-> local[c].by, salt |-> local[c].salt] \in Encrypted
      BY <1>8 DEF SetPassword, Operands, Encrypted
    <2>3. password' \in Encrypted \cup {None} /\ unlocked' \subseteq Passwords
      BY <1>8, <2>2 DEF SetPassword, Encrypted, TypeOK, Operands
    <2>. QED  BY <1>8, <2>1, <2>3 DEF SetPassword, TypeOK, databaseVars
  <1>. QED  BY <1>1, <1>2, <1>3, <1>4, <1>5, <1>6, <1>7, <1>8 DEF PasswordStep

LEMMA DatabaseTypes ==
    ASSUME TypeOK, Operands, NEW c \in Callers, OpenStep(c)
    PROVE  TypeOK'
  <1>t. /\ local[c] \in Local /\ Nothing \in Local
        /\ {"getList", "setList", "getStatus", "setStatus", "create"} \subseteq Steps
    BY NothingType DEF TypeOK, Steps
  <1>1. ASSUME NEW db \in Databases, NEW s \in Statuses, OpenDatabase(c, db, s)
        PROVE  TypeOK'
    <2>1. [Nothing EXCEPT !.db = db, !.status = s] \in Local
      BY <1>t DEF Local
    <2>2. pc' \in [Callers -> Steps] /\ local' \in [Callers -> Local]
      BY <1>1, <1>t, <2>1, GotoType, NoteType DEF OpenDatabase
    <2>. QED  BY <1>1, <2>2 DEF OpenDatabase, TypeOK, passwordVars, databaseVars
  <1>2. CASE GetList(c)
    <2>1. [local[c] EXCEPT !.list = list] \in Local
      BY <1>t DEF Local, TypeOK
    <2>2. pc' \in [Callers -> Steps] /\ local' \in [Callers -> Local]
      BY <1>2, <1>t, <2>1, GotoType, NoteType DEF GetList
    <2>. QED  BY <1>2, <2>2 DEF GetList, TypeOK, passwordVars, databaseVars
  <1>3. CASE SetList(c)
    <2>1. [local[c] EXCEPT !.list = {}] \in Local
      BY <1>t DEF Local
    <2>2. pc' \in [Callers -> Steps] /\ local' \in [Callers -> Local]
      BY <1>3, <1>t, <2>1, GotoType, NoteType, ReturnType DEF SetList, SetFails
    <2>3. list' \subseteq Databases
      <3>1. local[c].list \subseteq Databases /\ local[c].db \in Databases
        BY <1>3, <1>t DEF SetList, Operands, Local
      <3>. QED  BY <1>3, <3>1 DEF SetList, Added, TypeOK
    <2>. QED  BY <1>3, <2>2, <2>3 DEF SetList, TypeOK, passwordVars
  <1>4. CASE GetStatus(c)
    <2>1. pc' \in [Callers -> Steps] /\ local' \in [Callers -> Local]
      BY <1>4, <1>t, GotoType, ReturnType DEF GetStatus, TypeOK
    <2>. QED  BY <1>4, <2>1 DEF GetStatus, TypeOK, passwordVars, databaseVars
  <1>6. CASE SetStatus(c)
    <2>1. pc' \in [Callers -> Steps] /\ local' \in [Callers -> Local]
      BY <1>6, <1>t, GotoType, ReturnType DEF SetStatus, SetFails, TypeOK
    <2>2. toggle' \in [Databases -> {0, 1, None}]
      BY <1>6 DEF SetStatus, StoredStatus, TypeOK
    <2>. QED  BY <1>6, <2>1, <2>2 DEF SetStatus, TypeOK, passwordVars
  <1>5. CASE Create(c)
    <2>1. pc' \in [Callers -> Steps] /\ local' \in [Callers -> Local]
      BY <1>5, ReturnType DEF Create
    <2>2. local[c].status \in BOOLEAN
      BY <1>5 DEF Create, Operands
    <2>3. database' \in [Databases -> BOOLEAN \cup {None}]
      BY <1>5, <2>2 DEF Create, TypeOK
    <2>4. open' \in [Callers -> [Databases -> BOOLEAN \cup {None}]]
      <3>1. [open EXCEPT ![c][local[c].db] = local[c].status]
              \in [Callers -> [Databases -> BOOLEAN \cup {None}]]
        <4>. DEFINE row == [open[c] EXCEPT ![local[c].db] = local[c].status]
        <4>1. row \in [Databases -> BOOLEAN \cup {None}]
          BY <2>2 DEF TypeOK
        <4>2. [open EXCEPT ![c] = row]
                \in [Callers -> [Databases -> BOOLEAN \cup {None}]]
          BY <4>1 DEF TypeOK
        <4>. QED  BY <4>2
      <3>. QED  BY <1>5, <3>1 DEF Create, TypeOK
    <2>. QED  BY <1>5, <2>1, <2>3, <2>4 DEF Create, TypeOK, passwordVars
  <1>. QED  BY <1>1, <1>2, <1>3, <1>4, <1>5, <1>6 DEF OpenStep

LEMMA PurgeTypes ==
    ASSUME TypeOK, NEW c \in Callers, FollowerStep(c) \/ PurgeStep(c)
    PROVE  TypeOK'
  <1>t. /\ local[c] \in Local /\ Nothing \in Local
        /\ {"idle", "purgeList", "deleting", "clearing"} \subseteq Steps
    BY NothingType DEF TypeOK, Steps
  <1>1. CASE FollowerStep(c)
    BY <1>1 DEF FollowerStep, StartNetworkFollower, StopNetworkFollower, TypeOK,
                passwordVars, databaseVars
  <1>2. CASE CheckFollowers(c) \/ GetPurgeList(c) \/ Cleared(c)
    <2>1. [Nothing EXCEPT !.list = list] \in Local
      BY <1>t DEF Local, TypeOK
    <2>2. pc' \in [Callers -> Steps] /\ local' \in [Callers -> Local]
      BY <1>2, <1>t, <2>1, GotoType, NoteType, ReturnType
         DEF CheckFollowers, GetPurgeList, Cleared
    <2>. QED  BY <1>2, <2>2 DEF CheckFollowers, GetPurgeList, Cleared, TypeOK,
                                passwordVars, databaseVars
  <1>3. ASSUME NEW db \in Databases, DeleteDatabase(c, db)
        PROVE  TypeOK'
    <2>1. [local[c] EXCEPT !.list = @ \ {db}] \in Local
      BY <1>t DEF Local
    <2>2. /\ pc' \in [Callers -> Steps] /\ local' \in [Callers -> Local]
          /\ doomed' \subseteq Databases
      BY <1>3, <2>1, NoteType, ReturnType DEF DeleteDatabase, TypeOK
    <2>. QED  BY <1>3, <2>2 DEF DeleteDatabase, TypeOK, passwordVars
  <1>4. CASE Clear(c)
    <2>1. [Nothing EXCEPT !.keys = Stored,
                          !.list = {db \in Databases : toggle[db] # None}] \in Local
      BY <1>t DEF Local, Stored
    <2>2. pc' \in [Callers -> Steps] /\ local' \in [Callers -> Local]
      BY <1>4, <1>t, <2>1, GotoType, NoteType DEF Clear
    <2>. QED  BY <1>4, <2>2 DEF Clear, TypeOK, databaseVars
  <1>5. ASSUME NEW k \in Keys, RemoveKey(c, k)
        PROVE  TypeOK'
    <2>1. [local[c] EXCEPT !.keys = @ \ {k}] \in Local
      BY <1>t DEF Local
    <2>2. local' \in [Callers -> Local]
      BY <1>5, <2>1, NoteType DEF RemoveKey
    <2>3. /\ salt' \in Salt \cup {None} /\ params' \in BOOLEAN
          /\ password' \in Encrypted \cup {None} /\ list' \subseteq Databases
      BY <1>5 DEF RemoveKey, TypeOK
    <2>. QED  BY <1>5, <2>2, <2>3 DEF RemoveKey, TypeOK
  <1>6. ASSUME NEW db \in Databases, RemoveToggle(c, db)
        PROVE  TypeOK'
    <2>1. [local[c] EXCEPT !.list = @ \ {db}] \in Local
      BY <1>t DEF Local
    <2>2. local' \in [Callers -> Local] /\ toggle' \in [Databases -> {0, 1, None}]
      BY <1>6, <2>1, NoteType DEF RemoveToggle, TypeOK
    <2>. QED  BY <1>6, <2>2 DEF RemoveToggle, TypeOK, passwordVars
  <1>7. CASE Crash(c)
    <2>1. pc' \in [Callers -> Steps] /\ local' \in [Callers -> Local]
      BY <1>7, ReturnType DEF Crash
    <2>2. /\ open' \in [Callers -> [Databases -> BOOLEAN \cup {None}]]
          /\ clients' \in [Callers -> {0, 1}]
      BY <1>7 DEF Crash, TypeOK
    <2>. QED  BY <1>7, <2>1, <2>2 DEF Crash, TypeOK, passwordVars
  <1>. QED  BY <1>1, <1>2, <1>3, <1>4, <1>5, <1>6, <1>7 DEF PurgeStep

\* A step of one call leaves the others where they are.
LEMMA OthersStay ==
    ASSUME TypeOK, NEW c \in Callers, NEW d \in Callers, d # c
    PROVE  /\ \A s : Goto(c, s) => pc'[d] = pc[d]
           /\ \A l : Note(c, l) => local'[d] = local[d]
  BY DEF TypeOK, Goto, Note

LEMMA OwnStep ==
    ASSUME TypeOK, NEW c \in Callers
    PROVE  /\ \A s : Goto(c, s) => pc'[c] = s
           /\ \A l : Note(c, l) => local'[c] = l
  BY DEF TypeOK, Goto, Note

LEMMA OthersStayInSteps ==
    ASSUME TypeOK, NEW c \in Callers, NEW d \in Callers, d # c,
           PasswordStep(c) \/ OpenStep(c) \/ FollowerStep(c) \/ PurgeStep(c)
    PROVE  pc'[d] = pc[d] /\ local'[d] = local[d]
  <1>r. Return(c) \/ Missing(c) => pc'[d] = pc[d] /\ local'[d] = local[d]
    BY OthersStay DEF Return, Missing
  <1>1. CASE PasswordStep(c)
    BY <1>1, <1>r, OthersStay
       DEF PasswordStep, GetOrInit, Purge, GetPassword, GetSalt, GetParams, Decrypt,
           SetSalt, SetParams, SetPassword, SetFails
  <1>2. CASE OpenStep(c)
    BY <1>2, <1>r, OthersStay
       DEF OpenStep, OpenDatabase, GetList, SetList, GetStatus, SetStatus, Create, SetFails
  <1>3. CASE FollowerStep(c) \/ PurgeStep(c)
    BY <1>3, <1>r, OthersStay
       DEF FollowerStep, StartNetworkFollower, StopNetworkFollower, PurgeStep, CheckFollowers,
           GetPurgeList, DeleteDatabase, RemoveToggle, Clear, RemoveKey, Cleared, Crash
  <1>. QED  BY <1>1, <1>2, <1>3

LEMMA OperandsKept ==
    ASSUME TypeOK, Operands, NEW c \in Callers,
           PasswordStep(c) \/ OpenStep(c) \/ FollowerStep(c) \/ PurgeStep(c)
    PROVE  Operands'
  <1>. DEFINE Own ==
         /\ pc'[c] \in {"getPassword", "getSalt", "getParams", "decrypt",
                        "setSalt", "setParams", "setPassword"}
               => local'[c].by \in Passwords
         /\ pc'[c] \in {"setParams", "setPassword"} => local'[c].salt \in Salt
         /\ pc'[c] \in {"getList", "setList", "getStatus", "setStatus", "create"}
               => local'[c].db \in Databases /\ local'[c].status \in BOOLEAN
  <1>t. local[c] \in Local
    BY DEF TypeOK
  <1>q. SUFFICES Own
    BY OthersStayInSteps DEF Operands
  <1>r. Return(c) => Own
    BY OwnStep DEF Return
  <1>s. ASSUME Missing(c),
               pc[c] \in {"getPassword", "getSalt", "getParams", "decrypt"}
        PROVE  Own
    BY <1>s, <1>r, OwnStep DEF Missing, Operands
  <1>1. ASSUME NEW p \in Passwords, GetOrInit(c, p) \/ Purge(c, p)
        PROVE  Own
    BY <1>1, OwnStep DEF GetOrInit, Purge, Nothing
  <1>2. CASE GetPassword(c) \/ GetSalt(c) \/ GetParams(c)
    BY <1>2, <1>t, <1>s, OwnStep DEF GetPassword, GetSalt, GetParams, Operands, Local
  <1>3. CASE Decrypt(c)
    BY <1>3, <1>r, OwnStep DEF Decrypt
  <1>4. CASE SetSalt(c)
    <2>1. salts + 1 \in Salt
      BY <1>4 DEF SetSalt, TypeOK, Salt
    <2>. QED  BY <1>4, <1>t, <1>r, <2>1, OwnStep
              DEF SetSalt, SetFails, Operands, Local
  <1>5. CASE SetParams(c)
    BY <1>5, <1>r, OwnStep DEF SetParams, SetFails, Operands
  <1>6. CASE SetPassword(c)
    BY <1>6, <1>r DEF SetPassword, SetFails
  <1>7. ASSUME NEW db \in Databases, NEW s \in Statuses, OpenDatabase(c, db, s)
        PROVE  Own
    BY <1>7, OwnStep DEF OpenDatabase, Nothing
  <1>8. CASE GetList(c)
    BY <1>8, <1>t, OwnStep DEF GetList, Operands, Local
  <1>9. CASE SetList(c)
    BY <1>9, <1>t, <1>r, OwnStep DEF SetList, SetFails, Operands, Local
  <1>10. CASE GetStatus(c) \/ SetStatus(c)
    BY <1>10, <1>r, OwnStep DEF GetStatus, SetStatus, SetFails, Operands
  <1>11. CASE Create(c) \/ Cleared(c) \/ Crash(c)
    BY <1>11, <1>r DEF Create, Cleared, Crash
  <1>12. CASE FollowerStep(c)
    BY <1>12 DEF FollowerStep, StartNetworkFollower, StopNetworkFollower, Operands
  <1>13. CASE CheckFollowers(c) \/ GetPurgeList(c) \/ Clear(c)
    BY <1>13, <1>r, OwnStep DEF CheckFollowers, GetPurgeList, Clear
  <1>14. ASSUME NEW db \in Databases, DeleteDatabase(c, db) \/ RemoveToggle(c, db)
         PROVE  Own
    BY <1>14, <1>r, OwnStep DEF DeleteDatabase, RemoveToggle
  <1>15. ASSUME NEW k \in Keys, RemoveKey(c, k)
         PROVE  Own
    BY <1>15 DEF RemoveKey
  <1>. QED
    BY <1>1, <1>2, <1>3, <1>4, <1>5, <1>6, <1>7, <1>8, <1>9, <1>10, <1>11,
       <1>12, <1>13, <1>14, <1>15 DEF PasswordStep, OpenStep, PurgeStep

\* Every variable has its type, and a call in progress its operands, however
\* many tabs and promises use the storage at once.
THEOREM TypeCorrect == Spec => [](TypeOK /\ Operands)
  <1>1. Init => TypeOK /\ Operands
    <2>. SUFFICES ASSUME Init PROVE TypeOK /\ Operands
      OBVIOUS
    <2>1. 0 \in 0..MaxSalts /\ "idle" \in Steps
      BY DEF Steps
    <2>2. TypeOK
      BY <2>1, NothingType DEF Init, TypeOK
    <2>3. Operands
      BY DEF Init, Operands
    <2>. QED  BY <2>2, <2>3
  <1>2. TypeOK /\ Operands /\ [Next]_vars => (TypeOK /\ Operands)'
    <2>. SUFFICES ASSUME TypeOK, Operands, [Next]_vars
                  PROVE  TypeOK' /\ Operands'
      OBVIOUS
    <2>1. ASSUME NEW db \in Databases, Deleted(db)
          PROVE  TypeOK' /\ Operands'
      BY <2>1 DEF Deleted, TypeOK, Operands, passwordVars
    <2>2. CASE UNCHANGED vars
      BY <2>2 DEF vars, TypeOK, Operands
    <2>3. ASSUME NEW c \in Callers,
                 PasswordStep(c) \/ OpenStep(c) \/ FollowerStep(c) \/ PurgeStep(c)
          PROVE  TypeOK' /\ Operands'
      BY <2>3, OperandsKept, PasswordTypes, DatabaseTypes, PurgeTypes
    <2>. QED  BY <2>1, <2>2, <2>3, NextSteps
  <1>. QED  BY <1>1, <1>2, PTL DEF Spec

-----------------------------------------------------------------------------
(***************************************************************************)
(* One caller: nothing else touches the storage during its calls.          *)
(***************************************************************************)
OneCaller == \A c, d \in Callers : c = d

\* Once a password has been accepted, and until a Purge begins to clear the
\* storage, the password stored has its parameters and its own salt, and no
\* call writes the keys.  What is read before decrypting is what is stored.
PasswordInv ==
    /\ unlocked # {} => password # None /\ params /\ salt = password.salt
    /\ \A p \in unlocked : password.by = p
    /\ \A c \in Callers :
          /\ pc[c] \in {"getSalt", "getParams", "decrypt"}
                => password # None /\ local[c].encrypted = password
          /\ pc[c] \in {"getParams", "decrypt"} => salt # None /\ local[c].salt = salt
          /\ pc[c] = "decrypt" => params
          /\ pc[c] \in {"setSalt", "setParams", "setPassword", "clearing"}
                => unlocked = {}
          /\ pc[c] \in {"setParams", "setPassword"} => local[c].salt = salt
          /\ pc[c] = "setPassword" => params

LEMMA PasswordSteps ==
    ASSUME OneCaller, TypeOK, Operands, PasswordInv, NEW c \in Callers, PasswordStep(c)
    PROVE  PasswordInv'
  <1>t. /\ local[c] \in Local
        /\ password \in Encrypted \cup {None} /\ salt \in Salt \cup {None}
        /\ \A d \in Callers : d = c
    BY DEF TypeOK, OneCaller
  <1>r. Return(c) => pc'[c] = "idle"
    BY OwnStep DEF Return
  <1>m. Missing(c) => pc'[c] \in {"idle", "setSalt"}
    BY OwnStep DEF Missing, Return
  <1>p. password # None => password \in Encrypted /\ password.salt # None
    BY <1>t DEF Encrypted
  <1>1. ASSUME NEW p \in Passwords, GetOrInit(c, p) \/ Purge(c, p)
        PROVE  PasswordInv'
    <2>1. pc'[c] = "getPassword"
      BY <1>1, OwnStep DEF GetOrInit, Purge
    <2>. QED  BY <1>1, <1>t, <2>1 DEF GetOrInit, Purge, PasswordInv, passwordVars
  <1>2. CASE GetPassword(c)
    <2>1. UNCHANGED passwordVars
      BY <1>2 DEF GetPassword
    <2>2. CASE password = None /\ Missing(c)
      BY <1>t, <1>m, <2>1, <2>2 DEF PasswordInv, passwordVars
    <2>3. CASE /\ password # None
               /\ Note(c, [local[c] EXCEPT !.encrypted = password])
               /\ Goto(c, "getSalt")
      <3>1. local'[c].encrypted = password /\ pc'[c] = "getSalt"
        BY <1>t, <2>3, OwnStep DEF Local
      <3>. QED  BY <1>t, <2>1, <2>3, <3>1 DEF PasswordInv, passwordVars
    <2>. QED  BY <1>2, <2>2, <2>3 DEF GetPassword
  <1>3. CASE GetSalt(c)
    <2>1. UNCHANGED passwordVars
      BY <1>3 DEF GetSalt
    <2>2. CASE salt = None /\ Missing(c)
      <3>1. unlocked = {}
        BY <1>p, <2>2 DEF PasswordInv
      <3>2. UNCHANGED <<salt, params, password>> /\ unlocked' = {}
        BY <2>1, <3>1 DEF passwordVars
      <3>3. pc'[c] \in {"idle", "setSalt"}
        BY <1>m, <2>2
      <3>. QED  BY <1>t, <3>2, <3>3 DEF PasswordInv
    <2>3. CASE /\ salt # None
               /\ Note(c, [local[c] EXCEPT !.salt = salt])
               /\ Goto(c, "getParams")
      <3>1. /\ local'[c].salt = salt /\ pc'[c] = "getParams"
            /\ local'[c].encrypted = local[c].encrypted
        BY <1>t, <2>3, OwnStep DEF Local
      <3>2. password # None /\ local[c].encrypted = password
        BY <1>3 DEF GetSalt, PasswordInv
      <3>. QED  BY <1>t, <2>1, <2>3, <3>1, <3>2 DEF PasswordInv, passwordVars
    <2>. QED  BY <1>3, <2>2, <2>3 DEF GetSalt
  <1>4. CASE GetParams(c)
    <2>1. UNCHANGED passwordVars
      BY <1>4 DEF GetParams
    <2>2. CASE ~params /\ Missing(c)
      BY <1>t, <1>m, <2>1, <2>2 DEF PasswordInv, passwordVars
    <2>3. CASE params /\ Goto(c, "decrypt") /\ UNCHANGED local
      <3>1. pc'[c] = "decrypt" /\ local'[c] = local[c]
        BY <2>3, OwnStep
      <3>. QED  BY <1>4, <1>t, <2>1, <2>3, <3>1 DEF GetParams, PasswordInv, passwordVars
    <2>. QED  BY <1>4, <2>2, <2>3 DEF GetParams
  <1>5. CASE Decrypt(c)
    <2>1. pc'[c] \in {"idle", "followers"}
      BY <1>5, <1>r, OwnStep DEF Decrypt
    <2>2. /\ local[c].encrypted = password /\ password \in Encrypted
          /\ local[c].salt = salt /\ params
      BY <1>5, <1>p DEF Decrypt, PasswordInv
    <2>3. \A p \in unlocked' :
             p \in unlocked \/ (password.by = p /\ salt = password.salt)
      BY <1>5, <2>2 DEF Decrypt, OpensRead, Opens
    <2>4. unlocked' # {} => password # None /\ params /\ salt = password.salt
      BY <1>p, <2>2, <2>3 DEF PasswordInv
    <2>5. UNCHANGED <<salt, params, password>>
      BY <1>5 DEF Decrypt
    <2>6. \A p \in unlocked' : password.by = p
      BY <2>3 DEF PasswordInv
    <2>. QED  BY <1>t, <2>1, <2>4, <2>5, <2>6 DEF PasswordInv
  <1>6. CASE SetSalt(c)
    <2>1. unlocked = {} /\ unlocked' = {}
      BY <1>6 DEF SetSalt, PasswordInv
    <2>2. CASE SetFails(c) /\ UNCHANGED salt
      <3>1. pc'[c] = "idle"
        BY <2>2, <1>r DEF SetFails
      <3>. QED  BY <1>t, <2>1, <3>1 DEF PasswordInv
    <2>3. CASE /\ salt' = salts + 1
               /\ Note(c, [local[c] EXCEPT !.salt = salts + 1])
               /\ Goto(c, "setParams")
      <3>1. pc'[c] = "setParams" /\ local'[c].salt = salt'
        BY <2>3, <1>t, OwnStep DEF Local
      <3>. QED  BY <1>t, <2>1, <3>1 DEF PasswordInv
    <2>. QED  BY <1>6, <2>2, <2>3 DEF SetSalt
  <1>7. CASE SetParams(c)
    <2>1. unlocked = {} /\ unlocked' = {} /\ local[c].salt = salt /\ salt' = salt
      BY <1>7 DEF SetParams, PasswordInv
    <2>2. CASE SetFails(c) /\ UNCHANGED params
      <3>1. pc'[c] = "idle"
        BY <2>2, <1>r DEF SetFails
      <3>. QED  BY <1>t, <2>1, <3>1 DEF PasswordInv
    <2>3. CASE params' = TRUE /\ Goto(c, "setPassword") /\ UNCHANGED local
      <3>1. pc'[c] = "setPassword" /\ params' /\ local' = local
        BY <2>3, OwnStep
      <3>. QED  BY <1>t, <2>1, <3>1 DEF PasswordInv
    <2>. QED  BY <1>7, <2>2, <2>3 DEF SetParams
  <1>8. CASE SetPassword(c)
    <2>1. /\ params /\ local[c].salt = salt /\ unlocked = {}
          /\ UNCHANGED <<salt, params>>
      BY <1>8 DEF SetPassword, PasswordInv
    <2>2. pc'[c] = "idle"
      BY <1>8, <1>r DEF SetPassword, SetFails
    <2>3. CASE UNCHANGED <<password, unlocked>>
      BY <1>t, <2>1, <2>2, <2>3 DEF PasswordInv
    <2>4. CASE /\ password' = [by |-> local[c].by, salt |-> local[c].salt]
               /\ unlocked' = unlocked \cup {local[c].by}
      <3>1. password' \in Encrypted
        BY <1>8, <2>4 DEF SetPassword, Operands, Encrypted
      <3>2. password' # None /\ password'.by = local[c].by
            /\ password'.salt = local[c].salt
        BY <2>4, <3>1
      <3>. QED  BY <1>t, <2>1, <2>2, <2>4, <3>2 DEF PasswordInv
    <2>. QED  BY <1>8, <2>3, <2>4 DEF SetPassword
  <1>. QED  BY <1>1, <1>2, <1>3, <1>4, <1>5, <1>6, <1>7, <1>8 DEF PasswordStep

LEMMA PasswordOtherSteps ==
    ASSUME OneCaller, TypeOK, PasswordInv, NEW c \in Callers,
           OpenStep(c) \/ FollowerStep(c) \/ PurgeStep(c)
    PROVE  PasswordInv'
  <1>t. \A d \in Callers : d = c
    BY DEF OneCaller
  <1>r. Return(c) => pc'[c] = "idle"
    BY OwnStep DEF Return
  <1>1. CASE FollowerStep(c)
    BY <1>1 DEF FollowerStep, StartNetworkFollower, StopNetworkFollower, PasswordInv,
                passwordVars
  <1>2. CASE OpenStep(c)
    <2>1. UNCHANGED passwordVars
      BY <1>2 DEF OpenStep, OpenDatabase, GetList, SetList, GetStatus, SetStatus, Create
    <2>2. pc'[c] \in {"idle", "getList", "setList", "getStatus", "setStatus", "create"}
      BY <1>2, <1>r, OwnStep
         DEF OpenStep, OpenDatabase, GetList, SetList, GetStatus, SetStatus, Create, SetFails
    <2>. QED  BY <1>t, <2>1, <2>2 DEF PasswordInv, passwordVars
  <1>3. CASE CheckFollowers(c) \/ GetPurgeList(c) \/ Cleared(c) \/ Crash(c)
    <2>1. UNCHANGED passwordVars
      BY <1>3 DEF CheckFollowers, GetPurgeList, Cleared, Crash
    <2>2. pc'[c] \in {"idle", "purgeList", "deleting"}
      BY <1>3, <1>r, OwnStep DEF CheckFollowers, GetPurgeList, Cleared, Crash
    <2>. QED  BY <1>t, <2>1, <2>2 DEF PasswordInv, passwordVars
  <1>4. ASSUME NEW db \in Databases, DeleteDatabase(c, db) \/ RemoveToggle(c, db)
        PROVE  PasswordInv'
    <2>1. UNCHANGED passwordVars
      BY <1>4 DEF DeleteDatabase, RemoveToggle
    <2>2. pc'[c] \in {"idle", "deleting"} \/ (pc'[c] = pc[c] /\ pc[c] = "clearing")
      BY <1>4, <1>r DEF DeleteDatabase, RemoveToggle
    <2>. QED  BY <1>t, <2>1, <2>2 DEF PasswordInv, passwordVars
  <1>5. ASSUME Clear(c) \/ \E k \in Keys : RemoveKey(c, k)
        PROVE  PasswordInv'
    <2>1. pc'[c] = "clearing" /\ unlocked' = {}
      BY <1>5, OwnStep DEF Clear, RemoveKey, PasswordInv
    <2>. QED  BY <1>t, <2>1 DEF PasswordInv
  <1>. QED  BY <1>1, <1>2, <1>3, <1>4, <1>5 DEF PurgeStep

\* With one caller, a password that GetOrInitPassword accepted opens the stored
\* internal password until a Purge begins to clear the storage, even when writes
\* fail or the page is closed between any two of them.
THEOREM NeverLocked ==
    ASSUME OneCaller
    PROVE  Spec => []NeverLockedOut
  <1>1. Init => PasswordInv
    BY DEF Init, PasswordInv
  <1>2. TypeOK /\ Operands /\ PasswordInv /\ [Next]_vars => PasswordInv'
    <2>. SUFFICES ASSUME TypeOK, Operands, PasswordInv, [Next]_vars
                  PROVE  PasswordInv'
      OBVIOUS
    <2>1. ASSUME NEW db \in Databases, Deleted(db)
          PROVE  PasswordInv'
      BY <2>1 DEF Deleted, PasswordInv, passwordVars
    <2>2. CASE UNCHANGED vars
      BY <2>2 DEF vars, PasswordInv
    <2>. QED  BY <2>1, <2>2, PasswordSteps, PasswordOtherSteps, NextSteps
  <1>3. TypeOK /\ PasswordInv => NeverLockedOut
    <2>. SUFFICES ASSUME TypeOK, PasswordInv, NEW p \in unlocked
                  PROVE  params /\ Opens(password, p, salt)
      BY DEF NeverLockedOut
    <2>1. password \in Encrypted
      BY DEF TypeOK, PasswordInv
    <2>. QED  BY <2>1 DEF PasswordInv, Opens, Encrypted
  <1>. QED  BY <1>1, <1>2, <1>3, TypeCorrect, PTL DEF Spec

-----------------------------------------------------------------------------
(***************************************************************************)
(* One caller: databases.                                                  *)
(***************************************************************************)

\* The list read is the list stored, a database is listed before it is opened,
\* and a Purge clears the list after it has requested every deletion.
ListInv ==
    /\ EveryDatabaseListed
    /\ \A c \in Callers :
          /\ pc[c] = "setList" => local[c].list = list
          /\ pc[c] \in {"getStatus", "setStatus", "create"} => local[c].db \in list
          /\ pc[c] = "deleting"
                => \A db \in Databases :
                      database[db] # None => db \in local[c].list \cup doomed
          /\ pc[c] = "clearing"
                => \A db \in Databases : database[db] # None => db \in doomed

\* A database of encrypted messages keeps its byte until its deletion is
\* requested; an unencrypted open is of a database that was unencrypted, or
\* new, when the status was checked.
StatusInv ==
    /\ \A db \in Databases :
          database[db] = TRUE /\ db \notin doomed => toggle[db] = 1
    /\ \A c \in Callers, db \in Databases :
          /\ open[c][db] # None => database[db] # None
          /\ open[c][db] = FALSE => database[db] = FALSE
    /\ \A c \in Callers :
          /\ pc[c] = "setStatus" => toggle[local[c].db] = None
          /\ pc[c] = "create" /\ local[c].status = FALSE
                => \/ database[local[c].db] # TRUE
                   \/ local[c].db \in doomed
          /\ pc[c] = "create" /\ local[c].status = TRUE
                => toggle[local[c].db] = 1

DatabaseInv == ListInv /\ StatusInv

LEMMA OpenSteps ==
    ASSUME OneCaller, TypeOK, Operands, DatabaseInv, NEW c \in Callers, OpenStep(c)
    PROVE  DatabaseInv'
  <1>t. /\ local[c] \in Local
        /\ \A d \in Callers : d = c
    BY DEF TypeOK, OneCaller
  <1>r. Return(c) => pc'[c] = "idle"
    BY OwnStep DEF Return
  <1>d. USE DEF DatabaseInv, ListInv, StatusInv, EveryDatabaseListed
  <1>1. ASSUME NEW db \in Databases, NEW s \in Statuses, OpenDatabase(c, db, s)
        PROVE  DatabaseInv'
    <2>1. pc'[c] = "getList"
      BY <1>1, OwnStep DEF OpenDatabase
    <2>. QED  BY <1>1, <1>t, <2>1 DEF OpenDatabase, databaseVars
  <1>2. CASE GetList(c)
    <2>1. pc'[c] = "setList" /\ local'[c].list = list
      BY <1>2, <1>t, OwnStep DEF GetList, Local
    <2>. QED  BY <1>2, <1>t, <2>1 DEF GetList, databaseVars
  <1>3. CASE SetList(c)
    <2>1. CASE SetFails(c) /\ UNCHANGED list
      <3>1. pc'[c] = "idle"
        BY <2>1, <1>r DEF SetFails
      <3>. QED  BY <1>3, <1>t, <2>1, <3>1 DEF SetList
    <2>2. CASE /\ list' = Added(local[c].list, local[c].db)
               /\ Note(c, [local[c] EXCEPT !.list = {}])
               /\ Goto(c, "getStatus")
      <3>1. pc'[c] = "getStatus" /\ local'[c].db = local[c].db
        BY <2>2, <1>t, OwnStep DEF Local
      <3>2. list' = list \cup {local[c].db}
        BY <1>3, <2>2 DEF SetList, Added
      <3>. QED  BY <1>3, <1>t, <3>1, <3>2 DEF SetList
    <2>. QED  BY <1>3, <2>1, <2>2 DEF SetList
  <1>4. CASE GetStatus(c)
    <2>. DEFINE db == local[c].db
    <2>t. /\ db \in Databases /\ local[c].status \in BOOLEAN /\ db \in list
          /\ UNCHANGED databaseVars
      BY <1>4 DEF GetStatus, Operands
    <2>1. CASE Return(c)
      BY <1>t, <1>r, <2>t, <2>1 DEF databaseVars
    <2>2. CASE toggle[db] = None /\ Goto(c, "setStatus") /\ UNCHANGED local
      <3>1. pc'[c] = "setStatus" /\ local'[c] = local[c]
        BY <2>2, OwnStep
      <3>. QED  BY <1>t, <2>t, <2>2, <3>1 DEF databaseVars
    <2>3. CASE /\ toggle[db] # None /\ Accepted(toggle[db], local[c].status)
               /\ Goto(c, "create") /\ UNCHANGED local
      <3>1. pc'[c] = "create" /\ local'[c] = local[c]
        BY <2>3, OwnStep
      <3>2. UNCHANGED <<list, toggle, database, doomed, open>>
        BY <2>t DEF databaseVars
      <3>3. local[c].status = FALSE => toggle[db] # 1
        BY <2>3 DEF Accepted
      <3>4. local[c].status = TRUE => toggle[db] = 1
        BY <2>3 DEF Accepted
      <3>5. ListInv'
        BY <1>t, <2>t, <3>1, <3>2
      <3>6. StatusInv'
        BY <1>t, <2>t, <3>1, <3>2, <3>3, <3>4
      <3>. QED  BY <3>5, <3>6
    <2>. QED  BY <1>4, <2>1, <2>2, <2>3 DEF GetStatus
  <1>6. CASE SetStatus(c)
    <2>. DEFINE db == local[c].db
    <2>t. /\ db \in Databases /\ local[c].status \in BOOLEAN /\ db \in list
          /\ toggle[db] = None
          /\ UNCHANGED <<list, database, doomed, open>>
      BY <1>6 DEF SetStatus, Operands
    <2>1. CASE SetFails(c) /\ UNCHANGED toggle
      BY <1>t, <1>r, <2>t, <2>1 DEF SetFails
    <2>2. CASE /\ toggle' = [toggle EXCEPT ![db] = 1]
               /\ Goto(c, "create") /\ UNCHANGED local
      <3>1. pc'[c] = "create" /\ local'[c] = local[c]
        BY <2>2, OwnStep
      <3>2. /\ toggle'[db] = 1
            /\ \A other \in Databases \ {db} : toggle'[other] = toggle[other]
        BY <2>2, <2>t DEF TypeOK
      <3>3. database[db] # TRUE \/ db \in doomed
        BY <2>t
      <3>4. ListInv'
        BY <1>t, <2>t, <3>1
      <3>5. StatusInv'
        BY <1>t, <2>t, <3>1, <3>2, <3>3
      <3>. QED  BY <3>4, <3>5
    <2>. QED  BY <1>6, <2>1, <2>2 DEF SetStatus, StoredStatus
  <1>5. CASE Create(c)
    <2>. DEFINE db == local[c].db
    <2>t. /\ db \in Databases /\ local[c].status \in BOOLEAN /\ db \in list
          /\ pc'[c] = "idle"
          /\ UNCHANGED <<list, toggle, doomed>>
      BY <1>5, <1>r DEF Create, Operands
    <2>1. CASE UNCHANGED <<database, open>>
      BY <1>t, <2>t, <2>1
    <2>2. CASE /\ db \notin doomed
               /\ database' = [database EXCEPT
                     ![db] = IF @ = None THEN local[c].status ELSE @]
               /\ open' = [open EXCEPT ![c][db] = local[c].status]
      <3>1. /\ database'[db] = IF database[db] = None
                               THEN local[c].status ELSE database[db]
            /\ \A other \in Databases \ {db} : database'[other] = database[other]
        BY <2>2, <2>t DEF TypeOK
      <3>2. /\ open'[c][db] = local[c].status
            /\ \A other \in Databases \ {db} : open'[c][other] = open[c][other]
        BY <2>2, <2>t DEF TypeOK
      <3>3. database'[db] \in BOOLEAN /\ database'[db] # None
        BY <2>t, <3>1 DEF TypeOK
      <3>4. local[c].status = FALSE => database'[db] = FALSE
        BY <1>5, <2>2, <2>t, <3>1, <3>3 DEF Create
      <3>6. database'[db] = TRUE => toggle[db] = 1
        BY <1>5, <2>2, <2>t, <3>1 DEF Create
      <3>7. ListInv'
        BY <1>t, <2>t, <3>1
      <3>8. \A o \in Databases :
               database'[o] = TRUE /\ o \notin doomed' => toggle'[o] = 1
        BY <2>t, <3>1, <3>6
      <3>9. \A o \in Databases :
               /\ open'[c][o] # None => database'[o] # None
               /\ open'[c][o] = FALSE => database'[o] = FALSE
        BY <1>t, <2>t, <3>1, <3>2, <3>3, <3>4
      <3>10. StatusInv'
        BY <1>t, <2>t, <3>8, <3>9
      <3>. QED  BY <3>7, <3>10
    <2>. QED  BY <1>5, <2>1, <2>2 DEF Create
  <1>. QED  BY <1>1, <1>2, <1>3, <1>4, <1>5, <1>6 DEF OpenStep

LEMMA OpenOtherSteps ==
    ASSUME OneCaller, TypeOK, DatabaseInv, NEW c \in Callers,
           PasswordStep(c) \/ FollowerStep(c) \/ PurgeStep(c)
    PROVE  DatabaseInv'
  <1>t. local[c] \in Local /\ \A d \in Callers : d = c
    BY DEF OneCaller, TypeOK
  <1>r. Return(c) => pc'[c] = "idle"
    BY OwnStep DEF Return
  <1>d. USE DEF DatabaseInv, ListInv, StatusInv, EveryDatabaseListed
  <1>1. CASE FollowerStep(c)
    <2>1. UNCHANGED <<list, toggle, database, doomed, open, pc, local>>
      BY <1>1 DEF FollowerStep, StartNetworkFollower, StopNetworkFollower, databaseVars
    <2>. QED  BY <2>1
  <1>2. CASE PasswordStep(c)
    <2>1. UNCHANGED databaseVars
      BY <1>2 DEF PasswordStep, GetOrInit, Purge, GetPassword, GetSalt, GetParams,
                  Decrypt, SetSalt, SetParams, SetPassword
    <2>2. pc'[c] \in {"idle", "getPassword", "getSalt", "getParams", "decrypt",
                      "setSalt", "setParams", "setPassword", "followers"}
      BY <1>2, OwnStep
         DEF PasswordStep, GetOrInit, Purge, GetPassword, GetSalt, GetParams, Decrypt,
             SetSalt, SetParams, SetPassword, SetFails, Missing, Return
    <2>. QED  BY <1>t, <2>1, <2>2 DEF databaseVars
  <1>3. CASE CheckFollowers(c) \/ Cleared(c)
    <2>1. UNCHANGED databaseVars /\ pc'[c] \in {"idle", "purgeList"}
      BY <1>3, <1>r, OwnStep DEF CheckFollowers, Cleared
    <2>. QED  BY <1>t, <2>1 DEF databaseVars
  <1>4. CASE GetPurgeList(c)
    <2>1. UNCHANGED databaseVars /\ pc'[c] = "deleting" /\ local'[c].list = list
      BY <1>4, OwnStep DEF GetPurgeList, Nothing
    <2>. QED  BY <1>t, <2>1 DEF databaseVars
  <1>5. ASSUME NEW db \in Databases, DeleteDatabase(c, db)
        PROVE  DatabaseInv'
    <2>1. UNCHANGED <<list, toggle, database, open>>
      BY <1>5 DEF DeleteDatabase
    <2>2. CASE Return(c) /\ UNCHANGED doomed
      BY <1>t, <1>r, <2>1, <2>2
    <2>3. CASE /\ doomed' = doomed \cup {db}
               /\ Note(c, [local[c] EXCEPT !.list = @ \ {db}])
               /\ UNCHANGED pc
      <3>1. local'[c].list = local[c].list \ {db}
        BY <1>t, <2>3, OwnStep DEF Local
      <3>2. pc'[c] = "deleting" /\ pc[c] = "deleting"
        BY <1>5, <2>3 DEF DeleteDatabase
      <3>. QED  BY <1>t, <2>1, <2>3, <3>1, <3>2
    <2>. QED  BY <1>5, <2>2, <2>3 DEF DeleteDatabase
  <1>6. CASE Clear(c)
    <2>1. \A db \in Databases : database[db] # None => db \in doomed
      BY <1>6 DEF Clear
    <2>2. pc'[c] = "clearing" /\ UNCHANGED databaseVars
      BY <1>6, OwnStep DEF Clear
    <2>. QED  BY <1>t, <2>1, <2>2 DEF databaseVars
  <1>7. ASSUME \/ \E k \in Keys : RemoveKey(c, k)
               \/ \E db \in Databases : RemoveToggle(c, db)
        PROVE  DatabaseInv'
    <2>1. pc'[c] = "clearing" /\ pc[c] = "clearing"
      BY <1>7 DEF RemoveKey, RemoveToggle
    <2>2. UNCHANGED <<database, doomed, open>>
      BY <1>7 DEF RemoveKey, RemoveToggle
    <2>. QED  BY <1>t, <2>1, <2>2
  <1>8. CASE Crash(c)
    <2>1. /\ pc'[c] = "idle"
          /\ UNCHANGED <<list, toggle, database, doomed>>
          /\ \A db \in Databases : open'[c][db] = None
      BY <1>8, <1>r DEF Crash, TypeOK
    <2>. QED  BY <1>t, <2>1
  <1>. QED  BY <1>1, <1>2, <1>3, <1>4, <1>5, <1>6, <1>7, <1>8 DEF PurgeStep

LEMMA DatabaseInvariant ==
    ASSUME OneCaller
    PROVE  Spec => []DatabaseInv
  <1>d. USE DEF DatabaseInv, ListInv, StatusInv, EveryDatabaseListed
  <1>1. Init => DatabaseInv
    <2>1. None # TRUE /\ None # FALSE
      OBVIOUS
    <2>. SUFFICES ASSUME Init PROVE DatabaseInv
      OBVIOUS
    <2>2. /\ \A db \in Databases : database[db] = None
          /\ \A c \in Callers : pc[c] = "idle"
          /\ \A c \in Callers, db \in Databases : open[c][db] = None
      BY DEF Init
    <2>. QED  BY <2>1, <2>2
  <1>2. TypeOK /\ Operands /\ DatabaseInv /\ [Next]_vars => DatabaseInv'
    <2>. SUFFICES ASSUME TypeOK, Operands, DatabaseInv, [Next]_vars
                  PROVE  DatabaseInv'
      OBVIOUS
    <2>1. ASSUME NEW db \in Databases, Deleted(db)
          PROVE  DatabaseInv'
      <3>1. /\ \A c \in Callers : open'[c][db] = None
            /\ database'[db] = None
            /\ \A o \in Databases \ {db} : database'[o] = database[o]
            /\ doomed' = doomed \ {db}
            /\ UNCHANGED <<list, toggle, open, pc, local>>
        BY <2>1 DEF Deleted, TypeOK
      <3>2. ListInv'
        BY <3>1
      <3>3. StatusInv'
        BY <3>1 DEF Operands
      <3>. QED  BY <3>2, <3>3
    <2>2. CASE UNCHANGED vars
      BY <2>2 DEF vars
    <2>. QED  BY <2>1, <2>2, OpenSteps, OpenOtherSteps, NextSteps
  <1>. QED  BY <1>1, <1>2, TypeCorrect, PTL DEF Spec

\* With one caller, Purge never misses a database that an earlier call, failed
\* or finished, has created.
THEOREM EveryListed ==
    ASSUME OneCaller
    PROVE  Spec => []EveryDatabaseListed
  <1>1. DatabaseInv => EveryDatabaseListed
    BY DEF DatabaseInv, ListInv
  <1>. QED  BY <1>1, DatabaseInvariant, PTL

\* With one caller, encrypted messages are never opened without encryption,
\* across reloads, purges and deletions that are still blocked.
THEOREM StaysEncrypted ==
    ASSUME OneCaller
    PROVE  Spec => []EncryptedStaysEncrypted
  <1>1. DatabaseInv => EncryptedStaysEncrypted
    BY DEF DatabaseInv, StatusInv, EncryptedStaysEncrypted
  <1>. QED  BY <1>1, DatabaseInvariant, PTL

-----------------------------------------------------------------------------
(***************************************************************************)
(* Any number of callers: how the password that is set up stays.           *)
(***************************************************************************)
LEMMA QuietIsOpen ==
    ASSUME Quiet
    PROVE  NeverLockedOut
  BY DEF Quiet, NeverLockedOut

\* One caller that has called GetOrInitPassword has set it up.
LEMMA SetUpIsQuiet ==
    ASSUME TypeOK, PasswordInv, unlocked # {}
    PROVE  Quiet
  <1>1. password \in Encrypted /\ salt = password.salt /\ params
    BY DEF TypeOK, PasswordInv
  <1>2. salt # None /\ Opens(password, password.by, salt)
    BY <1>1 DEF Encrypted, Opens
  <1>3. unlocked \subseteq {password.by}
    BY DEF PasswordInv
  <1>. QED  BY <1>1, <1>2, <1>3 DEF Quiet, PasswordInv

LEMMA QuietRead ==
    ASSUME TypeOK, Operands, Quiet, NEW c \in Callers, PasswordStep(c)
    PROVE  Quiet' /\ UNCHANGED <<salt, params, password>>
  <1>. USE DEF passwordVars, Goto, Note
  <1>t. local[c] \in Local /\ password \in Encrypted /\ salt \in Salt
    BY DEF TypeOK, Quiet
  <1>1. ASSUME NEW p \in Passwords, GetOrInit(c, p) \/ Purge(c, p)
        PROVE  Quiet' /\ UNCHANGED <<salt, params, password>>
    BY <1>1 DEF GetOrInit, Purge, Quiet, TypeOK
  <1>2. CASE GetPassword(c)
    <2>1. [local[c] EXCEPT !.encrypted = password].encrypted = password
      BY <1>t DEF Local
    <2>. QED  BY <1>2, <2>1 DEF GetPassword, Quiet, TypeOK
  <1>3. CASE GetSalt(c)
    <2>1. /\ [local[c] EXCEPT !.salt = salt].salt = salt
          /\ [local[c] EXCEPT !.salt = salt].encrypted = local[c].encrypted
      BY <1>t DEF Local
    <2>. QED  BY <1>3, <2>1 DEF GetSalt, Quiet, TypeOK
  <1>4. CASE GetParams(c)
    BY <1>4 DEF GetParams, Quiet, TypeOK
  <1>5. CASE Decrypt(c)
    <2>1. local[c].encrypted = password /\ local[c].salt = salt
      BY <1>5 DEF Decrypt, Quiet
    <2>2. unlocked' \subseteq {password.by}
      BY <1>5, <2>1, <1>t DEF Decrypt, OpensRead, Quiet, Opens, Encrypted
    <2>3. UNCHANGED <<salt, params, password>>
      BY <1>5 DEF Decrypt
    <2>4. \A d \in Callers :
             pc'[d] \in {"idle", "followers"} \/ (pc'[d] = pc[d] /\ local'[d] = local[d])
      BY <1>5 DEF Decrypt, Return, TypeOK
    <2>. QED  BY <2>2, <2>3, <2>4 DEF Quiet
  <1>6. CASE SetSalt(c) \/ SetParams(c) \/ SetPassword(c)
    BY <1>6 DEF SetSalt, SetParams, SetPassword, Quiet
  <1>. QED  BY <1>1, <1>2, <1>3, <1>4, <1>5, <1>6 DEF PasswordStep

LEMMA QuietElse ==
    ASSUME TypeOK, Quiet, NEW c \in Callers,
           OpenStep(c) \/ FollowerStep(c) \/ PurgeStep(c),
           ~ \E k \in Keys \ {"list"} : RemoveKey(c, k)
    PROVE  Quiet' /\ UNCHANGED <<salt, params, password>>
  <1>1. ASSUME UNCHANGED <<salt, params, password>>, unlocked' \subseteq unlocked,
               \A d \in Callers :
                  \/ pc'[d] = pc[d] /\ local'[d] = local[d]
                  \/ pc'[d] \notin {"getSalt", "getParams", "decrypt",
                                    "setSalt", "setParams", "setPassword"}
        PROVE  Quiet' /\ UNCHANGED <<salt, params, password>>
    BY <1>1 DEF Quiet
  <1>o. \A d \in Callers : d # c => pc'[d] = pc[d] /\ local'[d] = local[d]
    BY OthersStayInSteps
  <1>2. CASE OpenStep(c)
    <2>1. UNCHANGED passwordVars
      BY <1>2 DEF OpenStep, OpenDatabase, GetList, SetList, GetStatus, SetStatus, Create
    <2>2. pc'[c] \in {"idle", "getList", "setList", "getStatus", "setStatus", "create"}
      BY <1>2, OwnStep
         DEF OpenStep, OpenDatabase, GetList, SetList, GetStatus, SetStatus, Create, SetFails, Return
    <2>. QED  BY <1>1, <1>o, <2>1, <2>2 DEF passwordVars
  <1>3. CASE FollowerStep(c)
    BY <1>1, <1>3 DEF FollowerStep, StartNetworkFollower, StopNetworkFollower, passwordVars
  <1>4. CASE CheckFollowers(c) \/ GetPurgeList(c) \/ Clear(c) \/ Cleared(c) \/ Crash(c)
    <2>1. UNCHANGED <<salt, params, password>> /\ unlocked' \subseteq unlocked
      BY <1>4 DEF CheckFollowers, GetPurgeList, Clear, Cleared, Crash, passwordVars
    <2>2. pc'[c] \in {"idle", "purgeList", "deleting", "clearing"}
      BY <1>4, OwnStep DEF CheckFollowers, GetPurgeList, Clear, Cleared, Crash, Return
    <2>. QED  BY <1>1, <1>o, <2>1, <2>2
  <1>5. ASSUME NEW db \in Databases, DeleteDatabase(c, db) \/ RemoveToggle(c, db)
        PROVE  Quiet' /\ UNCHANGED <<salt, params, password>>
    <2>1. UNCHANGED passwordVars
      BY <1>5 DEF DeleteDatabase, RemoveToggle
    <2>2. pc'[c] \in {"idle", "deleting", "clearing"}
      BY <1>5, OwnStep DEF DeleteDatabase, RemoveToggle, Return
    <2>. QED  BY <1>1, <1>o, <2>1, <2>2 DEF passwordVars
  <1>6. CASE RemoveKey(c, "list")
    <2>1. UNCHANGED <<salt, params, password, unlocked>>
      BY <1>6 DEF RemoveKey, TypeOK
    <2>2. pc'[c] = "clearing"
      BY <1>6 DEF RemoveKey
    <2>. QED  BY <1>1, <1>o, <2>1, <2>2
  <1>. QED  BY <1>2, <1>3, <1>4, <1>5, <1>6 DEF PurgeStep

(* password.go:99-290 in any number of tabs: once the password is set up and *)
(* nobody is setting it up again, no order of calls, failures and closed   *)
(* pages replaces it, until a Purge removes one of its keys.               *)
THEOREM SetUpStays == Spec => SetUpUntilPurge
  <1>1. TypeOK /\ Operands /\ [Next]_vars => QuietOrPurged
    <2>. SUFFICES ASSUME TypeOK, Operands, Quiet, [Next]_vars
                  PROVE  \/ Quiet' /\ UNCHANGED <<salt, params, password>>
                         \/ \E c \in Callers, k \in Keys \ {"list"} : RemoveKey(c, k)
      BY DEF QuietOrPurged
    <2>1. ASSUME NEW db \in Databases, Deleted(db)
          PROVE  Quiet' /\ UNCHANGED <<salt, params, password>>
      BY <2>1 DEF Deleted, Quiet, passwordVars
    <2>2. CASE UNCHANGED vars
      BY <2>2 DEF vars, Quiet
    <2>. QED  BY <2>1, <2>2, QuietRead, QuietElse, NextSteps
  <1>. QED  BY <1>1, TypeCorrect, PTL DEF Spec, SetUpUntilPurge

-----------------------------------------------------------------------------
(***************************************************************************)
(* Any number of callers: the entries of the list, and the databases of    *)
(* encrypted messages.                                                     *)
(***************************************************************************)
LEMMA EnteredStays ==
    ASSUME TypeOK, Operands, NEW db \in Databases, Entered(db), [Next]_vars,
           ~ \E c \in Callers : RemoveKey(c, "list")
    PROVE  Entered(db)'
  <1>. USE DEF Goto, Note, Return, Nothing
  <1>1. ASSUME NEW c \in Callers, GetList(c)
        PROVE  Entered(db)'
    <2>1. local[c] \in Local
      BY DEF TypeOK
    <2>2. [local[c] EXCEPT !.list = list].list = list
      BY <2>1 DEF Local
    <2>. QED  BY <1>1, <2>2 DEF GetList, databaseVars, Entered, Added, TypeOK
  <1>2. ASSUME NEW c \in Callers, SetList(c)
        PROVE  Entered(db)'
    BY <1>2 DEF SetList, SetFails, Entered, TypeOK
  <1>3. ASSUME list' = list,
               \A c \in Callers : pc'[c] = "setList" => pc[c] = "setList" /\ local'[c] = local[c]
        PROVE  Entered(db)'
    BY <1>3 DEF Entered
  <1>4. ASSUME NEW c \in Callers, PasswordStep(c)
        PROVE  Entered(db)'
    <2>1. list' = list /\ pc \in [Callers -> Steps]
      BY <1>4 DEF PasswordStep, GetOrInit, Purge, GetPassword, GetSalt, GetParams,
         Decrypt, SetSalt, SetParams, SetPassword, databaseVars, TypeOK
    <2>2. pc'[c] # "setList"
      <3>1. CASE \/ \E p \in Passwords : GetOrInit(c, p) \/ Purge(c, p)
                 \/ GetPassword(c) \/ GetSalt(c) \/ GetParams(c)
        BY <2>1, <3>1 DEF GetOrInit, Purge, GetPassword, GetSalt, GetParams, Missing
      <3>2. CASE Decrypt(c) \/ SetSalt(c) \/ SetParams(c) \/ SetPassword(c)
        BY <2>1, <3>2 DEF Decrypt, SetSalt, SetParams, SetPassword, SetFails
      <3>. QED  BY <1>4, <3>1, <3>2 DEF PasswordStep
    <2>3. \A o \in Callers : o # c => pc'[o] = pc[o] /\ local'[o] = local[o]
      BY <1>4, OthersStayInSteps
    <2>. QED  BY <1>3, <2>1, <2>2, <2>3
  <1>5. ASSUME NEW c \in Callers,
               \/ \E b \in Databases, status \in Statuses : OpenDatabase(c, b, status)
               \/ GetStatus(c) \/ SetStatus(c) \/ Create(c) \/ FollowerStep(c)
        PROVE  Entered(db)'
    BY <1>3, <1>5 DEF OpenDatabase, GetStatus, SetStatus, Create, FollowerStep,
       StartNetworkFollower, StopNetworkFollower, SetFails, databaseVars, TypeOK
  <1>6. ASSUME NEW b \in Databases, Deleted(b)
        PROVE  Entered(db)'
    BY <1>3, <1>6 DEF Deleted
  <1>7. CASE UNCHANGED vars
    BY <1>3, <1>7 DEF vars
  <1>8. ASSUME NEW c \in Callers,
               \/ CheckFollowers(c) \/ GetPurgeList(c) \/ Clear(c) \/ Cleared(c) \/ Crash(c)
               \/ \E b \in Databases : DeleteDatabase(c, b)
        PROVE  Entered(db)'
    BY <1>3, <1>8 DEF CheckFollowers, GetPurgeList, Clear, Cleared, Crash,
       DeleteDatabase, databaseVars, TypeOK
  <1>9. ASSUME NEW c \in Callers,
               \/ \E b \in Databases : RemoveToggle(c, b)
               \/ \E k \in Keys : RemoveKey(c, k)
        PROVE  Entered(db)'
    <2>1. list' = list
      BY <1>9 DEF RemoveToggle, RemoveKey
    <2>2. pc[c] = "clearing" /\ pc' = pc /\ \A o \in Callers : o # c => local'[o] = local[o]
      BY <1>9 DEF RemoveToggle, RemoveKey, TypeOK
    <2>. QED  BY <1>3, <2>1, <2>2
  <1>. QED  BY <1>1, <1>2, <1>4, <1>5, <1>6, <1>7, <1>8, <1>9, NextSteps
            DEF OpenStep, PurgeStep

LEMMA SealedStays ==
    ASSUME TypeOK, Operands, NEW db \in Databases, Sealed(db), [Next]_vars, ~ Deleted(db),
           ~ \E c \in Callers : RemoveToggle(c, db)
    PROVE  Sealed(db)'
  <1>. USE DEF Goto, Note, Return, Nothing
  <1>3. ASSUME toggle'[db] = toggle[db], database'[db] = database[db],
               \A c \in Callers : open'[c][db] \in {open[c][db], None},
               \A c \in Callers : pc'[c] \in {"setStatus", "create"} =>
                  /\ local'[c] = local[c]
                  /\ \/ pc[c] \in {"setStatus", "create"}
                     \/ local[c].db # db
                     \/ local[c].status = TRUE
        PROVE  Sealed(db)'
    BY <1>3, NoneAssumption DEF Sealed
  <1>1. ASSUME NEW c \in Callers, GetStatus(c)
        PROVE  Sealed(db)'
    <2>1. UNCHANGED <<toggle, database, open>>
      BY <1>1 DEF GetStatus, databaseVars
    <2>2. CASE local[c].db = db
      <3>1. toggle[local[c].db] = 1 /\ local[c].status \in BOOLEAN /\ None # 1
        BY <1>1, <2>2 DEF GetStatus, Sealed, Operands
      <3>2. pc'[c] \in {"setStatus", "create"} => local[c].status = TRUE /\ local' = local
        BY <1>1, <3>1 DEF GetStatus, Accepted, TypeOK
      <3>3. \A d \in Callers : d # c => pc'[d] = pc[d] /\ local'[d] = local[d]
        BY <1>1 DEF GetStatus, TypeOK
      <3>. QED  BY <1>3, <2>1, <3>2, <3>3
    <2>3. CASE local[c].db # db
      <3>1. \A d \in Callers : d # c => pc'[d] = pc[d] /\ local'[d] = local[d]
        BY <1>1 DEF GetStatus, TypeOK
      <3>2. pc'[c] \in {"setStatus", "create"} => local' = local
        BY <1>1 DEF GetStatus, TypeOK
      <3>. QED  BY <1>3, <2>1, <2>3, <3>1, <3>2
    <2>. QED  BY <2>2, <2>3
  <1>9. ASSUME NEW c \in Callers, SetStatus(c)
        PROVE  Sealed(db)'
    <2>1. UNCHANGED <<database, open>>
      BY <1>9 DEF SetStatus
    <2>2. toggle'[db] = toggle[db]
      BY <1>9 DEF SetStatus, StoredStatus, Sealed, TypeOK
    <2>3. \A d \in Callers : pc'[d] \in {"setStatus", "create"} =>
             pc[d] \in {"setStatus", "create"} /\ local'[d] = local[d]
      BY <1>9 DEF SetStatus, SetFails, TypeOK
    <2>. QED  BY <1>3, <2>1, <2>2, <2>3
  <1>2. ASSUME NEW c \in Callers, Create(c)
        PROVE  Sealed(db)'
    <2>1. local[c].db \in Databases
      BY <1>2 DEF Create, Operands
    <2>2. database'[db] = TRUE /\ UNCHANGED toggle
      BY <1>2, <2>1, NoneAssumption DEF Create, Sealed, TypeOK
    <2>3. \A d \in Callers : open'[d][db] # FALSE
      <3>1. CASE local[c].db \in doomed
        BY <1>2, <3>1 DEF Create, Sealed
      <3>2. CASE local[c].db \notin doomed
        <4>1. open' = [open EXCEPT ![c][local[c].db] = local[c].status]
          BY <1>2, <3>2 DEF Create
        <4>2. local[c].db = db => local[c].status = TRUE
          BY <1>2 DEF Create, Sealed
        <4>. QED  BY <4>1, <4>2, <2>1 DEF Sealed, TypeOK
      <3>. QED  BY <3>1, <3>2
    <2>. QED  BY <1>2, <2>2, <2>3 DEF Create, Sealed, TypeOK
  <1>4. ASSUME NEW c \in Callers, PasswordStep(c)
        PROVE  Sealed(db)'
    <2>1. UNCHANGED databaseVars
      BY <1>4 DEF PasswordStep, GetOrInit, Purge, GetPassword, GetSalt, GetParams,
         Decrypt, SetSalt, SetParams, SetPassword
    <2>2. pc'[c] \in {"idle", "getPassword", "getSalt", "getParams", "decrypt",
                      "setSalt", "setParams", "setPassword", "followers"}
      BY <1>4, OwnStep
         DEF PasswordStep, GetOrInit, Purge, GetPassword, GetSalt, GetParams, Decrypt,
             SetSalt, SetParams, SetPassword, SetFails, Missing
    <2>3. \A d \in Callers : d # c => pc'[d] = pc[d] /\ local'[d] = local[d]
      BY <1>4, OthersStayInSteps
    <2>4. UNCHANGED <<toggle, database, open>>
      BY <2>1 DEF databaseVars
    <2>. QED  BY <1>3, <2>2, <2>3, <2>4
  <1>5. ASSUME NEW c \in Callers,
               \/ \E b \in Databases, status \in Statuses : OpenDatabase(c, b, status)
               \/ GetList(c) \/ SetList(c) \/ FollowerStep(c)
        PROVE  Sealed(db)'
    BY <1>3, <1>5 DEF OpenDatabase, GetList, SetList, FollowerStep, StartNetworkFollower,
       StopNetworkFollower, SetFails, databaseVars, TypeOK
  <1>6. ASSUME NEW c \in Callers, Crash(c)
        PROVE  Sealed(db)'
    BY <1>3, <1>6 DEF Crash, TypeOK
  <1>7. ASSUME NEW b \in Databases, Deleted(b)
        PROVE  Sealed(db)'
    BY <1>3, <1>7 DEF Deleted, TypeOK
  <1>8. CASE UNCHANGED vars
    BY <1>3, <1>8 DEF vars
  <1>10. ASSUME NEW c \in Callers,
                \/ CheckFollowers(c) \/ GetPurgeList(c) \/ Clear(c) \/ Cleared(c)
                \/ \E b \in Databases : DeleteDatabase(c, b)
         PROVE  Sealed(db)'
    BY <1>3, <1>10 DEF CheckFollowers, GetPurgeList, Clear, Cleared, DeleteDatabase,
       databaseVars, TypeOK
  <1>11. ASSUME NEW c \in Callers,
                \/ \E b \in Databases : RemoveToggle(c, b)
                \/ \E k \in Keys : RemoveKey(c, k)
         PROVE  Sealed(db)'
    <2>1. toggle'[db] = toggle[db] /\ UNCHANGED <<database, open>>
      BY <1>11 DEF RemoveToggle, RemoveKey, TypeOK
    <2>2. pc[c] = "clearing" /\ pc' = pc /\ \A o \in Callers : o # c => local'[o] = local[o]
      BY <1>11 DEF RemoveToggle, RemoveKey, TypeOK
    <2>. QED  BY <1>3, <2>1, <2>2
  <1>. QED  BY <1>1, <1>2, <1>4, <1>5, <1>6, <1>7, <1>8, <1>9, <1>10, <1>11, NextSteps
            DEF OpenStep, PurgeStep

(* indexedDbList.go:24-60, purge.go:53-96 in any number of tabs: no order of *)
(* calls loses an entry of the list that the calls about to write it have  *)
(* read; only the end of a Purge takes it out.                             *)
THEOREM EntryStays == Spec => EntryUntilPurge
  <1>1. TypeOK /\ Operands /\ [Next]_vars => EnteredOrPurged
    BY EnteredStays DEF EnteredOrPurged
  <1>. QED  BY <1>1, TypeCorrect, PTL DEF Spec, EntryUntilPurge

(* indexedDbEncryptionTrack.go:24-43 in any number of tabs: a database of  *)
(* encrypted messages, whose status no tab is about to store for the first *)
(* time without encryption, is opened without it only after a Purge.       *)
THEOREM SealStays == Spec => SealUntilPurge
  <1>1. TypeOK /\ Operands /\ [Next]_vars => SealedOrPurged
    BY SealedStays DEF SealedOrPurged
  <1>. QED  BY <1>1, TypeCorrect, PTL DEF Spec, SealUntilPurge

=============================================================================
