--------------------------- MODULE AccountProofs ----------------------------
(***************************************************************************)
(* The account store and the login dialogues, for any number of dialogues, *)
(* names and passwords: sessions are authentic, the file is whole, a       *)
(* restart invents nothing, and all of it implements AccountBook.  The     *)
(* invariant says for each worker what its earlier steps have found out    *)
(* and still holds though others ran in between, and for the mutex's owner *)
(* how much of the file is written.                                        *)
(***************************************************************************)
EXTENDS AuthContext, TLAPS

-----------------------------------------------------------------------------
(* The invariant.                                                          *)

HasPassword(n, p) == users[n] # Absent /\ users[n].hash = p

\* The mutex is held for as long as its owner saves.
LockInv ==
    /\ lock = Nobody <=> save = "off"
    /\ \A l \in Logins : worker[l] = "save" <=> lock = l

\* How much of the file is written, and that no record is anybody else's.
FileInv ==
    /\ save # "write" \/ failed => Load(file) = committed
    /\ save = "write" => unsaved \subseteq Stored /\ (failed => unsaved = {})
    /\ save = "write" /\ ~failed =>
           \A n \in Names : file[n] = IF n \in unsaved THEN Absent ELSE users[n]
    /\ \A n \in Names : file[n] # Absent => HasPassword(n, file[n].hash)

\* Where a worker stands, and what it knows there.
WorkInv ==
    \A l \in Logins :
        /\ state[l] = "Verifying" <=> worker[l] # "idle"
        /\ worker[l] = "verify" =>
               /\ ~register[l]
               /\ seen[l] # Absent => HasPassword(username[l], seen[l].hash)
        /\ worker[l] \in {"hash", "insert"} => register[l] /\ Acceptable(l)
        /\ worker[l] = "save" => HasPassword(username[l], password[l])
        /\ worker[l] = "done" /\ answer[l] = "true" => HasPassword(username[l], password[l])

IInv == TypeOK /\ LockInv /\ FileInv /\ WorkInv /\ SessionsAreAuthentic

LEMMA InitInv == Init => IInv
<1> SUFFICES ASSUME Init PROVE IInv
  OBVIOUS
<1> USE DEF Init, StoreInit
<1>1. TypeOK
  BY FlagAssumption DEF TypeOK, StoreTypeOK, States, WorkerSteps, Answers
<1>2. LockInv
  BY OwnerAssumption DEF LockInv
<1>3. FileInv
  BY DEF FileInv, Load
<1>4. WorkInv
  BY DEF WorkInv
<1>5. SessionsAreAuthentic
  BY DEF SessionsAreAuthentic
<1> QED
  BY <1>1, <1>2, <1>3, <1>4, <1>5 DEF IInv

-----------------------------------------------------------------------------
(* Types.                                                                  *)

\* What a crash leaves: the file as it is, or the record that was being written without its end.
LEMMA LeftoverCases ==
    ASSUME FileInv, Restart
    PROVE  \/ file' = file
           \/ \E n \in unsaved :
                  /\ save = "write" /\ n \in Stored
                  /\ file' = [file EXCEPT ![n] = [hash |-> users[n].hash, status |-> "Torn"]]
<1>1. CASE file' = file
  BY <1>1
<1>2. CASE file' # file
  <2>1. save = "write" /\ unsaved \subseteq Stored
    BY <1>2 DEF Restart, StoreRestart, Leftover, FileInv
  <2> QED
    BY <1>2, <2>1 DEF Restart, StoreRestart, Leftover
<1> QED
  BY <1>1, <1>2

LEMMA NextTypes == TypeOK /\ FileInv /\ WorkInv /\ [Next]_vars => TypeOK'
<1> SUFFICES ASSUME TypeOK, FileInv, WorkInv, [Next]_vars PROVE TypeOK'
  OBVIOUS
<1> USE DEF TypeOK, StoreTypeOK, States, storeVars, fileVars, requestVars, workerVars, Move
<1>1. CASE UNCHANGED vars
  BY <1>1 DEF vars
<1>2. ASSUME NEW l \in Logins, Open(l) PROVE TypeOK'
  BY <1>2 DEF Open
<1>3. ASSUME NEW l \in Logins, NEW r \in BOOLEAN, SelectMode(l, r) PROVE TypeOK'
  BY <1>3 DEF SelectMode
<1>4. ASSUME NEW l \in Logins, NEW n \in TypedNames, InputUsername(l, n) PROVE TypeOK'
  BY <1>4 DEF InputUsername, TypedNames
<1>5. ASSUME NEW l \in Logins, NEW p \in Passwords \cup {Empty}, InputPassword(l, p) PROVE TypeOK'
  BY <1>5 DEF InputPassword, WorkerSteps
<1>6. ASSUME NEW l \in Logins, Hangup(l) PROVE TypeOK'
  BY <1>6 DEF Hangup, Forget, WorkerSteps, Answers
<1>7. ASSUME NEW l \in Logins, Ban(l) PROVE TypeOK'
  BY <1>7 DEF Ban, BanUser, BeginSave, Stored, Forget, Account
<1>8. ASSUME NEW l \in Logins, Verifying(l) PROVE TypeOK'
  BY <1>8 DEF Verifying, Forget, WorkerSteps, Answers
<1>9. ASSUME NEW l \in Logins, Work(l) PROVE TypeOK'
  <2> USE <1>9 DEF Work, Step, Finish, Truth, WorkerSteps, Answers
  <2>1. CASE RefuseEmpty(l)
    BY <2>1 DEF RefuseEmpty
  <2>2. CASE Lookup(l)
    <3>1. username[l] \in Names
      BY <2>2 DEF Lookup, WorkInv
    <3> QED
      BY <2>2, <3>1 DEF Lookup
  <2>3. CASE Verify(l)
    BY <2>3 DEF Verify
  <2>4. CASE RefuseRegister(l)
    BY <2>4 DEF RefuseRegister
  <2>5. CASE CheckFree(l)
    BY <2>5 DEF CheckFree
  <2>6. CASE Hash(l)
    BY <2>6 DEF Hash
  <2>7. CASE Insert(l)
    <3>1. password[l] \in Passwords /\ lock' \in {lock, l} /\ save' \in {save, "open"}
      BY <2>7 DEF Insert, WorkInv, Acceptable, BeginSave
    <3>2. users' \in [Names -> Account \cup {Absent}]
      BY <2>7, <3>1 DEF Insert, Account
    <3> QED
      BY <2>7, <3>1, <3>2 DEF Insert
  <2> QED
    BY <2>1, <2>2, <2>3, <2>4, <2>5, <2>6, <2>7 DEF WorkerStep
<1>10. CASE Saving
  <2> USE <1>10 DEF Saving, Stored
  <2>1. CASE SaveOpen
    BY <2>1 DEF SaveOpen
  <2>2. CASE SaveRecord
    BY <2>2 DEF SaveRecord, Account, Record
  <2>3. CASE SaveDone
    BY <2>3 DEF SaveDone, Release, Finish, Step, WorkerSteps, Answers
  <2> QED
    BY <2>1, <2>2, <2>3 DEF SaveStep
<1>11. CASE Restart
  <2>1. file' \in [Names -> Record \cup {Absent}]
    <3>1. CASE file' = file
      BY <3>1
    <3>2. ASSUME NEW n \in unsaved, file' = [file EXCEPT ![n] = [hash |-> users[n].hash, status |-> "Torn"]],
                 users[n] # Absent
          PROVE  file' \in [Names -> Record \cup {Absent}]
      <4>1. [hash |-> users[n].hash, status |-> "Torn"] \in Record
        BY <3>2 DEF Account, Record
      <4> QED
        BY <3>2, <4>1
    <3> QED
      BY <1>11, <3>1, <3>2, LeftoverCases DEF Stored
  <2>2. users' \in [Names -> Account \cup {Absent}]
    BY <1>11, <2>1 DEF Restart, StoreRestart, Load, Status, Account, Record
  <2> QED
    BY <1>11, <2>1, <2>2 DEF Restart, StoreRestart, WorkerSteps, Answers
<1> QED
  BY <1>1, <1>2, <1>3, <1>4, <1>5, <1>6, <1>7, <1>8, <1>9, <1>10, <1>11 DEF Next, Dialogue

-----------------------------------------------------------------------------
(* The steps, one by one.                                                  *)

\* Accounts stay and keep their passwords.
Growing == \A n \in Names : users[n] # Absent => users'[n] # Absent /\ users'[n].hash = users[n].hash

\* A step that leaves the store alone.
StoreKept == UNCHANGED storeVars

\* The other dialogues are left alone, and so is their knowledge.
OthersKept(l) ==
    \A m \in Logins \ {l} :
        <<state[m], worker[m], register[m], username[m], password[m], seen[m], answer[m]>>' =
        <<state[m], worker[m], register[m], username[m], password[m], seen[m], answer[m]>>

\* What WorkInv and SessionsAreAuthentic say of one dialogue.
Knows(l) ==
    /\ state[l] = "Verifying" <=> worker[l] # "idle"
    /\ worker[l] = "verify" =>
           /\ ~register[l]
           /\ seen[l] # Absent => HasPassword(username[l], seen[l].hash)
    /\ worker[l] \in {"hash", "insert"} => register[l] /\ Acceptable(l)
    /\ worker[l] = "save" => HasPassword(username[l], password[l])
    /\ worker[l] = "done" /\ answer[l] = "true" => HasPassword(username[l], password[l])
    /\ state[l] = "active" => HasPassword(username[l], password[l])

LEMMA KnowledgeIsEachs ==
    /\ WorkInv /\ SessionsAreAuthentic <=> \A l \in Logins : Knows(l)
    /\ WorkInv' /\ SessionsAreAuthentic' <=> \A l \in Logins : Knows(l)'
BY DEF WorkInv, SessionsAreAuthentic, Knows, HasPassword

\* Knowing an account's password is stable.
LEMMA KnowledgeLasts ==
    ASSUME TypeOK, Growing, NEW m \in Logins, Knows(m),
           <<state[m], worker[m], register[m], username[m], password[m], seen[m], answer[m]>>' =
           <<state[m], worker[m], register[m], username[m], password[m], seen[m], answer[m]>>
    PROVE  Knows(m)'
<1>1. worker[m] # "idle" \/ state[m] = "active" => username[m] \in Names
  BY DEF TypeOK, Knows
<1>2. \A p : username[m] \in Names /\ HasPassword(username[m], p) => HasPassword(username[m], p)'
  BY DEF Growing, HasPassword
<1> QED
  BY <1>1, <1>2 DEF Knows, HasPassword, Acceptable

\* One dialogue moves on and the store stays as it is.
LEMMA DialogueKeepsInv ==
    ASSUME IInv, TypeOK', StoreKept, NEW l \in Logins, OthersKept(l), Knows(l)',
           worker[l] = "save" <=> worker'[l] = "save"
    PROVE  IInv'
<1> USE DEF IInv, StoreKept, storeVars, fileVars
<1>1. LockInv'
  BY DEF LockInv, OthersKept
<1>2. FileInv'
  BY DEF FileInv, Load, HasPassword, Stored
<1>3. Growing
  BY DEF Growing
<1>4. \A m \in Logins : Knows(m)'
  <2> SUFFICES ASSUME NEW m \in Logins PROVE Knows(m)'
    OBVIOUS
  <2>1. Knows(m)
    BY KnowledgeIsEachs
  <2>2. CASE m = l
    BY <2>2
  <2>3. CASE m # l
    BY <1>3, <2>1, <2>3, KnowledgeLasts DEF OthersKept
  <2> QED
    BY <2>2, <2>3
<1> QED
  BY <1>1, <1>2, <1>4, KnowledgeIsEachs

LEMMA DialogueInv ==
    ASSUME IInv, TypeOK', NEW l \in Logins,
           \/ Open(l) \/ Hangup(l) \/ Verifying(l)
           \/ \E r \in BOOLEAN : SelectMode(l, r)
           \/ \E n \in TypedNames : InputUsername(l, n)
           \/ \E p \in Passwords \cup {Empty} : InputPassword(l, p)
    PROVE  IInv'
<1> USE DEF TypeOK, StoreTypeOK, IInv
<1>a. Knows(l)
  BY KnowledgeIsEachs
<1>1. CASE Open(l)
  <2>1. StoreKept /\ OthersKept(l) /\ worker'[l] = worker[l]
    BY <1>1 DEF Open, Move, requestVars, workerVars, StoreKept, OthersKept
  <2>2. Knows(l)'
    BY <1>1, <1>a DEF Open, Move, requestVars, workerVars, Knows, Acceptable
  <2> QED
    BY <2>1, <2>2, DialogueKeepsInv
<1>2. ASSUME NEW r \in BOOLEAN, SelectMode(l, r) PROVE IInv'
  <2>1. StoreKept /\ OthersKept(l) /\ worker'[l] = worker[l]
    BY <1>2 DEF SelectMode, Move, workerVars, StoreKept, OthersKept
  <2>2. Knows(l)'
    BY <1>2, <1>a DEF SelectMode, Move, workerVars, Knows
  <2> QED
    BY <2>1, <2>2, DialogueKeepsInv
<1>3. ASSUME NEW n \in TypedNames, InputUsername(l, n) PROVE IInv'
  <2>1. StoreKept /\ OthersKept(l) /\ worker'[l] = worker[l]
    BY <1>3 DEF InputUsername, Move, workerVars, StoreKept, OthersKept
  <2>2. Knows(l)'
    BY <1>3, <1>a DEF InputUsername, Move, workerVars, Knows
  <2> QED
    BY <2>1, <2>2, DialogueKeepsInv
<1>4. ASSUME NEW p \in Passwords \cup {Empty}, InputPassword(l, p) PROVE IInv'
  <2>1. StoreKept /\ OthersKept(l) /\ worker[l] = "idle" /\ worker'[l] = "start"
    BY <1>4, <1>a DEF InputPassword, Move, Knows, StoreKept, OthersKept
  <2>2. Knows(l)'
    BY <1>4, <2>1 DEF InputPassword, Move, Knows
  <2> QED
    BY <2>1, <2>2, DialogueKeepsInv
<1>5. CASE Verifying(l)
  <2>1. StoreKept /\ OthersKept(l) /\ worker[l] = "done" /\ worker'[l] = "idle"
    BY <1>5 DEF Verifying, Ready, Move, Forget, StoreKept, OthersKept
  <2>2. CASE answer[l] = "true"
    <3>1. Knows(l)'
      BY <1>5, <1>a, <2>1, <2>2 DEF Verifying, Move, Knows, HasPassword, StoreKept, storeVars
    <3> QED
      BY <2>1, <3>1, DialogueKeepsInv
  <2>3. CASE answer[l] # "true"
    <3>1. Knows(l)'
      BY <1>5, <2>1, <2>3 DEF Verifying, Move, Knows
    <3> QED
      BY <2>1, <3>1, DialogueKeepsInv
  <2> QED
    BY <2>2, <2>3
<1>6. CASE Hangup(l)
  <2>1. StoreKept /\ OthersKept(l) /\ worker[l] # "save" /\ worker'[l] = "idle"
    BY <1>6 DEF Hangup, Joined, Move, Forget, StoreKept, OthersKept
  <2>2. Knows(l)'
    BY <1>6, <2>1 DEF Hangup, Move, Knows
  <2> QED
    BY <2>1, <2>2, DialogueKeepsInv
<1> QED
  BY <1>1, <1>2, <1>3, <1>4, <1>5, <1>6

\* The worker's steps outside the mutex, or under it without a change.
LEMMA WorkerInv ==
    ASSUME IInv, TypeOK', NEW l \in Logins, UNCHANGED state,
           RefuseEmpty(l) \/ Lookup(l) \/ Verify(l) \/ RefuseRegister(l) \/ CheckFree(l) \/ Hash(l)
    PROVE  IInv'
<1> USE DEF TypeOK, StoreTypeOK, IInv, Step, Finish, Truth
<1>a. Knows(l)
  BY KnowledgeIsEachs
<1>1. StoreKept /\ UNCHANGED requestVars
  BY DEF RefuseEmpty, Lookup, Verify, RefuseRegister, CheckFree, Hash, StoreKept
<1>2. OthersKept(l)
  BY DEF RefuseEmpty, Lookup, Verify, RefuseRegister, CheckFree, Hash, OthersKept, requestVars
<1>3. worker[l] \in {"start", "verify", "hash"} /\ worker'[l] \in {"verify", "hash", "insert", "done"}
  BY DEF RefuseEmpty, Lookup, Verify, RefuseRegister, CheckFree, Hash
<1>4. state'[l] = "Verifying" /\ state[l] = "Verifying" /\ username[l] \in Names
  BY <1>a, <1>3 DEF Knows
<1>5. worker'[l] = "verify" =>
          /\ ~register[l]
          /\ seen'[l] # Absent => HasPassword(username[l], seen'[l].hash)
  BY <1>3, <1>4 DEF RefuseEmpty, Lookup, Verify, RefuseRegister, CheckFree, Hash, HasPassword
<1>6. worker'[l] \in {"hash", "insert"} => register[l] /\ Acceptable(l)
  BY <1>a, <1>3 DEF RefuseEmpty, Lookup, Verify, RefuseRegister, CheckFree, Hash, Knows
<1>7. worker'[l] = "done" /\ answer'[l] = "true" => HasPassword(username[l], password[l])
  <2>1. CASE Verify(l)
    <3>1. worker'[l] = "done" /\ answer'[l] = "true" => Matches(seen[l], password[l]) /\ worker[l] = "verify"
      BY <2>1 DEF Verify
    <3> QED
      BY <1>a, <3>1 DEF Knows, Matches
  <2>2. CASE ~Verify(l)
    BY <2>2, <1>3 DEF RefuseEmpty, Lookup, RefuseRegister, CheckFree, Hash
  <2> QED
    BY <2>1, <2>2
<1>8. Knows(l)'
  BY <1>1, <1>3, <1>4, <1>5, <1>6, <1>7
     DEF Knows, HasPassword, Acceptable, StoreKept, storeVars, requestVars
<1> QED
  BY <1>1, <1>2, <1>3, <1>8, DialogueKeepsInv

\* A registration that finds its name still free.
LEMMA InsertInv ==
    ASSUME IInv, TypeOK', NEW l \in Logins, UNCHANGED state, Insert(l)
    PROVE  IInv'
<1> USE DEF TypeOK, StoreTypeOK, IInv
<1>a. Knows(l) /\ worker[l] = "insert" /\ lock = Nobody
  BY KnowledgeIsEachs DEF Insert, Step, Finish
<1>b. state[l] = "Verifying" /\ username[l] \in Names /\ register[l] /\ Acceptable(l)
  BY <1>a DEF Knows
<1>c. OthersKept(l) /\ UNCHANGED <<register, username, password>>
  BY DEF Insert, Step, Finish, OthersKept, requestVars
<1>1. CASE Taken(username[l])
  <2>1. StoreKept /\ worker'[l] = "done" /\ answer'[l] = "false"
    BY <1>1 DEF Insert, Finish, Step, StoreKept, storeVars, fileVars
  <2>2. Knows(l)'
    BY <1>b, <1>c, <2>1 DEF Knows
  <2> QED
    BY <1>a, <1>c, <2>1, <2>2, DialogueKeepsInv
<1>2. CASE ~Taken(username[l])
  <2>1. /\ users[username[l]] = Absent /\ worker'[l] = "save" /\ lock' = l /\ save' = "open"
        /\ users' = [users EXCEPT ![username[l]] = [hash |-> password[l], status |-> "Active"]]
        /\ UNCHANGED <<file, unsaved, failed, committed>>
    BY <1>2, <1>b DEF Insert, Step, BeginSave, Taken, Stored
  <2>2. users'[username[l]] = [hash |-> password[l], status |-> "Active"] /\ password[l] \in Passwords
    BY <1>b, <2>1 DEF Acceptable
  <2>3. HasPassword(username[l], password[l])'
    BY <1>c, <2>2, AbsentAssumption DEF HasPassword
  <2>4. Growing
    BY <1>b, <2>1 DEF Growing
  <2>5. \A m \in Logins : Knows(m)'
    <3> SUFFICES ASSUME NEW m \in Logins PROVE Knows(m)'
      OBVIOUS
    <3>1. CASE m = l
      BY <1>b, <1>c, <2>1, <2>3, <3>1 DEF Knows
    <3>2. CASE m # l
      BY <2>4, <3>2, <1>c, KnowledgeIsEachs, KnowledgeLasts DEF OthersKept
    <3> QED
      BY <3>1, <3>2
  <2>6. LockInv'
    BY <1>a, <1>c, <2>1, OwnerAssumption DEF LockInv, OthersKept
  <2>7. FileInv'
    <3>1. Load(file') = committed
      BY <1>a, <2>1 DEF FileInv, LockInv, Load
    <3>2. \A n \in Names : file'[n] # Absent => HasPassword(n, file[n].hash)'
      BY <2>1, <2>4 DEF FileInv, Growing, HasPassword
    <3> QED
      BY <2>1, <3>1, <3>2 DEF FileInv, Load
  <2> QED
    BY <2>5, <2>6, <2>7, KnowledgeIsEachs
<1> QED
  BY <1>1, <1>2

LEMMA BanInv ==
    ASSUME IInv, TypeOK', NEW l \in Logins, Ban(l)
    PROVE  IInv'
<1> USE DEF TypeOK, StoreTypeOK, IInv
<1>1. /\ state[l] = "active" /\ state' = [state EXCEPT ![l] = "none"] /\ username[l] \in Stored
      /\ users' = [users EXCEPT ![username[l]].status = "Banned"]
      /\ lock = Nobody /\ lock' = Main /\ save' = "open"
      /\ UNCHANGED <<file, unsaved, failed, committed, worker, seen, answer>>
  BY DEF Ban, BanUser, BeginSave, Move, workerVars
<1>2. OthersKept(l)
  BY <1>1 DEF Ban, Forget, OthersKept
<1>3. Growing
  BY <1>1, AbsentAssumption DEF Growing, Stored, Account
<1>4. \A m \in Logins : Knows(m)'
  <2> SUFFICES ASSUME NEW m \in Logins PROVE Knows(m)'
    OBVIOUS
  <2>1. Knows(m)
    BY KnowledgeIsEachs
  <2>2. CASE m = l
    BY <1>1, <2>1, <2>2 DEF Knows
  <2>3. CASE m # l
    BY <1>2, <1>3, <2>1, <2>3, KnowledgeLasts DEF OthersKept
  <2> QED
    BY <2>2, <2>3
<1>5. LockInv'
  BY <1>1, OwnerAssumption DEF LockInv
<1>6. FileInv'
  <2>1. Load(file') = committed
    BY <1>1 DEF FileInv, LockInv, Load
  <2>2. \A n \in Names : file'[n] # Absent => HasPassword(n, file[n].hash)'
    BY <1>1, <1>3 DEF FileInv, Growing, HasPassword
  <2> QED
    BY <1>1, <2>1, <2>2 DEF FileInv, Load
<1> QED
  BY <1>4, <1>5, <1>6, KnowledgeIsEachs

\* An account is read from its record as it is.
LEMMA RecordsAreRead ==
    ASSUME NEW account \in Account
    PROVE  account = [hash |-> account.hash, status |-> Status(account.status)]
BY DEF Account, Status

LEMMA SaveInv ==
    ASSUME IInv, TypeOK', Saving
    PROVE  IInv'
<1> USE DEF TypeOK, StoreTypeOK, IInv
<1>1. Growing /\ UNCHANGED <<users, state, register, username, password, seen>>
  BY DEF Saving, SaveStep, SaveOpen, SaveRecord, SaveDone, Growing, requestVars, workerVars
<1>2. CASE SaveOpen \/ SaveRecord
  <2>1. UNCHANGED <<worker, answer, lock, committed>> /\ save # "off" /\ save' # "off"
    BY <1>2 DEF SaveOpen, SaveRecord, workerVars
  <2>2. LockInv'
    BY <2>1 DEF LockInv
  <2>3. \A m \in Logins : Knows(m)'
    BY <1>1, <2>1, KnowledgeIsEachs, KnowledgeLasts
  <2>4. FileInv'
    <3>1. CASE SaveOpen /\ ~failed'
      BY <1>1, <3>1 DEF SaveOpen, FileInv, Stored, HasPassword
    <3>2. CASE SaveOpen /\ failed'
      BY <1>1, <3>2 DEF SaveOpen, FileInv, Stored, HasPassword, Load
    <3>3. ASSUME NEW n \in unsaved, SaveRecord,
                 file' = [file EXCEPT ![n] = users[n]], unsaved' = unsaved \ {n}
          PROVE  FileInv'
      <4>1. save = "write" /\ save' = "write" /\ failed' = failed /\ committed' = committed /\ n \in Stored
        BY <3>3 DEF SaveRecord, FileInv
      <4>2. ~failed
        BY <3>3, <4>1 DEF FileInv
      <4>3. \A k \in Names : file'[k] = IF k \in unsaved' THEN Absent ELSE users'[k]
        BY <1>1, <3>3, <4>1, <4>2 DEF FileInv
      <4>4. \A k \in Names : file'[k] # Absent => HasPassword(k, file[k].hash)'
        BY <1>1, <4>3 DEF HasPassword
      <4> QED
        BY <1>1, <3>3, <4>1, <4>2, <4>3, <4>4 DEF FileInv, Stored
    <3> QED
      BY <1>2, <3>1, <3>2, <3>3 DEF SaveRecord
  <2> QED
    BY <2>2, <2>3, <2>4, KnowledgeIsEachs
<1>3. CASE SaveDone
  <2>1. /\ save = "write" /\ unsaved = {} /\ save' = "off" /\ unsaved' = {} /\ failed' = FALSE
        /\ lock # Nobody /\ lock' = Nobody /\ file' = file
        /\ committed' = IF failed THEN committed ELSE users
    BY <1>3 DEF SaveDone, AllWritten, Release, LockInv
  <2>2. FileInv'
    <3>1. Load(file) = committed'
      <4>1. CASE failed
        BY <2>1, <4>1 DEF FileInv
      <4>2. CASE ~failed
        <5>1. \A n \in Names : file[n] = users[n]
          BY <2>1, <4>2 DEF FileInv
        <5>2. Load(file) = users
          BY <5>1, RecordsAreRead, AbsentAssumption DEF Load
        <5> QED
          BY <2>1, <4>2, <5>2
      <4> QED
        BY <4>1, <4>2
    <3> QED
      BY <1>1, <2>1, <3>1 DEF FileInv, Load, HasPassword
  <2>3. LockInv'
    BY <1>3, <2>1, OwnerAssumption DEF LockInv, SaveDone, Finish, Step
  <2>4. \A m \in Logins : Knows(m)'
    <3> SUFFICES ASSUME NEW m \in Logins PROVE Knows(m)'
      OBVIOUS
    <3>1. Knows(m)
      BY KnowledgeIsEachs
    <3>2. CASE lock = m
      <4>1. worker[m] = "save" /\ worker'[m] = "done" /\ answer'[m] = "true"
        BY <1>3, <3>2, OwnerAssumption DEF SaveDone, Finish, Step
      <4> QED
        BY <1>1, <3>1, <4>1 DEF Knows, HasPassword
    <3>3. CASE lock # m
      <4>1. worker'[m] = worker[m] /\ answer'[m] = answer[m]
        BY <1>3, <3>3 DEF SaveDone, Finish, Step
      <4> QED
        BY <1>1, <3>1, <4>1, KnowledgeLasts
    <3> QED
      BY <3>2, <3>3
  <2> QED
    BY <2>2, <2>3, <2>4, KnowledgeIsEachs
<1> QED
  BY <1>2, <1>3 DEF Saving, SaveStep

LEMMA RestartInv ==
    ASSUME IInv, TypeOK', Restart
    PROVE  IInv'
<1> USE DEF Restart, StoreRestart
<1>1. LockInv'
  BY OwnerAssumption DEF LockInv
<1>2. FileInv'
  <2>1. \A n \in Names : file'[n] # Absent => HasPassword(n, file[n].hash)'
    <3> SUFFICES ASSUME NEW n \in Names, file'[n] # Absent PROVE HasPassword(n, file[n].hash)'
      OBVIOUS
    <3>1. users'[n] = [hash |-> file'[n].hash, status |-> Status(file'[n].status)]
      BY DEF Load
    <3>2. users'[n] # Absent
      <4>1. file'[n].hash \in Passwords
        BY DEF TypeOK, StoreTypeOK, Record
      <4> QED
        BY <3>1, <4>1, AbsentAssumption DEF Status
    <3> QED
      BY <3>1, <3>2 DEF HasPassword
  <2> QED
    BY <2>1 DEF FileInv, Load
<1>3. WorkInv' /\ SessionsAreAuthentic'
  BY DEF WorkInv, SessionsAreAuthentic
<1> QED
  BY <1>1, <1>2, <1>3 DEF IInv

LEMMA NextInv == IInv /\ [Next]_vars => IInv'
<1> SUFFICES ASSUME IInv, [Next]_vars PROVE IInv'
  OBVIOUS
<1>1. TypeOK'
  BY NextTypes DEF IInv
<1>2. CASE UNCHANGED vars
  BY <1>2 DEF vars, storeVars, fileVars, requestVars, workerVars, IInv, TypeOK, StoreTypeOK, LockInv, FileInv, WorkInv,
              SessionsAreAuthentic, HasPassword, Load, Stored, Acceptable
<1>3. ASSUME NEW l \in Logins, Dialogue(l) \/ Verifying(l) PROVE IInv'
  BY <1>1, <1>3, DialogueInv, BanInv DEF Dialogue
<1>4. ASSUME NEW l \in Logins, Work(l) PROVE IInv'
  BY <1>1, <1>4, WorkerInv, InsertInv DEF Work, WorkerStep
<1>5. CASE Saving
  BY <1>1, <1>5, SaveInv
<1>6. CASE Restart
  BY <1>1, <1>6, RestartInv
<1> QED
  BY <1>2, <1>3, <1>4, <1>5, <1>6 DEF Next

LEMMA InvHolds == Spec => []IInv
BY InitInv, NextInv, PTL DEF Spec

-----------------------------------------------------------------------------
(* The theorems.                                                           *)

\* The state of the store, of its workers and of the dialogues has its type.
THEOREM TypeCorrect == Spec => []TypeOK
<1>1. IInv => TypeOK
  BY DEF IInv
<1> QED
  BY <1>1, InvHolds, PTL

\* Whoever is in a session proved the password of an account that exists, however many
\* dialogues register, log in and are banned at the same time.
THEOREM SessionsCorrect == Spec => []SessionsAreAuthentic
<1>1. IInv => SessionsAreAuthentic
  BY DEF IInv
<1> QED
  BY <1>1, InvHolds, PTL

\* Saves of users.txt never interleave and none is left half done when the mutex is free.
THEOREM FileCorrect == Spec => []FileIsWhole
<1>1. IInv => FileIsWhole
  BY DEF IInv, LockInv, FileInv, FileIsWhole
<1> QED
  BY <1>1, InvHolds, PTL

\* The members a worker reads through its dialogue neither change nor go while it runs.
THEOREM CredentialsCorrect == Spec => CredentialsStable
<1>1. ASSUME IInv, [Next]_vars
      PROVE  [CredentialsKept]_vars
  <2> SUFFICES ASSUME NEW l \in Logins, Next, ~Restart, worker[l] \notin {"idle", "done"}
               PROVE  /\ state[l] = "Verifying" /\ state'[l] = "Verifying"
                      /\ UNCHANGED <<register[l], username[l], password[l]>>
    BY <1>1 DEF CredentialsKept
  <2> USE <1>1 DEF IInv, TypeOK, StoreTypeOK
  <2>1. state[l] = "Verifying"
    BY DEF WorkInv
  <2>2. ASSUME NEW m \in Logins, Dialogue(m) \/ Verifying(m)
        PROVE  state'[l] = state[l] /\ UNCHANGED <<register[l], username[l], password[l]>>
    BY <2>1, <2>2 DEF Dialogue, Open, SelectMode, InputUsername, InputPassword, Hangup, Joined, Ban, Verifying,
                      Ready, Move, Forget, requestVars
  <2>3. ASSUME NEW m \in Logins, Work(m)
        PROVE  state'[l] = state[l] /\ UNCHANGED <<register[l], username[l], password[l]>>
    BY <2>3 DEF Work, WorkerStep, RefuseEmpty, Lookup, Verify, RefuseRegister, CheckFree, Hash, Insert, requestVars
  <2>4. CASE Saving
    BY <2>1, <2>4 DEF Saving, SaveStep, SaveOpen, SaveRecord, SaveDone, requestVars
  <2> QED
    BY <2>1, <2>2, <2>3, <2>4 DEF Next
<1> QED
  BY <1>1, InvHolds, PTL DEF Spec, CredentialsStable

\* A restart brings every account back as it was, as it was saved, or not at all, but for the
\* record the crash cut inside its status.
THEOREM RestartCorrect == Spec => RestartInventsNothing
<1>1. ASSUME IInv, [Next]_vars
      PROVE  [NothingInvented]_vars
  <2> SUFFICES ASSUME NEW n \in Names, Restart
               PROVE  \/ users'[n] \in {Absent, users[n], committed[n]}
                      \/ TornRecord(n) /\ users'[n] = [users[n] EXCEPT !.status = "Active"]
    BY <1>1 DEF NothingInvented
  <2> USE <1>1 DEF IInv, TypeOK, StoreTypeOK
  <2>1. users' = Load(file')
    BY DEF Restart, StoreRestart
  <2>2. ASSUME file'[n] = file[n]
        PROVE  users'[n] \in {Absent, users[n], committed[n]}
    <3>1. users'[n] = Load(file)[n]
      BY <2>1, <2>2 DEF Load
    <3>2. CASE save # "write" \/ failed
      BY <3>1, <3>2 DEF FileInv
    <3>3. CASE save = "write" /\ ~failed
      <4>1. file[n] \in {Absent, users[n]}
        BY <3>3 DEF FileInv
      <4> QED
        BY <3>1, <4>1, RecordsAreRead DEF Load
    <3> QED
      BY <3>2, <3>3
  <2>3. ASSUME n \in Stored, file'[n] = [hash |-> users[n].hash, status |-> "Torn"]
        PROVE  TornRecord(n) /\ users'[n] = [users[n] EXCEPT !.status = "Active"]
    <3>1. users[n] \in Account
      BY <2>3 DEF Stored
    <3>2. file'[n] # Absent
      BY <2>3, <3>1, AbsentAssumption DEF Account
    <3>3. users'[n] = [hash |-> users[n].hash, status |-> "Active"]
      BY <2>1, <2>3, <3>2 DEF Load, Status
    <3>4. users'[n] = [users[n] EXCEPT !.status = "Active"]
      BY <3>1, <3>3 DEF Account
    <3> QED
      BY <2>3, <3>2, <3>4 DEF TornRecord
  <2>4. file'[n] = file[n] \/ (n \in Stored /\ file'[n] = [hash |-> users[n].hash, status |-> "Torn"])
    BY LeftoverCases
  <2> QED
    BY <2>2, <2>3, <2>4
<1> QED
  BY <1>1, InvHolds, PTL DEF Spec, RestartInventsNothing

-----------------------------------------------------------------------------
(* The store implements the book: a login takes effect when it looks the   *)
(* account up, a registration when it inserts it, a ban when it is set.    *)

requests == [l \in Logins |-> Request(l)]

LEMMA BookStutters ==
    ASSUME UNCHANGED users, \A l \in Logins : Request(l)' = Request(l)
    PROVE  UNCHANGED Book!bookVars
BY DEF Book!bookVars

\* Only one dialogue's request changes.
LEMMA OneRequest ==
    ASSUME NEW l \in Logins, OthersKept(l)
    PROVE  requests' = [requests EXCEPT ![l] = Request(l)']
<1>1. \A m \in Logins \ {l} : Request(m)' = Request(m)
  BY DEF OthersKept, Request, AskedRequest, AnsweredRequest
<1> QED
  BY <1>1 DEF requests

LEMMA RequestIsKept ==
    ASSUME NEW l \in Logins, OthersKept(l), UNCHANGED users, Request(l)' = Request(l)
    PROVE  UNCHANGED Book!bookVars
<1>1. \A m \in Logins : Request(m)' = Request(m)
  BY DEF OthersKept, Request, AskedRequest, AnsweredRequest
<1> QED
  BY <1>1, BookStutters

LEMMA AnswerIs ==
    ASSUME NEW l \in Logins, OthersKept(l), NEW ok, UNCHANGED username,
           Request(l) = AskedRequest(l), Request(l)' = AnsweredRequest(l, ok)
    PROVE  Book!Answer(l, ok)
<1>1. requests' = [requests EXCEPT ![l] = AnsweredRequest(l, ok)]
  BY OneRequest
<1>2. requests[l].name = username[l]
  BY DEF requests, AskedRequest
<1> QED
  BY <1>1, <1>2 DEF Book!Answer, requests, AnsweredRequest

LEMMA DialogueImplements ==
    ASSUME IInv, NEW l \in Logins,
           \/ Open(l) \/ Hangup(l) \/ Verifying(l)
           \/ \E r \in BOOLEAN : SelectMode(l, r)
           \/ \E n \in TypedNames : InputUsername(l, n)
           \/ \E p \in Passwords \cup {Empty} : InputPassword(l, p)
    PROVE  Book!Next \/ UNCHANGED Book!bookVars
<1> USE DEF IInv, TypeOK, StoreTypeOK
<1>a. Knows(l)
  BY KnowledgeIsEachs
<1>1. ASSUME Open(l) \/ (\E r \in BOOLEAN : SelectMode(l, r)) \/ (\E n \in TypedNames : InputUsername(l, n))
      PROVE  UNCHANGED Book!bookVars
  <2>1. OthersKept(l) /\ UNCHANGED users /\ worker[l] = "idle" /\ worker'[l] = "idle"
    BY <1>1, <1>a DEF Open, SelectMode, InputUsername, Move, Knows, OthersKept, storeVars, requestVars, workerVars
  <2>2. Request(l)' = Request(l)
    BY <2>1 DEF Request
  <2> QED
    BY <2>1, <2>2, RequestIsKept
<1>2. ASSUME NEW p \in Passwords \cup {Empty}, InputPassword(l, p)
      PROVE  Book!Submit(l)
  <2>1. /\ OthersKept(l) /\ UNCHANGED users /\ worker[l] = "idle" /\ worker'[l] = "start"
        /\ register'[l] \in BOOLEAN /\ username'[l] \in Names /\ password'[l] \in Passwords \cup {Empty}
    BY <1>2, <1>a DEF InputPassword, Move, Knows, OthersKept, storeVars
  <2>2. Request(l) = Book!Idle /\ Request(l)' = AskedRequest(l)'
    BY <2>1 DEF Request, Book!Idle
  <2>3. AskedRequest(l)' \in Book!Asked
    BY <2>1 DEF AskedRequest, Book!Asked
  <2>4. requests[l].phase = "idle"
    BY <2>2 DEF requests, Book!Idle
  <2> QED
    BY <2>1, <2>2, <2>3, <2>4, OneRequest DEF Book!Submit, requests
<1>3. ASSUME Hangup(l) \/ Verifying(l)
      PROVE  Book!Collect(l) \/ UNCHANGED Book!bookVars
  <2>1. /\ OthersKept(l) /\ UNCHANGED users /\ worker[l] \in {"idle", "done"} /\ worker'[l] = "idle"
    BY <1>3 DEF Hangup, Joined, Verifying, Ready, Move, Forget, OthersKept, storeVars
  <2>2. Request(l)' = Book!Idle
    BY <2>1 DEF Request, Book!Idle
  <2>3. CASE worker[l] = "idle"
    <3>1. Request(l)' = Request(l)
      BY <2>2, <2>3 DEF Request, Book!Idle
    <3> QED
      BY <2>1, <3>1, RequestIsKept
  <2>4. CASE worker[l] = "done"
    <3>1. requests[l].phase = "answered"
      BY <2>4 DEF requests, Request, AnsweredRequest
    <3> QED
      BY <2>1, <2>2, <3>1, OneRequest DEF Book!Collect, requests
  <2> QED
    BY <2>1, <2>3, <2>4
<1> QED
  BY <1>1, <1>2, <1>3 DEF Book!Next

\* What was asked is answered FALSE without any effect.
LEMMA RefusalImplements ==
    ASSUME NEW l \in Logins, OthersKept(l), UNCHANGED <<users, username>>, register[l],
           Request(l) = AskedRequest(l), Request(l)' = AnsweredRequest(l, FALSE)
    PROVE  Book!Fail(l)
<1>1. requests[l].phase = "asked" /\ requests[l].register
  BY DEF requests, AskedRequest
<1> QED
  BY <1>1, AnswerIs DEF Book!Fail, requests

LEMMA LoginImplements ==
    ASSUME NEW l \in Logins, OthersKept(l), UNCHANGED <<users, username>>, ~register[l],
           Request(l) = AskedRequest(l),
           NEW ok, ok <=> users[username[l]] = [hash |-> password[l], status |-> "Active"],
           ok \in BOOLEAN, Request(l)' = AnsweredRequest(l, ok)
    PROVE  Book!Authenticate(l)
<1>1. /\ requests[l].phase = "asked" /\ ~requests[l].register
      /\ requests[l].name = username[l] /\ requests[l].password = password[l]
  BY DEF requests, AskedRequest
<1>2. Book!Answer(l, ok)
  BY AnswerIs
<1>3. ok = (users[username[l]] = [hash |-> password[l], status |-> "Active"])
  OBVIOUS
<1> QED
  BY <1>1, <1>2, <1>3 DEF Book!Authenticate, requests

LEMMA WorkerImplements ==
    ASSUME IInv, NEW l \in Logins, Work(l)
    PROVE  Book!Next \/ UNCHANGED Book!bookVars
<1> USE DEF IInv, TypeOK, StoreTypeOK, Step, Finish
<1>a. Knows(l) /\ username[l] \in Names
  <2>1. worker[l] # "idle"
    BY DEF Work, WorkerStep, RefuseEmpty, Lookup, Verify, RefuseRegister, CheckFree, Hash, Insert
  <2> QED
    BY <2>1, KnowledgeIsEachs DEF Knows
<1>b. OthersKept(l)
  BY DEF Work, WorkerStep, RefuseEmpty, Lookup, Verify, RefuseRegister, CheckFree, Hash, Insert, OthersKept, requestVars
<1>c. UNCHANGED requestVars
  BY DEF Work, WorkerStep, RefuseEmpty, Lookup, Verify, RefuseRegister, CheckFree, Hash, Insert
<1>d. ASSUME worker'[l] = "done", answer'[l] \in {"false", "exception"}
      PROVE  Request(l)' = AnsweredRequest(l, FALSE)
  BY <1>c, <1>d DEF Request, AnsweredRequest, requestVars
<1>1. CASE RefuseEmpty(l)
  <2>1. /\ UNCHANGED <<users, username>> /\ ~register[l] /\ password[l] = Empty
        /\ Request(l) = AskedRequest(l) /\ Request(l)' = AnsweredRequest(l, FALSE)
    BY <1>1, <1>c, <1>d DEF RefuseEmpty, storeVars, requestVars, Request
  <2>2. users[username[l]] # [hash |-> password[l], status |-> "Active"]
    <3>1. users[username[l]] \in Account \cup {Absent}
      BY <1>a
    <3>2. [hash |-> Empty, status |-> "Active"] # Absent
      BY AbsentAssumption
    <3>3. [hash |-> Empty, status |-> "Active"] \notin Account
      BY EmptyAssumption DEF Account
    <3> QED
      BY <2>1, <3>1, <3>2, <3>3
  <2>3. Book!Authenticate(l)
    BY <1>b, <2>1, <2>2, LoginImplements
  <2> QED
    BY <2>3 DEF Book!Next
<1>2. CASE Lookup(l)
  <2>1. /\ UNCHANGED <<users, username>> /\ ~register[l] /\ worker[l] = "start" /\ worker'[l] = "verify"
        /\ seen'[l] = users[username[l]] /\ password'[l] = password[l]
    BY <1>2, <1>c DEF Lookup, storeVars, requestVars
  <2>2. Matches(users[username[l]], password[l]) <=> users[username[l]] = [hash |-> password[l], status |-> "Active"]
    <3>1. CASE users[username[l]] = Absent
      <4>1. password[l] \in Passwords \cup {Empty}
        OBVIOUS
      <4>2. [hash |-> password[l], status |-> "Active"] # Absent
        BY <4>1, AbsentAssumption
      <4> QED
        BY <3>1, <4>2 DEF Matches
    <3>2. CASE users[username[l]] \in Account /\ users[username[l]] # Absent
      BY <3>2 DEF Matches, Account
    <3> QED
      BY <1>a, <3>1, <3>2
  <2>3. Request(l) = AskedRequest(l) /\ Request(l)' = AnsweredRequest(l, Matches(users[username[l]], password[l]))
    BY <2>1 DEF Request, AnsweredRequest
  <2>4. Book!Authenticate(l)
    BY <1>b, <2>1, <2>2, <2>3, LoginImplements DEF Matches
  <2> QED
    BY <2>4 DEF Book!Next
<1>3. CASE Verify(l)
  <2>1. /\ UNCHANGED <<users, username>> /\ worker[l] = "verify" /\ worker'[l] = "done"
        /\ answer'[l] = Truth(Matches(seen[l], password[l]))
    BY <1>3, <1>c DEF Verify, storeVars, requestVars
  <2>2. Matches(seen[l], password[l]) = (answer'[l] = "true")
    BY <2>1 DEF Truth, Matches
  <2>3. Request(l)' = Request(l)
    BY <2>1, <2>2 DEF Request, AnsweredRequest
  <2> QED
    BY <1>b, <2>1, <2>3, RequestIsKept
<1>4. CASE RefuseRegister(l)
  <2>1. /\ UNCHANGED <<users, username>> /\ register[l]
        /\ Request(l) = AskedRequest(l) /\ Request(l)' = AnsweredRequest(l, FALSE)
    BY <1>4, <1>c, <1>d DEF RefuseRegister, storeVars, requestVars, Request
  <2> QED
    BY <1>b, <2>1, RefusalImplements DEF Book!Next
<1>5. CASE CheckFree(l) \/ Hash(l)
  <2>1. UNCHANGED <<users, username>> /\ register[l] /\ worker[l] \in {"start", "hash"}
    BY <1>5, <1>c, <1>a DEF CheckFree, Hash, storeVars, requestVars, Knows
  <2>2. CASE worker'[l] = "done"
    <3>1. answer'[l] \in {"false", "exception"}
      BY <1>5, <2>2 DEF CheckFree, Hash
    <3>2. Request(l) = AskedRequest(l) /\ Request(l)' = AnsweredRequest(l, FALSE)
      BY <1>d, <2>1, <2>2, <3>1 DEF Request
    <3> QED
      BY <1>b, <2>1, <3>2, RefusalImplements DEF Book!Next
  <2>3. CASE worker'[l] # "done"
    <3>1. worker'[l] \in {"hash", "insert"}
      BY <1>5, <2>3 DEF CheckFree, Hash
    <3>2. Request(l)' = Request(l)
      BY <1>c, <2>1, <3>1 DEF Request, AskedRequest, requestVars
    <3> QED
      BY <1>b, <2>1, <3>2, RequestIsKept
  <2> QED
    BY <2>2, <2>3
<1>6. CASE Insert(l)
  <2>1. /\ register[l] /\ worker[l] = "insert" /\ UNCHANGED username
        /\ username[l] \in LegalNames /\ password[l] \in Passwords /\ password[l] # Empty
        /\ Request(l) = AskedRequest(l)
    BY <1>6, <1>a, <1>c DEF Insert, Knows, Acceptable, Request, requestVars
  <2>2. CASE Taken(username[l])
    <3>1. UNCHANGED users /\ Request(l)' = AnsweredRequest(l, FALSE)
      BY <1>6, <1>d, <2>2 DEF Insert
    <3> QED
      BY <1>b, <2>1, <3>1, RefusalImplements DEF Book!Next
  <2>3. CASE ~Taken(username[l])
    <3>1. /\ users[username[l]] = Absent /\ worker'[l] = "save"
          /\ users' = [users EXCEPT ![username[l]] = [hash |-> password[l], status |-> "Active"]]
      BY <1>6, <1>a, <2>3 DEF Insert, Taken, Stored
    <3>2. Request(l)' = AnsweredRequest(l, TRUE)
      BY <2>1, <3>1 DEF Request, AnsweredRequest
    <3>3. Book!Answer(l, TRUE)
      BY <1>b, <2>1, <3>2, AnswerIs
    <3>4. /\ requests[l].phase = "asked" /\ requests[l].register
          /\ requests[l].name = username[l] /\ requests[l].password = password[l]
      BY <2>1 DEF requests, AskedRequest
    <3>5. Book!Register(l)
      BY <2>1, <3>1, <3>3, <3>4 DEF Book!Register, requests
    <3> QED
      BY <3>5 DEF Book!Next
  <2> QED
    BY <2>2, <2>3
<1> QED
  BY <1>1, <1>2, <1>3, <1>4, <1>5, <1>6 DEF Work, WorkerStep

LEMMA OtherImplements ==
    ASSUME IInv, IInv', Saving \/ Restart \/ (\E l \in Logins : Ban(l))
    PROVE  Book!Next \/ UNCHANGED Book!bookVars
<1> USE DEF IInv, TypeOK, StoreTypeOK
<1>1. CASE Saving
  <2>1. UNCHANGED <<users, register, username, password, seen>>
    BY <1>1 DEF Saving, SaveStep, SaveOpen, SaveRecord, SaveDone, requestVars, workerVars
  <2>2. ASSUME NEW m \in Logins
        PROVE  \/ UNCHANGED <<worker[m], answer[m]>>
               \/ worker[m] = "save" /\ worker'[m] = "done" /\ answer'[m] = "true"
    BY <1>1 DEF Saving, SaveStep, SaveOpen, SaveRecord, SaveDone, workerVars, Finish, Step
  <2>3. \A m \in Logins : Request(m)' = Request(m)
    BY <2>1, <2>2 DEF Request, AskedRequest, AnsweredRequest
  <2> QED
    BY <2>1, <2>3, BookStutters
<1>2. ASSUME NEW l \in Logins, Ban(l)
      PROVE  Book!Ban(username[l]) /\ username[l] \in Names
  <2>1. /\ username[l] \in Stored /\ worker' = worker /\ worker[l] = "idle"
        /\ users' = [users EXCEPT ![username[l]].status = "Banned"]
        /\ UNCHANGED <<seen, answer>>
    BY <1>2 DEF Ban, BanUser, Move, WorkInv, workerVars
  <2>2. ASSUME NEW m \in Logins
        PROVE  Request(m)' = Request(m)
    <3>1. CASE m = l
      BY <2>1, <3>1 DEF Request
    <3>2. CASE m # l
      <4>1. UNCHANGED <<register[m], username[m], password[m]>>
        BY <1>2, <3>2 DEF Ban, Forget
      <4> QED
        BY <2>1, <4>1 DEF Request, AskedRequest, AnsweredRequest
    <3> QED
      BY <3>1, <3>2
  <2>3. [m \in Logins |-> Request(m)]' = [m \in Logins |-> Request(m)]
    BY <2>2
  <2> QED
    BY <2>1, <2>3 DEF Book!Ban, Stored
<1>3. CASE Restart
  <2>1. users' = Load(file') /\ \A l \in Logins : worker'[l] = "idle"
    BY <1>3 DEF Restart, StoreRestart
  <2>2. requests' = [l \in Logins |-> Book!Idle]
    BY <2>1 DEF requests, Request, Book!Idle
  <2>3. users' \in [Names -> Book!Account \cup {Absent}]
    BY DEF Account, Book!Account
  <2>4. \A n \in Names : users'[n] # Absent => users[n] # Absent /\ users'[n].hash = users[n].hash
    <3> SUFFICES ASSUME NEW n \in Names, users'[n] # Absent
                 PROVE  users[n] # Absent /\ users'[n].hash = users[n].hash
      OBVIOUS
    <3>1. file'[n] # Absent /\ users'[n].hash = file'[n].hash
      BY <2>1 DEF Load
    <3>2. CASE file'[n] = file[n]
      BY <3>1, <3>2 DEF FileInv, HasPassword
    <3>3. CASE n \in Stored /\ file'[n] = [hash |-> users[n].hash, status |-> "Torn"]
      BY <3>1, <3>3 DEF Stored
    <3> QED
      BY <1>3, <3>2, <3>3, LeftoverCases
  <2>5. Book!Restart
    BY <2>2, <2>3, <2>4 DEF Book!Restart, requests
  <2> QED
    BY <2>5 DEF Book!Next
<1> QED
  BY <1>1, <1>2, <1>3 DEF Book!Next

LEMMA NextImplements == IInv /\ IInv' /\ [Next]_vars => [Book!Next]_Book!bookVars
<1> SUFFICES ASSUME IInv, IInv', [Next]_vars PROVE Book!Next \/ UNCHANGED Book!bookVars
  OBVIOUS
<1>1. CASE UNCHANGED vars
  <2>1. \A l \in Logins : Request(l)' = Request(l)
    BY <1>1 DEF vars, requestVars, workerVars, Request, AskedRequest, AnsweredRequest
  <2> QED
    BY <1>1, <2>1, BookStutters DEF vars
<1>2. ASSUME NEW l \in Logins, Dialogue(l) \/ Verifying(l) \/ Work(l)
      PROVE  Book!Next \/ UNCHANGED Book!bookVars
  BY <1>2, DialogueImplements, WorkerImplements, OtherImplements DEF Dialogue, Work
<1>3. CASE Saving \/ Restart
  BY <1>3, OtherImplements
<1> QED
  BY <1>1, <1>2, <1>3 DEF Next

\* Whatever interleaves, crashes or fails to be written, every login and every registration is
\* answered as if it had been carried out in one step on a book of accounts where the first
\* registration of a name wins, a password never changes and a ban lasts until a restart.
THEOREM Refinement == Spec => ImplementsAccountBook
<1>1. Init => Book!Init
  BY DEF Init, StoreInit, Book!Init, Book!Idle, Request
<1> QED
  BY <1>1, NextImplements, InvHolds, PTL DEF Spec, ImplementsAccountBook, Book!Spec
=============================================================================
