----------------------------- MODULE UserStore ------------------------------
(***************************************************************************)
(* UserStore of UserStore.hpp: the accounts in memory, users.txt, the      *)
(* mutex, and the std::async workers that run authenticate() and           *)
(* registerUser() beside the server's main thread, which runs banUser().   *)
(* A lock_guard block without a save is one step; hashing and verifying    *)
(* happen outside the mutex and are steps of their own; saveToFile(), done *)
(* inside the mutex, truncates the file and writes one record per step, so *)
(* that the process can die half way.  A hash stands for the password it   *)
(* verifies, names are trimmed already.                                    *)
(***************************************************************************)
EXTENDS Integers, FiniteSets

CONSTANTS
    Logins,       \* the AuthContexts, each with at most one worker
    Main,         \* the main thread, as an owner of the mutex
    Nobody,       \* the mutex is free
    Names,        \* what a user can type as a name
    LegalNames,   \* those without ':'
    Passwords,
    Empty,        \* the empty string
    Absent,       \* no account
    AllowAll,     \* RegisterPolicy::AllowAll?
    Tearing,      \* can a record be cut in two, users.txt being longer than the stream's buffer?
    DiskFails     \* can users.txt fail to open for writing?

ASSUME NameAssumption == LegalNames \subseteq Names
ASSUME EmptyAssumption == Empty \notin Passwords /\ Empty \notin Names
ASSUME OwnerAssumption == Main \notin Logins /\ Nobody \notin Logins /\ Main # Nobody
ASSUME FlagAssumption == AllowAll \in BOOLEAN /\ Tearing \in BOOLEAN /\ DiskFails \in BOOLEAN

Account == [hash : Passwords, status : {"Active", "Banned"}]
\* A record of users.txt; the status of a torn one is a proper prefix of "Banned" or "Active".
Record == [hash : Passwords, status : {"Active", "Banned", "Torn"}]

ASSUME AbsentAssumption == Absent \notin [hash : Passwords \cup {Empty}, status : {"Active", "Banned", "Torn"}]

VARIABLES
    users,        \* m_users
    file,         \* users.txt: the record of each name, or Absent
    lock,         \* who owns m_mutex
    save,         \* saveToFile(): "off", "open" (about to open) or "write"
    unsaved,      \* the names it has still to write
    failed,       \* file.is_open() was false
    committed,    \* history: m_users as the last successful save left it in the file
    worker,       \* the step each worker is at
    register,     \* m_isRegisterMode of each AuthContext
    username,     \* m_username
    password,     \* m_password
    seen,         \* what authenticate() copied out of the mutex
    answer        \* the value in the future: TRUE, FALSE or an exception

fileVars == <<file, save, unsaved, failed>>
storeVars == <<users, fileVars, lock, committed>>
requestVars == <<register, username, password>>
workerVars == <<worker, seen, answer>>

WorkerSteps == {"idle", "start", "verify", "hash", "insert", "save", "done"}
Answers == {"true", "false", "exception"}

StoreTypeOK ==
    /\ users \in [Names -> Account \cup {Absent}]
    /\ file \in [Names -> Record \cup {Absent}]
    /\ lock \in Logins \cup {Main, Nobody}
    /\ save \in {"off", "open", "write"}
    /\ unsaved \subseteq Names
    /\ failed \in BOOLEAN
    /\ committed \in [Names -> Account \cup {Absent}]
    /\ worker \in [Logins -> WorkerSteps]
    /\ register \in [Logins -> BOOLEAN]
    /\ username \in [Logins -> Names \cup {Empty}]
    /\ password \in [Logins -> Passwords \cup {Empty}]
    /\ seen \in [Logins -> Account \cup {Absent}]
    /\ answer \in [Logins -> Answers]

StoreInit ==
    /\ users = [n \in Names |-> Absent]
    /\ file = [n \in Names |-> Absent]
    /\ lock = Nobody
    /\ save = "off"
    /\ unsaved = {}
    /\ failed = FALSE
    /\ committed = users
    /\ worker = [l \in Logins |-> "idle"]
    /\ register = [l \in Logins |-> FALSE]
    /\ username = [l \in Logins |-> Empty]
    /\ password = [l \in Logins |-> Empty]
    /\ seen = [l \in Logins |-> Absent]
    /\ answer = [l \in Logins |-> "false"]

Stored == {n \in Names : users[n] # Absent}

Step(l, from, to) == worker[l] = from /\ worker' = [worker EXCEPT ![l] = to]
Finish(l, from, result) == Step(l, from, "done") /\ answer' = [answer EXCEPT ![l] = result]
Truth(b) == IF b THEN "true" ELSE "false"

-----------------------------------------------------------------------------
(* authenticate()                                                          *)

\* An empty password is refused before anything is looked up.
RefuseEmpty(l) ==
    /\ ~register[l]
    /\ password[l] = Empty
    /\ Finish(l, "start", "false")
    /\ UNCHANGED <<storeVars, requestVars, seen>>

\* Under the mutex: copy the hash and the status of the account, if there is one.
Lookup(l) ==
    /\ ~register[l]
    /\ password[l] # Empty
    /\ lock = Nobody
    /\ Step(l, "start", "verify")
    /\ seen' = [seen EXCEPT ![l] = users[username[l]]]
    /\ UNCHANGED <<storeVars, requestVars, answer>>

BugMatches(account, p) == account # Absent /\ account.hash = p
\* A missing account is verified against a dummy hash, a banned one not at all.
Matches(account, p) == account # Absent /\ account.status = "Active" /\ account.hash = p
\* Outside the mutex, on the copy.
Verify(l) ==
    /\ Finish(l, "verify", Truth(Matches(seen[l], password[l])))
    /\ seen' = [seen EXCEPT ![l] = Absent]
    /\ UNCHANGED <<storeVars, requestVars>>

-----------------------------------------------------------------------------
(* registerUser()                                                          *)

Acceptable(l) == AllowAll /\ username[l] \in LegalNames /\ password[l] # Empty

\* The policy, the name or the password is refused without taking the mutex.
RefuseRegister(l) ==
    /\ register[l]
    /\ ~Acceptable(l)
    /\ Finish(l, "start", "false")
    /\ UNCHANGED <<storeVars, requestVars, seen>>

\* Under the mutex: is the name taken?
CheckFree(l) ==
    /\ register[l]
    /\ Acceptable(l)
    /\ lock = Nobody
    /\ IF username[l] \in Stored THEN Finish(l, "start", "false")
       ELSE Step(l, "start", "hash") /\ UNCHANGED answer
    /\ UNCHANGED <<storeVars, requestVars, seen>>

\* Outside it: hash the password, or throw "Hashing failed".
Hash(l) ==
    /\ \/ Step(l, "hash", "insert") /\ UNCHANGED answer
       \/ Finish(l, "hash", "exception")
    /\ UNCHANGED <<storeVars, requestVars, seen>>

BeginSave(owner) ==
    /\ lock' = owner
    /\ save' = "open"

BugTaken(n) == FALSE
Taken(n) == n \in Stored

\* Under the mutex again: check again, insert, and save before the mutex is released.
Insert(l) ==
    LET n == username[l]
    IN  /\ lock = Nobody
        /\ IF Taken(n)
           THEN Finish(l, "insert", "false") /\ UNCHANGED <<users, lock, save>>
           ELSE /\ Step(l, "insert", "save")
                /\ users' = [users EXCEPT ![n] = [hash |-> password[l], status |-> "Active"]]
                /\ BeginSave(l)
                /\ UNCHANGED answer
        /\ UNCHANGED <<file, unsaved, failed, committed, requestVars, seen>>

-----------------------------------------------------------------------------
(* banUser(), called by the main thread                                    *)

BanUser(n) ==
    /\ lock = Nobody
    /\ n \in Stored
    /\ users' = [users EXCEPT ![n].status = "Banned"]
    /\ BeginSave(Main)
    /\ UNCHANGED <<file, unsaved, failed, committed, workerVars>>

-----------------------------------------------------------------------------
(* saveToFile(), by the owner of the mutex                                 *)

\* The file is truncated, or cannot be opened: then the error is logged and nothing written.
SaveOpen ==
    /\ save = "open"
    /\ \/ /\ file' = [n \in Names |-> Absent]
          /\ unsaved' = Stored
          /\ failed' = FALSE
       \/ /\ DiskFails
          /\ unsaved' = {}
          /\ failed' = TRUE
          /\ UNCHANGED file
    /\ save' = "write"
    /\ UNCHANGED <<users, lock, committed, requestVars, workerVars>>

SaveRecord ==
    /\ save = "write"
    /\ \E n \in unsaved :
          /\ file' = [file EXCEPT ![n] = users[n]]
          /\ unsaved' = unsaved \ {n}
    /\ UNCHANGED <<users, lock, save, failed, committed, requestVars, workerVars>>

BugAllWritten == TRUE
AllWritten == unsaved = {}

BugRelease == UNCHANGED lock
Release == lock' = Nobody

\* The file is closed, the mutex released, and registerUser() returns true.
SaveDone ==
    /\ save = "write"
    /\ AllWritten
    /\ save' = "off"
    /\ unsaved' = {}
    /\ failed' = FALSE
    /\ committed' = IF failed THEN committed ELSE users
    /\ Release
    /\ IF lock = Main THEN UNCHANGED <<worker, answer>>
       ELSE Finish(lock, "save", "true")
    /\ UNCHANGED <<users, file, requestVars, seen>>

-----------------------------------------------------------------------------
(* The process dies and is started again: loadFromFile()                   *)

BugStatus(text) == "Active"
\* Any status text but "Banned" is read as Active.
Status(text) == IF text = "Banned" THEN "Banned" ELSE "Active"

Load(f) ==
    [n \in Names |-> IF f[n] = Absent THEN Absent
                     ELSE [hash |-> f[n].hash, status |-> Status(f[n].status)]]

\* If it dies while it writes, the record being written may have lost the end of its status.
Leftover ==
    {file} \cup IF Tearing /\ save = "write"
                THEN {[file EXCEPT ![n] = [hash |-> users[n].hash, status |-> "Torn"]] : n \in unsaved}
                ELSE {}

StoreRestart ==
    /\ file' \in Leftover
    /\ users' = Load(file')
    /\ committed' = users'
    /\ lock' = Nobody
    /\ save' = "off"
    /\ unsaved' = {}
    /\ failed' = FALSE
    /\ worker' = [l \in Logins |-> "idle"]
    /\ seen' = [l \in Logins |-> Absent]
    /\ answer' = [l \in Logins |-> "false"]
    /\ register' = [l \in Logins |-> FALSE]
    /\ username' = [l \in Logins |-> Empty]
    /\ password' = [l \in Logins |-> Empty]

-----------------------------------------------------------------------------
WorkerStep(l) ==
    \/ RefuseEmpty(l) \/ Lookup(l) \/ Verify(l)
    \/ RefuseRegister(l) \/ CheckFree(l) \/ Hash(l) \/ Insert(l)

SaveStep == SaveOpen \/ SaveRecord \/ SaveDone
=============================================================================
