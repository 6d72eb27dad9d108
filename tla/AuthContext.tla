---------------------------- MODULE AuthContext -----------------------------
(***************************************************************************)
(* The login dialogue, AuthContext of AuthContext.hpp, as the server's     *)
(* main thread drives it: update() once a frame moves the dialogue on, the *)
(* password starts a std::async worker on the store, the future is polled, *)
(* and a dialogue is destroyed when its client disconnects.  The main      *)
(* thread also bans the user of an active session (Engine::banSession).    *)
(* It is one thread: while it saves a ban it does nothing else.            *)
(***************************************************************************)
EXTENDS UserStore

VARIABLE state    \* m_state of each dialogue; "none": no client, "active": promoted to a session

vars == <<state, users, fileVars, lock, committed, requestVars, workerVars>>

States == {"none", "SelectMode", "InputUsername", "InputPassword", "Verifying", "active"}

TypeOK ==
    /\ StoreTypeOK
    /\ state \in [Logins -> States]
    /\ \A l \in Logins : state[l] \in {"InputPassword", "Verifying", "active"} => username[l] \in Names

Init == StoreInit /\ state = [l \in Logins |-> "none"]

MainIsFree == lock # Main
Move(l, from, to) ==
    /\ MainIsFree
    /\ state[l] = from
    /\ state' = [state EXCEPT ![l] = to]

\* What nobody reads again before it is written is forgotten.
Forget(l) ==
    /\ register' = [register EXCEPT ![l] = FALSE]
    /\ username' = [username EXCEPT ![l] = Empty]
    /\ password' = [password EXCEPT ![l] = Empty]

\* The engine makes an AuthContext for a client whose window size has arrived.
Open(l) ==
    /\ Move(l, "none", "SelectMode")
    /\ UNCHANGED <<storeVars, requestVars, workerVars>>

\* Enter with "1" or, where anyone may register, "2".  Any other line is cleared.
SelectMode(l, registering) ==
    /\ Move(l, "SelectMode", "InputUsername")
    /\ registering => AllowAll
    /\ register' = [register EXCEPT ![l] = registering]
    /\ UNCHANGED <<storeVars, username, password, workerVars>>

BugTypedNames == Names \cup {Empty}
\* What Enter submits as a name: a line that is not empty once it is trimmed.
TypedNames == Names

InputUsername(l, n) ==
    /\ Move(l, "InputUsername", "InputPassword")
    /\ username' = [username EXCEPT ![l] = n]
    /\ UNCHANGED <<storeVars, register, password, workerVars>>

\* Enter with anything: the worker starts.
InputPassword(l, p) ==
    /\ Move(l, "InputPassword", "Verifying")
    /\ password' = [password EXCEPT ![l] = p]
    /\ worker' = [worker EXCEPT ![l] = "start"]
    /\ UNCHANGED <<storeVars, register, username, seen, answer>>

\* m_authFuture.wait_for(0) answers ready.
Ready(l) == worker[l] = "done"

\* The future is ready and is taken: a session, or back to the menu.
Verifying(l) ==
    /\ Ready(l)
    /\ answer[l] # "exception"
    /\ Move(l, "Verifying", IF answer[l] = "true" THEN "active" ELSE "SelectMode")
    /\ worker' = [worker EXCEPT ![l] = "idle"]
    /\ answer' = [answer EXCEPT ![l] = "false"]
    /\ IF answer[l] = "true"
       THEN register' = [register EXCEPT ![l] = FALSE] /\ UNCHANGED <<username, password>>
       ELSE Forget(l)
    /\ UNCHANGED <<storeVars, seen>>

BugJoined(l) == TRUE
\* The destructor of the future waits for the worker.
Joined(l) == worker[l] \in {"idle", "done"}

\* The client disconnects, and the dialogue or the session is destroyed.
Hangup(l) ==
    /\ state[l] # "none"
    /\ Joined(l)
    /\ Move(l, state[l], "none")
    /\ worker' = [worker EXCEPT ![l] = "idle"]
    /\ answer' = [answer EXCEPT ![l] = "false"]
    /\ Forget(l)
    /\ UNCHANGED <<storeVars, seen>>

\* banSession(): the account is banned and this session, not others of the user, ends.
Ban(l) ==
    /\ Move(l, "active", "none")
    /\ BanUser(username[l])
    /\ Forget(l)

\* The process dies: killed, or get() rethrows what the worker threw and nobody catches it.
Restart ==
    /\ StoreRestart
    /\ state' = [l \in Logins |-> "none"]

Work(l) == WorkerStep(l) /\ UNCHANGED state
Saving == SaveStep /\ UNCHANGED state

Dialogue(l) ==
    \/ Open(l)
    \/ \E r \in BOOLEAN : SelectMode(l, r)
    \/ \E n \in TypedNames : InputUsername(l, n)
    \/ \E p \in Passwords \cup {Empty} : InputPassword(l, p)
    \/ Hangup(l)
    \/ Ban(l)

Next ==
    \/ \E l \in Logins : Dialogue(l) \/ Verifying(l) \/ Work(l)
    \/ Saving
    \/ Restart

Spec == Init /\ [][Next]_vars

\* Threads are scheduled, and every frame polls every future: the worker of a login, while it
\* runs, and then the dialogue that waits for it.
Fairness ==
    /\ \A l \in Logins : SF_vars(Work(l) \/ Verifying(l))
    /\ WF_vars(Saving)

FairSpec == Spec /\ Fairness

-----------------------------------------------------------------------------
(* Properties.                                                             *)

CredentialsKept ==
    \A l \in Logins : worker[l] \notin {"idle", "done"} /\ ~Restart =>
        /\ state[l] = "Verifying" /\ state'[l] = "Verifying"
        /\ <<register[l], username[l], password[l]>>' = <<register[l], username[l], password[l]>>

\* While a worker runs it reads m_username, m_password and m_isRegisterMode through the
\* dialogue's this pointer: the dialogue is alive and its members stay as they were.
CredentialsStable == [][CredentialsKept]_vars

\* Whoever is in an active session proved the password of an account that exists, although
\* registrations and logins run concurrently: no name has two owners.
SessionsAreAuthentic ==
    \A l \in Logins : state[l] = "active" =>
        users[username[l]] # Absent /\ users[username[l]].hash = password[l]

\* Whenever the mutex is free the file holds what the last successful save was to write, or what
\* a crash left of it and was loaded: saves never interleave and none is left half done.
FileIsWhole == lock = Nobody => save = "off" /\ Load(file) = committed

\* A crash cut the record of n in two, inside its status.
TornRecord(n) == file'[n] # Absent /\ file'[n].status = "Torn"

NothingInvented ==
    Restart => \A n \in Names :
        \/ users'[n] \in {Absent, users[n], committed[n]}
        \/ TornRecord(n) /\ users'[n] = [users[n] EXCEPT !.status = "Active"]

\* After a restart an account is gone, or as it was in memory, or as it was last saved: a record
\* never comes back as something it was not, except that one the crash cut in two, inside the
\* word "Banned", is the account it was without its ban.
RestartInventsNothing == [][NothingInvented]_vars

\* Every submitted password gets its answer, or the dialogue ends: no dialogue verifies for ever.
EveryLoginIsAnswered ==
    \A l \in Logins : []<>(state[l] # "Verifying" \/ answer[l] = "exception")

\* What a caller of the store may rely on.
AnsweredRequest(l, ok) == [phase |-> "answered", success |-> ok, name |-> username[l]]
AskedRequest(l) ==
    [phase |-> "asked", register |-> register[l], name |-> username[l], password |-> password[l]]
Request(l) ==
    CASE worker[l] = "idle" -> [phase |-> "idle"]
      [] worker[l] \in {"start", "hash", "insert"} -> AskedRequest(l)
      [] worker[l] = "verify" -> AnsweredRequest(l, Matches(seen[l], password[l]))
      [] worker[l] = "save" -> AnsweredRequest(l, TRUE)
      [] worker[l] = "done" -> AnsweredRequest(l, answer[l] = "true")

Book == INSTANCE AccountBook WITH book <- users, request <- [l \in Logins |-> Request(l)]
ImplementsAccountBook == Book!Spec
=============================================================================
