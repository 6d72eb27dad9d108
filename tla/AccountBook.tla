---------------------------- MODULE AccountBook -----------------------------
(***************************************************************************)
(* What the account store promises its callers: every request to register  *)
(* or to authenticate is answered as if it had been carried out in one     *)
(* step, at some moment between its submission and its answer, on a book   *)
(* of accounts where the first registration of a name wins, a password     *)
(* never changes and a ban is never lifted.  Only the restart of the       *)
(* server may lose accounts.                                               *)
(***************************************************************************)
CONSTANTS
    Logins,       \* the login dialogues that submit requests
    Names,        \* what a user can type as a name
    LegalNames,   \* the names that may be registered
    Passwords,    \* non-empty passwords; an account keeps the hash of one
    Empty,        \* the empty password
    Absent        \* no account

VARIABLES
    book,         \* the account of each name, or Absent
    request       \* the request of each dialogue

bookVars == <<book, request>>

Account == [hash : Passwords, status : {"Active", "Banned"}]

Idle == [phase |-> "idle"]
Asked == [phase : {"asked"}, register : BOOLEAN, name : Names, password : Passwords \cup {Empty}]
Answered == [phase : {"answered"}, success : BOOLEAN, name : Names]

Init ==
    /\ book = [n \in Names |-> Absent]
    /\ request = [l \in Logins |-> Idle]

Answer(l, ok) ==
    request' = [request EXCEPT ![l] = [phase |-> "answered", success |-> ok, name |-> @.name]]

Submit(l) ==
    /\ request[l].phase = "idle"
    /\ \E r \in Asked : request' = [request EXCEPT ![l] = r]
    /\ UNCHANGED book

\* The registration succeeds if the name is free at that moment, and takes it.
Register(l) ==
    LET r == request[l]
        ok == r.name \in LegalNames /\ r.password # Empty /\ book[r.name] = Absent
    IN  /\ r.phase = "asked" /\ r.register
        /\ Answer(l, ok)
        /\ book' = IF ok THEN [book EXCEPT ![r.name] = [hash |-> r.password, status |-> "Active"]]
                   ELSE book

\* The password is right and the account not banned at that moment.
Authenticate(l) ==
    LET r == request[l]
    IN  /\ r.phase = "asked" /\ ~r.register
        /\ Answer(l, book[r.name] = [hash |-> r.password, status |-> "Active"])
        /\ UNCHANGED book

\* A registration may also be refused, or fail, without any effect.
Fail(l) ==
    /\ request[l].phase = "asked" /\ request[l].register
    /\ Answer(l, FALSE)
    /\ UNCHANGED book

Collect(l) ==
    /\ request[l].phase = "answered"
    /\ request' = [request EXCEPT ![l] = Idle]
    /\ UNCHANGED book

Ban(n) ==
    /\ book[n] # Absent
    /\ book' = [book EXCEPT ![n].status = "Banned"]
    /\ UNCHANGED request

\* A restart forgets the requests and may lose accounts or bring back older states of them.
Restart ==
    /\ book' \in [Names -> Account \cup {Absent}]
    /\ \A n \in Names : book'[n] # Absent => book[n] # Absent /\ book'[n].hash = book[n].hash
    /\ request' = [l \in Logins |-> Idle]

Next ==
    \/ \E l \in Logins : Submit(l) \/ Register(l) \/ Authenticate(l) \/ Fail(l) \/ Collect(l)
    \/ \E n \in Names : Ban(n)
    \/ Restart

Spec == Init /\ [][Next]_bookVars
=============================================================================
