------------------------------- MODULE Engine -------------------------------
(***************************************************************************)
(* The server's main loop, Engine::run() of Engine.hpp: one thread that    *)
(* polls the sockets, accepts, receives, authenticates, updates the world, *)
(* bans, and renders.  A descriptor moves through four maps of the engine  *)
(* (m_handshakes, m_pendingStreams, m_authenticatingSessions, m_sessions); *)
(* m_pollFds is the flat list the loop walks by index and shrinks by       *)
(* swap-removal while it walks.                                            *)
(*                                                                         *)
(* The maps are total functions on Fds with None for an absent key; the    *)
(* value of a present key is the connection the entry was made for, which  *)
(* stands for the keys, counters and buffers the C++ entry owns.           *)
(*                                                                         *)
(* Bytes are counted in pieces.  Whatever a client sends that the engine   *)
(* waits for as a whole (the 32-byte key, the 4-byte window size, an       *)
(* encrypted frame) is Message pieces, so that it can arrive torn.         *)
(***************************************************************************)
EXTENDS Integers, Sequences, FiniteSets

CONSTANTS
    Conns,        \* identities of TCP connections (reused once closed)
    Fds,          \* descriptor numbers the kernel can hand out
    Listener,     \* the descriptor of m_serverSock
    None,         \* no connection
    StoreFile,    \* the open file description of users.txt
    Encryption,   \* EngineConfig::enable_encryption
    Auth,         \* EngineConfig::enable_auth
    MaxKicks,     \* bound: clients kicked in a frame
    Backlog,      \* bound: connections waiting in listen()'s queue
    MaxQueued,    \* bound: pieces waiting in a socket's receive buffer
    FrameCap      \* frames a socket's send buffer takes before send() blocks

Message == 2

ASSUME ListenerAssumption == Listener \notin Fds
ASSUME OwnerAssumption == None \notin Conns /\ StoreFile \notin Conns /\ None # StoreFile
ASSUME ConfigAssumption == Encryption \in BOOLEAN /\ Auth \in BOOLEAN
ASSUME BoundAssumption ==
    /\ MaxKicks \in Nat /\ Backlog \in Nat
    /\ MaxQueued \in Nat /\ MaxQueued >= Message
    /\ FrameCap \in Nat /\ FrameCap >= 1

VARIABLES
    \* the kernel and the clients
    conn,            \* "idle", "queued", "open" or "shut" (the client closed) for each connection
    queue,           \* the accept queue
    owner,           \* what each descriptor refers to
    rx,              \* pieces the server has not received yet
    tx,              \* frames the client has not read yet
    \* the engine
    pc,              \* the phase of the frame loop
    i,               \* the index of the receive loop (position in pollFds)
    pollFds,         \* m_pollFds: a sequence of [fd, in], the listener first
    handshakes,      \* m_handshakes
    got,             \* HandshakeSession::bytes_received
    pendingStreams,  \* m_pendingStreams
    authenticating,  \* m_authenticatingSessions
    sessions,        \* m_sessions
    players,         \* the players m_world was given by init and not told to drop
    kicks,           \* what getKickFds() returned and is not banned yet
    banned,          \* history: those whom banSession() was called for in this frame
    left,            \* entries the auth loop, or sending render workers, have still to deal with
    dirty,           \* those of left whose login screen will be sent
    unserved         \* history: descriptors poll reported and the receive loop has not served

clientVars == <<conn, queue, rx, tx>>
stageVars == <<handshakes, got, pendingStreams, authenticating, sessions, players>>
vars == <<clientVars, owner, pc, i, pollFds, stageVars, kicks, banned, left, dirty, unserved>>

Phases == {"poll", "accept", "recv", "auth", "update", "kick", "render", "stopped", "astray"}
Slot == [fd : Fds \cup {Listener}, in : BOOLEAN]
Entry == Conns \cup {None}

TypeOK ==
    /\ conn \in [Conns -> {"idle", "queued", "open", "shut"}]
    /\ queue \in Seq(Conns)
    /\ owner \in [Fds -> Conns \cup {None, StoreFile}]
    /\ rx \in [Conns -> 0..MaxQueued]
    /\ tx \in [Conns -> 0..FrameCap]
    /\ pc \in Phases
    /\ i \in Nat \ {0}
    /\ pollFds \in Seq(Slot)
    /\ handshakes \in [Fds -> Entry]
    /\ got \in [Fds -> 0..(Message - 1)]
    /\ pendingStreams \in [Fds -> Entry]
    /\ authenticating \in [Fds -> Entry]
    /\ sessions \in [Fds -> Entry]
    /\ players \in [Fds -> Entry]
    /\ kicks \in Seq(Fds)
    /\ banned \subseteq Fds
    /\ left \subseteq Fds
    /\ dirty \subseteq Fds
    /\ unserved \subseteq Fds

Keys(m) == {fd \in Fds : m[fd] # None}
Put(m, fd, c) == [m EXCEPT ![fd] = c]
Erase(m, fd) == [m EXCEPT ![fd] = None]

\* An operator named Bug... is a faulty variant of the definition that follows it: it is
\* used by no specification, only to confirm that a property notices the fault.

\* recv(fd, buf, 32 - bytes_received)
KeyPieces(fd) ==
    LET remaining == Message - got[fd]
    IN  IF rx[owner[fd]] < remaining THEN rx[owner[fd]] ELSE remaining

Init ==
    /\ conn = [c \in Conns |-> "idle"]
    /\ queue = <<>>
    /\ owner = [fd \in Fds |-> None]
    /\ rx = [c \in Conns |-> 0]
    /\ tx = [c \in Conns |-> 0]
    /\ pc = "poll"
    /\ i = 2
    /\ pollFds = <<[fd |-> Listener, in |-> FALSE]>>
    /\ handshakes = [fd \in Fds |-> None]
    /\ got = [fd \in Fds |-> 0]
    /\ pendingStreams = [fd \in Fds |-> None]
    /\ authenticating = [fd \in Fds |-> None]
    /\ sessions = [fd \in Fds |-> None]
    /\ players = [fd \in Fds |-> None]
    /\ kicks = <<>>
    /\ banned = {}
    /\ left = {}
    /\ dirty = {}
    /\ unserved = {}

-----------------------------------------------------------------------------
(* The clients and the kernel.                                             *)

engineVars == <<pc, i, pollFds, stageVars, kicks, banned, left, dirty, unserved>>

\* A client's connect() completes: the connection waits to be accepted.
Connect(c) ==
    /\ conn[c] = "idle"
    /\ Len(queue) < Backlog
    /\ conn' = [conn EXCEPT ![c] = "queued"]
    /\ queue' = Append(queue, c)
    /\ UNCHANGED <<owner, rx, tx, engineVars>>

\* One more piece of a client's byte stream reaches the server's buffer.
SendPiece(c) ==
    /\ conn[c] = "open"
    /\ rx[c] < MaxQueued
    /\ rx' = [rx EXCEPT ![c] = @ + 1]
    /\ UNCHANGED <<conn, queue, owner, tx, engineVars>>

\* A client takes a frame off its socket.
ReadFrame(c) ==
    /\ tx[c] > 0
    /\ tx' = [tx EXCEPT ![c] = @ - 1]
    /\ UNCHANGED <<conn, queue, owner, rx, engineVars>>

\* A client closes, or dies, at any point of its life, even before it is accepted.
Shut(c) ==
    /\ conn[c] \in {"queued", "open"}
    /\ conn' = [conn EXCEPT ![c] = "shut"]
    /\ tx' = [tx EXCEPT ![c] = 0]
    /\ UNCHANGED <<queue, owner, rx, engineVars>>

\* The std::async worker of an AuthContext opens users.txt to save a registration ...
OpenStore(fd) ==
    /\ Auth
    /\ owner[fd] = None
    /\ \A g \in Fds : owner[g] # StoreFile
    /\ Keys(authenticating) # {}
    /\ owner' = [owner EXCEPT ![fd] = StoreFile]
    /\ UNCHANGED <<clientVars, engineVars>>

\* ... and closes it.
CloseStore(fd) ==
    /\ owner[fd] = StoreFile
    /\ owner' = [owner EXCEPT ![fd] = None]
    /\ UNCHANGED <<clientVars, engineVars>>

\* close(fd): whatever the descriptor refers to at that moment is closed.
CloseFd(fd) ==
    LET Other(c) == owner[fd] # c
    IN  /\ owner' = [owner EXCEPT ![fd] = None]
        /\ conn' = [c \in Conns |-> IF Other(c) THEN conn[c] ELSE "idle"]
        /\ rx' = [c \in Conns |-> IF Other(c) THEN rx[c] ELSE 0]
        /\ tx' = [c \in Conns |-> IF Other(c) THEN tx[c] ELSE 0]
        /\ UNCHANGED queue

\* send() on a blocking socket returns once the buffer has room or the peer is gone.
CanSend(c) == conn[c] # "open" \/ tx[c] < FrameCap
SendFrame(c) ==
    /\ CanSend(c)
    /\ tx' = [tx EXCEPT ![c] = IF conn[c] = "open" THEN @ + 1 ELSE @]

-----------------------------------------------------------------------------
(* poll() and accept().                                                    *)

Readable(fd) == rx[owner[fd]] > 0 \/ conn[owner[fd]] = "shut"
Reported(slot) == IF slot.fd = Listener THEN queue # <<>> ELSE Readable(slot.fd)

Poll ==
    /\ pc = "poll"
    /\ pollFds' = [k \in DOMAIN pollFds |-> [pollFds[k] EXCEPT !.in = Reported(pollFds[k])]]
    /\ unserved' = {fd \in Fds : \E k \in 2..Len(pollFds) : pollFds[k].fd = fd /\ Readable(fd)}
    /\ pc' = "accept"
    /\ UNCHANGED <<clientVars, owner, i, stageVars, kicks, banned, left, dirty>>

\* poll() < 0: run() leaves its loop and returns false.
PollFails ==
    /\ pc = "poll"
    /\ pc' = "stopped"
    /\ UNCHANGED <<clientVars, owner, i, pollFds, stageVars, kicks, banned, left, dirty, unserved>>

\* accept() gives one connection of the queue a free descriptor; the greeting
\* (33 bytes, or 1) always fits the buffer of a fresh socket.
Accept(fd) ==
    /\ pc = "accept"
    /\ pollFds[1].in
    /\ owner[fd] = None
    /\ owner' = [owner EXCEPT ![fd] = Head(queue)]
    /\ queue' = Tail(queue)
    /\ conn' = [conn EXCEPT ![Head(queue)] = IF @ = "queued" THEN "open" ELSE @]
    /\ IF Encryption
       THEN /\ handshakes' = Put(handshakes, fd, Head(queue))
            /\ got' = [got EXCEPT ![fd] = 0]
            /\ UNCHANGED pendingStreams
       ELSE /\ pendingStreams' = Put(pendingStreams, fd, Head(queue))
            /\ UNCHANGED <<handshakes, got>>
    /\ pollFds' = Append(pollFds, [fd |-> fd, in |-> FALSE])
    /\ pc' = "recv"
    /\ i' = 2
    /\ UNCHANGED <<rx, tx, authenticating, sessions, players, kicks, banned, left, dirty, unserved>>

\* Nobody is waiting, or the process is out of descriptors and accept() fails.
AcceptNothing ==
    /\ pc = "accept"
    /\ pollFds[1].in => \A fd \in Fds : owner[fd] # None
    /\ pc' = "recv"
    /\ i' = 2
    /\ UNCHANGED <<clientVars, owner, pollFds, stageVars, kicks, banned, left, dirty, unserved>>

-----------------------------------------------------------------------------
(* The receive loop: for (i = 1; i < m_pollFds.size(); ++i).               *)

BugSwapRemove(s, k) == SubSeq(s, 1, Len(s) - 1)
SwapRemove(s, k) == [j \in 1..(Len(s) - 1) |-> IF j = k THEN s[Len(s)] ELSE s[j]]

BugEof(c) == FALSE
\* recv() answers 0, or fails because the peer is gone.
Eof(c) == conn[c] = "shut" /\ rx[c] = 0

\* The slot under the index has POLLIN: it is served now.
Serving(fd) ==
    /\ pc = "recv"
    /\ i <= Len(pollFds)
    /\ pollFds[i].in
    /\ fd = pollFds[i].fd
    /\ unserved' = unserved \ {fd}
    /\ UNCHANGED <<pc, kicks, banned, left, dirty>>

BugAdvance == UNCHANGED <<i, pollFds>>
Advance == i' = i + 1 /\ UNCHANGED pollFds

BugDrop(fd) ==
    /\ CloseFd(fd)
    /\ pollFds' = SwapRemove(pollFds, i)
    /\ i' = i + 1

\* close(fd); m_pollFds[i] = m_pollFds.back(); pop_back(); --i (and the loop's ++i)
Drop(fd) ==
    /\ CloseFd(fd)
    /\ pollFds' = SwapRemove(pollFds, i)
    /\ i' = i

SkipSlot ==
    /\ pc = "recv"
    /\ i <= Len(pollFds)
    /\ ~pollFds[i].in
    /\ Advance
    /\ UNCHANGED <<clientVars, owner, pc, stageVars, kicks, banned, left, dirty, unserved>>

\* Handshake stage: recv() the rest of the client's key.
RecvKey(fd) ==
    LET n == KeyPieces(fd)
    IN  /\ Serving(fd)
        /\ handshakes[fd] # None
        /\ ~Eof(owner[fd])
        /\ rx' = [rx EXCEPT ![owner[fd]] = @ - n]
        /\ IF got[fd] + n = Message
           THEN /\ pendingStreams' = Put(pendingStreams, fd, handshakes[fd])
                /\ handshakes' = Erase(handshakes, fd)
                /\ got' = [got EXCEPT ![fd] = 0]
           ELSE /\ got' = [got EXCEPT ![fd] = @ + n]
                /\ UNCHANGED <<pendingStreams, handshakes>>
        /\ Advance
        /\ UNCHANGED <<conn, queue, tx, owner, authenticating, sessions, players>>

CloseHandshake(fd) ==
    /\ Serving(fd)
    /\ handshakes[fd] # None
    /\ Eof(owner[fd])
    /\ handshakes' = Erase(handshakes, fd)
    /\ got' = [got EXCEPT ![fd] = 0]
    /\ Drop(fd)
    /\ UNCHANGED <<pendingStreams, authenticating, sessions, players>>

\* The descriptor has no session of any kind yet.
Fresh(fd) == handshakes[fd] = None /\ sessions[fd] = None /\ authenticating[fd] = None

BugSizeReady(c) == rx[c] > Message
SizeReady(c) == rx[c] >= Message

BugTakeStream(fd) == UNCHANGED pendingStreams
TakeStream(fd) == pendingStreams' = Erase(pendingStreams, fd)

BugOpenToGuests == Auth
OpenToGuests == ~Auth

\* The session is active, and init() tells the world of its player.
Join(fd, c) ==
    /\ sessions' = Put(sessions, fd, c)
    /\ players' = Put(players, fd, c)

BugLeave(fd) ==
    /\ sessions' = Erase(sessions, fd)
    /\ UNCHANGED players
\* context->onDisconnect(m_world), and the session is destroyed.
Leave(fd) ==
    /\ players' = Erase(players, fd)
    /\ sessions' = Erase(sessions, fd)

\* A complete window size: the session is made, authenticated or not.
RecvSize(fd) ==
    LET c == pendingStreams[fd]
    IN  /\ Serving(fd)
        /\ Fresh(fd)
        /\ c # None
        /\ SizeReady(owner[fd])
        /\ rx' = [rx EXCEPT ![owner[fd]] = @ - Message]
        /\ TakeStream(fd)
        /\ IF OpenToGuests
           THEN Join(fd, c) /\ UNCHANGED authenticating
           ELSE /\ authenticating' = Put(authenticating, fd, c)
                /\ UNCHANGED <<sessions, players>>
        /\ Advance
        /\ UNCHANGED <<conn, queue, tx, owner, handshakes, got>>

\* Too few bytes for a window size: nothing is consumed, the next frame tries again.
AwaitSize(fd) ==
    /\ Serving(fd)
    /\ Fresh(fd)
    /\ pendingStreams[fd] # None
    /\ ~SizeReady(owner[fd])
    /\ ~Eof(owner[fd])
    /\ Advance
    /\ UNCHANGED <<clientVars, owner, stageVars>>

\* recv_encrypted_frame() answers -1 for a frame that is oversized or does not
\* authenticate, and may answer -1 for a lone byte (a stale errno decides).
FrameRejected(c) == Encryption /\ rx[c] > 0

CloseBeforeSize(fd) ==
    /\ Serving(fd)
    /\ Fresh(fd)
    /\ pendingStreams[fd] = None \/ Eof(owner[fd]) \/ FrameRejected(owner[fd])
    /\ pendingStreams' = Erase(pendingStreams, fd)
    /\ Drop(fd)
    /\ UNCHANGED <<handshakes, got, authenticating, sessions, players>>

\* An authenticating or active session receives input: plaintext takes what is
\* there, encrypted takes every complete frame and leaves a torn one.
HasSession(fd) == handshakes[fd] = None /\ (sessions[fd] # None \/ authenticating[fd] # None)

\* In encrypted mode the loop meets the end of the stream in the pass that reads the last frame.
EofInPass(c) == conn[c] = "shut" /\ (rx[c] = 0 \/ (Encryption /\ rx[c] % Message = 0))

RecvInput(fd) ==
    /\ Serving(fd)
    /\ HasSession(fd)
    /\ ~EofInPass(owner[fd])
    /\ rx' = [rx EXCEPT ![owner[fd]] = IF Encryption THEN @ % Message ELSE 0]
    /\ Advance
    /\ UNCHANGED <<conn, queue, tx, owner, stageVars>>

StoreOpen == \E g \in Fds : owner[g] = StoreFile

\* An AuthContext is destroyed only after its worker: the destructor of the future
\* that std::async returned waits, and update() reports success after get().
WorkerDone(fd) == Keys(authenticating) = {fd} => ~StoreOpen

\* onDisconnect only for a session that is active.
Disconnect(fd) ==
    /\ Serving(fd)
    /\ HasSession(fd)
    /\ EofInPass(owner[fd]) \/ FrameRejected(owner[fd])
    /\ IF sessions[fd] # None
       THEN Leave(fd) /\ UNCHANGED authenticating
       ELSE /\ WorkerDone(fd)
            /\ authenticating' = Erase(authenticating, fd)
            /\ UNCHANGED <<players, sessions>>
    /\ Drop(fd)
    /\ UNCHANGED <<handshakes, got, pendingStreams>>

RecvDone ==
    /\ pc = "recv"
    /\ i > Len(pollFds)
    /\ pc' = "auth"
    /\ i' = 2
    /\ left' = Keys(authenticating)
    /\ dirty' \in SUBSET left'
    /\ UNCHANGED <<clientVars, owner, pollFds, stageVars, kicks, banned, unserved>>

-----------------------------------------------------------------------------
(* The auth loop, the game update, the bans, the render workers.           *)

\* authContext->update() and render(), a frame if the screen is dirty, and the
\* move to m_sessions when update() reports success.
AuthStep(fd) ==
    LET c == authenticating[fd]
    IN  /\ pc = "auth"
        /\ fd \in left
        /\ left' = left \ {fd}
        /\ dirty' = dirty \ {fd}
        /\ IF fd \in dirty THEN SendFrame(owner[fd]) ELSE UNCHANGED tx
        /\ \/ /\ WorkerDone(fd)
              /\ Join(fd, c)
              /\ authenticating' = Erase(authenticating, fd)
           \/ UNCHANGED <<sessions, players, authenticating>>
        /\ UNCHANGED <<conn, queue, rx, owner, pc, i, pollFds,
                       handshakes, got, pendingStreams, kicks, banned, unserved>>

AuthDone ==
    /\ pc = "auth"
    /\ left = {}
    /\ pc' = "update"
    /\ UNCHANGED <<clientVars, owner, i, pollFds, stageVars, kicks, banned, left, dirty, unserved>>

\* What a world may ask to be kicked: clients it knows, in any order, and one of them as
\* often as it likes (the chat room does so when two players ban a third in one frame).
BugKickLists == UNION {[1..n -> Fds] : n \in 0..MaxKicks}
KickLists == UNION {[1..n -> Keys(players)] : n \in 0..MaxKicks}

\* preUpdate, every session's update, globalUpdate, getKickFds.
GameUpdate ==
    /\ pc = "update"
    /\ kicks' \in KickLists
    /\ pc' = "kick"
    /\ UNCHANGED <<clientVars, owner, i, pollFds, stageVars, banned, left, dirty, unserved>>

\* banSession(fd); banUser waits for the store's mutex, which a worker that has
\* users.txt open holds.  close(fd) is called whatever was found, so the second ban of one
\* client closes what the number refers to by then.  If that is users.txt, the worker goes
\* on to write to, and to close, a number that is not its own: "astray" is the state of a
\* process in which this has happened, and what it does next is not specified.
BanSession ==
    LET fd == Head(kicks)
        Slots == {k \in DOMAIN pollFds : pollFds[k].fd = fd}
    IN  /\ pc = "kick"
        /\ kicks # <<>>
        /\ kicks' = Tail(kicks)
        /\ banned' = banned \cup {fd}
        /\ pc' = IF owner[fd] = StoreFile THEN "astray" ELSE "kick"
        /\ handshakes' = Erase(handshakes, fd)
        /\ got' = [got EXCEPT ![fd] = 0]
        /\ IF sessions[fd] # None
           THEN /\ ~StoreOpen
                /\ Leave(fd)
                /\ UNCHANGED authenticating
           ELSE /\ authenticating' = Erase(authenticating, fd)
                /\ UNCHANGED <<players, sessions>>
        /\ CloseFd(fd)
        /\ pollFds' = IF Slots = {} THEN pollFds
                      ELSE SwapRemove(pollFds, CHOOSE k \in Slots : \A m \in Slots : k <= m)
        /\ UNCHANGED <<i, pendingStreams, left, dirty, unserved>>

\* The world and the sessions decide whose render() returns true.
StartRender ==
    /\ pc = "kick"
    /\ kicks = <<>>
    /\ pc' = "render"
    /\ banned' = {}
    /\ left' \in SUBSET Keys(sessions)
    /\ UNCHANGED <<clientVars, owner, i, pollFds, stageVars, kicks, dirty, unserved>>

\* One worker of for_each(par) sends its frame.
RenderStep(fd) ==
    /\ pc = "render"
    /\ fd \in left
    /\ left' = left \ {fd}
    /\ SendFrame(owner[fd])
    /\ UNCHANGED <<conn, queue, rx, owner, pc, i, pollFds, stageVars, kicks, banned, dirty, unserved>>

\* The workers are joined; nextFrame, postUpdate, endFrame, sleep.
EndFrame ==
    /\ pc = "render"
    /\ left = {}
    /\ pc' = "poll"
    /\ UNCHANGED <<clientVars, owner, i, pollFds, stageVars, kicks, banned, left, dirty, unserved>>

Stopped == pc \in {"stopped", "astray"} /\ UNCHANGED vars

-----------------------------------------------------------------------------
RecvFd(fd) ==
    \/ RecvKey(fd) \/ CloseHandshake(fd)
    \/ RecvSize(fd) \/ AwaitSize(fd) \/ CloseBeforeSize(fd)
    \/ RecvInput(fd) \/ Disconnect(fd)

Loop ==
    \/ Poll
    \/ (\E fd \in Fds : Accept(fd)) \/ AcceptNothing
    \/ SkipSlot \/ (\E fd \in Fds : RecvFd(fd)) \/ RecvDone
    \/ (\E fd \in Fds : AuthStep(fd)) \/ AuthDone
    \/ GameUpdate \/ BanSession \/ StartRender
    \/ (\E fd \in Fds : RenderStep(fd)) \/ EndFrame

Store == \E fd \in Fds : OpenStore(fd) \/ CloseStore(fd)

Client(c) == Connect(c) \/ SendPiece(c) \/ ReadFrame(c) \/ Shut(c)

Next == Loop \/ PollFails \/ Stopped \/ Store \/ \E c \in Conns : Client(c)

Spec == Init /\ [][Next]_vars

\* The loop thread and the store worker run; clients take frames off their sockets.
Fairness ==
    /\ WF_vars(Loop)
    /\ \A fd \in Fds : WF_vars(CloseStore(fd))
    /\ \A c \in Conns : WF_vars(ReadFrame(c))

FairSpec == Spec /\ Fairness

-----------------------------------------------------------------------------
(* Safety.                                                                 *)

FdAt(k) == pollFds[k].fd
Clients == {fd \in Fds : owner[fd] \in Conns}
Staged == Keys(handshakes) \cup Keys(pendingStreams) \cup Keys(authenticating) \cup Keys(sessions)

\* m_pollFds holds the listener first and then every open client socket once, and
\* the client sockets are the keys of the four maps: no swap-removal, ban or
\* promotion leaks a socket, polls one twice or leaves a closed one behind.
PollSetIsStages ==
    /\ pollFds # <<>> /\ FdAt(1) = Listener
    /\ {FdAt(k) : k \in 2..Len(pollFds)} = Clients
    /\ \A j, k \in 1..Len(pollFds) : FdAt(j) = FdAt(k) => j = k
    /\ Staged = Clients

\* Every entry of a map was made for the connection its descriptor refers to now,
\* and a connection has an entry in one map only: a reused descriptor never meets
\* the key, the counters or the player of the client that had it before.
StageIsOwned ==
    \A fd \in Fds : \A m \in {<<1, handshakes[fd]>>, <<2, pendingStreams[fd]>>,
                              <<3, authenticating[fd]>>, <<4, sessions[fd]>>} :
        m[2] # None =>
            /\ m[2] = owner[fd]
            /\ (handshakes[fd] # None) = (m[1] = 1)
            /\ (pendingStreams[fd] # None) = (m[1] = 2)
            /\ (authenticating[fd] # None) = (m[1] = 3)
            /\ (sessions[fd] # None) = (m[1] = 4)

\* The world knows exactly the active sessions: init and onDisconnect are paired on
\* every path, disconnection, ban and failed login included.
WorldMatchesSessions == players = sessions

\* The receive loop serves each descriptor poll() reported once: the slots ahead of
\* the index that still carry POLLIN are the reported descriptors not served yet,
\* although every removal moves a slot, and none is left when the loop ends.
ServedExactlyOnce ==
    unserved = IF pc \in {"accept", "recv"}
               THEN {FdAt(k) : k \in {k \in 2..Len(pollFds) : pollFds[k].in /\ (pc = "recv" => k >= i)}}
               ELSE {}

\* The auth loop's iterator and the render workers' raw ActiveSession pointers only
\* lead to entries that are still in their map.
PointersAreLive ==
    /\ pc = "auth" => left \subseteq Keys(authenticating)
    /\ pc = "render" => left \subseteq Keys(sessions)

\* users.txt is taken from the worker that saves to it by nobody but itself, or by the second
\* ban of one client in a frame: no reaping and no first ban closes a number that has become
\* somebody else's, though numbers are reused at once.
StoreFileGuarded ==
    [][\A fd \in Fds : owner[fd] = StoreFile /\ owner'[fd] # StoreFile =>
           CloseStore(fd) \/ (pc = "kick" /\ fd \in banned)]_vars

\* "Saves to a file in text form": saveToFile() has its file until it closes it, whatever the
\* engine bans meanwhile.
StoreFileKept ==
    [][\A fd \in Fds : owner[fd] = StoreFile /\ owner'[fd] # StoreFile => CloseStore(fd)]_vars

\* A connection reaches a stage only from the stage before it: no session without the
\* authentication, none without a window size, none without the key exchange.
StepInOrder ==
    \A fd \in Fds :
        /\ sessions'[fd] \notin {None, sessions[fd]} =>
               sessions'[fd] = IF Auth THEN authenticating[fd] ELSE pendingStreams[fd]
        /\ authenticating'[fd] \notin {None, authenticating[fd]} =>
               authenticating'[fd] = pendingStreams[fd]
        /\ pendingStreams'[fd] \notin {None, pendingStreams[fd]} /\ Encryption =>
               pendingStreams'[fd] = handshakes[fd]
StagesInOrder == [][StepInOrder]_vars

\* The loop as a world sees it.
WorldPhase ==
    CASE pc = "update" -> "play" [] pc \in {"kick", "astray"} -> "ban" [] pc = "render" -> "draw" [] OTHER -> "gather"

\* Before poll() anybody may come or go; after it those whom it reported and the receive loop
\* has not served yet, and those who are logging in.
MayMove == IF pc \in {"poll", "stopped"} THEN Fds ELSE unserved \cup Keys(authenticating)

World == INSTANCE GameWorld WITH phase <- WorldPhase, known <- Keys(players), may <- MayMove, asked <- kicks

\* The loop keeps its side of the contract with the world: init() and onDisconnect() alternate
\* for each player, at most one of them comes in a frame, none between update() and the end of
\* the frame but for the bans, and every ban that was asked for is carried out before anything
\* is drawn, though a disconnection may race a login and a kick a disconnection.
KeepsWorldContract == World!Spec

(* Liveness, under FairSpec.                                               *)

\* The frame loop always comes round: no handler waits for something that only the
\* loop itself would bring about.
LoopComesRound == []<>(pc \in {"poll", "stopped"})

\* A torn message at the head of a stage that peeks: recv() never answers 0.
Torn(fd) ==
    /\ rx[owner[fd]] % Message # 0
    /\ handshakes[fd] = None
    /\ Encryption \/ pendingStreams[fd] # None

\* A client that closed is found out and its connection, session and player go,
\* unless the bytes it left behind end in the middle of a message.
ClosedIsReaped ==
    \A fd \in Fds : fd \in Clients /\ conn[owner[fd]] = "shut"
                        ~> fd \notin Clients \/ Torn(fd) \/ pc = "stopped"

\* "Receive and disconnect detection": a client that closed is found out, whatever it left.
EveryClosedIsReaped ==
    \A fd \in Fds : fd \in Clients /\ conn[owner[fd]] = "shut"
                        ~> fd \notin Clients \/ conn[owner[fd]] # "shut" \/ pc = "stopped"

\* A client whose window size has arrived leaves the waiting stage.
SizeIsServed ==
    \A fd \in Fds : pendingStreams[fd] # None /\ rx[owner[fd]] >= Message
                        ~> pendingStreams[fd] = None \/ pc = "stopped"
=============================================================================
