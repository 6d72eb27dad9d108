----------------------------- MODULE ClientLoop -----------------------------
(***************************************************************************)
(* The terminal client (client.cpp): one thread that connects, announces   *)
(* its window and then waits in poll() for the keyboard or the server, and *)
(* a signal handler that sets a flag.  It stands at the two sockets'       *)
(* buffers, which are bounded: send() blocks on both sides.  The server is *)
(* reduced to what the client sees of Engine.  Emulator adds the other     *)
(* client to these calls and has the specification of both.                *)
(***************************************************************************)
EXTENDS Integers, Sequences, SequencesExt

CONSTANTS
    Frames,     \* bound: frames the server sends
    Keys,       \* bound: keys the user types
    UpCap,      \* bound: messages on their way to the server before send() blocks
    DownCap     \* bound: pieces on their way to the client before send() blocks

ASSUME BoundsAssumption == Frames \in Nat /\ Keys \in Nat /\ UpCap \in Nat \ {0} /\ DownCap \in Nat \ {0}

VARIABLES
    pc,             \* the call the client is in, or about to make
    got,            \* pieces it has read of the packet it is reading
    shown,          \* the last frame it drew
    exitRequested,  \* g_exit_requested
    interrupted,    \* a signal came while the client was blocked: the call answers EINTR
    typed,          \* keys typed so far
    keys,           \* keys waiting in stdin
    stdin,          \* "open", or how it ended: a file answers POLLIN for ever, a pipe POLLHUP
    up,             \* the messages on their way to the server
    down,           \* the pieces on their way to the client
    encrypted,      \* the mode the server announces
    stage,          \* what the server expects next of this client
    outgoing,       \* the pieces the server is sending, blocked as long as there is no room
    sent,           \* the last frame the server has started to send
    gone,           \* the server has closed the connection, or died
    reset           \* ... and has answered what it had not read by a reset

clientVars == <<pc, got, shown, interrupted>>
userVars == <<typed, keys, stdin>>
serverVars == <<encrypted, stage, outgoing, sent>>
wire == <<up, down>>
fate == <<gone, reset>>
clientLoopVars == <<clientVars, exitRequested, userVars, serverVars, wire, fate>>

Sending == {"sendKey", "sendSize", "sendInput"}
Ended == {"closed", "killed"}
Left == {"join"} \cup Ended     \* the emulator joins its other thread first

\* What the server writes: packet 0 is its mode and, if that is encryption, its public key; a
\* frame is a length, a size and the picture, or a length and the rest under one seal.
Pieces(n) ==
    CASE n = 0 /\ encrypted -> <<<<0, 1>>, <<0, 2>>>>
      [] n = 0 /\ ~encrypted -> <<<<0, 1>>>>
      [] n > 0 /\ encrypted -> <<<<n, 1>>, <<n, 2>>>>
      [] n > 0 /\ ~encrypted -> <<<<n, 1>>, <<n, 2>>, <<n, 3>>>>

ClientInit ==
    /\ pc = "hello" /\ got = 0 /\ shown = 0
    /\ exitRequested = FALSE /\ interrupted = FALSE
    /\ typed = 0 /\ keys = 0 /\ stdin = "open"
    /\ up = <<>> /\ down = <<>>
    /\ encrypted \in BOOLEAN
    /\ stage = IF encrypted THEN "key" ELSE "size"
    /\ outgoing = Pieces(0)
    /\ sent = 0
    /\ gone = FALSE /\ reset = FALSE

-----------------------------------------------------------------------------
(* The user, the signals and the server.                                   *)

Type ==
    /\ stdin = "open" /\ typed < Keys
    /\ typed' = typed + 1 /\ keys' = keys + 1
    /\ UNCHANGED <<clientVars, exitRequested, stdin, serverVars, wire, fate>>

EndOfInput ==
    /\ stdin = "open"
    /\ stdin' \in {"file", "pipe"}
    /\ UNCHANGED <<clientVars, exitRequested, typed, keys, serverVars, wire, fate>>

\* Whether the client was blocked already is the scheduler's choice; without SA_RESTART the
\* call is interrupted then.
Signal ==
    /\ pc \notin Ended
    /\ exitRequested' = TRUE
    /\ interrupted' \in IF pc = "check" THEN {interrupted} ELSE {interrupted, TRUE}
    /\ UNCHANGED <<pc, got, shown, userVars, serverVars, wire, fate>>

ServerTakes ==
    /\ ~gone /\ outgoing = <<>>
    /\ up # <<>> /\ Head(up) = stage
    /\ up' = Tail(up)
    /\ stage' = IF stage = "key" THEN "size" ELSE "input"
    /\ UNCHANGED <<clientVars, exitRequested, userVars, encrypted, outgoing, sent, down, fate>>

ServerDraws ==
    /\ ~gone /\ outgoing = <<>>
    /\ stage = "input" /\ sent < Frames
    /\ sent' = sent + 1
    /\ outgoing' = Pieces(sent + 1)
    /\ UNCHANGED <<clientVars, exitRequested, userVars, encrypted, stage, wire, fate>>

ServerSends ==
    /\ ~gone /\ outgoing # <<>> /\ Len(down) < DownCap
    /\ down' = Append(down, Head(outgoing))
    /\ outgoing' = Tail(outgoing)
    /\ UNCHANGED <<clientVars, exitRequested, userVars, encrypted, stage, sent, up, fate>>

\* A close, a ban or a crash: the rest of a frame is never sent.
ServerCloses ==
    /\ ~gone
    /\ gone' = TRUE
    /\ outgoing' = <<>>
    /\ UNCHANGED <<clientVars, exitRequested, userVars, encrypted, stage, sent, wire, reset>>

ServerResets ==
    /\ gone /\ ~reset /\ up # <<>>
    /\ reset' = TRUE
    /\ UNCHANGED <<clientVars, exitRequested, userVars, serverVars, wire, gone>>

-----------------------------------------------------------------------------
(* The calls that block.  Each of the client's steps is a call's return.   *)

Go(label) == pc' = label /\ got' = 0 /\ interrupted' = FALSE
Rest == UNCHANGED <<exitRequested, typed, stdin, serverVars, fate>>

\* recv() answers a piece in full (recv_exact_raw reads on until it has it) ...
Receive ==
    /\ down # <<>>
    /\ down' = Tail(down)
\* ... or end of stream, a reset or EINTR: whatever was read so far, the client closes.
RecvFails ==
    /\ pc \in {"hello", "read"}
    /\ interrupted \/ reset \/ (gone /\ down = <<>>)
    /\ Go("closed")
    /\ Rest /\ UNCHANGED <<shown, keys, wire>>

\* connect(): the mode, and the key if there is one to come.
HelloPiece ==
    /\ pc = "hello" /\ Receive
    /\ IF encrypted /\ got = 0
       THEN pc' = pc /\ got' = 1 /\ UNCHANGED interrupted
       ELSE Go(IF encrypted THEN "sendKey" ELSE "sendSize")
    /\ Rest /\ UNCHANGED <<shown, keys, up>>

Message == CASE pc = "sendKey" -> "key" [] pc = "sendSize" -> "size" [] pc = "sendInput" -> "input"

\* send() finds room; once the window is announced the loop begins.
Send ==
    /\ pc \in Sending /\ ~reset
    /\ Len(up) < UpCap
    /\ up' = Append(up, Message)
    /\ Go(IF pc = "sendKey" THEN "sendSize" ELSE "check")
    /\ Rest /\ UNCHANGED <<shown, keys, down>>

\* It is interrupted, or the connection was reset: main() leaves if that was the handshake, and
\* ignores the answer if it was a key.
SendFails ==
    /\ pc \in Sending
    /\ reset \/ interrupted
    /\ Go(IF pc = "sendInput" THEN "check" ELSE "closed")
    /\ Rest /\ UNCHANGED <<shown, keys, wire>>

\* A broken pipe raises SIGPIPE, which the client does not handle.
BrokenPipe ==
    /\ pc \in Sending /\ reset
    /\ Go("killed")
    /\ Rest /\ UNCHANGED <<shown, keys, wire>>

-----------------------------------------------------------------------------
(* The loop of main().                                                     *)

BugLeaving == interrupted
Leaving == exitRequested

Check ==
    /\ pc = "check"
    /\ pc' = IF Leaving THEN "closed" ELSE "poll"
    /\ Rest /\ UNCHANGED <<got, shown, interrupted, keys, wire>>

BugStdinReadable == keys > 0 \/ stdin # "open"
StdinReadable == keys > 0 \/ stdin = "file"
SocketReadable == down # <<>> \/ gone
Reported == StdinReadable \/ stdin = "pipe" \/ SocketReadable

\* poll_events(): -1 for a socket that failed, but the keyboard is asked first.
PollFails ==
    /\ pc = "poll"
    /\ reset /\ ~StdinReadable
    /\ Go("closed")
    /\ Rest /\ UNCHANGED <<shown, keys, wire>>

\* read_stdin(ch) > 0
KeyRead == keys > 0

\* 2: one key is read and sent.  At the end of a file read_stdin() answers 0 and that is all.
PollStdin ==
    /\ pc = "poll"
    /\ StdinReadable
    /\ keys' = IF ~Leaving /\ KeyRead THEN keys - 1 ELSE keys
    /\ Go(IF Leaving THEN "closed" ELSE IF KeyRead THEN "sendInput" ELSE "check")
    /\ Rest /\ UNCHANGED <<shown, wire>>

\* 1: a packet is read.
PollSocket ==
    /\ pc = "poll"
    /\ ~StdinReadable /\ ~reset /\ SocketReadable
    /\ Go(IF Leaving THEN "closed" ELSE "read")
    /\ Rest /\ UNCHANGED <<shown, keys, wire>>

\* 0: interrupted, or only told that the keyboard's pipe has hung up.
PollNothing ==
    /\ pc = "poll"
    /\ interrupted \/ (stdin = "pipe" /\ ~StdinReadable /\ ~SocketReadable)
    /\ Go(IF Leaving THEN "closed" ELSE "check")
    /\ Rest /\ UNCHANGED <<shown, keys, wire>>

BugPacketPieces == 2
\* recv_packet_header() and recv_exact(): the reads that make up a frame.
PacketPieces == IF encrypted THEN 2 ELSE 3

ReadPiece(after) ==
    /\ pc = "read" /\ Receive
    /\ IF got + 1 < PacketPieces
       THEN got' = got + 1 /\ UNCHANGED <<pc, shown, interrupted>>
       ELSE Go(after) /\ shown' = Head(down)[1]
    /\ Rest /\ UNCHANGED <<keys, up>>

Client ==
    \/ HelloPiece \/ RecvFails \/ Send \/ SendFails \/ BrokenPipe
    \/ Check \/ PollFails \/ PollStdin \/ PollSocket \/ PollNothing \/ ReadPiece("check")
Server == ServerTakes \/ ServerSends \/ ServerResets

\* Both ends wait for the other in send(): nothing but a signal or a close ends it.
MutuallyBlocked == pc = "sendInput" /\ Len(up) = UpCap /\ outgoing # <<>> /\ Len(down) = DownCap
\* A signal between the check and poll() is not noticed before something is reported.
NothingReported == pc = "poll" /\ ~Reported /\ ~interrupted

\* The ends a behaviour may come to.
Quiet ==
    /\ pc \in Ended \/ MutuallyBlocked \/ NothingReported
    /\ UNCHANGED clientLoopVars

User == Type \/ EndOfInput \/ Signal

-----------------------------------------------------------------------------
\* The client is never in the middle of a packet when it takes one for the beginning of another:
\* what it will read next is the piece it expects, in either mode, through interrupted calls
\* and a server that dies while it sends.
StreamInStep ==
    LET stream == down \o outgoing
    IN  pc \in Left \/ stream = <<>> \/
        Head(stream) = CASE pc = "hello" -> <<0, got + 1>>
                         [] pc = "read"  -> <<shown + 1, got + 1>>
                         [] OTHER        -> <<shown + 1, 1>>

Written(n) == \E k \in DOMAIN down : down[k] = Last(Pieces(n))

\* A signal ends the client, wherever it stands, except that it comes too late for the check
\* and too early for poll(), or that both ends wait for each other.
SignalIsObeyed == exitRequested ~> (pc \in Ended \/ NothingReported \/ MutuallyBlocked)
=============================================================================
