--------------------------- MODULE SecureChannel ----------------------------
(***************************************************************************)
(* The encrypted transport between one client and the engine, once the     *)
(* keys are exchanged: EncryptedStream (one at each end) seals a payload   *)
(* into a frame under a nonce made of the direction and a counter; the     *)
(* engine takes frames with recv_encrypted_frame, which peeks before it    *)
(* consumes; the client takes them with blocking reads.  Both ends send with *)
(* blocking calls: who is in send() waits for room in the connection, the  *)
(* engine's only thread as well.                                           *)
(*                                                                         *)
(* A frame is three pieces on the wire, which are written and arrive one   *)
(* at a time: the two bytes of its header, and the payload with its tag.   *)
(***************************************************************************)
EXTENDS Integers, Sequences

CONSTANTS
    MaxUp,        \* bound: frames the client sends
    MaxDown,      \* bound: frames the engine sends
    MaxFaults,    \* bound: times the network damages, repeats or drops a frame
    Cap           \* pieces the buffers of a direction take before send() blocks

ASSUME BoundAssumption == MaxUp \in Nat /\ MaxDown \in Nat /\ MaxFaults \in Nat

Up == "client_to_server"
Down == "server_to_client"
Dirs == {Up, Down}
Pieces == 3
ASSUME CapAssumption == Cap \in Nat /\ Cap >= Pieces

\* What the engine tells apart in a frame it receives: nothing inside, too little for a window
\* size, more than max_receive_frame_size.  The client has no limit, and no picture is too short.
Sizes == {"empty", "short", "full", "oversized"}
\* The n-th payload of a direction is called n.
MaxSent(d) == IF d = Up THEN MaxUp ELSE MaxDown
Payloads == [n : 1..MaxUp \cup 1..MaxDown, size : Sizes]

VARIABLES
    sent,        \* history: the payloads sealed in each direction
    delivered,   \* history: the payloads unsealed
    txCounter,   \* EncryptedStream::tx_counter of the sender
    rxCounter,   \* EncryptedStream::rx_counter of the receiver
    wire,        \* the frames between the two ends, the next one to be taken first
    written,     \* the pieces of them that send() has put into the connection: they will arrive
    arrived,     \* the pieces in the receiver's socket buffer
    errno,       \* of the engine's main thread: is it EAGAIN?
    server,      \* the engine, towards this client: "idle", "pass" (in its receive loop), "sending", "gone"
    client,      \* "running", "reading" (inside recv_packet_header), "deaf" (reads no more), "gone"
    sending,     \* is the client inside send()?
    threaded,    \* does it send from a thread of its own, as the emulator does?
    why,         \* history: why the engine gave the client up
    faults       \* faults of the network so far

wireVars == <<wire, written, arrived>>
clientVars == <<client, sending, threaded>>
vars == <<sent, delivered, txCounter, rxCounter, wireVars, errno, server, clientVars, why, faults>>

\* counter -1: damaged, no key and nonce open it.
Frame == [dir : Dirs, counter : Nat \cup {-1}, payload : Payloads]

TypeOK ==
    /\ sent \in [Dirs -> Seq(Payloads)]
    /\ delivered \in [Dirs -> Seq(Payloads)]
    /\ txCounter \in [Dirs -> Nat]
    /\ rxCounter \in [Dirs -> Nat]
    /\ wire \in [Dirs -> Seq(Frame)]
    /\ written \in [Dirs -> Nat]
    /\ arrived \in [Dirs -> Nat]
    /\ \A d \in Dirs : arrived[d] <= written[d] /\ written[d] <= Pieces * Len(wire[d])
    /\ errno \in {"EAGAIN", "other"}
    /\ server \in {"idle", "pass", "sending", "gone"}
    /\ client \in {"running", "reading", "deaf", "gone"}
    /\ sending \in BOOLEAN
    /\ threaded \in BOOLEAN
    /\ why \in {"none", "closed", "torn", "rejected", "oversized", "short", "banned"}
    /\ faults \in 0..MaxFaults

Init ==
    /\ sent = [d \in Dirs |-> <<>>]
    /\ delivered = [d \in Dirs |-> <<>>]
    /\ txCounter = [d \in Dirs |-> 0]
    /\ rxCounter = [d \in Dirs |-> 0]
    /\ wire = [d \in Dirs |-> <<>>]
    /\ written = [d \in Dirs |-> 0]
    /\ arrived = [d \in Dirs |-> 0]
    /\ errno = "other"
    /\ server = "idle"
    /\ client = "running"
    /\ sending = FALSE
    /\ threaded \in BOOLEAN
    /\ why = "none"
    /\ faults = 0

-----------------------------------------------------------------------------
(* EncryptedStream                                                         *)

Sealed(d, counter, m) == [dir |-> d, counter |-> counter, payload |-> m]

\* What d may be given to seal.  Once something was sent the engine expects input, of which
\* any that is not empty and not too long will do.
SizesOf(d) ==
    IF d = Down THEN {"full"}
    ELSE IF \A n \in 1..Len(sent[Up]) : sent[Up][n].size = "empty" THEN Sizes ELSE Sizes \ {"short"}

\* send() has put as much of n frames into the connection as there is room for.
Room(n) == IF Pieces * n <= Cap THEN Pieces * n ELSE Cap

\* wrap_outgoing, and the first thing send() does with the frame.
Seal(d) ==
    /\ txCounter[d] < MaxSent(d)
    /\ \E size \in SizesOf(d) :
          LET m == [n |-> Len(sent[d]) + 1, size |-> size]
          IN  /\ sent' = [sent EXCEPT ![d] = Append(@, m)]
              /\ wire' = [wire EXCEPT ![d] = Append(@, Sealed(d, txCounter[d], m))]
    /\ txCounter' = [txCounter EXCEPT ![d] = @ + 1]
    /\ written' = [written EXCEPT ![d] = Room(Len(wire'[d]))]

AllWritten(d) == written[d] = Pieces * Len(wire[d])

\* An operator named Bug... is a faulty variant of the definition that follows it.
BugAuthentic(d, f) == f.counter >= 0
\* crypto_aead_unlock under the receiver's own direction and counter.
Authentic(d, f) == f.dir = d /\ f.counter = rxCounter[d]

BugWholeFrame(d) == arrived[d] > Pieces
WholeFrame(d) == arrived[d] >= Pieces

\* The whole frame at the head of the stream is taken off the socket.
Take(d) ==
    /\ WholeFrame(d)
    /\ wire' = [wire EXCEPT ![d] = Tail(@)]
    /\ written' = [written EXCEPT ![d] = @ - Pieces]
    /\ arrived' = [arrived EXCEPT ![d] = @ - Pieces]

BugCount(d) == UNCHANGED rxCounter
Count(d) == rxCounter' = [rxCounter EXCEPT ![d] = @ + 1]

\* unwrap_incoming succeeds: the counter moves on.
Unseal(d) ==
    /\ Authentic(d, Head(wire[d]))
    /\ delivered' = [delivered EXCEPT ![d] = Append(@, Head(wire[d]).payload)]
    /\ Count(d)

-----------------------------------------------------------------------------
(* The network, and how an end goes away.                                  *)

\* The sender of direction d is gone, or its receiver.
Gone(d) == IF d = Up THEN client = "gone" ELSE server = "gone"
Unread(d) == IF d = Up THEN server = "gone" ELSE client = "gone"

Arrive(d) ==
    /\ ~Unread(d)
    /\ arrived[d] < written[d]
    /\ arrived' = [arrived EXCEPT ![d] = @ + 1]
    /\ UNCHANGED <<sent, delivered, txCounter, rxCounter, wire, written, errno, server, clientVars, why, faults>>

Damaged(f) == Sealed(f.dir, -1, f.payload)
SealedBefore == UNION {{Sealed(e, n - 1, sent[e][n]) : n \in 1..Len(sent[e])} : e \in Dirs}

\* A frame that is on its way, no piece of which has arrived, is damaged behind its header, dropped, or replaced
\* by another frame that was sealed before, in either direction.
Fault(d) ==
    /\ ~Unread(d)
    /\ faults < MaxFaults
    /\ faults' = faults + 1
    /\ \E k \in 1..Len(wire[d]) :
          /\ Pieces * (k - 1) >= arrived[d] /\ Pieces * k <= written[d]
          /\ \/ /\ \E f \in ({Damaged(wire[d][k])} \cup SealedBefore) \ {wire[d][k]} :
                      wire' = [wire EXCEPT ![d][k] = f]
                /\ UNCHANGED written
             \/ /\ wire' = [wire EXCEPT ![d] = SubSeq(@, 1, k - 1) \o SubSeq(@, k + 1, Len(@))]
                /\ written' = [written EXCEPT ![d] = @ - Pieces]
    /\ UNCHANGED <<sent, delivered, txCounter, rxCounter, arrived, errno, server, clientVars, why>>

\* The sender is gone: what it wrote arrives, unless a reset cuts it.
Reset(d) ==
    /\ Gone(d) /\ ~Unread(d)
    /\ \E w \in arrived[d]..written[d] : w # written[d] /\ written' = [written EXCEPT ![d] = w]
    /\ UNCHANGED <<sent, delivered, txCounter, rxCounter, wire, arrived, errno, server, clientVars, why, faults>>

Eof(d) == Gone(d) /\ arrived[d] = written[d]

-----------------------------------------------------------------------------
(* The engine: recv_encrypted_frame, called until it answers 0 or -1.      *)

engineKeeps == UNCHANGED <<sent, txCounter, clientVars, faults>>

StartPass ==
    /\ server = "idle"
    /\ arrived[Up] > 0 \/ Eof(Up)
    /\ server' = "pass"
    /\ UNCHANGED <<delivered, rxCounter, wireVars, errno, why>>
    /\ engineKeeps

\* recv() has nothing: errno is set.
NoData ==
    /\ server = "pass"
    /\ arrived[Up] = 0 /\ ~Eof(Up)
    /\ errno' = "EAGAIN"
    /\ server' = "idle"
    /\ UNCHANGED <<delivered, rxCounter, wireVars, why>>
    /\ engineKeeps

GiveUp(reason) == server' = "gone" /\ why' = reason

AtEof ==
    /\ server = "pass"
    /\ arrived[Up] = 0 /\ Eof(Up)
    /\ GiveUp("closed")
    /\ UNCHANGED <<delivered, rxCounter, wireVars, errno>>
    /\ engineKeeps

\* n = 1: the call did not fail, and errno is still that of an earlier one.
TornHeader ==
    /\ server = "pass"
    /\ arrived[Up] = 1
    /\ IF errno = "EAGAIN" THEN server' = "idle" /\ UNCHANGED why ELSE GiveUp("torn")
    /\ UNCHANGED <<delivered, rxCounter, wireVars, errno>>
    /\ engineKeeps

NextSize == Head(wire[Up]).payload.size

\* frame_size > max_receive_frame_size: the header is enough to give the client up.
Oversized ==
    /\ server = "pass"
    /\ arrived[Up] >= 2 /\ NextSize = "oversized"
    /\ GiveUp("oversized")
    /\ UNCHANGED <<delivered, rxCounter, wireVars, errno>>
    /\ engineKeeps

TornFrame ==
    /\ server = "pass"
    /\ arrived[Up] = 2 /\ NextSize # "oversized"
    /\ server' = "idle"
    /\ UNCHANGED <<delivered, rxCounter, wireVars, errno, why>>
    /\ engineKeeps

\* The window size has not been received: whatever came before it was empty.
Waiting == \A n \in 1..Len(delivered[Up]) : delivered[Up][n].size = "empty"

\* The window size is taken alone; of the input all that is there, up to a frame with nothing
\* inside, for which the answer is 0 as if there were no more.
RecvFrame ==
    /\ server = "pass"
    /\ Take(Up)
    /\ NextSize # "oversized" /\ ~(Waiting /\ NextSize = "short")
    /\ Unseal(Up)
    /\ server' = IF Waiting \/ NextSize = "empty" THEN "idle" ELSE "pass"
    /\ UNCHANGED <<errno, why>>
    /\ engineKeeps

\* out_plain.size() < 4 where the window size is expected.
ShortSize ==
    /\ server = "pass"
    /\ Take(Up)
    /\ Waiting /\ NextSize = "short"
    /\ Unseal(Up)
    /\ GiveUp("short")
    /\ UNCHANGED errno
    /\ engineKeeps

RejectFrame ==
    /\ server = "pass"
    /\ Take(Up)
    /\ NextSize # "oversized"
    /\ ~Authentic(Up, Head(wire[Up]))
    /\ GiveUp("rejected")
    /\ UNCHANGED <<delivered, rxCounter, errno>>
    /\ engineKeeps

\* accept(), send() to a client that is gone, opening users.txt: whatever the main thread
\* calls between two passes, its failures set errno.
OtherCall ==
    /\ server = "idle"
    /\ errno' \in {"EAGAIN", "other"} \ {errno}
    /\ UNCHANGED <<delivered, rxCounter, wireVars, server, why>>
    /\ engineKeeps

\* The engine's thread sends a picture, and is in send() until all of it is written.
SendFrame ==
    /\ server = "idle" /\ ~Waiting
    /\ Seal(Down)
    /\ server' = IF AllWritten(Down)' THEN "idle" ELSE "sending"
    /\ UNCHANGED <<delivered, rxCounter, arrived, errno, clientVars, why, faults>>

\* banSession
Ban ==
    /\ server = "idle" /\ ~Waiting
    /\ GiveUp("banned")
    /\ UNCHANGED <<delivered, rxCounter, wireVars, errno>>
    /\ engineKeeps

-----------------------------------------------------------------------------
(* The client: send_data for a key, recv_packet_header for a frame.        *)

clientKeeps == UNCHANGED <<errno, server, threaded, why, faults>>

\* The program that uses the class may send what it likes, at any time; if it does so from the
\* loop that reads, then only between two packets.
SendData ==
    /\ client = "running" \/ (client = "reading" /\ threaded)
    /\ ~sending
    /\ Seal(Up)
    /\ sending' = ~AllWritten(Up)'
    /\ UNCHANGED <<delivered, rxCounter, arrived, client>>
    /\ clientKeeps

\* SIGINT while send() waits: the frame is cut, and the program ends.
CutShort ==
    /\ sending
    /\ sending' = FALSE
    /\ client' = "gone"
    /\ UNCHANGED <<sent, delivered, txCounter, rxCounter, wireVars>>
    /\ clientKeeps

StartPacket ==
    /\ client = "running"
    /\ sending => threaded
    /\ arrived[Down] > 0
    /\ client' = "reading"
    /\ UNCHANGED <<sent, delivered, txCounter, rxCounter, wireVars, sending>>
    /\ clientKeeps

RecvPacket ==
    /\ client = "reading"
    /\ Take(Down)
    /\ Unseal(Down)
    /\ client' = "running"
    /\ UNCHANGED <<sent, txCounter, sending>>
    /\ clientKeeps

\* "Decryption error on client!": the loop ends, and the program once its thread is out of send().
RejectPacket ==
    /\ client = "reading"
    /\ Take(Down)
    /\ ~Authentic(Down, Head(wire[Down]))
    /\ client' = IF sending THEN "deaf" ELSE "gone"
    /\ UNCHANGED <<sent, delivered, txCounter, rxCounter, sending>>
    /\ clientKeeps

\* The terminal's input has ended, after which poll_events() never answers "socket"; or the
\* emulator's loop is over and main() waits for its thread.
StopReading ==
    /\ client = "running"
    /\ sending <=> threaded
    /\ client' = "deaf"
    /\ UNCHANGED <<sent, delivered, txCounter, rxCounter, wireVars, sending>>
    /\ clientKeeps

\* The user quits, or the server is gone.
Leave ==
    /\ client # "gone" /\ ~sending
    /\ client' = "gone"
    /\ UNCHANGED <<sent, delivered, txCounter, rxCounter, wireVars, sending>>
    /\ clientKeeps

-----------------------------------------------------------------------------
(* send(): blocking, in both ends.                                         *)

InSend(d) == IF d = Up THEN sending ELSE server = "sending"
OutOfSend(d) == IF d = Up THEN sending' = FALSE /\ UNCHANGED server
                          ELSE server' = "idle" /\ UNCHANGED sending

\* There is room again; the last piece ends the call.
Write(d) ==
    /\ InSend(d)
    /\ written[d] < Cap
    /\ written' = [written EXCEPT ![d] = Room(Len(wire[d]))]
    /\ IF written'[d] = Pieces * Len(wire[d]) THEN OutOfSend(d) ELSE UNCHANGED <<server, sending>>
    /\ UNCHANGED <<sent, delivered, txCounter, rxCounter, wire, arrived, errno, client, threaded, why, faults>>

\* The receiver is gone: the call fails, which neither end looks at.
SendFails(d) ==
    /\ InSend(d)
    /\ Unread(d)
    /\ OutOfSend(d)
    /\ UNCHANGED <<sent, delivered, txCounter, rxCounter, wireVars, errno, client, threaded, why, faults>>

-----------------------------------------------------------------------------
Engine ==
    \/ StartPass \/ NoData \/ AtEof \/ TornHeader \/ Oversized \/ TornFrame
    \/ RecvFrame \/ ShortSize \/ RejectFrame

Reader == StartPacket \/ RecvPacket \/ RejectPacket

Quiet == server = "gone" /\ client = "gone" /\ UNCHANGED vars

Next ==
    \/ Engine \/ OtherCall \/ Ban \/ SendFrame
    \/ Reader \/ StopReading \/ Leave \/ SendData \/ CutShort
    \/ \E d \in Dirs : Write(d) \/ SendFails(d) \/ Arrive(d) \/ Fault(d) \/ Reset(d)
    \/ Quiet

Spec == Init /\ [][Next]_vars

\* What is written arrives; the engine's thread polls or goes on with its send() while there is
\* room, and so does the client, which reads while it does so at all.
Fairness ==
    /\ \A d \in Dirs : WF_vars(Arrive(d))
    /\ WF_vars(Engine \/ Write(Down))
    /\ WF_vars(Reader) /\ WF_vars(Write(Up))

FairSpec == Spec /\ Fairness

-----------------------------------------------------------------------------
(* Properties.                                                             *)

\* Both directions are what Channel promises: whatever the network damages, repeats, drops
\* or reflects, wherever a frame is torn or cut, no payload is delivered out of place.
Promise == INSTANCE Channel
ImplementsChannel == Promise!Spec

\* Without a fault of the network the engine refuses a frame only for what its sender put into
\* it: one that is longer than the limit, or a first one that is no window size.  The two ends
\* never lose step, whatever is torn, cut or peeked at twice.
RefusedForCause ==
    faults = 0 =>
        /\ why # "rejected"
        /\ why = "oversized" =>
              /\ Len(delivered[Up]) < Len(sent[Up])
              /\ sent[Up][Len(delivered[Up]) + 1].size = "oversized"
        /\ why = "short" =>
              \E n \in 1..Len(delivered[Up]) :
                  sent[Up][n].size = "short" /\ \A k \in 1..(n - 1) : sent[Up][k].size = "empty"

Blocked(d) == InSend(d) /\ written[d] = Cap

\* What blocking calls cannot survive: the engine waits for a client that reads no more, or
\* both ends wait in send() for the other one to read.
Stuck(d) ==
    \/ client = "deaf" /\ (d = Down \/ Blocked(Down))
    \/ Blocked(Up) /\ Blocked(Down) /\ ~threaded

\* Again and again each direction has delivered all that was sealed, unless one of the ends is gone,
\* the network failed or the two are stuck: neither peeking nor a torn frame nor a full buffer
\* makes the receiver miss a payload.
EverythingArrives ==
    []<>(\A d \in Dirs :
            \/ Len(delivered[d]) = Len(sent[d])
            \/ server = "gone" \/ client = "gone" \/ faults > 0 \/ Stuck(d))

\* "If not enough has arrived, consume not one byte and leave it to the next poll": the
\* engine never gives a client up because its frame arrived in parts.
TornIsKept == why # "torn"
=============================================================================
