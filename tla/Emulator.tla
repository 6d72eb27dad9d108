------------------------------ MODULE Emulator ------------------------------
(***************************************************************************)
(* Both clients at the same server: the terminal client of ClientLoop, and *)
(* the one for tests (emulator_client.cpp), where a thread sends what a    *)
(* script says and main() reads frames, until the script is done or a      *)
(* timeout is over, joins the thread and writes the last screen.  Which of *)
(* the two runs is chosen at the beginning.  The mutexes are left out: no  *)
(* two threads ever ask for one of them at a time.                         *)
(***************************************************************************)
EXTENDS ClientLoop

VARIABLES
    program,            \* "terminal" or "emulator"
    quit_on_finish,     \* no --no-quit among the options
    late,               \* --timeout is over
    draining,           \* main() has seen the script finish and reads what is left
    script,             \* where the script thread is: "off" before it starts, "done" at script_finished
    left                \* what it has still to send

emulatorVars == <<program, quit_on_finish, late, draining, script, left>>
vars == <<clientLoopVars, emulatorVars>>

IsEmulator == program = "emulator"

Init ==
    /\ ClientInit
    /\ program \in {"terminal", "emulator"}
    /\ quit_on_finish \in BOOLEAN
    /\ late = FALSE /\ draining = FALSE
    /\ script = "off" /\ left = Keys

-----------------------------------------------------------------------------
(* The script thread.  A command is one key, one character of a text or    *)
(* some raw bytes; waiting is time that passes before a step.              *)

\* should_exit, which is set when main() has left its loop.
ShouldExit == pc = "join"

Other == UNCHANGED <<clientVars, exitRequested, userVars, serverVars, fate, program, quit_on_finish, late, draining>>

NextCommand ==
    /\ script = "next" /\ pc \notin Ended
    /\ script' = IF ShouldExit \/ left = 0 THEN "done" ELSE "send"
    /\ Other /\ UNCHANGED <<wire, left>>

\* send_data() finds room ...
ScriptSends ==
    /\ script = "send" /\ pc \notin Ended
    /\ ~reset /\ Len(up) < UpCap
    /\ up' = Append(up, "input")
    /\ script' = "next" /\ left' = left - 1
    /\ Other /\ UNCHANGED down

\* ... or fails, which nobody looks at ...
ScriptSendFails ==
    /\ script = "send" /\ pc \notin Ended
    /\ reset
    /\ script' = "next" /\ left' = left - 1
    /\ Other /\ UNCHANGED wire

\* ... or raises SIGPIPE.  An interrupt from the keyboard ends the program at once as well.
Killed ==
    /\ pc' = "killed"
    /\ UNCHANGED <<got, shown, interrupted, exitRequested, userVars, serverVars, wire, fate, emulatorVars>>
ScriptBreaksPipe == script = "send" /\ pc \notin Ended /\ reset /\ Killed
Interrupt == pc \notin Ended /\ Killed

ScriptThread == NextCommand \/ ScriptSends \/ ScriptSendFails \/ ScriptBreaksPipe

-----------------------------------------------------------------------------
(* main().  connect() and send_window_size() are those of ClientLoop; then *)
(* the script thread starts.                                               *)

Proceed(label) ==
    /\ Go(label)
    /\ Rest
    /\ UNCHANGED <<shown, keys, wire>>

Handshake ==
    \/ pc = "hello" /\ (HelloPiece \/ RecvFails) /\ UNCHANGED script
    \/ Send /\ script' = IF pc = "sendSize" THEN "next" ELSE script
    \/ (SendFails \/ BrokenPipe) /\ UNCHANGED script

Enter == pc = "check" /\ Proceed("poll")

\* poll_socket(): 50 ms in the loop, no time at all while draining.
PollError == pc = "poll" /\ reset /\ Proceed("join")
PollPacket == pc = "poll" /\ ~reset /\ SocketReadable /\ Proceed("read")
PollTimeout == pc = "poll" /\ ~reset /\ ~SocketReadable /\ Proceed(IF draining THEN "join" ELSE "after")

\* The same reads as the terminal client's; what they uncompress to becomes last_screen.
ReadFrame == ReadPiece(IF draining THEN "poll" ELSE "after")
\* A read that fails leaves the loop, and the drain as well.
ReadFails ==
    /\ pc = "read"
    /\ reset \/ (gone /\ down = <<>>)
    /\ Proceed("join")

Finished == script = "done" /\ quit_on_finish
BugDrains == FALSE
\* The loop reads once more what has come before it is left.
Drains == Finished

\* What follows poll() in the loop.
After ==
    /\ pc = "after"
    /\ Proceed(IF Drains THEN "poll" ELSE IF late THEN "join" ELSE "check")
    /\ draining' = Drains

\* join(), and then the screen is written.
Join == pc = "join" /\ script = "done" /\ Proceed("closed")

Main ==
    \/ Handshake /\ UNCHANGED <<program, quit_on_finish, late, draining, left>>
    \/ (Enter \/ PollError \/ PollPacket \/ PollTimeout \/ ReadFrame \/ ReadFails \/ Join) /\ UNCHANGED emulatorVars
    \/ After /\ UNCHANGED <<program, quit_on_finish, late, script, left>>

\* The seconds are counted from the start of the thread.
TimePasses ==
    /\ IsEmulator /\ script # "off" /\ ~late /\ pc \notin Left
    /\ late' = TRUE
    /\ UNCHANGED <<clientLoopVars, program, quit_on_finish, draining, script, left>>

-----------------------------------------------------------------------------
TerminalStep == ~IsEmulator /\ Client /\ UNCHANGED emulatorVars
MainStep == IsEmulator /\ Main
ScriptStep == IsEmulator /\ ScriptThread
ServerStep == Server /\ UNCHANGED emulatorVars

\* main() waits for the thread, which waits for the server, which waits for main() to read.
JoinBlocked ==
    /\ pc = "join" /\ script = "send" /\ Len(up) = UpCap
    /\ outgoing # <<>> /\ Len(down) = DownCap

Still ==
    \/ ~IsEmulator /\ Quiet /\ UNCHANGED emulatorVars
    \/ IsEmulator /\ (pc \in Ended \/ JoinBlocked) /\ UNCHANGED vars

Next ==
    \/ TerminalStep \/ MainStep \/ ScriptStep \/ ServerStep
    \/ ~IsEmulator /\ User /\ UNCHANGED emulatorVars
    \/ IsEmulator /\ Interrupt
    \/ TimePasses
    \/ (ServerDraws \/ ServerCloses) /\ UNCHANGED emulatorVars
    \/ Still

Spec ==
    /\ Init /\ [][Next]_vars
    /\ WF_vars(TerminalStep) /\ WF_vars(MainStep) /\ WF_vars(ScriptStep) /\ WF_vars(ServerStep)

-----------------------------------------------------------------------------
TypeOK ==
    /\ pc \in {"hello", "check", "poll", "read", "after"} \cup Sending \cup Left
    /\ got \in 0..2 /\ shown \in 0..Frames
    /\ {exitRequested, interrupted, encrypted, gone, reset, quit_on_finish, late, draining} \subseteq BOOLEAN
    /\ typed \in 0..Keys /\ keys \in 0..typed /\ stdin \in {"open", "file", "pipe"}
    /\ up \in Seq({"key", "size", "input"}) /\ Len(up) <= UpCap
    /\ down \in Seq((0..Frames) \X (1..3)) /\ Len(down) <= DownCap
    /\ stage \in {"key", "size", "input"} /\ sent \in 0..Frames
    /\ program \in {"terminal", "emulator"} /\ left \in 0..Keys
    /\ script \in {"off", "next", "send", "done"}

\* A frame that the server has sent in full while the client still reads becomes the screen,
\* also when the server closes after it or the script is done before it comes, unless the
\* client is told to leave by a signal or its timeout, the connection is reset, both ends wait
\* for each other, or the keyboard is a file at its end, of which poll() never stops telling.
FramesAreDrawn ==
    \A n \in 1..Frames :
        Written(n) /\ pc \notin Left ~>
            \/ shown >= n
            \/ reset \/ exitRequested \/ late \/ pc = "killed"
            \/ MutuallyBlocked \/ stdin = "file"

\* The emulator comes to an end and writes its screen once its script is done, its timeout is
\* over or the server is gone, whatever its thread is sending then, unless all wait for each other.
EmulatorEnds == IsEmulator /\ (Finished \/ late \/ gone) ~> pc \in Ended \/ JoinBlocked
=============================================================================
