---------------------------- MODULE ClientProofs ----------------------------
(***************************************************************************)
(* Neither client ever takes the middle of a packet for the beginning of   *)
(* one, for any number of frames, keys and any size of the buffers.  The   *)
(* inductive invariant says that what is on its way is one run of pieces,  *)
(* each followed by the next, from the one the client expects to the last  *)
(* one that the server has begun to send.                                  *)
(*                                                                         *)
(* And what the emulator's thread sends is what its script says: a line is *)
(* taken apart and a text decoded as it was written, however long.         *)
(***************************************************************************)
EXTENDS MCEmulator, NaturalsInduction, WellFoundedInduction, SequenceTheorems, TLAPS

-----------------------------------------------------------------------------
(* Types.                                                                  *)

Piece == (0..Frames) \X (1..3)

\* The thread sends only what it has.
TypeInv == TypeOK /\ outgoing \in Seq(Piece) /\ (script = "send" => left > 0)

LEMMA PiecesAreTyped ==
    ASSUME TypeInv, NEW n \in 0..Frames
    PROVE  Pieces(n) \in Seq(Piece)
<1>1. encrypted \in BOOLEAN
  BY DEF TypeInv, TypeOK
<1>2. <<n, 1>> \in Piece /\ <<n, 2>> \in Piece /\ <<n, 3>> \in Piece
  BY BoundsAssumption DEF Piece
<1>3. CASE n = 0
  BY <1>1, <1>2, <1>3 DEF Pieces
<1>4. CASE n > 0
  BY <1>1, <1>2, <1>4 DEF Pieces
<1> QED
  BY <1>3, <1>4, BoundsAssumption

LEMMA InitTypes == Init => TypeInv
<1> SUFFICES ASSUME Init PROVE TypeInv
  OBVIOUS
<1> USE BoundsAssumption DEF Init, ClientInit
<1>a. pc \in {"hello", "check", "poll", "read", "after"} \cup Sending \cup Left
  OBVIOUS
<1>b. got \in 0..2 /\ shown \in 0..Frames
  OBVIOUS
<1>c. {exitRequested, interrupted, encrypted, gone, reset, quit_on_finish, late, draining} \subseteq BOOLEAN
  OBVIOUS
<1>d. typed \in 0..Keys /\ keys \in 0..typed /\ stdin \in {"open", "file", "pipe"}
  OBVIOUS
<1>e. up \in Seq({"key", "size", "input"}) /\ Len(up) <= UpCap
  OBVIOUS
<1>f. down \in Seq((0..Frames) \X (1..3)) /\ Len(down) <= DownCap
  OBVIOUS
<1>g. /\ stage \in {"key", "size", "input"} /\ sent \in 0..Frames
      /\ program \in {"terminal", "emulator"} /\ left \in 0..Keys
      /\ script \in {"off", "next", "send", "done"}
  OBVIOUS
<1>1. TypeOK
  BY <1>a, <1>b, <1>c, <1>d, <1>e, <1>f, <1>g DEF TypeOK
<1>2. Pieces(0) \in Seq(Piece)
  <2>1. <<0, 1>> \in Piece /\ <<0, 2>> \in Piece
    BY BoundsAssumption DEF Piece
  <2>2. encrypted \in BOOLEAN
    BY <1>1 DEF TypeOK
  <2> QED
    BY <2>1, <2>2 DEF Pieces
<1> QED
  BY <1>1, <1>2 DEF TypeInv, Init, ClientInit

\* A call of the client that returns without having read a piece.
Call ==
    \/ RecvFails \/ Send \/ SendFails \/ BrokenPipe
    \/ Check \/ PollFails \/ PollStdin \/ PollSocket \/ PollNothing

LEMMA CallTypes ==
    ASSUME TypeInv, Call
    PROVE  /\ pc' \in {"hello", "check", "poll", "read", "after"} \cup Sending \cup Left
           /\ got' \in 0..2 /\ shown' \in 0..Frames /\ interrupted' \in BOOLEAN
           /\ keys' \in 0..typed' /\ up' \in Seq({"key", "size", "input"}) /\ Len(up') <= UpCap
           /\ UNCHANGED <<exitRequested, typed, stdin, serverVars, fate, down>>
<1> USE DEF TypeInv, TypeOK, Call, Go, Rest
<1> USE DEF RecvFails, Send, SendFails, BrokenPipe, Check, PollFails, PollStdin, PollSocket, PollNothing
<1>1. pc' \in {"hello", "check", "poll", "read", "after"} \cup Sending \cup Left
  BY DEF Sending, Left, Ended
<1>2. got' \in 0..2 /\ shown' \in 0..Frames
  OBVIOUS
<1>3. interrupted' \in BOOLEAN
  OBVIOUS
<1>4. keys' \in 0..typed'
  BY DEF KeyRead
<1>5. up' \in Seq({"key", "size", "input"}) /\ Len(up') <= UpCap
  <2>1. CASE Send
    <3>1. Message \in {"key", "size", "input"}
      BY <2>1 DEF Message, Sending
    <3> QED
      BY <2>1, <3>1, BoundsAssumption
  <2>2. CASE ~Send
    BY <2>2 DEF wire
  <2> QED
    BY <2>1, <2>2
<1>6. UNCHANGED <<exitRequested, typed, stdin, serverVars, fate, down>>
  BY DEF wire
<1> QED
  BY <1>1, <1>2, <1>3, <1>4, <1>5, <1>6

\* The variables in groups that change together.
ClientTypes ==
    /\ pc \in {"hello", "check", "poll", "read", "after"} \cup Sending \cup Left
    /\ got \in 0..2 /\ shown \in 0..Frames /\ interrupted \in BOOLEAN
UserTypes == exitRequested \in BOOLEAN /\ typed \in 0..Keys /\ keys \in 0..typed /\ stdin \in {"open", "file", "pipe"}
ServerTypes ==
    /\ {encrypted, gone, reset} \subseteq BOOLEAN
    /\ stage \in {"key", "size", "input"} /\ sent \in 0..Frames /\ outgoing \in Seq(Piece)
WireTypes ==
    /\ up \in Seq({"key", "size", "input"}) /\ Len(up) <= UpCap
    /\ down \in Seq(Piece) /\ Len(down) <= DownCap
EmulatorTypes ==
    /\ {quit_on_finish, late, draining} \subseteq BOOLEAN
    /\ program \in {"terminal", "emulator"} /\ left \in 0..Keys
    /\ script \in {"off", "next", "send", "done"}
    /\ script = "send" => left > 0

LEMMA TypesInGroups ==
    /\ TypeInv <=> ClientTypes /\ UserTypes /\ ServerTypes /\ WireTypes /\ EmulatorTypes
    /\ TypeInv' <=> ClientTypes' /\ UserTypes' /\ ServerTypes' /\ WireTypes' /\ EmulatorTypes'
BY DEF TypeInv, TypeOK, Piece, ClientTypes, UserTypes, ServerTypes, WireTypes, EmulatorTypes

\* A call that has read a piece.
Reads == HelloPiece \/ ReadPiece("check") \/ ReadFrame

LEMMA ReadTypes ==
    ASSUME TypeInv, Reads
    PROVE  ClientTypes' /\ UserTypes' /\ ServerTypes' /\ WireTypes'
<1> USE DEF Reads, ReadFrame, HelloPiece, ReadPiece, Receive, Go, Rest
<1>1. ClientTypes /\ UserTypes /\ ServerTypes /\ WireTypes
  BY TypesInGroups
<1>2. down # <<>> /\ down' = Tail(down) /\ UNCHANGED <<up, typed, keys, stdin, exitRequested, serverVars, fate>>
  OBVIOUS
<1>3. Head(down) \in Piece /\ Tail(down) \in Seq(Piece) /\ Len(Tail(down)) <= DownCap
  BY <1>1, <1>2, BoundsAssumption DEF WireTypes
<1>4. Head(down)[1] \in 0..Frames
  BY <1>3 DEF Piece
<1>5. pc' \in {"hello", "check", "poll", "read", "after"} \cup Sending \cup Left
  BY <1>1 DEF ClientTypes, Sending, Left
<1>6. got' \in 0..2
  BY <1>1 DEF ClientTypes, PacketPieces
<1>7. shown' \in 0..Frames /\ interrupted' \in BOOLEAN
  BY <1>1, <1>4 DEF ClientTypes
<1> QED
  BY <1>1, <1>2, <1>3, <1>5, <1>6, <1>7 DEF ClientTypes, UserTypes, ServerTypes, WireTypes, serverVars, fate, Sending, Left

LEMMA CallTypesInGroups ==
    ASSUME TypeInv, Call
    PROVE  ClientTypes' /\ UserTypes' /\ ServerTypes' /\ WireTypes'
<1>1. UserTypes /\ ServerTypes /\ WireTypes
  BY TypesInGroups
<1> QED
  BY <1>1, CallTypes DEF ClientTypes, UserTypes, ServerTypes, WireTypes, serverVars, fate

\* main() of the emulator, between its calls.
Turn == Enter \/ PollError \/ PollPacket \/ PollTimeout \/ ReadFails \/ Join \/ After

LEMMA TurnTypes ==
    ASSUME TypeInv, Turn
    PROVE  ClientTypes' /\ UserTypes' /\ ServerTypes' /\ WireTypes'
<1>1. ClientTypes /\ UserTypes /\ ServerTypes /\ WireTypes
  BY TypesInGroups
<1>2. /\ pc' \in {"join", "read", "after", "closed", "poll", "check"}
      /\ got' = 0 /\ interrupted' = FALSE
      /\ UNCHANGED <<exitRequested, typed, stdin, serverVars, fate, shown, keys, wire>>
  BY DEF Turn, Enter, PollError, PollPacket, PollTimeout, ReadFails, Join, After, Proceed, Go, Rest
<1>3. ClientTypes'
  <2>1. pc' \in {"hello", "check", "poll", "read", "after"} \cup Sending \cup Left
    BY <1>2, SMT DEF Sending, Left, Ended
  <2>a. shown' \in 0..Frames
    BY <1>1, <1>2 DEF ClientTypes
  <2>b. got' \in 0..2
    BY <1>2
  <2>2. got' \in 0..2 /\ shown' \in 0..Frames /\ interrupted' \in BOOLEAN
    BY <2>a, <2>b, <1>2
  <2> QED
    BY <2>1, <2>2 DEF ClientTypes
<1>4. UserTypes' /\ ServerTypes'
  BY <1>1, <1>2 DEF UserTypes, ServerTypes, serverVars, fate
<1>5. WireTypes'
  BY <1>1, <1>2 DEF WireTypes, wire
<1> QED
  BY <1>3, <1>4, <1>5

\* The server, the user and the signals.
LEMMA OtherTypes ==
    ASSUME TypeInv, Server \/ ServerDraws \/ ServerCloses \/ User
    PROVE  ClientTypes' /\ UserTypes' /\ ServerTypes' /\ WireTypes'
<1>1. ClientTypes /\ UserTypes /\ ServerTypes /\ WireTypes
  BY TypesInGroups
<1>2. CASE ServerTakes
  <2>1. Tail(up) \in Seq({"key", "size", "input"}) /\ Len(Tail(up)) <= UpCap
    BY <1>1, <1>2, BoundsAssumption DEF ServerTakes, WireTypes
  <2> QED
    BY <1>1, <1>2, <2>1 DEF ServerTakes, ClientTypes, UserTypes, ServerTypes, WireTypes, clientVars, userVars, fate
<1>3. CASE ServerSends
  <2>1. Head(outgoing) \in Piece /\ Tail(outgoing) \in Seq(Piece)
    BY <1>1, <1>3 DEF ServerSends, ServerTypes
  <2>2. Append(down, Head(outgoing)) \in Seq(Piece) /\ Len(Append(down, Head(outgoing))) <= DownCap
    BY <1>1, <1>3, <2>1, BoundsAssumption DEF ServerSends, WireTypes
  <2> QED
    BY <1>1, <1>3, <2>1, <2>2 DEF ServerSends, ClientTypes, UserTypes, ServerTypes, WireTypes, clientVars, userVars, fate
<1>4. CASE ServerDraws
  <2>1. sent + 1 \in 0..Frames
    BY <1>1, <1>4, BoundsAssumption DEF ServerDraws, ServerTypes
  <2>2. Pieces(sent + 1) \in Seq(Piece)
    BY <2>1, PiecesAreTyped
  <2> QED
    BY <1>1, <1>4, <2>1, <2>2 DEF ServerDraws, ClientTypes, UserTypes, ServerTypes, WireTypes, clientVars, userVars, fate, wire
<1>5. CASE ServerCloses \/ ServerResets
  <2>1. <<>> \in Seq(Piece)
    OBVIOUS
  <2> QED
    BY <1>1, <1>5, <2>1
       DEF ServerCloses, ServerResets, ClientTypes, UserTypes, ServerTypes, WireTypes, clientVars, userVars, serverVars, wire
<1>6. CASE User
  <2>1. UserTypes'
    <3>1. CASE Type
      BY <1>1, <3>1, BoundsAssumption DEF Type, UserTypes
    <3>2. CASE EndOfInput
      BY <1>1, <3>2 DEF EndOfInput, UserTypes
    <3>3. CASE Signal
      BY <1>1, <3>3 DEF Signal, UserTypes, userVars
    <3> QED
      BY <1>6, <3>1, <3>2, <3>3 DEF User
  <2>2. ClientTypes'
    BY <1>1, <1>6 DEF User, Type, EndOfInput, Signal, ClientTypes, clientVars
  <2> QED
    BY <1>1, <1>6, <2>1, <2>2 DEF User, Type, EndOfInput, Signal, ServerTypes, WireTypes, serverVars, wire, fate
<1> QED
  BY <1>2, <1>3, <1>4, <1>5, <1>6 DEF Server

LEMMA ScriptTypes ==
    ASSUME TypeInv, ScriptThread \/ Interrupt
    PROVE  TypeInv'
<1>1. ClientTypes /\ UserTypes /\ ServerTypes /\ WireTypes /\ EmulatorTypes
  BY TypesInGroups
<1>2. CASE ScriptBreaksPipe \/ Interrupt
  BY <1>1, <1>2, TypesInGroups
     DEF ScriptBreaksPipe, Interrupt, Killed, ClientTypes, UserTypes, ServerTypes, WireTypes, EmulatorTypes,
         Left, Ended, userVars, serverVars, wire, fate, emulatorVars
<1>3. CASE NextCommand \/ ScriptSends \/ ScriptSendFails
  <2>1. UNCHANGED <<clientVars, exitRequested, userVars, serverVars, fate>>
    BY <1>3 DEF NextCommand, ScriptSends, ScriptSendFails, Other
  <2>a. ClientTypes'
    BY <1>1, <2>1 DEF ClientTypes, clientVars
  <2>b. UserTypes' /\ ServerTypes'
    BY <1>1, <2>1 DEF UserTypes, ServerTypes, userVars, serverVars, fate
  <2>2. WireTypes'
    BY <1>1, <1>3, BoundsAssumption DEF NextCommand, ScriptSends, ScriptSendFails, WireTypes, wire
  <2>3. EmulatorTypes'
    <3>1. {quit_on_finish, late, draining}' \subseteq BOOLEAN /\ program' = program
      BY <1>1, <1>3 DEF NextCommand, ScriptSends, ScriptSendFails, Other, EmulatorTypes
    <3>2. left' \in 0..Keys /\ (script' = "send" => left' > 0)
      BY <1>1, <1>3, BoundsAssumption DEF NextCommand, ScriptSends, ScriptSendFails, EmulatorTypes
    <3>3. script' \in {"off", "next", "send", "done"}
      BY <1>3 DEF NextCommand, ScriptSends, ScriptSendFails
    <3> QED
      BY <1>1, <3>1, <3>2, <3>3 DEF EmulatorTypes
  <2> QED
    BY <2>a, <2>b, <2>2, <2>3, TypesInGroups
<1> QED
  BY <1>2, <1>3 DEF ScriptThread

LEMMA MainIsCalls == MainStep => Call \/ Reads \/ Turn
<1>1. CASE Handshake
  BY <1>1 DEF Handshake, Call, Reads
<1>2. CASE Enter \/ PollError \/ PollPacket \/ PollTimeout \/ ReadFails \/ Join \/ After
  BY <1>2 DEF Turn
<1>3. CASE ReadFrame
  BY <1>3 DEF Reads
<1> QED
  BY <1>1, <1>2, <1>3 DEF MainStep, Main

LEMMA NextTypes == TypeInv /\ [Next]_vars => TypeInv'
<1> SUFFICES ASSUME TypeInv, [Next]_vars PROVE TypeInv'
  OBVIOUS
<1>1. ClientTypes /\ UserTypes /\ ServerTypes /\ WireTypes /\ EmulatorTypes
  BY TypesInGroups
<1>2. ASSUME UNCHANGED emulatorVars
      PROVE  EmulatorTypes'
  BY <1>1, <1>2 DEF EmulatorTypes, emulatorVars
<1>3. CASE TerminalStep
  <2>1. (Call \/ Reads) /\ UNCHANGED emulatorVars
    BY <1>3 DEF TerminalStep, Client, Call, Reads
  <2> QED
    BY <1>2, <2>1, CallTypesInGroups, ReadTypes, TypesInGroups
<1>4. CASE MainStep
  <2>1. Call \/ Reads \/ Turn
    BY <1>4, MainIsCalls
  <2>2. ASSUME Handshake, UNCHANGED <<program, quit_on_finish, late, draining, left>>
        PROVE  EmulatorTypes'
    <3>1. script' \in {script, "next"}
      BY <2>2, Zenon DEF Handshake
    <3> QED
      BY <1>1, <2>2, <3>1 DEF EmulatorTypes
  <2>3. ASSUME After, UNCHANGED <<program, quit_on_finish, late, script, left>>
        PROVE  EmulatorTypes'
    <3>1. draining' \in BOOLEAN
      BY <2>3, Zenon DEF After, Drains, Finished
    <3> QED
      BY <1>1, <2>3, <3>1 DEF EmulatorTypes
  <2>4. EmulatorTypes'
    BY <1>2, <1>4, <2>2, <2>3 DEF MainStep, Main
  <2> QED
    BY <2>1, <2>4, CallTypesInGroups, ReadTypes, TurnTypes, TypesInGroups
<1>5. CASE ScriptStep \/ (IsEmulator /\ Interrupt)
  BY <1>5, ScriptTypes DEF ScriptStep
<1>6. CASE ServerStep \/ (~IsEmulator /\ User /\ UNCHANGED emulatorVars) \/ ((ServerDraws \/ ServerCloses) /\ UNCHANGED emulatorVars)
  BY <1>2, <1>6, OtherTypes, TypesInGroups DEF ServerStep
<1>7. CASE TimePasses
  BY <1>1, <1>7, TypesInGroups
     DEF TimePasses, ClientTypes, UserTypes, ServerTypes, WireTypes, EmulatorTypes, clientLoopVars,
         clientVars, userVars, serverVars, wire, fate
<1>8. CASE UNCHANGED vars
  BY <1>1, <1>8, TypesInGroups
     DEF vars, ClientTypes, UserTypes, ServerTypes, WireTypes, EmulatorTypes, clientLoopVars,
         clientVars, userVars, serverVars, wire, fate, emulatorVars
<1>9. CASE Still
  <2>1. UNCHANGED vars
    BY <1>9 DEF Still, Quiet, vars
  <2> QED
    BY <1>8, <2>1
<1> QED
  BY <1>3, <1>4, <1>5, <1>6, <1>7, <1>8, <1>9 DEF Next

\* The state of both clients and of their connection has its type.
THEOREM TypeCorrect == Spec => []TypeOK
<1>1. TypeInv => TypeOK
  BY DEF TypeInv
<1> QED
  BY <1>1, InitTypes, NextTypes, PTL DEF Spec

-----------------------------------------------------------------------------
(* The pieces on their way.                                                *)

\* The packets' sizes, and the piece that comes after p, in either mode.
Size(mode, n) == IF mode THEN 2 ELSE IF n = 0 THEN 1 ELSE 3
Following(mode, p) == IF p[2] < Size(mode, p[1]) THEN <<p[1], p[2] + 1>> ELSE <<p[1] + 1, 1>>

\* The pieces of s come one after the other, the first is e (or e is still to come), and the
\* next one will be f.
Run(mode, s, e, f) ==
    /\ Append(s, f)[1] = e
    /\ \A k \in 1..Len(s) : Append(s, f)[k + 1] = Following(mode, Append(s, f)[k])

LEMMA RunStarts ==
    ASSUME NEW mode, NEW e
    PROVE  Run(mode, <<>>, e, e)
BY DEF Run

LEMMA RunGrows ==
    ASSUME NEW mode, NEW S, NEW s \in Seq(S), NEW e, NEW p \in S, Run(mode, s, e, p)
    PROVE  Run(mode, Append(s, p), e, Following(mode, p))
<1> DEFINE x == Append(Append(s, p), Following(mode, p))
           y == Append(s, p)
<1>1. Len(Append(s, p)) = Len(s) + 1 /\ Len(s) \in Nat
  OBVIOUS
<1>2. \A k \in 1..(Len(s) + 1) : x[k] = y[k]
  OBVIOUS
<1>3. x[Len(s) + 2] = Following(mode, p) /\ y[Len(s) + 1] = p
  OBVIOUS
<1>4. y[1] = e /\ \A k \in 1..Len(s) : y[k + 1] = Following(mode, y[k])
  BY DEF Run
<1> HIDE DEF x, y
<1>5. x[1] = e
  BY <1>1, <1>2, <1>4
<1>6. ASSUME NEW k \in 1..(Len(s) + 1)
      PROVE  x[k + 1] = Following(mode, x[k])
  <2>1. CASE k \in 1..Len(s)
    BY <1>1, <1>2, <1>4, <2>1
  <2>2. CASE k = Len(s) + 1
    BY <1>1, <1>2, <1>3, <2>2
  <2> QED
    BY <1>1, <2>1, <2>2
<1> QED
  BY <1>1, <1>5, <1>6 DEF Run, x

LEMMA RunIsTaken ==
    ASSUME NEW mode, NEW S, NEW s \in Seq(S), NEW e, NEW f, s # <<>>, Run(mode, s, e, f)
    PROVE  Head(s) = e /\ Run(mode, Tail(s), Following(mode, e), f)
<1> DEFINE x == Append(s, f)
           y == Append(Tail(s), f)
<1>1. Len(Tail(s)) = Len(s) - 1 /\ Len(s) \in Nat \ {0}
  OBVIOUS
<1>2. \A k \in 1..Len(s) : y[k] = x[k + 1]
  OBVIOUS
<1>3. x[1] = s[1] /\ Head(s) = s[1]
  OBVIOUS
<1>4. x[1] = e /\ \A k \in 1..Len(s) : x[k + 1] = Following(mode, x[k])
  BY DEF Run
<1> HIDE DEF x, y
<1>5. y[1] = Following(mode, e)
  BY <1>1, <1>2, <1>4
<1>6. ASSUME NEW k \in 1..Len(Tail(s))
      PROVE  y[k + 1] = Following(mode, y[k])
  <2>1. k \in 1..Len(s) /\ k + 1 \in 1..Len(s)
    BY <1>1
  <2> QED
    BY <1>2, <1>4, <2>1
<1> QED
  BY <1>3, <1>4, <1>5, <1>6 DEF Run, y

LEMMA RunIsCut ==
    ASSUME NEW mode, NEW S, NEW s \in Seq(S), NEW t \in Seq(S), NEW e, NEW f, Run(mode, s \o t, e, f)
    PROVE  \E g : Run(mode, s, e, g)
<1> DEFINE x == Append(s \o t, f)
           g == x[Len(s) + 1]
           y == Append(s, g)
<1>1. Len(s \o t) = Len(s) + Len(t) /\ Len(s) \in Nat /\ Len(t) \in Nat
  OBVIOUS
<1>2. \A k \in 1..Len(s) : y[k] = x[k]
  OBVIOUS
<1>3. y[Len(s) + 1] = x[Len(s) + 1]
  OBVIOUS
<1>4. x[1] = e /\ \A k \in 1..Len(s \o t) : x[k + 1] = Following(mode, x[k])
  BY DEF Run
<1> HIDE DEF x
<1>5. \A k \in 1..(Len(s) + 1) : y[k] = x[k]
  <2> SUFFICES ASSUME NEW k \in 1..(Len(s) + 1) PROVE y[k] = x[k]
    OBVIOUS
  <2>1. k \in 1..Len(s) \/ k = Len(s) + 1
    BY <1>1
  <2> QED
    BY <2>1, <1>2, <1>3
<1>6. y[1] = e
  BY <1>1, <1>4, <1>5
<1>7. \A k \in 1..Len(s) : y[k + 1] = Following(mode, y[k])
  <2> SUFFICES ASSUME NEW k \in 1..Len(s) PROVE y[k + 1] = Following(mode, y[k])
    OBVIOUS
  <2>1. k \in 1..(Len(s) + 1) /\ k + 1 \in 1..(Len(s) + 1) /\ k \in 1..Len(s \o t)
    BY <1>1
  <2> QED
    BY <1>4, <1>5, <2>1
<1>8. Run(mode, s, e, g)
  BY <1>6, <1>7 DEF Run
<1> QED
  BY <1>8

LEMMA AppendThrice ==
    ASSUME NEW S, NEW s \in Seq(S), NEW a \in S, NEW b \in S, NEW c \in S
    PROVE  Append(Append(Append(s, a), b), c) = s \o <<a, b, c>>
<1>1. Append(Append(s, a), b) = s \o <<a, b>>
  OBVIOUS
<1>2. <<a, b>> \o <<c>> = <<a, b, c>>
  <2>1. <<a, b>> \in Seq(S)
    OBVIOUS
  <2>2. Append(<<a, b>>, c) = <<a, b>> \o <<c>>
    BY <2>1, AppendIsConcat
  <2>3. <<a, b, c>> \in Seq(S) /\ Append(<<a, b>>, c) \in Seq(S)
    BY <2>1
  <2>4. Len(Append(<<a, b>>, c)) = 3 /\ Len(<<a, b, c>>) = 3
    BY <2>1
  <2>5. \A i \in 1..3 : Append(<<a, b>>, c)[i] = <<a, b, c>>[i]
    BY <2>1, AppendProperties
  <2>6. Append(<<a, b>>, c) = <<a, b, c>>
    BY <2>3, <2>4, <2>5, SeqEqual
  <2> QED
    BY <2>2, <2>6
<1>3. (s \o <<a, b>>) \o <<c>> = s \o (<<a, b>> \o <<c>>)
  BY ConcatAssociative
<1>4. Append(s \o <<a, b>>, c) = (s \o <<a, b>>) \o <<c>>
  BY AppendIsConcat
<1> QED
  BY <1>1, <1>2, <1>3, <1>4

\* A packet is written behind the one before it, whole.
LEMMA PacketFits ==
    ASSUME NEW s \in Seq(Piece), NEW e, NEW n \in 0..Frames, encrypted \in BOOLEAN,
           Run(encrypted, s, e, <<n, 1>>)
    PROVE  Run(encrypted, s \o Pieces(n), e, <<n + 1, 1>>)
<1>1. n \in Nat /\ <<n, 1>> \in Piece /\ <<n, 2>> \in Piece /\ <<n, 3>> \in Piece
  BY BoundsAssumption DEF Piece
<1> DEFINE s1 == Append(s, <<n, 1>>)
           s2 == Append(s1, <<n, 2>>)
           s3 == Append(s2, <<n, 3>>)
<1>2. s1 \in Seq(Piece) /\ s2 \in Seq(Piece)
  BY <1>1
<1>3. Run(encrypted, s1, e, Following(encrypted, <<n, 1>>))
  BY <1>1, RunGrows
<1>4. CASE Size(encrypted, n) = 1
  <2>1. Pieces(n) = <<<<n, 1>>>>
    BY <1>1, <1>4 DEF Size, Pieces
  <2>2. Following(encrypted, <<n, 1>>) = <<n + 1, 1>>
    BY <1>1, <1>4 DEF Following
  <2>3. s \o <<<<n, 1>>>> = s1
    BY <1>1
  <2> QED
    BY <1>3, <2>1, <2>2, <2>3
<1>5. CASE Size(encrypted, n) \in {2, 3}
  <2>1. Following(encrypted, <<n, 1>>) = <<n, 2>>
    BY <1>1, <1>5 DEF Following
  <2>2. Run(encrypted, s2, e, Following(encrypted, <<n, 2>>))
    <3>1. Run(encrypted, s1, e, <<n, 2>>)
      BY <1>3, <2>1
    <3> HIDE DEF s1
    <3> QED
      BY <1>1, <1>2, <3>1, RunGrows
  <2>3. CASE Size(encrypted, n) = 2
    <3>1. Pieces(n) = <<<<n, 1>>, <<n, 2>>>>
      BY <1>1, <2>3 DEF Size, Pieces
    <3>2. Following(encrypted, <<n, 2>>) = <<n + 1, 1>>
      BY <1>1, <2>3 DEF Following
    <3>3. s \o <<<<n, 1>>, <<n, 2>>>> = s2
      BY <1>1
    <3> QED
      BY <2>2, <3>1, <3>2, <3>3
  <2>4. CASE Size(encrypted, n) = 3
    <3>1. Pieces(n) = <<<<n, 1>>, <<n, 2>>, <<n, 3>>>>
      BY <1>1, <2>4 DEF Size, Pieces
    <3>2. Following(encrypted, <<n, 2>>) = <<n, 3>> /\ Following(encrypted, <<n, 3>>) = <<n + 1, 1>>
      BY <1>1, <2>4 DEF Following
    <3>3. s3 = s \o <<<<n, 1>>, <<n, 2>>, <<n, 3>>>>
      <4>1. \A a, b, c \in Piece : Append(Append(Append(s, a), b), c) = s \o <<a, b, c>>
        BY AppendThrice
      <4> QED
        BY <1>1, <4>1, Zenon
    <3>4. Run(encrypted, s3, e, Following(encrypted, <<n, 3>>))
      <4>1. Run(encrypted, s2, e, <<n, 3>>)
        BY <2>2, <3>2
      <4> HIDE DEF s2
      <4> QED
        BY <1>1, <1>2, <4>1, RunGrows
    <3> QED
      BY <3>1, <3>2, <3>3, <3>4
  <2> QED
    BY <1>5, <2>3, <2>4
<1> QED
  BY <1>4, <1>5 DEF Size

-----------------------------------------------------------------------------
(* The invariant: the client stands where the run begins, and the run goes *)
(* up to the server.                                                       *)

stream == down \o outgoing

Expected ==
    CASE pc = "hello" -> <<0, got + 1>>
      [] pc = "read"  -> <<shown + 1, got + 1>>
      [] OTHER        -> <<shown + 1, 1>>

\* The client counts the pieces of the packet it is in.
Place ==
    /\ pc = "hello" => shown = 0 /\ got < Size(encrypted, 0)
    /\ pc = "read" => got < PacketPieces

\* What is on its way goes up to what the server writes next, or to wherever it died.
Aligned == \E f : Run(encrypted, stream, Expected, f) /\ (~gone => f = <<sent + 1, 1>>)

StreamInv == TypeInv /\ (gone => outgoing = <<>>) /\ (pc \in Left \/ (Place /\ Aligned))

LEMMA StreamTypes ==
    ASSUME TypeInv
    PROVE  down \in Seq(Piece) /\ outgoing \in Seq(Piece) /\ stream \in Seq(Piece)
BY TypesInGroups DEF ServerTypes, WireTypes, stream

LEMMA StreamStarts == Init => StreamInv
<1> SUFFICES ASSUME Init PROVE StreamInv
  OBVIOUS
<1>1. TypeInv /\ encrypted \in BOOLEAN
  BY InitTypes DEF TypeInv, TypeOK
<1>2. Place
  BY <1>1 DEF Init, ClientInit, Place, Size
<1>3. ~gone /\ sent = 0 /\ Expected = <<0, 1>> /\ stream = <<>> \o Pieces(0)
  BY <1>1, PiecesAreTyped, BoundsAssumption DEF Init, ClientInit, Expected, stream
<1>4. Run(encrypted, stream, Expected, <<sent + 1, 1>>)
  <2>1. Run(encrypted, <<>>, <<0, 1>>, <<0, 1>>)
    BY RunStarts
  <2>2. 0 \in 0..Frames /\ <<>> \in Seq(Piece)
    BY BoundsAssumption
  <2> QED
    BY <1>1, <1>3, <2>1, <2>2, PacketFits
<1> QED
  BY <1>1, <1>2, <1>3, <1>4 DEF StreamInv, Aligned

\* What nobody reads or writes stays in step if the client stays where it is.
LEMMA StreamStays ==
    ASSUME StreamInv, TypeInv', UNCHANGED <<down, outgoing, encrypted, gone, sent>>,
           pc' \in Left \/ (pc \notin Left /\ Place' /\ Expected' = Expected)
    PROVE  StreamInv'
<1>1. stream' = stream /\ (gone' => outgoing' = <<>>)
  BY DEF StreamInv, stream
<1>2. CASE pc' \in Left
  BY <1>1, <1>2 DEF StreamInv
<1>3. CASE pc \notin Left /\ Place' /\ Expected' = Expected
  <2>1. Aligned'
    BY <1>1, <1>3 DEF StreamInv, Aligned
  <2> QED
    BY <1>1, <1>3, <2>1 DEF StreamInv
<1> QED
  BY <1>2, <1>3

\* A call that goes on to another one: a packet is begun from its first piece.
LEMMA GoingOn ==
    ASSUME StreamInv, TypeInv', UNCHANGED <<down, outgoing, encrypted, gone, sent, shown>>,
           \/ pc' \in Left
           \/ pc \notin Left \cup {"hello", "read"} /\ pc' # "hello" /\ got' = 0
    PROVE  StreamInv'
<1>1. CASE pc' \in Left
  BY <1>1, StreamStays
<1>2. CASE pc \notin Left \cup {"hello", "read"} /\ pc' # "hello" /\ got' = 0
  <2>1. Expected' = Expected
    BY <1>2 DEF Expected
  <2>2. Place'
    BY <1>2 DEF Place, PacketPieces
  <2> QED
    BY <1>2, <2>1, <2>2, StreamStays
<1> QED
  BY <1>1, <1>2

LEMMA CallStaysInStep ==
    ASSUME StreamInv, TypeInv', Call
    PROVE  StreamInv'
<1>1. UNCHANGED <<down, outgoing, encrypted, gone, sent>>
  BY CallTypes DEF StreamInv, serverVars, fate
<1>2. shown' = shown
  BY DEF Call, RecvFails, Send, SendFails, BrokenPipe, Check, PollFails, PollStdin, PollSocket, PollNothing
<1>3. \/ pc' \in Left
      \/ pc \notin Left \cup {"hello", "read"} /\ pc' # "hello" /\ got' = 0
      \/ Check
  BY DEF Call, RecvFails, Send, SendFails, BrokenPipe, PollFails, PollStdin, PollSocket, PollNothing, Go,
         Sending, Left, Ended
<1>4. CASE Check
  <2>1. pc' \in Left \/ (pc \notin Left /\ Place' /\ Expected' = Expected)
    BY <1>2, <1>4 DEF Check, Left, Ended, Place, Expected
  <2> QED
    BY <1>1, <2>1, StreamStays
<1> QED
  BY <1>1, <1>2, <1>3, <1>4, GoingOn

LEMMA TurnStaysInStep ==
    ASSUME StreamInv, TypeInv', Turn
    PROVE  StreamInv'
<1>1. UNCHANGED <<down, outgoing, encrypted, gone, sent, shown>>
  BY DEF Turn, Enter, PollError, PollPacket, PollTimeout, ReadFails, Join, After, Proceed, Rest, serverVars, fate, wire
<1>2. \/ pc' \in Left
      \/ pc \notin Left \cup {"hello", "read"} /\ pc' # "hello" /\ got' = 0
  BY DEF Turn, Enter, PollError, PollPacket, PollTimeout, ReadFails, Join, After, Proceed, Go, Left, Ended
<1> QED
  BY <1>1, <1>2, GoingOn

LEMMA ReadStaysInStep ==
    ASSUME StreamInv, TypeInv', Reads
    PROVE  StreamInv'
<1>1. /\ down # <<>> /\ down' = Tail(down) /\ UNCHANGED <<outgoing, encrypted, gone, sent>>
      /\ pc \in {"hello", "read"} /\ TypeInv
  BY DEF Reads, HelloPiece, ReadFrame, ReadPiece, Receive, Rest, serverVars, fate, StreamInv
<1>2. pc \notin Left /\ Place /\ Aligned
  BY <1>1 DEF StreamInv, Left, Ended
<1>3. stream # <<>> /\ stream' = Tail(stream) /\ Head(stream) = Head(down)
  <2>1. down \in Seq(Piece) /\ outgoing \in Seq(Piece)
    BY <1>1, StreamTypes
  <2>2. Tail(down) \o outgoing = Tail(down \o outgoing)
    BY <1>1, <2>1
  <2> QED
    BY <1>1, <2>1, <2>2 DEF stream
<1>4. PICK f : Run(encrypted, stream, Expected, f) /\ (~gone => f = <<sent + 1, 1>>)
  BY <1>2 DEF Aligned
<1>5. Head(down) = Expected /\ Run(encrypted, stream', Following(encrypted, Expected), f)
  BY <1>1, <1>3, <1>4, StreamTypes, RunIsTaken
<1>6. got \in 0..2 /\ shown \in Nat /\ encrypted \in BOOLEAN
  BY <1>1, BoundsAssumption DEF TypeInv, TypeOK
<1>7. Place' /\ Expected' = Following(encrypted, Expected)
  <2>1. CASE HelloPiece
    BY <1>1, <1>2, <1>6, <2>1 DEF HelloPiece, Go, Place, Expected, Following, Size, PacketPieces
  <2>2. ASSUME NEW after \in {"check", "poll", "after"}, ReadPiece(after)
        PROVE  Place' /\ Expected' = Following(encrypted, Expected)
    <3>1. CASE got + 1 < PacketPieces
      BY <1>1, <1>2, <1>6, <2>2, <3>1 DEF ReadPiece, Place, Expected, Following, Size, PacketPieces
    <3>2. CASE ~(got + 1 < PacketPieces)
      <4>1. pc' = after /\ got' = 0 /\ shown' = shown + 1
        BY <1>5, <2>2, <3>2 DEF ReadPiece, Go, Expected
      <4>2. PacketPieces = Size(encrypted, shown + 1) /\ got + 1 >= PacketPieces
        BY <1>6, <3>2 DEF PacketPieces, Size
      <4> QED
        BY <1>6, <2>2, <4>1, <4>2 DEF ReadPiece, Place, Expected, Following
    <3> QED
      BY <3>1, <3>2
  <2> QED
    BY <2>1, <2>2 DEF Reads, ReadFrame
<1>8. Aligned'
  BY <1>1, <1>4, <1>5, <1>7 DEF Aligned
<1> QED
  BY <1>1, <1>7, <1>8 DEF StreamInv

LEMMA OtherStaysInStep ==
    ASSUME StreamInv, TypeInv', Server \/ ServerDraws \/ ServerCloses \/ User
    PROVE  StreamInv'
<1>1. TypeInv /\ down \in Seq(Piece) /\ outgoing \in Seq(Piece) /\ stream \in Seq(Piece)
  BY StreamTypes DEF StreamInv
<1>2. pc' = pc /\ got' = got /\ shown' = shown /\ encrypted' = encrypted
  BY DEF Server, ServerTakes, ServerSends, ServerResets, ServerDraws, ServerCloses, User, Type, EndOfInput, Signal,
         clientVars, serverVars
<1>3. Expected' = Expected /\ (Place => Place')
  BY <1>2 DEF Expected, Place, PacketPieces
<1>4. CASE ServerTakes \/ ServerResets \/ User
  <2>1. UNCHANGED <<down, outgoing, encrypted, gone, sent>>
    BY <1>4 DEF ServerTakes, ServerResets, User, Type, EndOfInput, Signal, serverVars, wire, fate
  <2> QED
    BY <1>2, <1>3, <2>1, StreamStays DEF StreamInv
<1>5. CASE ServerSends
  <2>1. ~gone /\ gone' = gone /\ sent' = sent
    BY <1>5 DEF ServerSends, fate
  <2>2. Append(down, Head(outgoing)) \o Tail(outgoing) = down \o outgoing
    <3>1. outgoing # <<>>
      BY <1>5 DEF ServerSends
    <3> QED
      BY <1>1, <3>1
  <2>3. stream' = stream
    BY <1>5, <2>2 DEF ServerSends, stream
  <2> QED
    BY <1>2, <1>3, <2>1, <2>3 DEF StreamInv, Aligned
<1>6. CASE ServerDraws
  <2>1. ~gone /\ gone' = gone /\ sent' = sent + 1 /\ stream' = stream \o Pieces(sent + 1)
    <3>1. outgoing = <<>> /\ down' = down /\ outgoing' = Pieces(sent + 1)
      BY <1>6 DEF ServerDraws, wire
    <3>2. down \o <<>> = down
      BY <1>1
    <3> QED
      BY <1>6, <3>1, <3>2 DEF ServerDraws, fate, stream
  <2>2. sent + 1 \in 0..Frames /\ encrypted \in BOOLEAN
    BY <1>1, <1>6, BoundsAssumption DEF ServerDraws, TypeInv, TypeOK
  <2>3. ASSUME Aligned PROVE Aligned'
    <3>1. Run(encrypted, stream, Expected, <<sent + 1, 1>>)
      BY <2>1, <2>3 DEF Aligned
    <3>2. Run(encrypted, stream \o Pieces(sent + 1), Expected, <<(sent + 1) + 1, 1>>)
      BY <1>1, <2>2, <3>1, PacketFits
    <3> QED
      BY <1>2, <1>3, <2>1, <3>2 DEF Aligned
  <2> QED
    BY <1>2, <1>3, <2>1, <2>3 DEF StreamInv
<1>7. CASE ServerCloses
  <2>1. gone' /\ outgoing' = <<>> /\ down' = down
    BY <1>7 DEF ServerCloses, wire
  <2>2. stream' = down
    BY <1>1, <2>1 DEF stream
  <2>3. ASSUME Aligned PROVE Aligned'
    <3>1. PICK f : Run(encrypted, down \o outgoing, Expected, f)
      BY <2>3 DEF Aligned, stream
    <3>2. PICK g : Run(encrypted, down, Expected, g)
      BY <1>1, <3>1, RunIsCut
    <3> QED
      BY <1>2, <1>3, <2>1, <2>2, <3>2 DEF Aligned
  <2> QED
    BY <1>2, <1>3, <2>1, <2>3 DEF StreamInv
<1> QED
  BY <1>4, <1>5, <1>6, <1>7 DEF Server

LEMMA StreamNext == StreamInv /\ [Next]_vars => StreamInv'
<1> SUFFICES ASSUME StreamInv, [Next]_vars PROVE StreamInv'
  OBVIOUS
<1>1. TypeInv /\ TypeInv'
  BY NextTypes DEF StreamInv
<1>2. CASE TerminalStep
  <2>1. Call \/ Reads
    BY <1>2 DEF TerminalStep, Client, Call, Reads
  <2> QED
    BY <1>1, <2>1, CallStaysInStep, ReadStaysInStep
<1>3. CASE MainStep
  <2>1. Call \/ Reads \/ Turn
    BY <1>3, MainIsCalls
  <2> QED
    BY <1>1, <2>1, CallStaysInStep, ReadStaysInStep, TurnStaysInStep
<1>4. CASE ScriptStep \/ (IsEmulator /\ Interrupt)
  <2>1. UNCHANGED <<down, outgoing, encrypted, gone, sent>> /\ (pc' = "killed" \/ UNCHANGED clientVars)
    BY <1>4 DEF ScriptStep, ScriptThread, NextCommand, ScriptSends, ScriptSendFails, ScriptBreaksPipe, Interrupt,
                Killed, Other, serverVars, wire, fate
  <2> QED
    BY <1>1, <2>1, StreamStays DEF StreamInv, Left, Ended, clientVars, Expected, Place, PacketPieces
<1>5. CASE ServerStep \/ (~IsEmulator /\ User /\ UNCHANGED emulatorVars) \/ ((ServerDraws \/ ServerCloses) /\ UNCHANGED emulatorVars)
  BY <1>1, <1>5, OtherStaysInStep DEF ServerStep
<1>6. CASE UNCHANGED clientLoopVars
  <2>1. UNCHANGED <<clientVars, down, outgoing, encrypted, gone, sent>>
    BY <1>6 DEF clientLoopVars, serverVars, wire, fate
  <2> QED
    BY <1>1, <2>1, StreamStays DEF StreamInv, clientVars, Expected, Place, PacketPieces
<1>7. CASE TimePasses \/ Still \/ UNCHANGED vars
  <2>1. UNCHANGED clientLoopVars
    BY <1>7 DEF TimePasses, Still, Quiet, vars
  <2> QED
    BY <1>6, <2>1
<1> QED
  BY <1>2, <1>3, <1>4, <1>5, <1>7 DEF Next

LEMMA InvIsInStep == StreamInv => StreamInStep
<1> SUFFICES ASSUME StreamInv, pc \notin Left, stream # <<>> PROVE Head(stream) = Expected
  BY DEF StreamInStep, stream, Expected
<1>1. PICK f : Run(encrypted, stream, Expected, f)
  BY DEF StreamInv, Aligned
<1>2. stream \in Seq(Piece)
  BY StreamTypes DEF StreamInv
<1> QED
  BY <1>1, <1>2, RunIsTaken

\* Neither client ever takes the middle of a packet for the beginning of one: however many frames
\* and keys there are and however small the buffers, what recv() answers next is the piece the
\* client is about to read, in either mode, through signals, timeouts, a script that still sends
\* and a server that dies in the middle of a frame.
THEOREM StreamCorrect == Spec => []StreamInStep
BY StreamStarts, StreamNext, InvIsInStep, PTL DEF Spec

-----------------------------------------------------------------------------
(* The script's language.  A text to type is read from its first character *)
(* to its last; what holds of the reader everywhere is proved from the     *)
(* position nearest to the end at which it would not.                      *)

Character == 0..255

LEMMA LeastNat ==
    ASSUME NEW T, T \subseteq Nat, T # {}
    PROVE  \E n \in T : \A m \in T : n <= m
<1>1. IsWellFoundedOn(OpToRel(<, Nat), Nat)
  BY NatLessThanWellFounded
<1>2. PICK n \in T : \A m \in T : ~(<<m, n>> \in OpToRel(<, Nat))
  BY <1>1, WFMin
<1>3. \A m \in T : ~(m < n)
  BY <1>2 DEF OpToRel
<1> QED
  BY <1>3

LEMMA DigitFacts ==
    ASSUME NEW c \in Character
    PROVE  Digit(c) = NoDigit \/ Digit(c) \in 0..15
BY DEF Digit, NoDigit, Character

LEMMA ByteIsCharacter ==
    ASSUME NEW c \in Character, NEW d \in Character
    PROVE  Byte(c, d) \in Character
<1>1. Magnitude(d) \in 0..15
  BY DigitFacts DEF Magnitude
<1>2. 0 \in 0..255 /\ \A n \in 0..15 : n \in 0..255 /\ (-n) % 256 \in 0..255
  <2>1. ASSUME NEW n \in 0..15 PROVE (-n) % 256 \in 0..255
    <3>1. -n \in Int
      OBVIOUS
    <3> QED
      BY <3>1, SMT
  <2> QED
    BY <2>1
<1>3. CASE Digit(c) = NoDigit
  BY <1>1, <1>2, <1>3 DEF Byte, Character
<1>4. CASE Digit(c) \in 0..15
  <2>1. Digit(c) # NoDigit
    BY <1>4 DEF NoDigit
  <2>2. Byte(c, d) = IF Digit(d) = NoDigit THEN Digit(c) ELSE 16 * Digit(c) + Digit(d)
    BY <2>1 DEF Byte
  <2>3. Digit(d) = NoDigit \/ Digit(d) \in 0..15
    BY DigitFacts
  <2> QED
    BY <1>4, <2>2, <2>3 DEF Character
<1> QED
  BY <1>3, <1>4, DigitFacts

\* What is read at a position is a character, and it ends within the text.
LEMMA UnescapedFacts ==
    ASSUME NEW input \in Seq(Character), NEW i \in 1..Len(input)
    PROVE  /\ Unescaped(input, i)[1] \in Character
           /\ Unescaped(input, i)[2] \in 1..4
           /\ i + Unescaped(input, i)[2] <= Len(input) + 1
<1> DEFINE u == Unescaped(input, i)  next == input[i + 1]
<1>1. input[i] \in Character
  OBVIOUS
<1>2. /\ LineFeed \in Character /\ Tab \in Character /\ CarriageReturn \in Character /\ Backslash \in Character
  BY DEF LineFeed, Tab, CarriageReturn, Backslash, Character
<1>3. CASE input[i] # Backslash \/ i = Len(input)
  <2>1. u = <<input[i], 1>>
    BY <1>3 DEF Unescaped
  <2> QED
    BY <1>1, <2>1
<1>4. CASE input[i] = Backslash /\ i # Len(input) /\ next \in {LetterN, LetterT, LetterR, Backslash}
  <2>1. \E c \in {LineFeed, Tab, CarriageReturn, Backslash} : u = <<c, 2>>
    BY <1>4, SMT DEF Unescaped, LetterN, LetterT, LetterR, LetterX, Backslash
  <2> QED
    BY <1>2, <1>4, <2>1
<1>5. CASE /\ input[i] = Backslash /\ i # Len(input) /\ next \notin {LetterN, LetterT, LetterR, Backslash}
           /\ next = LetterX /\ HexFits(input, i)
  <2>1. u = <<Byte(input[i + 2], input[i + 3]), 4>>
    BY <1>5, SMT DEF Unescaped, LetterN, LetterT, LetterR, LetterX, Backslash
  <2>2. i + 3 <= Len(input)
    BY <1>5 DEF HexFits
  <2>3. Byte(input[i + 2], input[i + 3]) \in Character
    <3>1. input[i + 2] \in Character /\ input[i + 3] \in Character
      BY <2>2
    <3> QED
      BY <3>1, ByteIsCharacter
  <2> QED
    BY <2>1, <2>2, <2>3
<1>6. CASE /\ input[i] = Backslash /\ i # Len(input) /\ next \notin {LetterN, LetterT, LetterR, Backslash}
           /\ ~(next = LetterX /\ HexFits(input, i))
  <2>1. u = <<Backslash, 1>>
    BY <1>6 DEF Unescaped
  <2> QED
    BY <1>2, <2>1
<1> QED
  BY <1>3, <1>4, <1>5, <1>6

\* A reader of the text from each of the positions that `where` holds.
ReadsFrom(f, input, where) ==
    \A i \in where :
        f[i] = IF i > Len(input) THEN <<>> ELSE <<Unescaped(input, i)[1]>> \o f[i + Unescaped(input, i)[2]]

LEMMA ReaderExists ==
    ASSUME NEW input \in Seq(Character)
    PROVE  \E f \in [1..Len(input) + 4 -> Seq(Character)] : ReadsFrom(f, input, 1..Len(input) + 4)
<1> DEFINE L == Len(input)  Readers == [1..L + 4 -> Seq(Character)]
           Good(m) == \E f \in Readers : ReadsFrom(f, input, L + 1 - m..L + 4)
           Failing == {m \in 0..L : ~Good(m)}
<1>1. L \in Nat
  OBVIOUS
<1>2. SUFFICES ASSUME Failing # {} PROVE FALSE
  <2>1. L \in 0..L /\ L + 1 - L = 1
    OBVIOUS
  <2>2. Good(L)
    BY <1>2, <2>1
  <2> QED
    BY <2>1, <2>2
<1> HIDE DEF L
<1>3. PICK m \in Failing : \A k \in Failing : m <= k
  <2>1. Failing \subseteq Nat
    BY <1>1
  <2> HIDE DEF Failing
  <2> QED
    BY <1>2, <2>1, LeastNat
<1>4. Good(0)
  <2> DEFINE f == [i \in 1..L + 4 |-> <<>>]
  <2>1. f \in Readers
    OBVIOUS
  <2>2. ReadsFrom(f, input, L + 1 - 0..L + 4)
    BY <1>1 DEF ReadsFrom, L
  <2> HIDE DEF f
  <2> QED
    BY <2>1, <2>2
<1>5. m \in 1..L /\ m - 1 \in 0..L /\ m - 1 \notin Failing
  <2>1. m # 0
    BY <1>3, <1>4
  <2>2. m \in 0..L
    BY <1>3
  <2>3. m - 1 < m
    BY <1>1, <2>2
  <2> QED
    BY <1>1, <1>3, <2>1, <2>2, <2>3
<1>6. Good(m - 1)
  BY <1>5
<1>7. PICK f \in Readers : ReadsFrom(f, input, L + 1 - (m - 1)..L + 4)
  BY <1>6
<1> DEFINE p == L + 1 - m
<1>8. p \in 1..L /\ L + 1 - (m - 1) = p + 1
  BY <1>1, <1>5
<1> DEFINE c == Unescaped(input, p)[1]  q == p + Unescaped(input, p)[2]
<1>9. c \in Character /\ q \in 1..L + 4 /\ q > p
  BY <1>1, <1>8, UnescapedFacts DEF L
<1> HIDE DEF p, c, q
<1> DEFINE g == [f EXCEPT ![p] = <<c>> \o f[q]]
<1>10. g \in Readers
  <2>1. <<c>> \o f[q] \in Seq(Character)
    BY <1>9
  <2> QED
    BY <2>1
<1>11. ASSUME NEW i \in p..L + 4
       PROVE  g[i] = IF i > L THEN <<>> ELSE <<Unescaped(input, i)[1]>> \o g[i + Unescaped(input, i)[2]]
  <2>1. CASE i = p
    <3>1. g[p] = <<c>> \o f[q]
      BY <1>1, <1>8
    <3>2. g[q] = f[q]
      BY <1>9
    <3>3. ~(p > L)
      BY <1>1, <1>8
    <3> QED
      BY <2>1, <3>1, <3>2, <3>3 DEF c, q
  <2>2. CASE i # p /\ i > L
    <3>1. i \in p + 1..L + 4
      BY <1>1, <1>8, <2>2
    <3>2. f[i] = <<>>
      BY <1>7, <1>8, <2>2, <3>1 DEF ReadsFrom, L
    <3>3. g[i] = f[i]
      BY <1>1, <1>8, <2>2
    <3> QED
      BY <2>2, <3>2, <3>3
  <2>3. CASE i # p /\ ~(i > L)
    <3>1. i \in p + 1..L + 4 /\ i \in 1..L
      BY <1>1, <1>8, <2>3
    <3>2. f[i] = <<Unescaped(input, i)[1]>> \o f[i + Unescaped(input, i)[2]]
      BY <1>7, <1>8, <2>3, <3>1 DEF ReadsFrom, L
    <3> DEFINE j == i + Unescaped(input, i)[2]
    <3>3. j \in 1..L + 4 /\ j > i
      BY <1>1, <3>1, UnescapedFacts DEF L
    <3> HIDE DEF j
    <3>4. g[i] = f[i] /\ g[j] = f[j]
      BY <1>1, <1>8, <3>1, <3>3
    <3> QED
      BY <2>3, <3>2, <3>4 DEF j
  <2> QED
    BY <2>1, <2>2, <2>3
<1>12. Good(m)
  <2>1. ReadsFrom(g, input, L + 1 - m..L + 4)
    <3> HIDE DEF g
    <3> QED
      BY <1>11 DEF ReadsFrom, L, p
  <2> HIDE DEF g
  <2> QED
    BY <1>10, <2>1
<1> QED
  BY <1>3, <1>12

\* The reader that parse_type_string() is.
LEMMA ReaderOfText ==
    ASSUME NEW input \in Seq(Character)
    PROVE  \E f : /\ parse_type_string(input) = f[1]
                  /\ ReadsFrom(f, input, 1..Len(input) + 4)
<1> DEFINE Step(f, i) == IF i > Len(input) THEN <<>> ELSE <<Unescaped(input, i)[1]>> \o f[i + Unescaped(input, i)[2]]
           From == CHOOSE f : f = [i \in 1..Len(input) + 4 |-> Step(f, i)]
<1>1. parse_type_string(input) = From[1]
  BY DEF parse_type_string
<1>2. PICK f \in [1..Len(input) + 4 -> Seq(Character)] : ReadsFrom(f, input, 1..Len(input) + 4)
  BY ReaderExists
<1>3. \A i \in 1..Len(input) + 4 : f[i] = Step(f, i)
  BY <1>2 DEF ReadsFrom
<1> HIDE DEF Step
<1>4. f = [i \in 1..Len(input) + 4 |-> Step(f, i)]
  BY <1>2, <1>3
<1>5. From = [i \in 1..Len(input) + 4 |-> Step(From, i)]
  BY <1>4, Zenon
<1> HIDE DEF From
<1>6. \A i \in 1..Len(input) + 4 : From[i] = Step(From, i)
  BY <1>5
<1>7. ReadsFrom(From, input, 1..Len(input) + 4)
  BY <1>6 DEF ReadsFrom, Step
<1> QED
  BY <1>1, <1>7

\* Whatever a script has to type, it is read to its end, within its bounds, and comes to
\* characters.
THEOREM EveryTextIsRead ==
    ASSUME NEW input \in Seq(Character)
    PROVE  parse_type_string(input) \in Seq(Character)
<1> DEFINE L == Len(input)
<1>1. PICK f : parse_type_string(input) = f[1] /\ ReadsFrom(f, input, 1..L + 4)
  BY ReaderOfText
<1>2. L \in Nat
  OBVIOUS
<1> DEFINE Failing == {m \in 0..L + 3 : f[L + 4 - m] \notin Seq(Character)}
<1>3. SUFFICES ASSUME Failing # {} PROVE FALSE
  <2>1. L + 3 \in 0..L + 3 /\ L + 4 - (L + 3) = 1
    BY <1>2
  <2>2. f[1] \in Seq(Character)
    BY <1>3, <2>1
  <2> QED
    BY <1>1, <2>2
<1> HIDE DEF L
<1>4. PICK m \in Failing : \A k \in Failing : m <= k
  <2>1. Failing \subseteq Nat
    BY <1>2
  <2> HIDE DEF Failing
  <2> QED
    BY <1>3, <2>1, LeastNat
<1> DEFINE i == L + 4 - m
<1>5. m \in 0..L + 3 /\ i \in 1..L + 4 /\ f[i] \notin Seq(Character)
  BY <1>2, <1>4
<1>6. CASE i > L
  <2>1. f[i] = <<>>
    BY <1>1, <1>5, <1>6 DEF ReadsFrom, L
  <2> QED
    BY <1>5, <2>1
<1>7. CASE ~(i > L)
  <2>1. i \in 1..L
    BY <1>2, <1>5, <1>7
  <2> DEFINE c == Unescaped(input, i)[1]  j == i + Unescaped(input, i)[2]
  <2>2. c \in Character /\ j \in 1..L + 4 /\ j > i
    BY <1>2, <2>1, UnescapedFacts DEF L
  <2>3. f[i] = <<c>> \o f[j]
    BY <1>1, <1>5, <1>7 DEF ReadsFrom, L
  <2> HIDE DEF c, j
  <2>4. f[j] \in Seq(Character)
    <3> DEFINE k == L + 4 - j
    <3>1. k \in 0..L + 3 /\ L + 4 - k = j /\ ~(m <= k)
      BY <1>2, <1>5, <2>2
    <3>2. k \notin Failing
      BY <1>4, <3>1
    <3> HIDE DEF k
    <3>3. ~(f[L + 4 - k] \notin Seq(Character))
      BY <3>1, <3>2
    <3> QED
      BY <3>1, <3>3
  <2>5. <<c>> \o f[j] \in Seq(Character)
    BY <2>2, <2>4
  <2> QED
    BY <1>5, <2>3, <2>5
<1> QED
  BY <1>6, <1>7

\* The characters of `line` from position i to just before j are a way to write b.
IsHex(c) == Digit(c) # NoDigit
Writes(line, i, j, b) ==
    \/ j = i + 1 /\ line[i] = b /\ b # Backslash
    \/ j = i + 2 /\ line[i] = Backslash
          /\ <<line[i + 1], b>> \in Named
    \/ j = i + 4 /\ line[i] = Backslash /\ line[i + 1] = LetterX
          /\ IsHex(line[i + 2]) /\ IsHex(line[i + 3]) /\ b = 16 * Digit(line[i + 2]) + Digit(line[i + 3])

LEMMA WrittenIsRead ==
    ASSUME NEW line \in Seq(Character), NEW i \in 1..Len(line), NEW j \in 1..Len(line) + 1, NEW b,
           Writes(line, i, j, b)
    PROVE  Unescaped(line, i) = <<b, j - i>>
<1>1. CASE j = i + 1 /\ line[i] = b /\ b # Backslash
  BY <1>1 DEF Unescaped
<1>2. CASE j = i + 2 /\ line[i] = Backslash
              /\ <<line[i + 1], b>> \in {<<LetterN, LineFeed>>, <<LetterT, Tab>>, <<LetterR, CarriageReturn>>,
                                         <<Backslash, Backslash>>}
  <2>1. i # Len(line) /\ j - i = 2
    BY <1>2
  <2>2. ASSUME NEW c, NEW d, line[i + 1] = c, b = d,
               <<c, d>> \in {<<LetterN, LineFeed>>, <<LetterT, Tab>>, <<LetterR, CarriageReturn>>, <<Backslash, Backslash>>}
        PROVE  Unescaped(line, i) = <<d, 2>>
    <3>1. CASE c = LetterN /\ d = LineFeed
      BY <1>2, <2>1, <2>2, <3>1, SMT DEF Unescaped, LetterN, LetterT, LetterR, LetterX, Backslash
    <3>2. CASE c = LetterT /\ d = Tab
      BY <1>2, <2>1, <2>2, <3>2, SMT DEF Unescaped, LetterN, LetterT, LetterR, LetterX, Backslash
    <3>3. CASE c = LetterR /\ d = CarriageReturn
      BY <1>2, <2>1, <2>2, <3>3, SMT DEF Unescaped, LetterN, LetterT, LetterR, LetterX, Backslash
    <3>4. CASE c = Backslash /\ d = Backslash
      BY <1>2, <2>1, <2>2, <3>4, SMT DEF Unescaped, LetterN, LetterT, LetterR, LetterX, Backslash
    <3> QED
      BY <2>2, <3>1, <3>2, <3>3, <3>4
  <2>3. Unescaped(line, i) = <<b, 2>>
    BY <1>2, <2>2
  <2> QED
    BY <2>1, <2>3
<1>3. CASE j = i + 4 /\ line[i] = Backslash /\ line[i + 1] = LetterX
              /\ IsHex(line[i + 2]) /\ IsHex(line[i + 3]) /\ b = 16 * Digit(line[i + 2]) + Digit(line[i + 3])
  <2>1. i # Len(line) /\ j - i = 4 /\ i + 3 <= Len(line)
    BY <1>3
  <2>2. Byte(line[i + 2], line[i + 3]) = b
    BY <1>3 DEF Byte, IsHex
  <2>3. Unescaped(line, i) = <<Byte(line[i + 2], line[i + 3]), 4>>
    BY <1>3, <2>1, SMT DEF Unescaped, HexFits, LetterN, LetterT, LetterR, LetterX, Backslash
  <2> QED
    BY <2>1, <2>2, <2>3
<1> QED
  BY <1>1, <1>2, <1>3 DEF Writes, Named

\* What the script thread types is what the script's author meant: a text of any length, each
\* of whose characters is written in any of the ways the language has (as itself, by name, by
\* number), is what parse_type_string() makes of the line.
THEOREM TypedAsWritten ==
    ASSUME NEW text \in Seq(Character), NEW line \in Seq(Character),
           NEW at \in [1..Len(text) + 1 -> 1..Len(line) + 1],
           at[1] = 1, at[Len(text) + 1] = Len(line) + 1,
           \A k \in 1..Len(text) : Writes(line, at[k], at[k + 1], text[k])
    PROVE  parse_type_string(line) = text
<1> DEFINE n == Len(text)  L == Len(line)
<1>1. PICK f : parse_type_string(line) = f[1] /\ ReadsFrom(f, line, 1..L + 4)
  BY ReaderOfText
<1>2. n \in Nat /\ L \in Nat
  OBVIOUS
<1> DEFINE Remains(k) == SubSeq(text, k, n)
           Failing == {m \in 0..n : f[at[n + 1 - m]] # Remains(n + 1 - m)}
<1>3. SUFFICES ASSUME Failing # {} PROVE FALSE
  <2>1. n \in 0..n /\ n + 1 - n = 1
    BY <1>2
  <2>2. f[at[1]] = Remains(1)
    BY <1>3, <2>1
  <2>3. Remains(1) = text
    OBVIOUS
  <2> QED
    BY <1>1, <2>2, <2>3
<1>4. \A k \in 1..n + 1 : at[k] \in 1..L + 1
  OBVIOUS
<1>5. \A k \in 1..n : Writes(line, at[k], at[k + 1], text[k]) /\ text[k] \in Character
  OBVIOUS
<1>6. Remains(n + 1) = <<>> /\ \A k \in 1..n : Remains(k) = <<text[k]>> \o Remains(k + 1)
  OBVIOUS
<1>7. at[n + 1] = L + 1
  OBVIOUS
<1> HIDE DEF n, L, Remains
<1>8. PICK m \in Failing : \A k \in Failing : m <= k
  <2>1. Failing \subseteq Nat
    BY <1>2
  <2> HIDE DEF Failing
  <2> QED
    BY <1>3, <2>1, LeastNat
<1> DEFINE k == n + 1 - m
<1>9. m \in 0..n /\ k \in 1..n + 1 /\ f[at[k]] # Remains(k)
  BY <1>2, <1>8
<1>10. CASE k = n + 1
  <2>1. f[L + 1] = <<>>
    <3>1. L + 1 \in 1..L + 4 /\ L + 1 > L
      BY <1>2
    <3> QED
      BY <1>1, <3>1 DEF ReadsFrom, L
  <2> QED
    BY <1>6, <1>7, <1>9, <1>10, <2>1
<1>11. CASE k # n + 1
  <2>1. k \in 1..n /\ k + 1 \in 1..n + 1
    BY <1>2, <1>9, <1>11
  <2>2. Writes(line, at[k], at[k + 1], text[k])
    BY <1>5, <2>1
  <2> DEFINE i == at[k]  j == at[k + 1]
  <2>3. i \in 1..L + 1 /\ j \in 1..L + 1
    BY <1>4, <1>9, <2>1
  <2> HIDE DEF i, j
  <2>4. Writes(line, i, j, text[k])
    BY <2>2 DEF i, j
  <2>5. i \in 1..L /\ j > i
    BY <1>2, <2>3, <2>4 DEF Writes
  <2>6. Unescaped(line, i) = <<text[k], j - i>>
    BY <2>3, <2>4, <2>5, WrittenIsRead DEF L
  <2>7. f[i] = <<text[k]>> \o f[j]
    <3>1. i \in 1..L + 4 /\ ~(i > L)
      BY <1>2, <2>5
    <3>2. f[i] = <<Unescaped(line, i)[1]>> \o f[i + Unescaped(line, i)[2]]
      BY <1>1, <3>1 DEF ReadsFrom, L
    <3>3. Unescaped(line, i)[1] = text[k] /\ i + Unescaped(line, i)[2] = j
      BY <1>2, <2>3, <2>5, <2>6
    <3> QED
      BY <3>2, <3>3
  <2>8. f[j] = Remains(k + 1)
    <3> DEFINE l == m - 1
    <3>1. l \in 0..n /\ n + 1 - l = k + 1 /\ ~(m <= l)
      BY <1>2, <1>9, <2>1
    <3>2. l \notin Failing
      BY <1>8, <3>1
    <3> HIDE DEF l, k
    <3>3. f[at[n + 1 - l]] = Remains(n + 1 - l)
      BY <3>1, <3>2
    <3> QED
      BY <3>1, <3>3 DEF j
  <2> QED
    BY <1>6, <1>9, <2>1, <2>7, <2>8 DEF i
<1> QED
  BY <1>10, <1>11

LEMMA Joined ==
    ASSUME NEW p \in Seq(Character), NEW q \in Seq(Character)
    PROVE  /\ p \o q \in Seq(Character) /\ Len(p \o q) = Len(p) + Len(q) /\ Len(p) \in Nat /\ Len(q) \in Nat
           /\ \A j \in 1..Len(p) : (p \o q)[j] = p[j]
           /\ \A j \in 1..Len(q) : (p \o q)[Len(p) + j] = q[j]
OBVIOUS

LEMMA SequenceOver ==
    ASSUME NEW S, NEW T, S \subseteq T, NEW s \in Seq(S)
    PROVE  s \in Seq(T)
<1>1. s \in [1..Len(s) -> T] /\ Len(s) \in Nat
  OBVIOUS
<1> QED
  BY <1>1

LEMMA FirstIsThere ==
    ASSUME NEW line \in Seq(Character), NEW set, NEW k \in 1..Len(line) + 1,
           \A j \in 1..k - 1 : line[j] \in set, k = Len(line) + 1 \/ line[k] \notin set
    PROVE  FirstNotIn(line, set) = k
<1>1. DOMAIN line = 1..Len(line) /\ Len(line) \in Nat
  OBVIOUS
<1>2. CASE k = Len(line) + 1
  <2>1. ~\E j \in DOMAIN line : line[j] \notin set
    BY <1>1, <1>2
  <2> QED
    BY <1>2, <2>1 DEF FirstNotIn
<1>3. CASE k # Len(line) + 1
  <2> DEFINE First(i) == i \in DOMAIN line /\ line[i] \notin set /\ \A j \in 1..i - 1 : line[j] \in set
  <2>1. First(k)
    BY <1>1, <1>3
  <2>2. ASSUME NEW i, First(i)
        PROVE  i = k
    <3>1. i \in 1..Len(line) /\ k \in 1..Len(line)
      BY <1>1, <1>3, <2>2
    <3>2. ~(i < k)
      BY <2>2, <3>1
    <3>3. ~(k < i)
      BY <1>3, <2>2, <3>1
    <3> QED
      BY <3>1, <3>2, <3>3
  <2>3. FirstNotIn(line, set) = CHOOSE i : First(i)
    <3>1. \E i \in DOMAIN line : line[i] \notin set
      BY <2>1
    <3>2. FirstNotIn(line, set) =
              CHOOSE i \in DOMAIN line : line[i] \notin set /\ \A j \in 1..i - 1 : line[j] \in set
      BY <3>1, Zenon DEF FirstNotIn
    <3> QED
      BY <3>2
  <2> HIDE DEF First
  <2>4. First(CHOOSE i : First(i))
    BY <2>1, Zenon
  <2> QED
    BY <2>2, <2>3, <2>4, Zenon
<1> QED
  BY <1>2, <1>3

LEMMA FrontIsDropped ==
    ASSUME NEW p \in Seq(Character), NEW q \in Seq(Character), NEW set,
           \A j \in 1..Len(p) : p[j] \in set, q = <<>> \/ q[1] \notin set
    PROVE  Drop(p \o q, set) = q
<1> DEFINE s == p \o q
<1>1. /\ s \in Seq(Character) /\ Len(s) = Len(p) + Len(q) /\ Len(p) \in Nat /\ Len(q) \in Nat
      /\ \A j \in 1..Len(p) : s[j] = p[j]
      /\ \A j \in 1..Len(q) : s[Len(p) + j] = q[j]
  OBVIOUS
<1> HIDE DEF s
<1>2. FirstNotIn(s, set) = Len(p) + 1
  <2>1. \A j \in 1..(Len(p) + 1) - 1 : s[j] \in set
    BY <1>1
  <2>2. Len(p) + 1 = Len(s) + 1 \/ s[Len(p) + 1] \notin set
    <3>1. CASE q = <<>>
      BY <1>1, <3>1
    <3>2. CASE q # <<>>
      <4>1. 1 \in 1..Len(q)
        BY <1>1, <3>2
      <4> QED
        BY <1>1, <3>2, <4>1
    <3> QED
      BY <3>1, <3>2
  <2>3. Len(p) + 1 \in 1..Len(s) + 1
    BY <1>1
  <2> QED
    BY <1>1, <2>1, <2>2, <2>3, FirstIsThere
<1>3. SubSeq(s, Len(p) + 1, Len(s)) = q
  BY <1>1, SMT
<1> QED
  BY <1>2, <1>3 DEF Drop, s

LEMMA ReversedOnce ==
    ASSUME NEW p \in Seq(Character)
    PROVE  /\ Reverse(p) \in Seq(Character) /\ Len(Reverse(p)) = Len(p)
           /\ \A j \in 1..Len(p) : Reverse(p)[j] = p[Len(p) - j + 1]
<1>1. Len(p) \in Nat /\ \A j \in 1..Len(p) : p[(Len(p) - j) + 1] \in Character /\ (Len(p) - j) + 1 = Len(p) - j + 1
  OBVIOUS
<1>2. Reverse(p) = [j \in 1..Len(p) |-> p[(Len(p) - j) + 1]]
  BY DEF Reverse
<1>3. Reverse(p) \in [1..Len(p) -> Character]
  BY <1>1, <1>2
<1>4. Reverse(p) \in Seq(Character) /\ Len(Reverse(p)) = Len(p)
  BY <1>1, <1>3
<1> QED
  BY <1>1, <1>2, <1>4

LEMMA Reversed ==
    ASSUME NEW p \in Seq(Character), NEW q \in Seq(Character)
    PROVE  Reverse(p \o q) = Reverse(q) \o Reverse(p) /\ Reverse(Reverse(p)) = p
<1>1. Reverse(Reverse(p)) = p
  <2> DEFINE r == Reverse(p)
  <2>1. r \in Seq(Character) /\ Len(r) = Len(p) /\ \A j \in 1..Len(p) : r[j] = p[Len(p) - j + 1]
    BY ReversedOnce
  <2> HIDE DEF r
  <2>2. Reverse(r) \in Seq(Character) /\ Len(Reverse(r)) = Len(r) /\ \A j \in 1..Len(r) : Reverse(r)[j] = r[Len(r) - j + 1]
    BY <2>1, ReversedOnce
  <2>3. ASSUME NEW j \in 1..Len(p)
        PROVE  Reverse(r)[j] = p[j]
    <3>1. Len(p) - j + 1 \in 1..Len(p) /\ Len(p) - (Len(p) - j + 1) + 1 = j
      OBVIOUS
    <3> QED
      BY <2>1, <2>2, <3>1
  <2>4. Reverse(r) = p
    BY <2>1, <2>2, <2>3
  <2> QED
    BY <2>4 DEF r
<1>2. Reverse(p \o q) = Reverse(q) \o Reverse(p)
  <2> DEFINE s == p \o q  b == Reverse(p)  c == Reverse(q)  d == c \o b
  <2>1. /\ s \in Seq(Character) /\ Len(s) = Len(p) + Len(q) /\ Len(p) \in Nat /\ Len(q) \in Nat
        /\ \A j \in 1..Len(p) : s[j] = p[j]
        /\ \A j \in 1..Len(q) : s[Len(p) + j] = q[j]
    BY Joined
  <2>2. /\ b \in Seq(Character) /\ Len(b) = Len(p) /\ \A j \in 1..Len(p) : b[j] = p[Len(p) - j + 1]
        /\ c \in Seq(Character) /\ Len(c) = Len(q) /\ \A j \in 1..Len(q) : c[j] = q[Len(q) - j + 1]
    BY ReversedOnce
  <2> HIDE DEF s, b, c
  <2>3. /\ d \in Seq(Character) /\ Len(d) = Len(q) + Len(p)
        /\ \A j \in 1..Len(q) : d[j] = c[j]
        /\ \A j \in 1..Len(p) : d[Len(q) + j] = b[j]
    <3>1. /\ d \in Seq(Character) /\ Len(d) = Len(c) + Len(b)
          /\ \A j \in 1..Len(c) : d[j] = c[j]
          /\ \A j \in 1..Len(b) : d[Len(c) + j] = b[j]
      BY <2>2, Joined
    <3> HIDE DEF d
    <3>2. Len(b) = Len(p) /\ Len(c) = Len(q)
      BY <2>2
    <3> QED
      BY <3>1, <3>2
  <2>4. Reverse(s) \in Seq(Character) /\ Len(Reverse(s)) = Len(s) /\ \A j \in 1..Len(s) : Reverse(s)[j] = s[Len(s) - j + 1]
    BY <2>1, ReversedOnce
  <2> HIDE DEF d
  <2>5. ASSUME NEW j \in 1..Len(s)
        PROVE  Reverse(s)[j] = d[j]
    <3>1. CASE j \in 1..Len(q)
      <4>1. Len(q) - j + 1 \in 1..Len(q) /\ Len(s) - j + 1 = Len(p) + (Len(q) - j + 1)
        BY <2>1, <3>1
      <4>2. Reverse(s)[j] = q[Len(q) - j + 1]
        BY <2>1, <2>4, <4>1
      <4> QED
        BY <2>2, <2>3, <3>1, <4>2
    <3>2. CASE j \notin 1..Len(q)
      <4> DEFINE i == j - Len(q)
      <4>1. i \in 1..Len(p) /\ j = Len(q) + i /\ Len(s) - j + 1 = Len(p) - i + 1 /\ Len(p) - i + 1 \in 1..Len(p)
        BY <2>1, <3>2
      <4> HIDE DEF i
      <4>2. Reverse(s)[j] = p[Len(p) - i + 1]
        BY <2>1, <2>4, <4>1
      <4>3. d[j] = b[i]
        BY <2>3, <4>1
      <4> QED
        BY <2>2, <4>1, <4>2, <4>3
    <3> QED
      BY <3>1, <3>2
  <2>6. Reverse(s) = d
    <3>1. Len(d) = Len(s)
      BY <2>1, <2>3
    <3> QED
      BY <2>3, <2>4, <2>5, <3>1
  <2> QED
    BY <2>6 DEF s, b, c, d
<1> QED
  BY <1>1, <1>2

LEMMA EndIsDropped ==
    ASSUME NEW p \in Seq(Character), NEW q \in Seq(Character), NEW set,
           \A j \in 1..Len(q) : q[j] \in set, p = <<>> \/ p[Len(p)] \notin set
    PROVE  DropEnd(p \o q, set) = p
<1> DEFINE b == Reverse(p)  c == Reverse(q)
<1>1. /\ b \in Seq(Character) /\ Len(b) = Len(p) /\ \A j \in 1..Len(p) : b[j] = p[Len(p) - j + 1]
      /\ c \in Seq(Character) /\ Len(c) = Len(q) /\ \A j \in 1..Len(q) : c[j] = q[Len(q) - j + 1]
  BY ReversedOnce
<1>2. Reverse(p \o q) = c \o b /\ Reverse(b) = p
  BY Reversed
<1> HIDE DEF b, c
<1>3. \A j \in 1..Len(c) : c[j] \in set
  <2>1. ASSUME NEW j \in 1..Len(q)
        PROVE  Len(q) - j + 1 \in 1..Len(q)
    OBVIOUS
  <2> QED
    BY <1>1, <2>1
<1>4. b = <<>> \/ b[1] \notin set
  <2>1. CASE p = <<>>
    BY <1>1, <2>1
  <2>2. CASE p # <<>>
    <3>1. 1 \in 1..Len(p) /\ Len(p) - 1 + 1 = Len(p)
      BY <2>2
    <3> QED
      BY <1>1, <2>2, <3>1
  <2> QED
    BY <2>1, <2>2
<1>5. Drop(c \o b, set) = b
  BY <1>1, <1>3, <1>4, FrontIsDropped
<1> QED
  BY <1>2, <1>5, Zenon DEF DropEnd

ReadsAs(indent, name, space, args, end) ==
    Command(indent \o (name \o (space \o (args \o end)))) = [name |-> LowerCase(name), args |-> args]

\* parse_script() finds the command and its arguments in a line, however it is indented, spaced
\* and ended: the name in lower case, and the arguments without the space before them and
\* the line's end behind.
THEOREM CommandIsRead ==
    ASSUME NEW indent \in Seq({Blank, Tab, CarriageReturn, LineFeed}), NEW name \in Seq(Character \ {Blank, Tab}),
           NEW space \in Seq({Blank, Tab}), NEW args \in Seq(Character), NEW end \in Seq({CarriageReturn, LineFeed}),
           name # <<>>, name[1] \notin {Hash, CarriageReturn, LineFeed}, space # <<>>,
           args # <<>> => args[1] \notin {Blank, Tab} /\ args[Len(args)] \notin {CarriageReturn, LineFeed}
    PROVE  ReadsAs(indent, name, space, args, end)
<1> DEFINE rest == args \o end  tail == space \o rest  sv == name \o tail  line == indent \o sv
           front == {Blank, Tab, CarriageReturn, LineFeed}
<1>1. Blank \in Character /\ Tab \in Character /\ CarriageReturn \in Character /\ LineFeed \in Character
  BY DEF Blank, Tab, CarriageReturn, LineFeed, Character
<1>2. /\ indent \in Seq(Character) /\ name \in Seq(Character) /\ space \in Seq(Character) /\ end \in Seq(Character)
  <2>1. /\ {Blank, Tab, CarriageReturn, LineFeed} \subseteq Character /\ Character \ {Blank, Tab} \subseteq Character
        /\ {Blank, Tab} \subseteq Character /\ {CarriageReturn, LineFeed} \subseteq Character
    BY <1>1
  <2> QED
    BY <2>1, SequenceOver, Zenon
<1>3. rest \in Seq(Character) /\ tail \in Seq(Character) /\ sv \in Seq(Character)
  BY <1>2
<1>4. \A j \in 1..Len(indent) : indent[j] \in front
  OBVIOUS
<1>5. sv # <<>> /\ sv[1] = name[1] /\ name[1] \in Character \ {Blank, Tab}
  <2>1. 1 \in 1..Len(name)
    OBVIOUS
  <2> HIDE DEF tail
  <2> QED
    BY <1>2, <1>3, <2>1
<1>6. sv[1] \notin front /\ sv[1] # Hash
  BY <1>5
<1>7. Drop(line, front) = sv
  <2> HIDE DEF sv, front
  <2> QED
    BY <1>2, <1>3, <1>4, <1>6, FrontIsDropped
<1> DEFINE word == (0..255) \ {Blank, Tab}  k == Len(name) + 1
<1>8. FirstNotIn(sv, word) = k
  <2>1. tail # <<>> /\ tail[1] \in {Blank, Tab}
    <3>1. 1 \in 1..Len(space) /\ space[1] \in {Blank, Tab}
      OBVIOUS
    <3> HIDE DEF rest
    <3> QED
      BY <1>2, <1>3, <3>1
  <2> HIDE DEF tail
  <2>2. /\ Len(sv) = Len(name) + Len(tail) /\ Len(name) \in Nat /\ Len(tail) \in Nat /\ Len(tail) # 0
        /\ \A j \in 1..Len(name) : sv[j] = name[j]
        /\ sv[Len(name) + 1] = tail[1]
    BY <1>2, <1>3, <2>1
  <2>3. \A j \in 1..Len(name) : name[j] \in word
    BY DEF Character
  <2> HIDE DEF sv
  <2>4. k \in 1..Len(sv) + 1 /\ k - 1 = Len(name) /\ sv[k] \notin word
    BY <2>1, <2>2
  <2>5. \A j \in 1..k - 1 : sv[j] \in word
    BY <2>2, <2>3, <2>4
  <2> HIDE DEF k, word
  <2> QED
    BY <1>3, <2>4, <2>5, FirstIsThere
<1>9. SubSeq(sv, 1, k - 1) = name /\ SubSeq(sv, k, Len(sv)) = tail
  <2> HIDE DEF tail
  <2> QED
    BY <1>2, <1>3
<1>10. Drop(tail, {Blank, Tab}) = rest
  <2>1. rest = <<>> \/ rest[1] \notin {Blank, Tab}
    <3>1. CASE args = <<>>
      <4>1. rest = end
        BY <1>2, <3>1
      <4>2. end = <<>> \/ end[1] \in {CarriageReturn, LineFeed}
        OBVIOUS
      <4> QED
        BY <4>1, <4>2 DEF Blank, Tab, CarriageReturn, LineFeed
    <3>2. CASE args # <<>>
      <4>1. 1 \in 1..Len(args)
        BY <3>2
      <4>2. rest[1] = args[1]
        BY <1>2, <4>1
      <4> QED
        BY <3>2, <4>2
    <3> QED
      BY <3>1, <3>2
  <2>2. \A j \in 1..Len(space) : space[j] \in {Blank, Tab}
    OBVIOUS
  <2> HIDE DEF rest
  <2> QED
    BY <1>2, <1>3, <2>1, <2>2, FrontIsDropped
<1>11. DropEnd(rest, {CarriageReturn, LineFeed}) = args
  <2>1. \A j \in 1..Len(end) : end[j] \in {CarriageReturn, LineFeed}
    OBVIOUS
  <2> QED
    BY <1>2, <2>1, EndIsDropped
<1> HIDE DEF line, sv, tail, rest, k, word, front
<1>12. Command(line) =
           IF sv = <<>> \/ Head(sv) = Hash THEN NoCommand
           ELSE [name |-> LowerCase(SubSeq(sv, 1, k - 1)),
                 args |-> DropEnd(Drop(SubSeq(sv, k, Len(sv)), {Blank, Tab}), {CarriageReturn, LineFeed})]
  <2>1. Drop(line, {Blank, Tab, CarriageReturn, LineFeed}) = sv
    BY <1>7, Zenon DEF front
  <2>2. FirstNotIn(sv, (0..255) \ {Blank, Tab}) = k
    BY <1>8, Zenon DEF word
  <2> QED
    BY <2>1, <2>2, Zenon DEF Command
<1>13. Command(line) = [name |-> LowerCase(name), args |-> args]
  <2>1. ~(sv = <<>> \/ Head(sv) = Hash)
    BY <1>3, <1>5, <1>6
  <2> QED
    BY <1>9, <1>10, <1>11, <1>12, <2>1, Zenon
<1> QED
  BY <1>13, Zenon DEF ReadsAs, line, sv, tail, rest

-----------------------------------------------------------------------------
(* What a writer of scripts writes.                                        *)

\* A function from one position to the next.
Runs(f, n, V, first, step) ==
    f \in [0..n -> V] /\ f[0] = first /\ \A k \in 1..n : f[k] = step[<<f[k - 1], k>>]

LEMMA Recursion ==
    ASSUME NEW V, NEW n \in Nat, NEW first \in V, NEW step \in [V \X (1..n) -> V]
    PROVE  \E f : Runs(f, n, V, first, step)
<1> DEFINE T == {m \in 0..n : ~\E f : Runs(f, m, V, first, step)}
<1>1. SUFFICES ASSUME T # {} PROVE FALSE
  <2>1. n \in 0..n
    OBVIOUS
  <2> QED
    BY <1>1, <2>1, Zenon
<1>2. PICK m \in T : \A k \in T : m <= k
  <2>1. T \subseteq Nat
    OBVIOUS
  <2> HIDE DEF T
  <2> QED
    BY <1>1, <2>1, LeastNat
<1>3. CASE m = 0
  <2> DEFINE f == [k \in 0..0 |-> first]
  <2>1. Runs(f, 0, V, first, step)
    BY DEF Runs
  <2> QED
    BY <2>1, <1>2, <1>3
<1>4. CASE m # 0
  <2>1. m \in 1..n /\ m - 1 \in 0..n /\ m - 1 \notin T
    BY <1>2, <1>4
  <2>2. PICK f : Runs(f, m - 1, V, first, step)
    BY <2>1
  <2> DEFINE v == step[<<f[m - 1], m>>]
  <2> DEFINE g == [k \in 0..m |-> IF k = m THEN v ELSE f[k]]
  <2>3. f \in [0..(m - 1) -> V] /\ f[0] = first
    BY <2>2 DEF Runs
  <2>4. v \in V
    BY <2>1, <2>3
  <2>5. g \in [0..m -> V] /\ g[0] = first
    BY <2>1, <2>3, <2>4
  <2>6. ASSUME NEW k \in 1..m PROVE g[k] = step[<<g[k - 1], k>>]
    <3>1. g[k - 1] = f[k - 1]
      BY <2>1
    <3>2. CASE k = m
      BY <3>1, <3>2
    <3>3. CASE k # m
      <4>1. k \in 1..(m - 1)
        BY <3>3, <2>1
      <4>2. f[k] = step[<<f[k - 1], k>>]
        BY <2>2, <4>1 DEF Runs
      <4>3. g[k] = f[k]
        BY <3>3
      <4> QED
        BY <3>1, <4>2, <4>3
    <3> QED
      BY <3>2, <3>3
  <2>7. Runs(g, m, V, first, step)
    <3> HIDE DEF g
    <3> QED
      BY <2>5, <2>6 DEF Runs
  <2> QED
    BY <1>2, <2>7
<1> QED
  BY <1>3, <1>4

\* Clean() is such a function.
Kept(chars, c) == IF c \in Spaces THEN chars ELSE Append(chars, c)
Cleans(f, hex, n) ==
    /\ f \in [0..n -> Seq(Character)] /\ f[0] = <<>> /\ \A k \in 1..n : f[k] = Kept(f[k - 1], hex[k])

LEMMA CleaningOfText ==
    ASSUME NEW hex \in Seq(Character)
    PROVE  \E f : Cleans(f, hex, Len(hex)) /\ Clean(hex) = f[Len(hex)]
<1> DEFINE n == Len(hex)
           step == [p \in Seq(Character) \X (1..n) |-> Kept(p[1], hex[p[2]])]
           Upto == CHOOSE f : f = [k \in 0..n |-> IF k = 0 THEN <<>> ELSE
                                                  IF hex[k] \in Spaces THEN f[k - 1] ELSE Append(f[k - 1], hex[k])]
<1>1. n \in Nat /\ \A k \in 1..n : hex[k] \in Character
  OBVIOUS
<1>2. Clean(hex) = Upto[n]
  BY DEF Clean
<1> HIDE DEF n
<1>3. step \in [Seq(Character) \X (1..n) -> Seq(Character)]
  BY <1>1 DEF Kept
<1>4. PICK f : Runs(f, n, Seq(Character), <<>>, step)
  <2> HIDE DEF step
  <2>1. <<>> \in Seq(Character)
    OBVIOUS
  <2> QED
    BY <1>1, <1>3, <2>1, Recursion
<1>5. f = [k \in 0..n |-> IF k = 0 THEN <<>> ELSE IF hex[k] \in Spaces THEN f[k - 1] ELSE Append(f[k - 1], hex[k])]
  <2>1. f \in [0..n -> Seq(Character)] /\ f[0] = <<>>
    BY <1>4 DEF Runs
  <2>2. \A k \in 1..n : f[k] = Kept(f[k - 1], hex[k])
    <3> SUFFICES ASSUME NEW k \in 1..n PROVE f[k] = Kept(f[k - 1], hex[k])
      OBVIOUS
    <3>1. f[k] = step[<<f[k - 1], k>>]
      BY <1>4 DEF Runs
    <3>2. f[k - 1] \in Seq(Character)
      BY <1>1, <2>1
    <3> QED
      BY <3>1, <3>2
  <2>3. \A k \in 0..n : k # 0 => k \in 1..n
    BY <1>1
  <2>4. \A k \in 0..n : f[k] = IF k = 0 THEN <<>> ELSE IF hex[k] \in Spaces THEN f[k - 1] ELSE Append(f[k - 1], hex[k])
    BY <2>1, <2>2, <2>3, Zenon DEF Kept
  <2> QED
    BY <2>1, <2>4, Zenon
<1>6. Upto = [k \in 0..n |-> IF k = 0 THEN <<>> ELSE
                              IF hex[k] \in Spaces THEN Upto[k - 1] ELSE Append(Upto[k - 1], hex[k])]
  BY <1>5, Zenon
<1> HIDE DEF Upto
<1> DEFINE Bad == {k \in 0..n : Upto[k] \notin Seq(Character)}
<1>7. Upto[0] = <<>> /\ \A k \in 1..n : Upto[k] = Kept(Upto[k - 1], hex[k])
  <2>1. \A k \in 0..n : Upto[k] = IF k = 0 THEN <<>> ELSE IF hex[k] \in Spaces THEN Upto[k - 1] ELSE Append(Upto[k - 1], hex[k])
    BY <1>6, Zenon
  <2>2. 0 \in 0..n /\ \A k \in 1..n : k \in 0..n /\ k # 0
    BY <1>1
  <2> QED
    BY <2>1, <2>2, Zenon DEF Kept
<1>8. Bad = {}
  <2> SUFFICES ASSUME Bad # {} PROVE FALSE
    OBVIOUS
  <2>1. PICK k \in Bad : \A j \in Bad : k <= j
    <3>1. Bad \subseteq Nat
      BY <1>1
    <3> HIDE DEF Bad
    <3> QED
      BY <3>1, LeastNat
  <2>2. k # 0
    <3>1. <<>> \in Seq(Character)
      OBVIOUS
    <3> QED
      BY <1>7, <2>1, <3>1
  <2>3. k \in 1..n /\ k - 1 \in 0..n /\ k - 1 \notin Bad
    BY <1>1, <2>1, <2>2
  <2>4. Upto[k - 1] \in Seq(Character) /\ hex[k] \in Character
    BY <1>1, <2>3
  <2>5. Upto[k] = Kept(Upto[k - 1], hex[k])
    BY <1>7, <2>3
  <2>6. Kept(Upto[k - 1], hex[k]) \in Seq(Character)
    BY <2>4 DEF Kept
  <2> QED
    BY <2>1, <2>5, <2>6
<1>9. Cleans(Upto, hex, n)
  <2>1. \A k \in 0..n : Upto[k] \in Seq(Character)
    BY <1>8
  <2>2. Upto \in [0..n -> Seq(Character)]
    BY <1>6, <2>1, Zenon
  <2> QED
    BY <1>7, <2>2 DEF Cleans
<1> QED
  BY <1>2, <1>9 DEF n

LEMMA CleaningsAgree ==
    ASSUME NEW hex, NEW more, NEW n \in Nat, NEW m \in Nat, n <= m, \A k \in 1..n : hex[k] = more[k],
           NEW f, Cleans(f, hex, n), NEW g, Cleans(g, more, m)
    PROVE  f[n] = g[n]
<1> DEFINE Bad == {k \in 0..n : f[k] # g[k]}
<1>1. /\ f[0] = <<>> /\ g[0] = <<>>
      /\ \A k \in 1..n : f[k] = Kept(f[k - 1], hex[k]) /\ g[k] = Kept(g[k - 1], hex[k])
  BY DEF Cleans
<1>2. SUFFICES ASSUME Bad # {} PROVE FALSE
  <2>1. n \in 0..n
    OBVIOUS
  <2> QED
    BY <1>2, <2>1
<1>3. PICK k \in Bad : \A j \in Bad : k <= j
  <2>1. Bad \subseteq Nat
    OBVIOUS
  <2> HIDE DEF Bad
  <2> QED
    BY <1>2, <2>1, LeastNat
<1>4. k # 0
  BY <1>1, <1>3
<1>5. k \in 1..n /\ k - 1 \in 0..n /\ k - 1 \notin Bad
  BY <1>3, <1>4
<1>6. f[k - 1] = g[k - 1]
  BY <1>5
<1>7. f[k] = g[k]
  BY <1>1, <1>5, <1>6
<1> QED
  BY <1>3, <1>7

LEMMA CleanTakesOne ==
    ASSUME NEW p \in Seq(Character), NEW c \in Character
    PROVE  Clean(p) \in Seq(Character) /\ Clean(Append(p, c)) = Kept(Clean(p), c)
<1> DEFINE n == Len(p)  s == Append(p, c)
<1>1. n \in Nat /\ s \in Seq(Character) /\ Len(s) = n + 1 /\ s[n + 1] = c /\ \A k \in 1..n : p[k] = s[k]
  OBVIOUS
<1>2. PICK f : Cleans(f, p, n) /\ Clean(p) = f[n]
  BY CleaningOfText
<1> HIDE DEF s
<1>3. PICK g : Cleans(g, s, n + 1) /\ Clean(s) = g[n + 1]
  BY <1>1, CleaningOfText
<1> HIDE DEF n
<1>4. f[n] = g[n]
  BY <1>1, <1>2, <1>3, CleaningsAgree
<1>5. g[n + 1] = Kept(g[n], c)
  <2>1. n + 1 \in 1..n + 1 /\ n + 1 - 1 = n
    BY <1>1
  <2>2. \A k \in 1..n + 1 : g[k] = Kept(g[k - 1], s[k])
    BY <1>3 DEF Cleans
  <2> QED
    BY <1>1, <2>1, <2>2
<1>6. f[n] \in Seq(Character)
  BY <1>1, <1>2 DEF Cleans
<1> QED
  BY <1>2, <1>3, <1>4, <1>5, <1>6 DEF s

LEMMA CleanDropsSpace ==
    ASSUME NEW p \in Seq(Character), NEW q \in Seq(Spaces)
    PROVE  p \o q \in Seq(Character) /\ Clean(p \o q) = Clean(p)
<1> DEFINE n == Len(q)  To(k) == p \o SubSeq(q, 1, k)
           Bad == {k \in 0..n : Clean(To(k)) # Clean(p)}
<1>1. Spaces \subseteq Character
  BY DEF Spaces, Character, Blank
<1>2. q \in Seq(Character) /\ n \in Nat /\ \A k \in 1..n : q[k] \in Spaces /\ q[k] \in Character
  <2>1. q \in Seq(Character)
    BY <1>1, SequenceOver
  <2> QED
    BY <1>1, <2>1
<1>3. To(0) = p /\ To(n) = p \o q
  <2>1. SubSeq(q, 1, 0) = <<>> /\ SubSeq(q, 1, n) = q
    OBVIOUS
  <2> QED
    BY <2>1
<1>4. \A k \in 1..n : To(k) = Append(To(k - 1), q[k]) /\ To(k - 1) \in Seq(Character)
  <2> SUFFICES ASSUME NEW k \in 1..n PROVE To(k) = Append(To(k - 1), q[k]) /\ To(k - 1) \in Seq(Character)
    OBVIOUS
  <2>1. SubSeq(q, 1, k) = Append(SubSeq(q, 1, k - 1), q[k]) /\ SubSeq(q, 1, k - 1) \in Seq(Character)
    BY <1>2
  <2> DEFINE r == SubSeq(q, 1, k - 1)
  <2> HIDE DEF r
  <2>2. p \o Append(r, q[k]) = Append(p \o r, q[k]) /\ p \o r \in Seq(Character)
    <3>1. r \in Seq(Character) /\ q[k] \in Character
      BY <1>2, <2>1 DEF r
    <3> QED
      BY <3>1
  <2> QED
    BY <2>1, <2>2 DEF r
<1>5. p \o q \in Seq(Character)
  BY <1>2
<1>6. SUFFICES ASSUME Bad # {} PROVE FALSE
  <2>1. n \in 0..n
    BY <1>2
  <2>2. Clean(To(n)) = Clean(p)
    BY <1>6, <2>1, Zenon
  <2> QED
    BY <1>3, <1>5, <2>2, Zenon
<1>7. PICK k \in Bad : \A j \in Bad : k <= j
  <2>1. Bad \subseteq Nat
    BY <1>2
  <2> HIDE DEF Bad
  <2> QED
    BY <1>6, <2>1, LeastNat
<1> HIDE DEF To, n
<1>8. k # 0
  BY <1>3, <1>7
<1>9. k \in 1..n /\ k - 1 \in 0..n /\ k - 1 \notin Bad
  BY <1>2, <1>7, <1>8
<1>10. Clean(To(k - 1)) = Clean(p)
  BY <1>9
<1>11. Clean(To(k)) = Kept(Clean(To(k - 1)), q[k])
  <2>1. To(k) = Append(To(k - 1), q[k]) /\ To(k - 1) \in Seq(Character) /\ q[k] \in Character
    BY <1>2, <1>4, <1>9
  <2> QED
    BY <2>1, CleanTakesOne
<1>12. Clean(To(k)) = Clean(p)
  BY <1>2, <1>9, <1>10, <1>11 DEF Kept
<1> QED
  BY <1>7, <1>12

LEMMA HexDigitIsRead ==
    ASSUME NEW n \in 0..15
    PROVE  HexDigit(n) \in Character \ Spaces /\ HexDigit(n) \notin {CarriageReturn, LineFeed} /\ Digit(HexDigit(n)) = n
BY DEF HexDigit, Digit, Character, Spaces, Blank, NoDigit, CarriageReturn, LineFeed

LEMMA HexIsRead ==
    ASSUME NEW b \in Character
    PROVE  /\ Hex(b) = <<Hex(b)[1], Hex(b)[2]>>
           /\ Hex(b)[1] \in Character \ Spaces /\ Hex(b)[2] \in Character \ Spaces
           /\ Hex(b)[2] \notin {CarriageReturn, LineFeed}
           /\ IsHex(Hex(b)[1]) /\ IsHex(Hex(b)[2])
           /\ 16 * Digit(Hex(b)[1]) + Digit(Hex(b)[2]) = b
           /\ Byte(Hex(b)[1], Hex(b)[2]) = b
<1> DEFINE m == b \div 16  n == b % 16
<1>1. m \in 0..15 /\ n \in 0..15 /\ 16 * m + n = b
  BY DEF Character
<1>2. Hex(b) = <<HexDigit(m), HexDigit(n)>>
  BY DEF Hex
<1> HIDE DEF m, n
<1>3. /\ HexDigit(m) \in Character \ Spaces /\ Digit(HexDigit(m)) = m
      /\ HexDigit(n) \in Character \ Spaces /\ Digit(HexDigit(n)) = n /\ HexDigit(n) \notin {CarriageReturn, LineFeed}
  BY <1>1, HexDigitIsRead
<1>4. m # NoDigit /\ n # NoDigit
  BY <1>1 DEF NoDigit
<1>5. Byte(HexDigit(m), HexDigit(n)) = b
  BY <1>1, <1>3, <1>4 DEF Byte
<1> QED
  BY <1>1, <1>2, <1>3, <1>4, <1>5 DEF IsHex

\* Digits() and Writings() are such functions.
LEMMA DigitsOfBytes ==
    ASSUME NEW bytes \in Seq(Character), NEW space \in Seq(Spaces)
    PROVE  \E f : /\ f[0] = <<>> /\ \A k \in 1..Len(bytes) : f[k] = f[k - 1] \o space \o Hex(bytes[k])
                  /\ Digits(bytes, space) = f[Len(bytes)]
<1> DEFINE n == Len(bytes)
           step == [p \in Seq(Character) \X (1..n) |-> p[1] \o space \o Hex(bytes[p[2]])]
           Of == CHOOSE f : f = [k \in 0..n |-> IF k = 0 THEN <<>> ELSE f[k - 1] \o space \o Hex(bytes[k])]
<1>1. n \in Nat /\ \A k \in 1..n : bytes[k] \in Character
  OBVIOUS
<1>2. Digits(bytes, space) = Of[n]
  BY DEF Digits
<1> HIDE DEF n
<1>3. step \in [Seq(Character) \X (1..n) -> Seq(Character)]
  <2> SUFFICES ASSUME NEW s \in Seq(Character), NEW k \in 1..n
               PROVE  s \o space \o Hex(bytes[k]) \in Seq(Character)
    OBVIOUS
  <2>1. s \o space \in Seq(Character)
    <3>1. Spaces \subseteq Character
      BY DEF Spaces, Character, Blank
    <3> QED
      BY <3>1, SequenceOver
  <2>2. Hex(bytes[k]) \in Seq(Character)
    <3> DEFINE a == Hex(bytes[k])[1]  b == Hex(bytes[k])[2]
    <3>1. Hex(bytes[k]) = <<a, b>> /\ a \in Character /\ b \in Character
      BY <1>1, HexIsRead
    <3> HIDE DEF a, b
    <3> QED
      BY <3>1
  <2> QED
    BY <2>1, <2>2
<1>4. PICK f : Runs(f, n, Seq(Character), <<>>, step)
  <2> HIDE DEF step
  <2>1. <<>> \in Seq(Character)
    OBVIOUS
  <2> QED
    BY <1>1, <1>3, <2>1, Recursion
<1>5. f = [k \in 0..n |-> IF k = 0 THEN <<>> ELSE f[k - 1] \o space \o Hex(bytes[k])]
  <2>1. f \in [0..n -> Seq(Character)] /\ f[0] = <<>>
    BY <1>4 DEF Runs
  <2>2. \A k \in 1..n : f[k] = f[k - 1] \o space \o Hex(bytes[k])
    <3> SUFFICES ASSUME NEW k \in 1..n PROVE f[k] = f[k - 1] \o space \o Hex(bytes[k])
      OBVIOUS
    <3>1. f[k] = step[<<f[k - 1], k>>]
      BY <1>4 DEF Runs
    <3>2. f[k - 1] \in Seq(Character)
      BY <1>1, <2>1
    <3> QED
      BY <3>1, <3>2, Zenon
  <2>3. \A k \in 0..n : k # 0 => k \in 1..n
    BY <1>1
  <2>4. \A k \in 0..n : f[k] = IF k = 0 THEN <<>> ELSE f[k - 1] \o space \o Hex(bytes[k])
    BY <2>1, <2>2, <2>3, Zenon
  <2> QED
    BY <2>1, <2>4, Zenon
<1>6. Of = [k \in 0..n |-> IF k = 0 THEN <<>> ELSE Of[k - 1] \o space \o Hex(bytes[k])]
  BY <1>5, Zenon
<1> HIDE DEF Of
<1>7. Of[0] = <<>> /\ \A k \in 1..n : Of[k] = Of[k - 1] \o space \o Hex(bytes[k])
  <2>1. \A k \in 0..n : Of[k] = IF k = 0 THEN <<>> ELSE Of[k - 1] \o space \o Hex(bytes[k])
    BY <1>6, Zenon
  <2>2. 0 \in 0..n /\ \A k \in 1..n : k \in 0..n /\ k # 0
    BY <1>1
  <2> QED
    BY <2>1, <2>2, Zenon
<1> QED
  BY <1>2, <1>7 DEF n

\* The digits of the first n of the bytes.
DigitsOf(chars, bytes, n) ==
    /\ chars \in Seq(Character) /\ Len(chars) = 2 * n
    /\ \A j \in 1..n : chars[2 * j - 1] = Hex(bytes[j])[1] /\ chars[2 * j] = Hex(bytes[j])[2]

LEMMA OneMoreByteIsClean ==
    ASSUME NEW bytes \in Seq(Character), NEW space \in Seq(Spaces), NEW k \in 1..Len(bytes),
           NEW s \in Seq(Character), DigitsOf(Clean(s), bytes, k - 1)
    PROVE  /\ s \o space \o Hex(bytes[k]) \in Seq(Character)
           /\ DigitsOf(Clean(s \o space \o Hex(bytes[k])), bytes, k)
<1> DEFINE a == Hex(bytes[k])[1]  b == Hex(bytes[k])[2]  t == s \o space
<1>1. Hex(bytes[k]) = <<a, b>> /\ a \in Character \ Spaces /\ b \in Character \ Spaces
  <2>1. bytes[k] \in Character
    OBVIOUS
  <2> QED
    BY <2>1, HexIsRead
<1>2. t \in Seq(Character) /\ Clean(t) = Clean(s)
  BY CleanDropsSpace
<1> DEFINE c == Clean(s)
<1>3. c \in Seq(Character) /\ Len(c) = 2 * (k - 1)
      /\ \A j \in 1..k - 1 : c[2 * j - 1] = Hex(bytes[j])[1] /\ c[2 * j] = Hex(bytes[j])[2]
  BY DEF DigitsOf
<1> HIDE DEF a, b, c, t
<1>4. t \o <<a, b>> = Append(Append(t, a), b) /\ Append(t, a) \in Seq(Character) /\ t \o <<a, b>> \in Seq(Character)
  BY <1>1, <1>2
<1>5. Clean(Append(t, a)) = Append(c, a)
  BY <1>1, <1>2, CleanTakesOne DEF Kept, c
<1>6. Clean(t \o <<a, b>>) = Append(Append(c, a), b)
  BY <1>1, <1>4, <1>5, CleanTakesOne DEF Kept
<1> DEFINE d == Append(Append(c, a), b)
<1>7. /\ d \in Seq(Character) /\ Len(d) = Len(c) + 2 /\ d[Len(c) + 1] = a /\ d[Len(c) + 2] = b
      /\ \A j \in 1..Len(c) : d[j] = c[j]
  BY <1>1, <1>3
<1> HIDE DEF d
<1>8. k \in Nat /\ k >= 1
  OBVIOUS
<1>9. Len(d) = 2 * k /\ d[2 * k - 1] = a /\ d[2 * k] = b
  <2>1. Len(c) + 2 = 2 * k /\ Len(c) + 1 = 2 * k - 1
    BY <1>3, <1>8
  <2> QED
    BY <1>7, <2>1
<1>10. ASSUME NEW j \in 1..k
       PROVE  d[2 * j - 1] = Hex(bytes[j])[1] /\ d[2 * j] = Hex(bytes[j])[2]
  <2>1. CASE j = k
    BY <1>9, <2>1 DEF a, b
  <2>2. CASE j # k
    <3>1. j \in 1..k - 1 /\ 2 * j - 1 \in 1..Len(c) /\ 2 * j \in 1..Len(c)
      BY <1>3, <1>8, <2>2
    <3> QED
      BY <1>3, <1>7, <3>1
  <2> QED
    BY <2>1, <2>2
<1>11. DigitsOf(d, bytes, k)
  BY <1>7, <1>9, <1>10 DEF DigitsOf
<1> QED
  BY <1>1, <1>4, <1>6, <1>11 DEF t, d

\* Bytes of any number, written as digits with any space between them, are what parse_hex() makes of the
\* line: none is lost, split or joined with its neighbour.
THEOREM SentAsWritten ==
    ASSUME NEW bytes \in Seq(Character), NEW space \in Seq(Spaces)
    PROVE  SendsRight(bytes, space)
<1> DEFINE n == Len(bytes)
<1>1. PICK f : /\ f[0] = <<>> /\ \A k \in 1..n : f[k] = f[k - 1] \o space \o Hex(bytes[k])
               /\ Digits(bytes, space) = f[n]
  BY DigitsOfBytes
<1> DEFINE Good(k) == f[k] \in Seq(Character) /\ DigitsOf(Clean(f[k]), bytes, k)
           Bad == {k \in 0..n : ~Good(k)}
<1>2. n \in Nat
  OBVIOUS
<1>3. Good(0)
  <2>1. <<>> \in Seq(Character) /\ Len(<<>>) = 0
    OBVIOUS
  <2>2. Clean(<<>>) = <<>>
    <3>1. PICK g : Cleans(g, <<>>, Len(<<>>)) /\ Clean(<<>>) = g[Len(<<>>)]
      BY <2>1, CleaningOfText
    <3> QED
      BY <2>1, <3>1 DEF Cleans
  <2>3. DigitsOf(<<>>, bytes, 0)
    BY <2>1 DEF DigitsOf
  <2> QED
    BY <1>1, <2>1, <2>2, <2>3, Zenon
<1>4. Bad = {}
  <2> SUFFICES ASSUME Bad # {} PROVE FALSE
    OBVIOUS
  <2>1. PICK k \in Bad : \A j \in Bad : k <= j
    <3>1. Bad \subseteq Nat
      BY <1>2
    <3> HIDE DEF Bad
    <3> QED
      BY <3>1, LeastNat
  <2>2. k # 0
    BY <1>3, <2>1
  <2>3. k \in 1..n /\ k - 1 \in 0..n /\ k - 1 \notin Bad
    BY <1>2, <2>1, <2>2
  <2>4. Good(k - 1)
    BY <2>3
  <2>5. Good(k)
    <3>1. f[k] = f[k - 1] \o space \o Hex(bytes[k])
      BY <1>1, <2>3
    <3>2. /\ f[k - 1] \o space \o Hex(bytes[k]) \in Seq(Character)
          /\ DigitsOf(Clean(f[k - 1] \o space \o Hex(bytes[k])), bytes, k)
      BY <2>3, <2>4, OneMoreByteIsClean
    <3> QED
      BY <3>1, <3>2, Zenon
  <2> HIDE DEF Good
  <2> QED
    BY <2>1, <2>5
<1>5. Good(n)
  <2>1. n \in 0..n
    BY <1>2
  <2> HIDE DEF Good
  <2> QED
    BY <1>4, <2>1
<1> DEFINE clean == Clean(Digits(bytes, space))
<1>6. /\ Len(clean) = 2 * n
      /\ \A j \in 1..n : clean[2 * j - 1] = Hex(bytes[j])[1] /\ clean[2 * j] = Hex(bytes[j])[2]
  BY <1>1, <1>5 DEF DigitsOf
<1>7. parse_hex(Digits(bytes, space)) = [k \in 1..Len(clean) \div 2 |-> Byte(clean[2 * k - 1], clean[2 * k])]
  BY DEF parse_hex
<1> HIDE DEF clean
<1>8. Len(clean) \div 2 = n
  BY <1>2, <1>6
<1>9. \A k \in 1..n : Byte(clean[2 * k - 1], clean[2 * k]) = bytes[k]
  <2> SUFFICES ASSUME NEW k \in 1..n PROVE Byte(clean[2 * k - 1], clean[2 * k]) = bytes[k]
    OBVIOUS
  <2>1. bytes[k] \in Character
    OBVIOUS
  <2>2. Byte(Hex(bytes[k])[1], Hex(bytes[k])[2]) = bytes[k]
    BY <2>1, HexIsRead
  <2> QED
    BY <1>6, <2>2
<1>10. bytes = [k \in 1..n |-> bytes[k]]
  OBVIOUS
<1> HIDE DEF n
<1>11. [k \in 1..n |-> Byte(clean[2 * k - 1], clean[2 * k])] = [k \in 1..n |-> bytes[k]]
  BY <1>9, Zenon
<1> QED
  BY <1>7, <1>8, <1>10, <1>11, Zenon DEF SendsRight

LEMMA JoinsFacts ==
    ASSUME NEW front, NEW back, NEW s \in Joins(front, back)
    PROVE  \E w \in front, v \in back : s = w \o v
BY DEF Joins

LEMMA JoinsAreTexts ==
    ASSUME NEW front \in SUBSET Seq(Character), NEW back \in SUBSET Seq(Character)
    PROVE  Joins(front, back) \in SUBSET Seq(Character)
<1>1. ASSUME NEW s \in Joins(front, back)
      PROVE  s \in Seq(Character)
  <2>1. PICK w \in front, v \in back : s = w \o v
    BY <1>1, JoinsFacts
  <2> QED
    BY <2>1
<1> QED
  BY <1>1

LEMMA TwoAndTwo ==
    ASSUME NEW p \in Seq(Character), NEW q \in Seq(Character), Len(p) = 2, Len(q) = 2
    PROVE  /\ p \o q \in Seq(Character) /\ Len(p \o q) = 4 /\ (p \o q)[1] = p[1] /\ (p \o q)[2] = p[2]
           /\ (p \o q)[3] = q[1] /\ (p \o q)[4] = q[2]
<1>1. /\ p \o q \in Seq(Character) /\ Len(p \o q) = Len(p) + Len(q)
      /\ \A j \in 1..Len(p) : (p \o q)[j] = p[j]
      /\ \A j \in 1..Len(q) : (p \o q)[Len(p) + j] = q[j]
  BY Joined
<1>2. 1 \in 1..Len(p) /\ 2 \in 1..Len(p) /\ 1 \in 1..Len(q) /\ 2 \in 1..Len(q)
  OBVIOUS
<1>3. Len(p) + 1 = 3 /\ Len(p) + 2 = 4 /\ Len(p) + Len(q) = 4
  OBVIOUS
<1>4. (p \o q)[Len(p) + 1] = q[1] /\ (p \o q)[Len(p) + 2] = q[2]
  BY <1>1, <1>2
<1> QED
  BY <1>1, <1>2, <1>3, <1>4, Zenon

LEMMA WayIsWritten ==
    ASSUME NEW b \in Character, NEW k \in Nat, NEW v \in Ways(b, k)
    PROVE  /\ v \in Seq(Character) /\ Len(v) \in 1..4 /\ Writes(v, 1, Len(v) + 1, b)
           /\ v[Len(v)] \notin {CarriageReturn, LineFeed}
           /\ k = 1 => v[1] \notin {Blank, Tab}
<1>1. CASE v = <<Backslash, LetterX>> \o Hex(b)
  <2> DEFINE a == Hex(b)[1]  d == Hex(b)[2]
  <2>1. /\ Hex(b) = <<a, d>> /\ a \in Character /\ d \in Character /\ d \notin {CarriageReturn, LineFeed}
        /\ IsHex(a) /\ IsHex(d) /\ 16 * Digit(a) + Digit(d) = b
    BY HexIsRead
  <2> HIDE DEF a, d
  <2>2. Backslash \in Character /\ LetterX \in Character /\ Backslash \notin {Blank, Tab}
    BY DEF Backslash, LetterX, Character, Blank, Tab
  <2> DEFINE p == <<Backslash, LetterX>>  q == <<a, d>>
  <2>3. p \in Seq(Character) /\ Len(p) = 2 /\ p[1] = Backslash /\ p[2] = LetterX
        /\ q \in Seq(Character) /\ Len(q) = 2 /\ q[1] = a /\ q[2] = d /\ v = p \o q
    BY <1>1, <2>1, <2>2
  <2> HIDE DEF p, q
  <2>6. /\ p \o q \in Seq(Character) /\ Len(p \o q) = 4 /\ (p \o q)[1] = p[1] /\ (p \o q)[2] = p[2]
        /\ (p \o q)[3] = q[1] /\ (p \o q)[4] = q[2]
    BY <2>3, TwoAndTwo
  <2>4. /\ v \in Seq(Character) /\ Len(v) = 4 /\ v[1] = Backslash /\ v[2] = LetterX /\ v[3] = a /\ v[4] = d
    BY <2>3, <2>6, Zenon
  <2>5. Writes(v, 1, 5, b)
    <3>1. 5 = 1 + 4 /\ v[1 + 1] = LetterX /\ v[1 + 2] = a /\ v[1 + 3] = d
      BY <2>4
    <3> QED
      BY <2>1, <2>4, <3>1, Zenon DEF Writes
  <2> QED
    BY <2>1, <2>2, <2>4, <2>5
<1>2. CASE \E e \in Named : e[2] = b /\ v = <<Backslash, e[1]>>
  <2>1. PICK e \in Named : e[2] = b /\ v = <<Backslash, e[1]>>
    BY <1>2
  <2>2. Backslash \in Character /\ Backslash \notin {Blank, Tab}
    BY DEF Backslash, Character, Blank, Tab
  <2>3. e[1] \in Character /\ e[1] \notin {CarriageReturn, LineFeed} /\ e = <<e[1], e[2]>>
    BY <2>1 DEF Named, LetterN, LetterT, LetterR, Backslash, CarriageReturn, LineFeed, Character
  <2>4. v \in Seq(Character) /\ Len(v) = 2 /\ v[1] = Backslash /\ v[2] = e[1]
    BY <2>1, <2>2, <2>3
  <2>5. Writes(v, 1, 3, b)
    <3>1. 3 = 1 + 2 /\ v[1 + 1] = e[1] /\ <<e[1], b>> \in Named
      BY <2>1, <2>3, <2>4
    <3> QED
      BY <2>4, <3>1, Zenon DEF Writes
  <2> QED
    BY <2>2, <2>3, <2>4, <2>5
<1>3. CASE v = <<b>> /\ b \notin {LineFeed, CarriageReturn, Backslash} /\ (k = 1 => b \notin {Blank, Tab})
  <2>1. v \in Seq(Character) /\ Len(v) = 1 /\ v[1] = b
    BY <1>3
  <2>2. Writes(v, 1, 2, b)
    <3>1. 2 = 1 + 1
      OBVIOUS
    <3> QED
      BY <1>3, <2>1, <3>1, Zenon DEF Writes
  <2> QED
    BY <1>3, <2>1, <2>2
<1>4. \/ v = <<Backslash, LetterX>> \o Hex(b)
      \/ \E e \in Named : e[2] = b /\ v = <<Backslash, e[1]>>
      \/ v = <<b>> /\ b \notin {LineFeed, CarriageReturn, Backslash} /\ (k = 1 => b \notin {Blank, Tab})
  <2>1. \/ v = <<Backslash, LetterX>> \o Hex(b)
        \/ \E e \in {n \in Named : n[2] = b} : v = <<Backslash, e[1]>>
        \/ \E c \in {b} \ ({LineFeed, CarriageReturn, Backslash} \cup IF k = 1 THEN {Blank, Tab} ELSE {}) : v = <<c>>
    BY DEF Ways
  <2> QED
    BY <2>1
<1> QED
  BY <1>1, <1>2, <1>3, <1>4

LEMMA WritingsOfText ==
    ASSUME NEW text \in Seq(Character)
    PROVE  \E f : /\ f[0] = {<<>>}
                  /\ \A k \in 1..Len(text) : f[k] = Joins(f[k - 1], Ways(text[k], k))
                  /\ Writings(text) = f[Len(text)]
<1> DEFINE n == Len(text)
           Then(set, k) == Joins(set, Ways(text[k], k))
           V == SUBSET Seq(Character)
           step == [p \in V \X (1..n) |-> Then(p[1], p[2])]
           Of == CHOOSE f : f = [k \in 0..n |-> IF k = 0 THEN {<<>>} ELSE Then(f[k - 1], k)]
<1>1. n \in Nat /\ \A k \in 1..n : text[k] \in Character
  OBVIOUS
<1>2. Writings(text) = Of[n]
  BY DEF Writings
<1> HIDE DEF n
<1>3. step \in [V \X (1..n) -> V]
  <2>1. ASSUME NEW set \in V, NEW k \in 1..n
        PROVE  Then(set, k) \in V
    <3>1. Ways(text[k], k) \in V
      BY <1>1, WayIsWritten
    <3> QED
      BY <3>1, JoinsAreTexts
  <2> HIDE DEF Then
  <2>2. \A set \in V, k \in 1..n : Then(set, k) \in V
    BY <2>1, Zenon
  <2> HIDE DEF V
  <2> QED
    BY <2>2
<1> HIDE DEF Then
<1>4. PICK f : Runs(f, n, V, {<<>>}, step)
  <2> HIDE DEF step
  <2>1. {<<>>} \in V
    OBVIOUS
  <2> HIDE DEF V
  <2> QED
    BY <1>1, <1>3, <2>1, Recursion
<1>5. f = [k \in 0..n |-> IF k = 0 THEN {<<>>} ELSE Then(f[k - 1], k)]
  <2> HIDE DEF V
  <2>1. f \in [0..n -> V] /\ f[0] = {<<>>}
    BY <1>4, Zenon DEF Runs
  <2>2. \A k \in 1..n : f[k] = Then(f[k - 1], k)
    <3> SUFFICES ASSUME NEW k \in 1..n PROVE f[k] = Then(f[k - 1], k)
      OBVIOUS
    <3>1. f[k] = step[<<f[k - 1], k>>]
      BY <1>4, Zenon DEF Runs
    <3>2. f[k - 1] \in V
      BY <1>1, <2>1
    <3> QED
      BY <3>1, <3>2, Zenon
  <2>3. \A k \in 0..n : k # 0 => k \in 1..n
    BY <1>1
  <2>4. \A k \in 0..n : f[k] = IF k = 0 THEN {<<>>} ELSE Then(f[k - 1], k)
    BY <2>1, <2>2, <2>3, Zenon
  <2> QED
    BY <2>1, <2>4, Zenon
<1>6. Of = [k \in 0..n |-> IF k = 0 THEN {<<>>} ELSE Then(Of[k - 1], k)]
  BY <1>5, Zenon
<1> HIDE DEF Of
<1>7. Of[0] = {<<>>} /\ \A k \in 1..n : Of[k] = Then(Of[k - 1], k)
  <2>1. \A k \in 0..n : Of[k] = IF k = 0 THEN {<<>>} ELSE Then(Of[k - 1], k)
    BY <1>6, Zenon
  <2>2. 0 \in 0..n /\ \A k \in 1..n : k \in 0..n /\ k # 0
    BY <1>1
  <2> QED
    BY <2>1, <2>2, Zenon
<1>8. \A k \in 1..n : Of[k] = Joins(Of[k - 1], Ways(text[k], k))
  BY <1>7, Zenon DEF Then
<1> QED
  BY <1>2, <1>7, <1>8, Zenon DEF n

LEMMA WritesInFront ==
    ASSUME NEW w \in Seq(Character), NEW v \in Seq(Character), NEW i \in 1..Len(w), NEW j \in 1..Len(w) + 1, NEW b,
           Writes(w, i, j, b)
    PROVE  Writes(w \o v, i, j, b)
<1> DEFINE s == w \o v
<1>1. Len(w) \in Nat /\ \A k \in 1..Len(w) : s[k] = w[k]
  BY Joined
<1> SUFFICES Writes(s, i, j, b)
  BY Zenon
<1> HIDE DEF s
<1>2. CASE j = i + 1 /\ w[i] = b /\ b # Backslash
  BY <1>1, <1>2 DEF Writes
<1>3. CASE j = i + 2 /\ w[i] = Backslash /\ <<w[i + 1], b>> \in Named
  <2>1. i + 1 \in 1..Len(w)
    BY <1>1, <1>3
  <2>2. s[i] = w[i] /\ s[i + 1] = w[i + 1]
    BY <1>1, <2>1
  <2> QED
    BY <1>3, <2>2, Zenon DEF Writes
<1>4. CASE j = i + 4 /\ w[i] = Backslash /\ w[i + 1] = LetterX
              /\ IsHex(w[i + 2]) /\ IsHex(w[i + 3]) /\ b = 16 * Digit(w[i + 2]) + Digit(w[i + 3])
  <2>1. i + 1 \in 1..Len(w) /\ i + 2 \in 1..Len(w) /\ i + 3 \in 1..Len(w)
    BY <1>1, <1>4
  <2>2. s[i] = w[i] /\ s[i + 1] = w[i + 1] /\ s[i + 2] = w[i + 2] /\ s[i + 3] = w[i + 3]
    BY <1>1, <2>1
  <2> QED
    BY <1>4, <2>2, Zenon DEF Writes
<1> QED
  BY <1>2, <1>3, <1>4 DEF Writes

LEMMA WritesBehind ==
    ASSUME NEW w \in Seq(Character), NEW v \in Seq(Character), Len(v) \in 1..4, NEW b, Writes(v, 1, Len(v) + 1, b)
    PROVE  Writes(w \o v, Len(w) + 1, Len(w) + Len(v) + 1, b)
<1> DEFINE s == w \o v  n == Len(w)  m == Len(v)
<1>1. n \in Nat /\ m \in 1..4 /\ \A k \in 1..m : s[n + k] = v[k]
  BY Joined
<1>2. Writes(v, 1, m + 1, b)
  OBVIOUS
<1> DEFINE i == n + 1  j == n + m + 1
<1> SUFFICES Writes(s, i, j, b)
  BY Zenon
<1> HIDE DEF s, n, m
<1>3. CASE m + 1 = 1 + 1 /\ v[1] = b /\ b # Backslash
  <2>1. j = i + 1 /\ s[i] = v[1]
    BY <1>1, <1>3
  <2> HIDE DEF i, j
  <2> QED
    BY <1>3, <2>1, Zenon DEF Writes
<1>4. CASE m + 1 = 1 + 2 /\ v[1] = Backslash /\ <<v[1 + 1], b>> \in Named
  <2>1. m = 2 /\ 1 \in 1..m /\ 2 \in 1..m
    BY <1>1, <1>4
  <2>2. s[n + 1] = v[1] /\ s[n + 2] = v[2]
    BY <1>1, <2>1
  <2>3. j = i + 2 /\ s[i] = v[1] /\ s[i + 1] = v[1 + 1]
    <3>1. n + 1 + 1 = n + 2 /\ 1 + 1 = 2
      BY <1>1
    <3> QED
      BY <1>1, <2>1, <2>2, <3>1
  <2> HIDE DEF i, j
  <2> QED
    BY <1>4, <2>3, Zenon DEF Writes
<1>5. CASE m + 1 = 1 + 4 /\ v[1] = Backslash /\ v[1 + 1] = LetterX
              /\ IsHex(v[1 + 2]) /\ IsHex(v[1 + 3]) /\ b = 16 * Digit(v[1 + 2]) + Digit(v[1 + 3])
  <2>1. m = 4 /\ 1 \in 1..m /\ 2 \in 1..m /\ 3 \in 1..m /\ 4 \in 1..m
    BY <1>1, <1>5
  <2>2. s[n + 1] = v[1] /\ s[n + 2] = v[2] /\ s[n + 3] = v[3] /\ s[n + 4] = v[4]
    BY <1>1, <2>1
  <2>3. j = i + 4 /\ s[i] = v[1] /\ s[i + 1] = v[1 + 1] /\ s[i + 2] = v[1 + 2] /\ s[i + 3] = v[1 + 3]
    <3>1. n + 1 + 1 = n + 2 /\ n + 1 + 2 = n + 3 /\ n + 1 + 3 = n + 4 /\ 1 + 1 = 2 /\ 1 + 2 = 3 /\ 1 + 3 = 4
      BY <1>1
    <3> QED
      BY <1>1, <2>1, <2>2, <3>1
  <2> HIDE DEF i, j
  <2> QED
    BY <1>5, <2>3, Zenon DEF Writes
<1> QED
  BY <1>2, <1>3, <1>4, <1>5, Zenon DEF Writes

\* w is the first k characters of the text, each written in some way, and can stand behind a command.
WrittenTo(w, text, k) ==
    /\ w \in Seq(Character)
    /\ \E at \in [1..k + 1 -> 1..Len(w) + 1] :
           /\ at[1] = 1 /\ at[k + 1] = Len(w) + 1
           /\ \A j \in 1..k : Writes(w, at[j], at[j + 1], text[j])
    /\ w = <<>> <=> k = 0
    /\ w # <<>> => w[1] \notin {Blank, Tab} /\ w[Len(w)] \notin {CarriageReturn, LineFeed}

LEMMA OneMoreIsWritten ==
    ASSUME NEW text \in Seq(Character), NEW k \in 1..Len(text), NEW w, WrittenTo(w, text, k - 1),
           NEW v \in Ways(text[k], k)
    PROVE  WrittenTo(w \o v, text, k)
<1> DEFINE s == w \o v  m == k - 1
<1>1. /\ v \in Seq(Character) /\ Len(v) \in 1..4 /\ Writes(v, 1, Len(v) + 1, text[k])
      /\ v[Len(v)] \notin {CarriageReturn, LineFeed}
  <2>1. text[k] \in Character /\ k \in Nat
    OBVIOUS
  <2> QED
    BY <2>1, WayIsWritten
<1>11. k = 1 => v[1] \notin {Blank, Tab}
  <2>1. text[k] \in Character /\ k \in Nat
    OBVIOUS
  <2> QED
    BY <2>1, WayIsWritten
<1>2. PICK at \in [1..m + 1 -> 1..Len(w) + 1] :
           /\ at[1] = 1 /\ at[m + 1] = Len(w) + 1
           /\ \A j \in 1..m : Writes(w, at[j], at[j + 1], text[j])
  BY DEF WrittenTo
<1>3. /\ w \in Seq(Character) /\ Len(w) \in Nat /\ (w = <<>> <=> k - 1 = 0)
      /\ (w # <<>> => w[1] \notin {Blank, Tab} /\ w[Len(w)] \notin {CarriageReturn, LineFeed})
  BY DEF WrittenTo
<1>4. m + 1 = k /\ k \in Nat /\ m \in Nat
  OBVIOUS
<1>5. /\ s \in Seq(Character) /\ Len(s) = Len(w) + Len(v)
      /\ \A j \in 1..Len(w) : s[j] = w[j]
      /\ \A j \in 1..Len(v) : s[Len(w) + j] = v[j]
  BY <1>1, <1>3, Joined
<1> SUFFICES WrittenTo(s, text, k)
  BY Zenon
<1>6. Writes(s, Len(w) + 1, Len(s) + 1, text[k])
  <2>1. Writes(s, Len(w) + 1, Len(w) + Len(v) + 1, text[k])
    BY <1>1, <1>3, WritesBehind
  <2> QED
    BY <1>5, <2>1
<1>7. \A j \in 1..m : Writes(s, at[j], at[j + 1], text[j])
  <2> SUFFICES ASSUME NEW j \in 1..m PROVE Writes(s, at[j], at[j + 1], text[j])
    OBVIOUS
  <2> DEFINE a == at[j]  b == at[j + 1]
  <2>1. a \in 1..Len(w) + 1 /\ b \in 1..Len(w) + 1
    BY <1>2, <1>4
  <2>2. Writes(w, a, b, text[j])
    BY <1>2
  <2> HIDE DEF a, b
  <2>3. a \in 1..Len(w)
    <3>1. b = a + 1 \/ b = a + 2 \/ b = a + 4
      BY <2>2, Zenon DEF Writes
    <3> QED
      BY <1>3, <2>1, <3>1
  <2>4. Writes(s, a, b, text[j])
    BY <1>1, <1>3, <2>1, <2>2, <2>3, WritesInFront
  <2> QED
    BY <2>4 DEF a, b
<1> HIDE DEF s
<1> DEFINE to == [j \in 1..k + 1 |-> IF j = k + 1 THEN Len(s) + 1 ELSE at[j]]
<1>8. to \in [1..k + 1 -> 1..Len(s) + 1] /\ to[1] = 1 /\ to[k + 1] = Len(s) + 1
  <2>1. ASSUME NEW j \in 1..k + 1, j # k + 1
        PROVE  at[j] \in 1..Len(s) + 1
    <3>1. j \in 1..m + 1
      BY <1>4, <2>1
    <3>2. at[j] \in 1..Len(w) + 1
      BY <1>2, <3>1
    <3> QED
      BY <1>1, <1>3, <1>5, <3>2
  <2>2. Len(s) + 1 \in 1..Len(s) + 1
    BY <1>5
  <2>3. 1 \in 1..k + 1 /\ 1 # k + 1 /\ k + 1 \in 1..k + 1
    BY <1>4
  <2> QED
    BY <1>2, <2>1, <2>2, <2>3
<1>9. ASSUME NEW j \in 1..k
      PROVE  Writes(s, to[j], to[j + 1], text[j])
  <2>1. j \in 1..k + 1 /\ j + 1 \in 1..k + 1 /\ j # k + 1
    BY <1>4
  <2>2. to[j] = at[j]
    BY <2>1
  <2>3. CASE j = k
    <3>1. to[j + 1] = Len(s) + 1 /\ at[j] = Len(w) + 1
      BY <1>2, <1>4, <2>1, <2>3
    <3> QED
      BY <1>6, <2>2, <2>3, <3>1
  <2>4. CASE j # k
    <3>1. j \in 1..m /\ j + 1 # k + 1
      BY <1>4, <2>4
    <3>2. to[j + 1] = at[j + 1]
      BY <2>1, <3>1
    <3> HIDE DEF to
    <3> QED
      BY <1>7, <2>2, <3>1, <3>2
  <2> QED
    BY <2>3, <2>4
<1>14. \A n \in 1..4 : 1 \in 1..n /\ n \in 1..n
  OBVIOUS
<1>10. s # <<>> /\ s[1] \notin {Blank, Tab} /\ s[Len(s)] \notin {CarriageReturn, LineFeed}
  <2>1. s # <<>>
    BY <1>1, <1>3, <1>5
  <2>2. s[Len(s)] = v[Len(v)]
    <3>1. Len(v) \in 1..Len(v)
      BY <1>1, <1>14, Zenon
    <3> QED
      BY <1>5, <3>1
  <2>3. CASE k = 1
    <3>1. Len(w) = 0 /\ 1 \in 1..Len(v)
      <4>1. w = <<>>
        BY <1>3, <2>3
      <4> QED
        BY <1>1, <1>14, <4>1
    <3>2. s[Len(w) + 1] = v[1]
      BY <1>5, <3>1
    <3> QED
      BY <1>1, <1>11, <2>1, <2>2, <2>3, <3>1, <3>2
  <2>4. CASE k # 1
    <3>1. w # <<>> /\ 1 \in 1..Len(w)
      BY <1>3, <1>4, <2>4
    <3> QED
      BY <1>1, <1>3, <1>5, <2>1, <2>2, <3>1
  <2> QED
    BY <2>3, <2>4
<1> HIDE DEF to
<1>12. \E f \in [1..k + 1 -> 1..Len(s) + 1] :
           /\ f[1] = 1 /\ f[k + 1] = Len(s) + 1
           /\ \A j \in 1..k : Writes(s, f[j], f[j + 1], text[j])
  BY <1>8, <1>9, Zenon
<1>13. s = <<>> <=> k = 0
  BY <1>10
<1> QED
  BY <1>5, <1>10, <1>12, <1>13, Zenon DEF WrittenTo

LEMMA WritingIsWritten ==
    ASSUME NEW text \in Seq(Character), NEW w \in Writings(text)
    PROVE  WrittenTo(w, text, Len(text))
<1> DEFINE n == Len(text)
<1>1. PICK f : /\ f[0] = {<<>>} /\ \A k \in 1..n : f[k] = Joins(f[k - 1], Ways(text[k], k))
               /\ Writings(text) = f[n]
  BY WritingsOfText
<1> DEFINE Good(k) == \A u \in f[k] : WrittenTo(u, text, k)
           Bad == {k \in 0..n : ~Good(k)}
<1>2. n \in Nat
  OBVIOUS
<1>3. Good(0)
  <2>1. WrittenTo(<<>>, text, 0)
    <3> DEFINE at == [j \in 1..0 + 1 |-> 1]
    <3>1. at \in [1..0 + 1 -> 1..Len(<<>>) + 1] /\ at[1] = 1 /\ at[0 + 1] = Len(<<>>) + 1
      OBVIOUS
    <3>2. <<>> \in Seq(Character)
      OBVIOUS
    <3> HIDE DEF at
    <3> QED
      BY <3>1, <3>2 DEF WrittenTo
  <2> QED
    BY <1>1, <2>1, Zenon
<1>4. Bad = {}
  <2> SUFFICES ASSUME Bad # {} PROVE FALSE
    OBVIOUS
  <2>1. PICK k \in Bad : \A j \in Bad : k <= j
    <3>1. Bad \subseteq Nat
      BY <1>2
    <3> HIDE DEF Bad
    <3> QED
      BY <3>1, LeastNat
  <2>2. k # 0
    BY <1>3, <2>1, Zenon
  <2>3. k \in 1..n /\ k - 1 \in 0..n /\ k - 1 \notin Bad
    BY <1>2, <2>1, <2>2
  <2>4. Good(k - 1)
    BY <2>3
  <2>5. ASSUME NEW u \in f[k]
        PROVE  WrittenTo(u, text, k)
    <3>1. u \in Joins(f[k - 1], Ways(text[k], k))
      BY <1>1, <2>3, <2>5
    <3>2. PICK p \in f[k - 1], v \in Ways(text[k], k) : u = p \o v
      BY <3>1, JoinsFacts
    <3>3. WrittenTo(p, text, k - 1)
      BY <2>4, <3>2
    <3>4. WrittenTo(p \o v, text, k)
      BY <2>3, <3>2, <3>3, OneMoreIsWritten
    <3> QED
      BY <3>2, <3>4, Zenon
  <2> QED
    BY <2>1, <2>5, Zenon
<1>5. n \in 0..n
  BY <1>2
<1> QED
  BY <1>1, <1>4, <1>5, Zenon

Associates(p, q, r) == (p \o q) \o r = p \o (q \o r)

LEMMA TextsAssociate ==
    ASSUME NEW p \in Seq(Character), NEW q \in Seq(Character), NEW r \in Seq(Character)
    PROVE  Associates(p, q, r)
BY ConcatAssociative DEF Associates

\* A line in two halves, and as its parts from the front.
JoinsTo(p, q, r, t, u) == ((p \o q) \o r) \o (t \o u) = p \o (q \o (r \o (t \o u)))

LEMMA LineIsJoined ==
    ASSUME NEW p \in Seq(Character), NEW q \in Seq(Character), NEW r \in Seq(Character), NEW t \in Seq(Character),
           NEW u \in Seq(Character)
    PROVE  JoinsTo(p, q, r, t, u)
<1> DEFINE v == t \o u  w == r \o v  a == p \o q
<1>1. v \in Seq(Character) /\ a \in Seq(Character)
  OBVIOUS
<1>2. w \in Seq(Character)
  <2> HIDE DEF v
  <2> QED
    BY <1>1
<1> HIDE DEF v, w, a
<1>3. Associates(a, r, v) /\ Associates(p, q, w)
  BY <1>1, <1>2, TextsAssociate
<1> QED
  BY <1>3, Zenon DEF JoinsTo, Associates, v, w, a

LEMMA LineFacts ==
    ASSUME NEW w, NEW line \in TypeLines(w)
    PROVE  \E indent \in {<<>>, <<Blank, Tab>>}, end \in {<<>>, <<CarriageReturn>>} :
               line = ((indent \o TYPE) \o <<Blank>>) \o (w \o end)
<1> DEFINE front == {indent \o TYPE \o <<Blank>> : indent \in {<<>>, <<Blank, Tab>>}}
           back == {w \o end : end \in {<<>>, <<CarriageReturn>>}}
<1>1. PICK p \in front, q \in back : line = p \o q
  <2>1. line \in Joins(front, back)
    BY Zenon DEF TypeLines
  <2> HIDE DEF front, back
  <2> QED
    BY <2>1, JoinsFacts
<1>2. PICK indent \in {<<>>, <<Blank, Tab>>} : p = indent \o TYPE \o <<Blank>>
  BY Zenon
<1>3. PICK end \in {<<>>, <<CarriageReturn>>} : q = w \o end
  BY Zenon
<1> QED
  BY <1>1, <1>2, <1>3, Zenon

\* The line of a script that types a text, in any of the ways it can be written, is taken apart and
\* read back to that text, however long it is.
THEOREM TypedRight ==
    ASSUME NEW text \in Seq(Character)
    PROVE  TypesRight(text)
<1> SUFFICES ASSUME NEW w \in Writings(text), NEW line \in TypeLines(w)
             PROVE  /\ Command(line).name = LowerCase(TYPE)
                    /\ parse_type_string(Command(line).args) = text
  BY Zenon DEF TypesRight
<1>1. WrittenTo(w, text, Len(text))
  BY WritingIsWritten
<1>2. w \in Seq(Character) /\ (w # <<>> => w[1] \notin {Blank, Tab} /\ w[Len(w)] \notin {CarriageReturn, LineFeed})
  BY <1>1 DEF WrittenTo
<1>3. parse_type_string(w) = text
  <2>1. PICK at \in [1..Len(text) + 1 -> 1..Len(w) + 1] :
            /\ at[1] = 1 /\ at[Len(text) + 1] = Len(w) + 1
            /\ \A j \in 1..Len(text) : Writes(w, at[j], at[j + 1], text[j])
    BY <1>1 DEF WrittenTo
  <2> QED
    BY <1>2, <2>1, TypedAsWritten
<1> DEFINE space == <<Blank>>
<1>4. PICK indent \in {<<>>, <<Blank, Tab>>}, end \in {<<>>, <<CarriageReturn>>} :
           line = ((indent \o TYPE) \o space) \o (w \o end)
  BY LineFacts
<1>5. /\ indent \in Seq({Blank, Tab, CarriageReturn, LineFeed}) /\ end \in Seq({CarriageReturn, LineFeed})
      /\ space \in Seq({Blank, Tab}) /\ space # <<>>
  <2>1. indent \in Seq({Blank, Tab, CarriageReturn, LineFeed})
    <3>1. CASE indent = <<>>
      BY <3>1
    <3>2. CASE indent = <<Blank, Tab>>
      BY <3>2
    <3> QED
      BY <3>1, <3>2
  <2>2. end \in Seq({CarriageReturn, LineFeed})
    <3>1. CASE end = <<>>
      BY <3>1
    <3>2. CASE end = <<CarriageReturn>>
      BY <3>2
    <3> QED
      BY <3>1, <3>2
  <2> QED
    BY <2>1, <2>2
<1>6. TYPE \in Seq(Character \ {Blank, Tab}) /\ TYPE # <<>> /\ TYPE[1] \notin {Hash, CarriageReturn, LineFeed}
  <2>1. /\ 84 \in Character \ {Blank, Tab} /\ 121 \in Character \ {Blank, Tab} /\ 112 \in Character \ {Blank, Tab}
        /\ 101 \in Character \ {Blank, Tab} /\ 84 \notin {Hash, CarriageReturn, LineFeed}
    BY DEF Character, Blank, Tab, Hash, CarriageReturn, LineFeed
  <2> QED
    BY <2>1 DEF TYPE
<1> HIDE DEF space
<1>7. line = indent \o (TYPE \o (space \o (w \o end)))
  <2>1. /\ indent \in Seq(Character) /\ TYPE \in Seq(Character) /\ space \in Seq(Character) /\ end \in Seq(Character)
    <3>1. /\ {Blank, Tab, CarriageReturn, LineFeed} \subseteq Character /\ Character \ {Blank, Tab} \subseteq Character
          /\ {Blank, Tab} \subseteq Character /\ {CarriageReturn, LineFeed} \subseteq Character
      BY DEF Blank, Tab, CarriageReturn, LineFeed, Character
    <3> QED
      BY <1>5, <1>6, <3>1, SequenceOver, Zenon
  <2>2. JoinsTo(indent, TYPE, space, w, end)
    BY <1>2, <2>1, LineIsJoined
  <2> QED
    BY <1>4, <2>2, Zenon DEF JoinsTo
<1>8. Command(line) = [name |-> LowerCase(TYPE), args |-> w]
  <2>1. ReadsAs(indent, TYPE, space, w, end)
    BY <1>2, <1>5, <1>6, CommandIsRead
  <2> QED
    BY <1>7, <2>1, Zenon DEF ReadsAs
<1> QED
  BY <1>3, <1>8

\* What the script thread sends is what the script's author wrote.
THEOREM ScriptCorrect == Spec => []ScriptIsTyped
<1>1. \A text \in Texts : TypesRight(text)
  <2>1. Texts \subseteq Seq(Character)
    <3>1. Samples \subseteq Character
      BY DEF Samples, Character, LineFeed, CarriageReturn, Blank, Backslash, LetterN, LetterX
    <3>2. \A n \in Nat : [1..n -> Samples] \subseteq Seq(Character)
      BY <3>1
    <3>3. \A n \in 0..3 : n \in Nat
      OBVIOUS
    <3> QED
      BY <3>2, <3>3, Zenon DEF Texts, BoundedSeq, SeqOf
  <2> QED
    BY <2>1, TypedRight
<1>2. ASSUME NEW bytes \in BoundedSeq({0, 27, 173, 255}, 3), NEW space \in {<<>>, <<Blank>>, <<Tab, Blank>>}
      PROVE  SendsRight(bytes, space)
  <2>1. bytes \in Seq(Character)
    <3>1. PICK n \in 0..3 : bytes \in [1..n -> {0, 27, 173, 255}]
      BY Zenon DEF BoundedSeq, SeqOf
    <3>2. bytes \in [1..n -> Character] /\ n \in Nat
      BY <3>1 DEF Character
    <3> QED
      BY <3>2
  <2>2. space \in Seq(Spaces)
    <3>1. Blank \in Spaces /\ Tab \in Spaces
      BY DEF Blank, Tab, Spaces
    <3>2. CASE space = <<>>
      BY <3>2
    <3>3. CASE space = <<Blank>>
      BY <3>1, <3>3
    <3>4. CASE space = <<Tab, Blank>>
      BY <3>1, <3>4
    <3> QED
      BY <3>2, <3>3, <3>4
  <2> QED
    BY <2>1, <2>2, SentAsWritten
<1>3. ScriptReadsRight
  BY <1>1, <1>2 DEF ScriptReadsRight
<1>4. ScriptIsTyped
  BY <1>3 DEF ScriptIsTyped
<1> QED
  BY <1>4, PTL
=============================================================================
