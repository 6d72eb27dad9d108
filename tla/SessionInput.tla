---------------------------- MODULE SessionInput ----------------------------
(***************************************************************************)
(* The input of one client as a frame of the engine hands it on: the       *)
(* receive loop presses the bytes, the login dialogue (AuthContext) or the *)
(* game session edits its line (TextInputLine) and takes it on Enter, and  *)
(* nextFrame() forgets the frame.  The dialogue draws its screen if it is  *)
(* dirty.  A login that succeeds in the auth loop is updated as a session  *)
(* later in the same frame, with the same device.                          *)
(***************************************************************************)
EXTENDS InputDevice, SequencesExt

CONSTANTS
    MaxLength,     \* m_max_length of TextInputLine (64 in the code)
    FrameBytes     \* bound: bytes received in one frame

ASSUME LengthAssumption == MaxLength \in Nat \ {0} /\ FrameBytes \in Nat

VARIABLES
    field,     \* what the dialogue is waiting for, or "game" once it succeeded
    promoted,  \* the auth loop has just made a session of it, in this frame
    text,      \* m_text of the line being edited
    name,      \* m_username, as submitted and trimmed, while it is in use
    isDirty,   \* m_isDirty as update() finds it: render() clears it in the same frame
    screen,    \* the login screen sent last: the field asked for, "none" at first, and its line
    carry,     \* history: bytes of an unfinished token from earlier frames
    frame      \* history: the bytes of this frame

screenVars == <<isDirty, screen>>
vars == <<deviceVars, field, promoted, text, name, screenVars, carry, frame>>

Fields == {"mode", "name", "password", "verifying", "game"}

TypeOK ==
    /\ DeviceTypeOK
    /\ field \in Fields
    /\ promoted \in BOOLEAN
    /\ text \in Seq(Characters) /\ Len(text) <= MaxLength
    /\ name \in Seq(Characters)
    /\ isDirty \in BOOLEAN
    /\ screen.field \in Fields \cup {"none"} /\ screen.text \in Seq(Characters)

Init ==
    /\ DeviceInit
    /\ field = "mode"
    /\ promoted = FALSE
    /\ text = <<>>
    /\ name = <<>>
    /\ isDirty = TRUE
    /\ screen = [field |-> "none", text |-> <<>>]
    /\ carry = <<>>
    /\ frame = <<>>

\* The receive loop presses one more byte.
Receive(ch) ==
    /\ ~promoted
    /\ Len(frame) < FrameBytes
    /\ pressKey(ch)
    /\ frame' = Append(frame, ch)
    /\ UNCHANGED <<field, promoted, text, name, screenVars, carry>>

BugFits(line) == TRUE
Fits(line) == Len(line) < MaxLength

\* TextInputLine::update(): every character of the frame, backspace included.
Edit(line, ch) ==
    IF ch = "backspace" THEN IF line = <<>> THEN line ELSE Front(line)
    ELSE IF Fits(line) THEN Append(line, ch) ELSE line
\* The line after each of them.
LineAfter ==
    LET line[k \in 0..Len(inputBuffer)] == IF k = 0 THEN text ELSE Edit(line[k - 1], inputBuffer[k])
    IN  line
Edited == LineAfter[Len(inputBuffer)]
\* What it answers: has any of them changed the line?  A key without a character does not.
LineChanged == \E k \in 1..Len(inputBuffer) : LineAfter[k] # LineAfter[k - 1]

\* trim(): blanks at both ends; "enter" is the only blank byte kept apart here.
Blank(ch) == ch = "enter"
Trimmed(line) ==
    LET inked == {k \in DOMAIN line : ~Blank(line[k])}
    IN  IF inked = {} THEN <<>>
        ELSE LET first == CHOOSE k \in inked : \A m \in inked : k <= m
             IN  SubSeq(line, first, Max1(inked))

BugMoved == FALSE
\* The dialogue went on to another state in this update.
Moved == field' # field

\* AuthContext::render(), after update() in the same frame, and the frame is sent.
Render(changed) ==
    /\ screen' = IF isDirty \/ changed THEN [field |-> field', text |-> text'] ELSE screen
    /\ isDirty' = FALSE

EndFrame ==
    /\ nextFrame
    /\ carry' = Unfinished(carry \o frame)
    /\ frame' = <<>>

\* A frame without an Enter that goes down, or the animation: the line is edited at most.
NoEnter ==
    /\ field \in {"mode", "name", "password"}
    /\ ~getKeyDown("Enter")
    /\ text' = Edited
    /\ UNCHANGED <<field, promoted, name>>
    /\ Render(LineChanged)
    /\ EndFrame

\* "1" or "2" is accepted, anything else is not: the line is cleared anyway.
EnterMode ==
    /\ field = "mode"
    /\ getKeyDown("Enter")
    /\ field' \in IF Trimmed(Edited) = <<>> THEN {"mode"} ELSE {"mode", "name"}
    /\ text' = <<>>
    /\ Render(LineChanged \/ Moved)
    /\ EndFrame
    /\ UNCHANGED <<promoted, name>>

BugIsBlank == Edited = <<>>
IsBlank == Trimmed(Edited) = <<>>

\* A blank name is not taken, and not cleared.
EnterName ==
    /\ field = "name"
    /\ getKeyDown("Enter")
    /\ IF IsBlank
       THEN text' = Edited /\ UNCHANGED <<field, name>>
       ELSE text' = <<>> /\ field' = "password" /\ name' = Trimmed(Edited)
    /\ Render(LineChanged \/ Moved)
    /\ EndFrame
    /\ UNCHANGED promoted

EnterPassword ==
    /\ field = "password"
    /\ getKeyDown("Enter")
    /\ text' = <<>>
    /\ field' = "verifying"
    /\ Render(TRUE)
    /\ EndFrame
    /\ UNCHANGED <<promoted, name>>

\* While the worker runs the input is dropped; then back to the menu, or on to the game.
\* The dialogue does not read m_username again before it is overwritten.
Verifying ==
    /\ field = "verifying"
    /\ field' \in {"verifying", "mode", "game"}
    /\ promoted' = (field' = "game")
    /\ name' = IF field' = "verifying" THEN name ELSE <<>>
    /\ isDirty' = FALSE
    /\ screen' = [field |-> IF promoted' THEN field ELSE field', text |-> text]
    /\ EndFrame
    /\ UNCHANGED text

\* A session's update, here of a world with a line of text such as the chat's.
GameFrame ==
    /\ field = "game"
    /\ text' = IF getKeyDown("Enter") THEN <<>> ELSE Edited
    /\ promoted' = FALSE
    /\ EndFrame
    /\ UNCHANGED <<field, name, screenVars>>

Next ==
    \/ \E ch \in Bytes : Receive(ch)
    \/ NoEnter \/ EnterMode \/ EnterName \/ EnterPassword \/ Verifying \/ GameFrame

Spec == Init /\ [][Next]_vars

-----------------------------------------------------------------------------
Stream == carry \o frame
Typed(s, lengths) ==
    LET typed[e \in 0..Len(s)] ==
            IF e = 0 THEN <<>>
            ELSE IF CharacterAt(s, e, lengths) THEN Append(typed[e - 1], s[e]) ELSE typed[e - 1]
    IN  typed[Len(s)]
FirstOnes(s) == IF Len(s) <= MAX_INPUT_BYTES THEN s ELSE SubSeq(s, 1, MAX_INPUT_BYTES)

\* The keys a frame shows are those of the tokens completed in it, and the parser stands
\* where the unfinished token leaves it, however the network cuts the stream into frames.
KeysAreDecoded ==
    /\ keyStates = DecodedKeys(Stream)
    /\ parseState = CASE Len(Unfinished(Stream)) = 0 -> "Normal"
                      [] Len(Unfinished(Stream)) = 1 -> "ExpectBracket"
                      [] Len(Unfinished(Stream)) = 2 -> "ExpectSequence"

\* The characters a frame hands on are the first ones typed in it outside of any escape
\* sequence: nothing of the login is left for the game, and nothing of a frame for the next.
TextIsDecoded == inputBuffer = FirstOnes(Typed(Stream, {1}))

\* A name that the dialogue goes on with has something visible at both ends.
NamesAreVisible ==
    field \in {"password", "verifying"} =>
        /\ name # <<>> /\ Len(name) <= MaxLength
        /\ ~Blank(Head(name)) /\ ~Blank(Last(name))

\* The screen a user logs in with shows what the dialogue waits for and the line as it is:
\* no change is skipped, but for an option that is refused by an Enter that brought no
\* character (the line was full, or an ESC took it): the cleared line is not redrawn.
ScreenIsCurrent ==
    \/ isDirty \/ field = "game"
    \/ screen = [field |-> field, text |-> text]
    \/ screen.field = "mode" /\ field = "mode" /\ text = <<>>

\* "The character that arrived is reprocessed as an ordinary one as well": a character
\* that follows an ESC that is no sequence is typed like any other.
EscapedIsTyped == inputBuffer = FirstOnes(Typed(Stream, {1, 2}))
=============================================================================
