---------------------------- MODULE InputDevice -----------------------------
(***************************************************************************)
(* InputDevice of InputDevice.hpp: the bytes of one client, turned into    *)
(* the keys that are down in a frame and the characters typed in it.       *)
(*                                                                         *)
(* A byte stands for its class: "A" is a letter that also ends an arrow's  *)
(* sequence, "x" is any other letter, digit or symbol with a key of its    *)
(* own, "control" any byte that is neither a key nor a character.          *)
(***************************************************************************)
EXTENDS Integers, Sequences

CONSTANTS
    Bytes,             \* the bytes a client sends
    MAX_INPUT_BYTES    \* characters a frame keeps (8 in the code)

ByteClasses == {"esc", "[", "A", "x", "enter", "backspace", "control"}

ASSUME BytesAssumption == Bytes \subseteq ByteClasses
ASSUME CapAssumption == MAX_INPUT_BYTES \in Nat \ {0}

VARIABLES
    keyStates,       \* key_states: the keys pressed in this frame
    prevKeyStates,   \* prev_key_states: those of the frame before
    parseState,      \* parse_state
    inputBuffer      \* input_buffer, input_len

deviceVars == <<keyStates, prevKeyStates, parseState, inputBuffer>>

Key == {"A", "x", "Enter", "Up", "Escape"}
Characters == {"[", "A", "x", "enter", "backspace"}

DeviceTypeOK ==
    /\ keyStates \subseteq Key
    /\ prevKeyStates \subseteq Key
    /\ parseState \in {"Normal", "ExpectBracket", "ExpectSequence"}
    /\ inputBuffer \in Seq(Characters)
    /\ Len(inputBuffer) <= MAX_INPUT_BYTES

DeviceInit ==
    /\ keyStates = {}
    /\ prevKeyStates = {}
    /\ parseState = "Normal"
    /\ inputBuffer = <<>>

\* mapCharToKey, as the set of keys it names: none for Key::Unknown.
mapCharToKey(ch) ==
    (IF ch \in {"A", "x"} THEN {ch} ELSE {}) \cup (IF ch = "enter" THEN {"Enter"} ELSE {})
\* The last byte of ESC [ ...: an arrow, or a sequence nobody needs.
arrow(ch) == IF ch = "A" THEN {"Up"} ELSE {}

\* An operator named Bug... is a faulty variant of the definition that follows it.
BugHasRoom == TRUE
HasRoom == Len(inputBuffer) < MAX_INPUT_BYTES

Keep(ch) ==
    inputBuffer' = IF ch \in Characters /\ HasRoom THEN Append(inputBuffer, ch) ELSE inputBuffer

\* pressKey(ch) with nothing before it ...
PressNormal(ch) ==
    /\ parseState = "Normal"
    /\ IF ch = "esc"
       THEN parseState' = "ExpectBracket" /\ UNCHANGED <<keyStates, inputBuffer>>
       ELSE keyStates' = keyStates \cup mapCharToKey(ch) /\ Keep(ch) /\ UNCHANGED parseState

\* ... after an ESC: the byte sets its key, but it is not kept as a character ...
PressAfterEscape(ch) ==
    /\ parseState = "ExpectBracket"
    /\ IF ch = "["
       THEN parseState' = "ExpectSequence" /\ UNCHANGED keyStates
       ELSE parseState' = "Normal" /\ keyStates' = keyStates \cup {"Escape"} \cup mapCharToKey(ch)
    /\ UNCHANGED inputBuffer

\* ... after ESC [.
PressInSequence(ch) ==
    /\ parseState = "ExpectSequence"
    /\ parseState' = "Normal"
    /\ keyStates' = keyStates \cup arrow(ch)
    /\ UNCHANGED inputBuffer

pressKey(ch) ==
    /\ PressNormal(ch) \/ PressAfterEscape(ch) \/ PressInSequence(ch)
    /\ UNCHANGED prevKeyStates

getKeyDown(k) == k \in keyStates /\ k \notin prevKeyStates

BugKeepParseState == parseState' = "Normal"
\* A sequence may be cut by the end of a frame.
KeepParseState == UNCHANGED parseState

nextFrame ==
    /\ prevKeyStates' = keyStates
    /\ keyStates' = {}
    /\ inputBuffer' = <<>>
    /\ KeepParseState

-----------------------------------------------------------------------------
(* What a stream of bytes means, whichever way it is cut into frames: a    *)
(* token is one byte, or ESC and a byte, or ESC [ and a byte.              *)

\* Does a token start at position j of the stream?
StartsToken(s) ==
    LET start[j \in 1..(Len(s) + 1)] ==
            \/ j = 1
            \/ start[j - 1] /\ s[j - 1] # "esc"
            \/ j > 2 /\ start[j - 2] /\ s[j - 2] = "esc" /\ s[j - 1] # "["
            \/ j > 3 /\ start[j - 3] /\ s[j - 3] = "esc" /\ s[j - 2] = "["
    IN  start

Max1(S) == CHOOSE m \in S : \A n \in S : n <= m

\* The bytes at the end that do not make a whole token yet.
Unfinished(s) ==
    LET start == StartsToken(s)
    IN  SubSeq(s, Max1({j \in DOMAIN start : start[j]}), Len(s))

\* A token that ends with byte e, by its length.
EndsToken(s, e, length) ==
    LET start == StartsToken(s)
    IN  /\ e >= length
        /\ start[e + 1] /\ start[e + 1 - length]
        /\ \A j \in (e + 2 - length)..e : ~start[j]

DecodedKeys(s) ==
    UNION {(IF EndsToken(s, e, 1) THEN mapCharToKey(s[e]) ELSE {})
           \cup (IF EndsToken(s, e, 2) THEN {"Escape"} \cup mapCharToKey(s[e]) ELSE {})
           \cup (IF EndsToken(s, e, 3) THEN arrow(s[e]) ELSE {}) : e \in 1..Len(s)}

\* The positions of the characters, when an ESC takes its byte with it or not.
CharacterAt(s, e, lengths) == s[e] \in Characters /\ \E l \in lengths : EndsToken(s, e, l)
=============================================================================
