----------------------------- MODULE MCEmulator -----------------------------
(***************************************************************************)
(* The two clients, and the emulator's script language compared with a     *)
(* writer of scripts over all short texts.                                 *)
(***************************************************************************)
EXTENDS Emulator, Script

Samples == {LineFeed, CarriageReturn, Blank, Backslash, LetterN, LetterX, 48}
Texts == BoundedSeq(Samples, 3)

\* Both cases of the letters are used.
HexDigit(n) == IF n < 10 THEN 48 + n ELSE IF n < 13 THEN 87 + n ELSE 55 + n
Hex(b) == <<HexDigit(b \div 16), HexDigit(b % 16)>>

Named == {<<LetterN, LineFeed>>, <<LetterT, Tab>>, <<LetterR, CarriageReturn>>, <<Backslash, Backslash>>}

\* How the k-th byte of a text to type may be written: by its number, by its name if it has one, and
\* as itself unless it ends the line, begins an escape or is taken for the space before the text.
Ways(b, k) ==
    {<<Backslash, LetterX>> \o Hex(b)}
        \cup {<<Backslash, e[1]>> : e \in {n \in Named : n[2] = b}}
        \cup {<<c>> : c \in {b} \ ({LineFeed, CarriageReturn, Backslash} \cup IF k = 1 THEN {Blank, Tab} ELSE {})}
Joins(front, back) == {w \o v : w \in front, v \in back}
Writings(text) ==
    LET Of[k \in 0..Len(text)] ==
            IF k = 0 THEN {<<>>} ELSE Joins(Of[k - 1], Ways(text[k], k))
    IN  Of[Len(text)]

TYPE == <<84, 121, 112, 101>>
TypeLines(w) ==
    Joins({indent \o TYPE \o <<Blank>> : indent \in {<<>>, <<Blank, Tab>>}},
          {w \o end : end \in {<<>>, <<CarriageReturn>>}})

\* Each byte is two digits, with the same space before each.
Digits(bytes, space) ==
    LET Of[k \in 0..Len(bytes)] == IF k = 0 THEN <<>> ELSE Of[k - 1] \o space \o Hex(bytes[k])
    IN  Of[Len(bytes)]

TypesRight(text) ==
    \A w \in Writings(text) : \A line \in TypeLines(w) :
        /\ Command(line).name = LowerCase(TYPE)
        /\ parse_type_string(Command(line).args) = text
SendsRight(bytes, space) == parse_hex(Digits(bytes, space)) = bytes

ScriptReadsRight ==
    /\ \A text \in Texts : TypesRight(text)
    /\ \A bytes \in BoundedSeq({0, 27, 173, 255}, 3), space \in {<<>>, <<Blank>>, <<Tab, Blank>>} :
           SendsRight(bytes, space)

\* What the script thread sends is what the script's author wrote: every text, in every way of
\* writing its characters, comes back from the line it is typed by, and every list of bytes
\* from its digits, however they are spaced.
ScriptIsTyped == script = "next" => ScriptReadsRight
=============================================================================
