------------------------------- MODULE Script -------------------------------
(***************************************************************************)
(* The emulator's script language (emulator_client.cpp): a line is a       *)
(* command and its arguments, a text to type may hold escapes, raw bytes   *)
(* are written in hexadecimal.  Characters are their codes.                *)
(***************************************************************************)
EXTENDS Integers, Sequences, SequencesExt

Tab == 9
LineFeed == 10
CarriageReturn == 13
Blank == 32
Hash == 35
Backslash == 92
LetterN == 110
LetterR == 114
LetterT == 116
LetterX == 120
Spaces == 9..13 \cup {Blank}

\* strtol() of two characters in base 16: up to the first that is no digit, after a sign or a
\* space; the result becomes a char.
NoDigit == -1
Digit(c) ==
    CASE c \in 48..57 -> c - 48 [] c \in 65..70 -> c - 55 [] c \in 97..102 -> c - 87 [] OTHER -> NoDigit
Magnitude(c) == IF Digit(c) = NoDigit THEN 0 ELSE Digit(c)
Byte(c, d) ==
    IF Digit(c) # NoDigit
    THEN IF Digit(d) = NoDigit THEN Digit(c) ELSE 16 * Digit(c) + Digit(d)
    ELSE CASE c \in Spaces \cup {43} -> Magnitude(d) [] c = 45 -> (-Magnitude(d)) % 256 [] OTHER -> 0

BugHexFits(input, i) == i + 3 < Len(input)
HexFits(input, i) == i + 3 <= Len(input)

\* What begins at i: the character it stands for, and how many it takes.
Unescaped(input, i) ==
    IF input[i] # Backslash \/ i = Len(input) THEN <<input[i], 1>>
    ELSE LET next == input[i + 1]
         IN  CASE next = LetterN -> <<LineFeed, 2>>
               [] next = LetterT -> <<Tab, 2>>
               [] next = LetterR -> <<CarriageReturn, 2>>
               [] next = Backslash -> <<Backslash, 2>>
               [] next = LetterX /\ HexFits(input, i) -> <<Byte(input[i + 2], input[i + 3]), 4>>
               [] OTHER -> <<Backslash, 1>>

parse_type_string(input) ==
    LET From[i \in 1..Len(input) + 4] ==
            IF i > Len(input) THEN <<>>
            ELSE <<Unescaped(input, i)[1]>> \o From[i + Unescaped(input, i)[2]]
    IN  From[1]

\* Pairs of what is not space; half a pair at the end is dropped.
Clean(hex) ==
    LET Upto[k \in 0..Len(hex)] ==
            IF k = 0 THEN <<>> ELSE IF hex[k] \in Spaces THEN Upto[k - 1] ELSE Append(Upto[k - 1], hex[k])
    IN  Upto[Len(hex)]
parse_hex(hex) ==
    LET clean == Clean(hex)
    IN  [k \in 1..Len(clean) \div 2 |-> Byte(clean[2 * k - 1], clean[2 * k])]

-----------------------------------------------------------------------------
(* parse_script(): one line.                                               *)

FirstNotIn(line, set) ==
    IF \E k \in DOMAIN line : line[k] \notin set
    THEN CHOOSE k \in DOMAIN line : line[k] \notin set /\ \A j \in 1..k - 1 : line[j] \in set
    ELSE Len(line) + 1
Drop(line, set) == SubSeq(line, FirstNotIn(line, set), Len(line))
DropEnd(line, set) == Reverse(Drop(Reverse(line), set))
LowerCase(word) == [k \in DOMAIN word |-> IF word[k] \in 65..90 THEN word[k] + 32 ELSE word[k]]

NoCommand == [name |-> <<>>, args |-> <<>>]
Command(line) ==
    LET sv == Drop(line, {Blank, Tab, CarriageReturn, LineFeed})
        cmd_end == FirstNotIn(sv, (0..255) \ {Blank, Tab})
    IN  IF sv = <<>> \/ Head(sv) = Hash THEN NoCommand
        ELSE [name |-> LowerCase(SubSeq(sv, 1, cmd_end - 1)),
              args |-> DropEnd(Drop(SubSeq(sv, cmd_end, Len(sv)), {Blank, Tab}), {CarriageReturn, LineFeed})]
=============================================================================
