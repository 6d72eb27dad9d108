---------------------------- MODULE SessionProofs ----------------------------
(***************************************************************************)
(* Proofs about SessionInput, for lines and frames of any length: the      *)
(* names that are taken and the screens that are drawn, and the keys and   *)
(* characters of a frame against the tokens of the byte stream.            *)
(*                                                                         *)
(* The model's recursive functions follow a line or a stream from one      *)
(* position to the next.  What holds of them at every position is proved   *)
(* from the least position at which it would not.                          *)
(***************************************************************************)
EXTENDS SessionInput, NaturalsInduction, WellFoundedInduction, SequenceTheorems, TLAPS

LEMMA LeastNat ==
    ASSUME NEW T, T \subseteq Nat, T # {}
    PROVE  \E n \in T : \A m \in T : n <= m
<1>1. IsWellFoundedOn(OpToRel(<, Nat), Nat)
  BY NatLessThanWellFounded
<1>2. PICK n \in T : \A m \in T : ~(<<m, n>> \in OpToRel(<, Nat))
  BY <1>1, WFMin
<1>3. \A m \in T : ~(m < n)
  BY <1>2 DEF OpToRel
<1> QED
  BY <1>3

\* A function that goes on from its value before, by a step within V, stays in V.
Runs(f, n, V, first, step) ==
    /\ f \in [0..n -> V]
    /\ f[0] = first
    /\ \A k \in 1..n : f[k] = step[<<f[k - 1], k>>]

LEMMA Recursion ==
    ASSUME NEW V, NEW n \in Nat, NEW first \in V, NEW step \in [V \X (1..n) -> V]
    PROVE  \E f : Runs(f, n, V, first, step)
<1> DEFINE T == {m \in 0..n : ~\E f : Runs(f, m, V, first, step)}
<1>1. SUFFICES T = {}
  <2>1. n \in 0..n
    OBVIOUS
  <2> QED
    BY <1>1, <2>1
<1>2. SUFFICES ASSUME T # {} PROVE FALSE
  OBVIOUS
<1>3. PICK m \in T : \A k \in T : m <= k
  <2>1. T \subseteq Nat
    OBVIOUS
  <2> HIDE DEF T
  <2> QED
    BY <1>2, <2>1, LeastNat
<1>4. CASE m = 0
  <2> DEFINE f == [k \in 0..0 |-> first]
  <2>1. Runs(f, 0, V, first, step)
    BY DEF Runs
  <2> QED
    BY <2>1, <1>4, <1>3
<1>5. CASE m # 0
  <2>1. m \in 1..n /\ m - 1 \in 0..n /\ m - 1 \notin T
    BY <1>3, <1>5
  <2>2. PICK f : Runs(f, m - 1, V, first, step)
    BY <2>1
  <2> DEFINE v == step[<<f[m - 1], m>>]
  <2> DEFINE g == [k \in 0..m |-> IF k = m THEN v ELSE f[k]]
  <2>3. f \in [0..(m - 1) -> V] /\ f[0] = first
    BY <2>2 DEF Runs
  <2>4. v \in V
    BY <2>1, <2>3
  <2>5. g \in [0..m -> V]
    BY <2>1, <2>3, <2>4
  <2>6. g[0] = first
    BY <2>1, <2>3
  <2>7. ASSUME NEW k \in 1..m PROVE g[k] = step[<<g[k - 1], k>>]
    <3>1. g[k - 1] = f[k - 1]
      BY <2>1
    <3>2. CASE k = m
      BY <3>1, <3>2
    <3>3. CASE k # m
      <4>1. k \in 1..(m - 1)
        BY <3>3, <2>1
      <4>2. f[k] = step[<<f[k - 1], k>>]
        BY <4>1, <2>2 DEF Runs
      <4>3. g[k] = f[k]
        BY <3>3
      <4> QED
        BY <3>1, <4>2, <4>3
    <3> QED
      BY <3>2, <3>3
  <2>8. Runs(g, m, V, first, step)
    <3> HIDE DEF g
    <3> QED
      BY <2>5, <2>6, <2>7 DEF Runs
  <2> QED
    BY <2>8, <1>3
<1> QED
  BY <1>4, <1>5

-----------------------------------------------------------------------------
(* The line being edited.                                                  *)

Lines == {line \in Seq(Characters) : Len(line) <= MaxLength}

LEMMA EditKeepsLines ==
    ASSUME NEW line \in Lines, NEW ch \in Characters
    PROVE  Edit(line, ch) \in Lines
<1>1. line \in Seq(Characters) /\ Len(line) \in Nat /\ Len(line) <= MaxLength /\ MaxLength \in Nat
  BY LengthAssumption DEF Lines
<1>2. CASE ch = "backspace" /\ line # <<>>
  <2>1. Edit(line, ch) = SubSeq(line, 1, Len(line) - 1)
    BY <1>2 DEF Edit, Front
  <2>2. Len(line) # 0
    BY <1>1, <1>2
  <2> DEFINE m == Len(line) - 1
  <2>3. m \in Nat /\ m <= MaxLength /\ \A i \in 1..m : line[i] \in Characters
    BY <1>1, <2>2
  <2> HIDE DEF m
  <2>4. SubSeq(line, 1, m) \in Seq(Characters)
    BY <2>3, SubSeqProperties
  <2>5. Len(SubSeq(line, 1, m)) = m
    BY <2>3, SubSeqProperties
  <2>6. Edit(line, ch) = SubSeq(line, 1, m)
    BY <2>1 DEF m
  <2> QED
    BY <2>3, <2>4, <2>5, <2>6 DEF Lines
<1>3. CASE ch = "backspace" /\ line = <<>>
  BY <1>3 DEF Edit
<1>4. CASE ch # "backspace" /\ Fits(line)
  BY <1>1, <1>4 DEF Edit, Fits, Lines
<1>5. CASE ch # "backspace" /\ ~Fits(line)
  BY <1>5 DEF Edit
<1> QED
  BY <1>2, <1>3, <1>4, <1>5

LEMMA LineFacts ==
    ASSUME text \in Lines, inputBuffer \in Seq(Characters)
    PROVE  /\ LineAfter \in [0..Len(inputBuffer) -> Lines]
           /\ LineAfter[0] = text
           /\ Edited \in Lines
<1> DEFINE n == Len(inputBuffer)
<1> DEFINE step == [p \in Lines \X (1..n) |-> Edit(p[1], inputBuffer[p[2]])]
<1>1. n \in Nat
  OBVIOUS
<1>2. ASSUME NEW line \in Lines, NEW k \in 1..n PROVE Edit(line, inputBuffer[k]) \in Lines
  <2>1. inputBuffer[k] \in Characters
    BY <1>2
  <2> QED
    BY <2>1, EditKeepsLines
<1>3. step \in [Lines \X (1..n) -> Lines]
  BY <1>2
<1>4. ASSUME NEW line \in Lines, NEW k \in 1..n PROVE step[<<line, k>>] = Edit(line, inputBuffer[k])
  OBVIOUS
<1>5. PICK f : Runs(f, n, Lines, text, step)
  <2> HIDE DEF step, n
  <2> QED
    BY <1>1, <1>3, Recursion
<1>6. f \in [0..n -> Lines] /\ f[0] = text
  BY <1>5 DEF Runs
<1>7. ASSUME NEW k \in 1..n PROVE f[k] = Edit(f[k - 1], inputBuffer[k])
  <2>1. f[k - 1] \in Lines
    BY <1>6
  <2>2. f[k] = step[<<f[k - 1], k>>]
    BY <1>5 DEF Runs
  <2> HIDE DEF step
  <2> QED
    BY <2>1, <2>2, <1>4
<1>8. f = [k \in 0..n |-> IF k = 0 THEN text ELSE Edit(f[k - 1], inputBuffer[k])]
  <2> DEFINE g == [k \in 0..n |-> IF k = 0 THEN text ELSE Edit(f[k - 1], inputBuffer[k])]
  <2>1. ASSUME NEW k \in 0..n PROVE f[k] = g[k]
    <3>1. CASE k = 0
      BY <3>1, <1>6
    <3>2. CASE k # 0
      BY <3>2, <1>7
    <3> QED
      BY <3>1, <3>2
  <2>2. g = [k \in 0..n |-> g[k]] /\ f = [k \in 0..n |-> f[k]]
    BY <1>6
  <2> HIDE DEF g
  <2>3. f = g
    BY <2>1, <2>2
  <2> QED
    BY <2>3 DEF g
<1>9. LineAfter = [k \in 0..n |-> IF k = 0 THEN text ELSE Edit(LineAfter[k - 1], inputBuffer[k])]
  BY <1>8 DEF LineAfter
<1>10. ASSUME NEW k \in 0..n PROVE LineAfter[k] = IF k = 0 THEN text ELSE Edit(LineAfter[k - 1], inputBuffer[k])
  <2> DEFINE g == [i \in 0..n |-> IF i = 0 THEN text ELSE Edit(LineAfter[i - 1], inputBuffer[i])]
  <2>1. g[k] = IF k = 0 THEN text ELSE Edit(LineAfter[k - 1], inputBuffer[k])
    OBVIOUS
  <2>2. LineAfter = g
    BY <1>9
  <2> HIDE DEF g
  <2> QED
    BY <2>1, <2>2
<1>11. \A k \in 0..n : LineAfter[k] \in Lines
  <2> DEFINE T == {k \in 0..n : LineAfter[k] \notin Lines}
  <2>1. SUFFICES ASSUME T # {} PROVE FALSE
    OBVIOUS
  <2>2. PICK k \in T : \A m \in T : k <= m
    <3>1. T \subseteq Nat
      OBVIOUS
    <3> HIDE DEF T
    <3> QED
      BY <2>1, <3>1, LeastNat
  <2>3. k # 0
    BY <1>10, <2>2
  <2>4. k \in 1..n /\ k - 1 \in 0..n /\ k - 1 \notin T
    BY <2>2, <2>3
  <2>5. LineAfter[k] = Edit(LineAfter[k - 1], inputBuffer[k]) /\ LineAfter[k - 1] \in Lines
    BY <1>10, <2>3, <2>4
  <2> QED
    BY <2>2, <2>4, <2>5, <1>2
<1>12. LineAfter \in [0..n -> Lines]
  <2> DEFINE g == [i \in 0..n |-> IF i = 0 THEN text ELSE Edit(LineAfter[i - 1], inputBuffer[i])]
  <2>1. LineAfter = [i \in 0..n |-> LineAfter[i]]
    <3>1. g = [i \in 0..n |-> g[i]]
      OBVIOUS
    <3>2. LineAfter = g
      BY <1>9
    <3> HIDE DEF g
    <3> QED
      BY <3>1, <3>2
  <2> QED
    BY <2>1, <1>11
<1>13. n \in 0..n /\ 0 \in 0..n
  OBVIOUS
<1>14. LineAfter[0] = text
  BY <1>10, <1>13
<1>15. Edited \in Lines
  BY <1>11, <1>13 DEF Edited
<1> QED
  BY <1>12, <1>14, <1>15

\* A line that no character has changed is the line it was.
LEMMA UnchangedLine ==
    ASSUME text \in Lines, inputBuffer \in Seq(Characters), ~LineChanged
    PROVE  Edited = text
<1> DEFINE n == Len(inputBuffer)
<1> DEFINE T == {k \in 0..n : LineAfter[k] # text}
<1>1. n \in Nat /\ LineAfter[0] = text
  BY LineFacts
<1>2. CASE T = {}
  BY <1>1, <1>2 DEF Edited
<1>3. CASE T # {}
  <2>1. PICK k \in T : \A m \in T : k <= m
    <3>1. T \subseteq Nat
      OBVIOUS
    <3> HIDE DEF T
    <3> QED
      BY <1>3, <3>1, LeastNat
  <2>2. k \in 1..n /\ k - 1 \in 0..n /\ k - 1 \notin T
    BY <1>1, <2>1
  <2>3. LineAfter[k] = LineAfter[k - 1]
    BY <2>2 DEF LineChanged
  <2> QED
    BY <2>1, <2>2, <2>3
<1> QED
  BY <1>2, <1>3

\* The greatest of some positions.
LEMMA GreatestPosition ==
    ASSUME NEW n \in Nat, NEW T, T \subseteq 1..n, T # {}
    PROVE  Max1(T) \in T /\ \A m \in T : m <= Max1(T)
<1> DEFINE U == {n - m : m \in T}
<1>1. U \subseteq Nat /\ U # {}
  <2>1. \A m \in T : n - m \in Nat
    OBVIOUS
  <2>2. \E m : m \in T
    OBVIOUS
  <2> QED
    BY <2>1, <2>2
<1>2. PICK u \in U : \A m \in U : u <= m
  <2> HIDE DEF U
  <2> QED
    BY <1>1, LeastNat
<1>3. PICK m \in T : u = n - m
  OBVIOUS
<1>4. \A k \in T : k <= m
  <2>1. \A k \in T : n - k \in U
    OBVIOUS
  <2> HIDE DEF U
  <2> QED
    BY <2>1, <1>2, <1>3
<1> QED
  BY <1>4 DEF Max1

LEMMA TrimFacts ==
    ASSUME NEW line \in Lines
    PROVE  /\ Trimmed(line) \in Lines
           /\ Trimmed(line) # <<>> => ~Blank(Head(Trimmed(line))) /\ ~Blank(Last(Trimmed(line)))
<1> DEFINE inked == {k \in DOMAIN line : ~Blank(line[k])}
<1> DEFINE first == CHOOSE k \in inked : \A m \in inked : k <= m
<1>1. line \in Seq(Characters) /\ Len(line) \in Nat /\ Len(line) <= MaxLength /\ MaxLength \in Nat
         /\ DOMAIN line = 1..Len(line)
  BY LengthAssumption DEF Lines
<1>2. CASE inked = {}
  <2>1. Trimmed(line) = <<>>
    BY <1>2 DEF Trimmed
  <2> QED
    BY <2>1, <1>1 DEF Lines
<1>3. CASE inked # {}
  <2>1. inked \subseteq 1..Len(line)
    BY <1>1
  <2>2. first \in inked
    <3>1. inked \subseteq Nat
      BY <2>1
    <3>2. \E k \in inked : \A m \in inked : k <= m
      <4> HIDE DEF inked
      <4> QED
        BY <3>1, <1>3, LeastNat
    <3> QED
      BY <3>2
  <2>3. Max1(inked) \in inked /\ first <= Max1(inked)
    <3> HIDE DEF inked, first
    <3> QED
      BY <1>1, <1>3, <2>1, <2>2, GreatestPosition
  <2> DEFINE last == Max1(inked)
  <2>4. Trimmed(line) = SubSeq(line, first, last)
    BY <1>3 DEF Trimmed
  <2>5. first \in 1..Len(line) /\ last \in 1..Len(line) /\ first <= last
    BY <2>1, <2>2, <2>3
  <2>6. ~Blank(line[first]) /\ ~Blank(line[last])
    BY <2>2, <2>3
  <2> HIDE DEF inked, first, last
  <2>7. \A i \in first..last : line[i] \in Characters
    BY <2>5, <1>1
  <2> DEFINE t == SubSeq(line, first, last)
  <2>8. t \in Seq(Characters)
    BY <2>5, <2>7, SubSeqProperties
  <2>9. Len(t) = last - first + 1
    BY <2>5, <2>7, SubSeqProperties
  <2>10. \A i \in 1..(last - first + 1) : t[i] = line[first + i - 1]
    BY <2>5, <2>7, SubSeqProperties
  <2> HIDE DEF t
  <2>11. t \in Lines
    BY <2>5, <2>8, <2>9, <1>1 DEF Lines
  <2>12. Head(t) = line[first]
    <3>1. t[1] = line[first]
      BY <2>5, <2>10
    <3> QED
      BY <3>1, <2>8, <2>9, <2>5
  <2>13. Last(t) = line[last]
    <3>1. t[last - first + 1] = line[last]
      BY <2>5, <2>10
    <3> QED
      BY <3>1, <2>9 DEF Last
  <2>14. Trimmed(line) = t
    BY <2>4 DEF t
  <2> QED
    BY <2>6, <2>11, <2>12, <2>13, <2>14
<1> QED
  BY <1>2, <1>3

-----------------------------------------------------------------------------
(* Names and screens.  While a password is being verified the line that is *)
(* drawn is empty.                                                         *)

VerifyingIsBlank == field = "verifying" => text = <<>>
FrameInv == TypeOK /\ NamesAreVisible /\ ScreenIsCurrent /\ VerifyingIsBlank

LEMMA FrameInit == Init => FrameInv
<1> SUFFICES ASSUME Init PROVE FrameInv
  OBVIOUS
<1>1. DeviceTypeOK
  BY CapAssumption DEF Init, DeviceInit, DeviceTypeOK
<1>2. TypeOK
  <2>1. <<>> \in Seq(Characters) /\ Len(<<>>) = 0 /\ MaxLength \in Nat
    BY LengthAssumption
  <2>2. screen.field = "none" /\ screen.text = <<>>
    BY DEF Init
  <2>3. text \in Seq(Characters) /\ Len(text) <= MaxLength /\ name \in Seq(Characters)
    BY <2>1 DEF Init
  <2>4. field \in Fields /\ promoted \in BOOLEAN /\ isDirty \in BOOLEAN
    BY DEF Init, Fields
  <2> QED
    BY <1>1, <2>1, <2>2, <2>3, <2>4 DEF TypeOK
<1> QED
  BY <1>2 DEF FrameInv, Init, NamesAreVisible, ScreenIsCurrent, VerifyingIsBlank

LEMMA DeviceReceives ==
    ASSUME DeviceTypeOK, NEW ch \in Bytes, pressKey(ch)
    PROVE  DeviceTypeOK'
<1>1. keyStates' \subseteq Key
  BY DEF pressKey, PressNormal, PressAfterEscape, PressInSequence, DeviceTypeOK, Key, mapCharToKey, arrow
<1>2. prevKeyStates' \subseteq Key
  BY DEF pressKey, DeviceTypeOK
<1>3. parseState' \in {"Normal", "ExpectBracket", "ExpectSequence"}
  BY DEF pressKey, PressNormal, PressAfterEscape, PressInSequence, DeviceTypeOK
<1>4. inputBuffer' = inputBuffer \/ (ch \in Characters /\ HasRoom /\ inputBuffer' = Append(inputBuffer, ch))
  BY DEF pressKey, PressNormal, PressAfterEscape, PressInSequence, Keep
<1>5. inputBuffer' \in Seq(Characters) /\ Len(inputBuffer') <= MAX_INPUT_BYTES
  <2>1. CASE inputBuffer' = inputBuffer
    BY <2>1 DEF DeviceTypeOK
  <2>2. CASE ch \in Characters /\ HasRoom /\ inputBuffer' = Append(inputBuffer, ch)
    <3>1. inputBuffer \in Seq(Characters) /\ Len(inputBuffer) < MAX_INPUT_BYTES /\ MAX_INPUT_BYTES \in Nat
      BY <2>2, CapAssumption DEF DeviceTypeOK, HasRoom
    <3>2. Len(Append(inputBuffer, ch)) = Len(inputBuffer) + 1 /\ Append(inputBuffer, ch) \in Seq(Characters)
      BY <3>1, <2>2
    <3>3. Len(inputBuffer) \in Nat
      BY <3>1
    <3> QED
      BY <2>2, <3>1, <3>2, <3>3
  <2> QED
    BY <1>4, <2>1, <2>2
<1> QED
  BY <1>1, <1>2, <1>3, <1>5 DEF DeviceTypeOK

LEMMA DeviceEndsFrame ==
    ASSUME DeviceTypeOK, nextFrame
    PROVE  DeviceTypeOK'
<1>1. MAX_INPUT_BYTES \in Nat /\ Len(<<>>) = 0 /\ <<>> \in Seq(Characters)
  BY CapAssumption
<1> QED
  BY <1>1 DEF DeviceTypeOK, nextFrame, KeepParseState

\* The line and what it is drawn with, in a state of these types.
LEMMA TypedLine ==
    ASSUME TypeOK
    PROVE  /\ text \in Lines /\ inputBuffer \in Seq(Characters)
           /\ Edited \in Lines
           /\ ~LineChanged => Edited = text
<1>1. text \in Lines /\ inputBuffer \in Seq(Characters)
  BY DEF TypeOK, DeviceTypeOK, Lines
<1> QED
  BY <1>1, LineFacts, UnchangedLine

\* The parts of TypeOK that are not the device's.
SessionTypeOK ==
    /\ field \in Fields
    /\ promoted \in BOOLEAN
    /\ text \in Lines
    /\ name \in Seq(Characters)
    /\ isDirty \in BOOLEAN
    /\ screen.field \in Fields \cup {"none"} /\ screen.text \in Seq(Characters)

LEMMA TypeParts == TypeOK <=> DeviceTypeOK /\ SessionTypeOK
  BY DEF TypeOK, SessionTypeOK, Lines

LEMMA Rendered ==
    ASSUME SessionTypeOK, field' \in Fields, text' \in Lines,
           screen' \in {screen, [field |-> field', text |-> text']}
    PROVE  screen'.field \in Fields \cup {"none"} /\ screen'.text \in Seq(Characters)
<1>1. CASE screen' = [field |-> field', text |-> text']
  <2>1. screen'.field = field' /\ screen'.text = text'
    BY <1>1
  <2> QED
    BY <2>1 DEF Lines
<1>2. CASE screen' = screen
  BY <1>2 DEF SessionTypeOK
<1> QED
  BY <1>1, <1>2

LEMMA EmptyLine == <<>> \in Lines
<1>1. <<>> \in Seq(Characters) /\ Len(<<>>) = 0
  OBVIOUS
<1> QED
  BY <1>1, LengthAssumption DEF Lines

LEMMA FrameStep == FrameInv /\ [Next]_vars => FrameInv'
<1> SUFFICES ASSUME FrameInv, [Next]_vars PROVE FrameInv'
  OBVIOUS
<1> USE DEF VerifyingIsBlank
<1>0. /\ TypeOK /\ DeviceTypeOK /\ SessionTypeOK
      /\ text \in Lines /\ Edited \in Lines /\ (~LineChanged => Edited = text)
      /\ <<>> \in Lines
  BY TypedLine, TypeParts, EmptyLine DEF FrameInv
<1>1. ASSUME NEW ch \in Bytes, Receive(ch) PROVE FrameInv'
  <2>1. DeviceTypeOK'
    BY <1>0, <1>1, DeviceReceives DEF Receive
  <2>2. UNCHANGED <<field, promoted, text, name, isDirty, screen>>
    BY <1>1 DEF Receive, screenVars
  <2>3. TypeOK'
    BY <2>1, <2>2, <1>0 DEF TypeOK
  <2> QED
    BY <2>2, <2>3 DEF FrameInv, NamesAreVisible, ScreenIsCurrent
<1>2. CASE NoEnter
  <2>1. DeviceTypeOK'
    BY <1>0, <1>2, DeviceEndsFrame DEF NoEnter, EndFrame
  <2>2. text' = Edited /\ UNCHANGED <<field, promoted, name>> /\ field \in {"mode", "name", "password"}
    BY <1>2 DEF NoEnter
  <2>3. field' \in Fields /\ text' \in Lines /\ Render(LineChanged)
    BY <1>0, <1>2, <2>2 DEF NoEnter, Fields
  <2>4. /\ isDirty' = FALSE
        /\ isDirty \/ LineChanged => screen' = [field |-> field', text |-> text']
        /\ ~isDirty /\ ~LineChanged => screen' = screen
    BY <2>3 DEF Render
  <2>4a. screen'.field \in Fields \cup {"none"} /\ screen'.text \in Seq(Characters)
    <3>1. screen' \in {screen, [field |-> field', text |-> text']}
      BY <2>3 DEF Render
    <3> QED
      BY <1>0, <2>3, <3>1, Rendered
  <2>5. SessionTypeOK'
    BY <1>0, <2>2, <2>3, <2>4, <2>4a, <2>4a DEF SessionTypeOK
  <2>6. TypeOK'
    <3>1. (DeviceTypeOK /\ SessionTypeOK => TypeOK)'
      BY TypeParts, PTL
    <3> QED
      BY <3>1, <2>1, <2>5
  <2>7. NamesAreVisible'
    BY <2>2 DEF FrameInv, NamesAreVisible
  <2>8. ScreenIsCurrent'
    <3>1. CASE isDirty \/ LineChanged
      BY <3>1, <2>4 DEF ScreenIsCurrent
    <3>2. CASE ~isDirty /\ ~LineChanged
      <4>1. text' = text /\ screen' = screen /\ field' = field
        BY <1>0, <2>2, <2>4, <3>2
      <4> QED
        BY <4>1, <3>2, <2>2 DEF FrameInv, ScreenIsCurrent
    <3> QED
      BY <3>1, <3>2
  <2> QED
    BY <2>2, <2>6, <2>7, <2>8 DEF FrameInv
<1>3. CASE EnterMode
  <2>1. DeviceTypeOK'
    BY <1>0, <1>3, DeviceEndsFrame DEF EnterMode, EndFrame
  <2>2. text' = <<>> /\ field = "mode" /\ field' \in {"mode", "name"} /\ UNCHANGED <<promoted, name>>
    BY <1>3 DEF EnterMode
  <2> DEFINE changed == LineChanged \/ Moved
  <2>3. field' \in Fields /\ text' \in Lines /\ Render(changed)
    BY <1>0, <1>3, <2>2 DEF EnterMode, Fields
  <2>4. /\ isDirty' = FALSE
        /\ isDirty \/ changed => screen' = [field |-> field', text |-> text']
        /\ ~isDirty /\ ~changed => screen' = screen
    BY <2>3 DEF Render
  <2>4a. screen'.field \in Fields \cup {"none"} /\ screen'.text \in Seq(Characters)
    <3>1. screen' \in {screen, [field |-> field', text |-> text']}
      BY <2>3 DEF Render
    <3> QED
      BY <1>0, <2>3, <3>1, Rendered
  <2>5. SessionTypeOK'
    BY <1>0, <2>2, <2>3, <2>4, <2>4a, <2>4a DEF SessionTypeOK
  <2>6. TypeOK'
    <3>1. (DeviceTypeOK /\ SessionTypeOK => TypeOK)'
      BY TypeParts, PTL
    <3> QED
      BY <3>1, <2>1, <2>5
  <2>7. NamesAreVisible'
    BY <2>2 DEF NamesAreVisible
  <2>8. ScreenIsCurrent'
    <3>1. CASE isDirty \/ changed
      BY <3>1, <2>4 DEF ScreenIsCurrent
    <3>2. CASE ~isDirty /\ ~changed
      <4>1. screen' = screen /\ field' = field
        BY <2>4, <3>2 DEF Moved
      <4>2. screen.field = "mode"
        BY <3>2, <2>2 DEF FrameInv, ScreenIsCurrent
      <4> QED
        BY <4>1, <4>2, <2>2 DEF ScreenIsCurrent
    <3> QED
      BY <3>1, <3>2
  <2> QED
    BY <2>2, <2>6, <2>7, <2>8 DEF FrameInv
<1>4. CASE EnterName
  <2>1. DeviceTypeOK'
    BY <1>0, <1>4, DeviceEndsFrame DEF EnterName, EndFrame
  <2>2. field = "name" /\ UNCHANGED promoted
    BY <1>4 DEF EnterName
  <2>3. \/ text' = Edited /\ field' = field /\ name' = name
        \/ ~IsBlank /\ text' = <<>> /\ field' = "password" /\ name' = Trimmed(Edited)
    BY <1>4 DEF EnterName
  <2> DEFINE changed == LineChanged \/ Moved
  <2>4. field' \in Fields /\ text' \in Lines /\ Render(changed)
    BY <1>0, <1>4, <2>2, <2>3 DEF EnterName, Fields
  <2>5. /\ isDirty' = FALSE
        /\ isDirty \/ changed => screen' = [field |-> field', text |-> text']
        /\ ~isDirty /\ ~changed => screen' = screen
    BY <2>4 DEF Render
  <2>5a. screen'.field \in Fields \cup {"none"} /\ screen'.text \in Seq(Characters)
    <3>1. screen' \in {screen, [field |-> field', text |-> text']}
      BY <2>4 DEF Render
    <3> QED
      BY <1>0, <2>4, <3>1, Rendered
  <2>6. /\ Trimmed(Edited) \in Lines
        /\ Trimmed(Edited) # <<>> => ~Blank(Head(Trimmed(Edited))) /\ ~Blank(Last(Trimmed(Edited)))
    BY <1>0, TrimFacts
  <2>7. SessionTypeOK'
    <3>1. name' \in Seq(Characters)
      BY <1>0, <2>3, <2>6 DEF SessionTypeOK, Lines
    <3> QED
      BY <1>0, <2>2, <2>4, <2>5, <2>5a, <3>1 DEF SessionTypeOK
  <2>8. TypeOK'
    <3>1. (DeviceTypeOK /\ SessionTypeOK => TypeOK)'
      BY TypeParts, PTL
    <3> QED
      BY <3>1, <2>1, <2>7
  <2>9. NamesAreVisible'
    <3>1. CASE field' = field
      BY <2>2, <3>1 DEF NamesAreVisible
    <3>2. CASE field' # field
      <4>1. name' = Trimmed(Edited) /\ name' # <<>>
        BY <2>3, <3>2 DEF IsBlank
      <4> QED
        BY <4>1, <2>6 DEF NamesAreVisible, Lines
    <3> QED
      BY <3>1, <3>2
  <2>10. ScreenIsCurrent'
    <3>1. CASE isDirty \/ changed
      BY <3>1, <2>5 DEF ScreenIsCurrent
    <3>2. CASE ~isDirty /\ ~changed
      <4>1. screen' = screen /\ field' = field
        BY <2>5, <3>2 DEF Moved
      <4>2. text' = text
        BY <4>1, <2>2, <2>3, <3>2, <1>0
      <4>3. screen = [field |-> field, text |-> text]
        BY <3>2, <2>2 DEF FrameInv, ScreenIsCurrent
      <4> QED
        BY <4>1, <4>2, <4>3 DEF ScreenIsCurrent
    <3> QED
      BY <3>1, <3>2
  <2>11. VerifyingIsBlank'
    BY <2>2, <2>3
  <2> QED
    BY <2>8, <2>9, <2>10, <2>11 DEF FrameInv
<1>5. CASE EnterPassword
  <2>1. DeviceTypeOK'
    BY <1>0, <1>5, DeviceEndsFrame DEF EnterPassword, EndFrame
  <2>2. text' = <<>> /\ field = "password" /\ field' = "verifying" /\ UNCHANGED <<promoted, name>>
    BY <1>5 DEF EnterPassword
  <2>3. field' \in Fields /\ text' \in Lines /\ Render(TRUE)
    BY <1>0, <1>5, <2>2 DEF EnterPassword, Fields
  <2>4. /\ isDirty' = FALSE
        /\ screen' = [field |-> field', text |-> text']
    BY <2>3 DEF Render
  <2>4a. screen'.field \in Fields \cup {"none"} /\ screen'.text \in Seq(Characters)
    BY <1>0, <2>3, <2>4, Rendered
  <2>5. SessionTypeOK'
    BY <1>0, <2>2, <2>3, <2>4, <2>4a DEF SessionTypeOK
  <2>6. TypeOK'
    <3>1. (DeviceTypeOK /\ SessionTypeOK => TypeOK)'
      BY TypeParts, PTL
    <3> QED
      BY <3>1, <2>1, <2>5
  <2> QED
    BY <2>2, <2>4, <2>6 DEF FrameInv, NamesAreVisible, ScreenIsCurrent
<1>6. CASE Verifying
  <2>1. DeviceTypeOK'
    BY <1>0, <1>6, DeviceEndsFrame DEF Verifying, EndFrame
  <2>2. text' = text /\ text = <<>> /\ field = "verifying" /\ field' \in {"verifying", "mode", "game"}
    BY <1>6 DEF Verifying, FrameInv
  <2>3. promoted' = (field' = "game") /\ isDirty' = FALSE
           /\ name' = IF field' = "verifying" THEN name ELSE <<>>
    BY <1>6 DEF Verifying
  <2>4. screen' = [field |-> IF promoted' THEN field ELSE field', text |-> text]
    BY <1>6 DEF Verifying
  <2>5. screen'.field \in Fields /\ screen'.text = text
    BY <2>2, <2>4 DEF Fields
  <2>6. name' \in Seq(Characters) /\ promoted' \in BOOLEAN /\ isDirty' \in BOOLEAN
    <3>1. name' \in Seq(Characters)
      <4>1. name \in Seq(Characters) /\ <<>> \in Seq(Characters)
        BY <1>0 DEF SessionTypeOK
      <4> QED
        BY <4>1, <2>3
    <3>2. promoted' \in BOOLEAN /\ isDirty' \in BOOLEAN
      BY <2>3, Zenon
    <3> QED
      BY <3>1, <3>2
  <2>7. field' \in Fields /\ text' \in Lines /\ text \in Seq(Characters)
    BY <1>0, <2>2 DEF Fields, Lines
  <2>8. SessionTypeOK'
    BY <2>5, <2>6, <2>7 DEF SessionTypeOK
  <2>9. TypeOK'
    <3>1. (DeviceTypeOK /\ SessionTypeOK => TypeOK)'
      BY TypeParts, PTL
    <3> QED
      BY <3>1, <2>1, <2>8
  <2>10. NamesAreVisible'
    BY <2>2, <2>3 DEF FrameInv, NamesAreVisible
  <2>11. ScreenIsCurrent'
    <3>1. CASE field' = "game"
      BY <3>1 DEF ScreenIsCurrent
    <3>2. CASE field' # "game"
      <4>1. ~promoted'
        BY <2>3, <3>2
      <4> QED
        BY <4>1, <2>2, <2>4 DEF ScreenIsCurrent
    <3> QED
      BY <3>1, <3>2
  <2> QED
    BY <2>2, <2>9, <2>10, <2>11 DEF FrameInv
<1>7. CASE GameFrame
  <2>1. DeviceTypeOK'
    BY <1>0, <1>7, DeviceEndsFrame DEF GameFrame, EndFrame
  <2>2. text' \in {<<>>, Edited} /\ field = "game" /\ promoted' = FALSE
           /\ UNCHANGED <<field, name, isDirty, screen>>
    BY <1>7 DEF GameFrame, screenVars
  <2>3. SessionTypeOK'
    BY <1>0, <2>2 DEF SessionTypeOK
  <2>4. TypeOK'
    <3>1. (DeviceTypeOK /\ SessionTypeOK => TypeOK)'
      BY TypeParts, PTL
    <3> QED
      BY <3>1, <2>1, <2>3
  <2> QED
    BY <2>2, <2>4 DEF FrameInv, NamesAreVisible, ScreenIsCurrent
<1>8. CASE UNCHANGED vars
  BY <1>8 DEF vars, deviceVars, screenVars, FrameInv, TypeOK, DeviceTypeOK, NamesAreVisible, ScreenIsCurrent
<1> QED
  BY <1>1, <1>2, <1>3, <1>4, <1>5, <1>6, <1>7, <1>8 DEF Next

-----------------------------------------------------------------------------
(* The tokens of a stream, as the set of the positions at which one starts.*)

Streams == Seq(ByteClasses)
Starts(s) == {j \in 1..(Len(s) + 1) : StartsToken(s)[j]}
\* Position j follows from those of T that are before it.
Follows(s, T, j) ==
    \/ j = 1
    \/ j - 1 \in T /\ s[j - 1] # "esc"
    \/ j - 2 \in T /\ s[j - 2] = "esc" /\ s[j - 1] # "["
    \/ j - 3 \in T /\ s[j - 3] = "esc" /\ s[j - 2] = "["

LEMMA StartsExist ==
    ASSUME NEW s \in Streams, NEW n \in Nat
    PROVE  \E T : T \subseteq 1..n /\ \A j \in 1..n : j \in T <=> Follows(s, T, j)
<1> DEFINE Good(m) == \E T : T \subseteq 1..m /\ \A j \in 1..m : j \in T <=> Follows(s, T, j)
<1> DEFINE Failing == {m \in 0..n : ~Good(m)}
<1>1. SUFFICES ASSUME Failing # {} PROVE FALSE
  <2>1. n \in 0..n
    OBVIOUS
  <2> QED
    BY <1>1, <2>1
<1>2. PICK m \in Failing : \A k \in Failing : m <= k
  <2>1. Failing \subseteq Nat
    OBVIOUS
  <2> HIDE DEF Failing
  <2> QED
    BY <1>1, <2>1, LeastNat
<1>3. Good(0)
  <2> DEFINE none == {}
  <2>1. none \subseteq 1..0 /\ \A j \in 1..0 : j \in none <=> Follows(s, none, j)
    OBVIOUS
  <2> HIDE DEF none
  <2> QED
    BY <2>1
<1>4. m \in 1..n /\ m - 1 \in 0..n /\ m - 1 \notin Failing
  <2>1. m # 0
    BY <1>2, <1>3
  <2> QED
    BY <1>2, <2>1
<1>5. Good(m - 1)
  BY <1>4
<1>6. PICK T : T \subseteq 1..(m - 1) /\ \A j \in 1..(m - 1) : j \in T <=> Follows(s, T, j)
  BY <1>5
<1> DEFINE U == IF Follows(s, T, m) THEN T \cup {m} ELSE T
<1>7. U \subseteq 1..m /\ \A j \in 1..(m - 1) : j \in U <=> j \in T
  BY <1>4, <1>6
<1>7a. m \in U <=> Follows(s, T, m)
  BY <1>4, <1>6
<1>7b. \A i \in Int : i < m => (i \in U <=> i \in T)
  BY <1>4, <1>6, <1>7
<1>8. ASSUME NEW j \in 1..m PROVE Follows(s, U, j) <=> Follows(s, T, j)
  <2>1. j - 1 \in Int /\ j - 2 \in Int /\ j - 3 \in Int /\ j - 1 < m /\ j - 2 < m /\ j - 3 < m
    BY <1>4
  <2> HIDE DEF U
  <2>2. /\ j - 1 \in U <=> j - 1 \in T
        /\ j - 2 \in U <=> j - 2 \in T
        /\ j - 3 \in U <=> j - 3 \in T
    BY <1>7b, <2>1
  <2> QED
    BY <2>2 DEF Follows
<1>9. ASSUME NEW j \in 1..m PROVE j \in U <=> Follows(s, U, j)
  <2>1. CASE j = m
    BY <2>1, <1>7a, <1>8
  <2>2. CASE j # m
    <3>1. j \in 1..(m - 1)
      BY <2>2, <1>4
    <3> HIDE DEF U
    <3> QED
      BY <3>1, <1>6, <1>7, <1>8
  <2> QED
    BY <2>1, <2>2
<1>10. Good(m)
  <2> HIDE DEF U
  <2> QED
    BY <1>7, <1>9
<1> QED
  BY <1>2, <1>10

LEMMA StartFacts ==
    ASSUME NEW s \in Streams
    PROVE  /\ DOMAIN StartsToken(s) = 1..(Len(s) + 1)
           /\ \A j \in 1..(Len(s) + 1) : j \in Starts(s) <=> Follows(s, Starts(s), j)
<1> DEFINE n == Len(s) + 1
<1> DEFINE Body(f, j) ==
        \/ j = 1
        \/ f[j - 1] /\ s[j - 1] # "esc"
        \/ j > 2 /\ f[j - 2] /\ s[j - 2] = "esc" /\ s[j - 1] # "["
        \/ j > 3 /\ f[j - 3] /\ s[j - 3] = "esc" /\ s[j - 2] = "["
<1>0. Len(s) \in Nat /\ n \in Nat /\ n >= 1
  BY DEF Streams
<1> HIDE DEF n
<1>1. PICK T : T \subseteq 1..n /\ \A j \in 1..n : j \in T <=> Follows(s, T, j)
  BY <1>0, StartsExist
<1> DEFINE f == [j \in 1..n |-> j \in T]
<1>2. ASSUME NEW j \in 1..n PROVE (j \in T) = Body(f, j)
  <2>1. CASE j = 1
    <3>1. 1 \in T
      BY <1>0, <1>1, <2>1 DEF Follows
    <3> QED
      BY <2>1, <3>1
  <2>2. CASE j # 1
    <3>1. j - 1 \in 1..n
      BY <2>2, <1>0
    <3>2. f[j - 1] = (j - 1 \in T)
      BY <3>1
    <3>3. j > 2 => f[j - 2] = (j - 2 \in T)
      BY <1>0
    <3>4. j > 3 => f[j - 3] = (j - 3 \in T)
      BY <1>0
    <3>5. (j - 2 \in T => j > 2) /\ (j - 3 \in T => j > 3)
      BY <1>1, <1>0
    <3> HIDE DEF f
    <3>6. j \in T <=> Follows(s, T, j)
      BY <1>1
    <3>7. (j > 2 /\ f[j - 2] /\ s[j - 2] = "esc" /\ s[j - 1] # "[")
             <=> (j - 2 \in T /\ s[j - 2] = "esc" /\ s[j - 1] # "[")
      BY <3>3, <3>5, Zenon
    <3>8. (j > 3 /\ f[j - 3] /\ s[j - 3] = "esc" /\ s[j - 2] = "[")
             <=> (j - 3 \in T /\ s[j - 3] = "esc" /\ s[j - 2] = "[")
      BY <3>4, <3>5, Zenon
    <3>9. (f[j - 1] /\ s[j - 1] # "esc") <=> (j - 1 \in T /\ s[j - 1] # "esc")
      BY <3>2, Zenon
    <3>10. Follows(s, T, j) <=> Body(f, j)
      BY <3>7, <3>8, <3>9, Zenon DEF Follows
    <3> HIDE DEF f
    <3>11. Body(f, j) \in BOOLEAN
      BY SMT
    <3>12. (j \in T) \in BOOLEAN
      BY SMT
    <3> HIDE DEF Body
    <3>13. j \in T <=> Body(f, j)
      BY <3>6, <3>10, Zenon
    <3> DEFINE b == Body(f, j)
    <3>14. b \in BOOLEAN /\ (j \in T <=> b)
      BY <3>11, <3>13, Zenon
    <3>15. (j \in T) = b
      <4> HIDE DEF b
      <4> QED
        BY <3>14, SMT
    <3> QED
      BY <3>15, Zenon
  <2> QED
    BY <2>1, <2>2
<1>3. f = [j \in 1..n |-> Body(f, j)]
  BY <1>2, Zenon
<1>4. StartsToken(s) = [j \in 1..n |-> Body(StartsToken(s), j)]
  BY <1>3, Zenon DEF StartsToken, n
<1> DEFINE start == StartsToken(s)
<1>5. DOMAIN start = 1..n /\ \A j \in 1..n : start[j] = Body(start, j)
  <2> DEFINE g == [j \in 1..n |-> Body(start, j)]
  <2>1. DOMAIN g = 1..n /\ \A j \in 1..n : g[j] = Body(start, j)
    OBVIOUS
  <2>2. start = g
    BY <1>4
  <2> HIDE DEF g, start
  <2> QED
    BY <2>1, <2>2, Zenon
<1>6. ASSUME NEW j \in 1..n PROVE j \in Starts(s) <=> Follows(s, Starts(s), j)
  <2>1. \A i \in 1..n : i \in Starts(s) <=> start[i]
    BY Zenon DEF Starts, n
  <2>2. \A i : i \in Starts(s) => i \in 1..n
    BY Zenon DEF Starts, n
  <2>3. j - 1 \in Starts(s) <=> j > 1 /\ start[j - 1]
    <3>1. j > 1 <=> j - 1 \in 1..n
      BY <1>0
    <3> HIDE DEF start
    <3> QED
      BY <2>1, <2>2, <3>1, Zenon
  <2>4. j - 2 \in Starts(s) <=> j > 2 /\ start[j - 2]
    <3>1. j > 2 <=> j - 2 \in 1..n
      BY <1>0
    <3> HIDE DEF start
    <3> QED
      BY <2>1, <2>2, <3>1, Zenon
  <2>5. j - 3 \in Starts(s) <=> j > 3 /\ start[j - 3]
    <3>1. j > 3 <=> j - 3 \in 1..n
      BY <1>0
    <3> HIDE DEF start
    <3> QED
      BY <2>1, <2>2, <3>1, Zenon
  <2>6. Body(start, j) <=> Follows(s, Starts(s), j)
    <3>1. j = 1 \/ j > 1
      BY <1>0
    <3> HIDE DEF start
    <3> QED
      BY <2>3, <2>4, <2>5, <3>1, Zenon DEF Follows
  <2>7. start[j] = Body(start, j)
    BY <1>5, Zenon
  <2> HIDE DEF start, Body
  <2> QED
    BY <2>1, <2>6, <2>7, Zenon
<1> QED
  BY <1>5, <1>6, Zenon DEF n

\* A byte that an ESC takes with it starts no token.
LEMMA NoOverlap ==
    ASSUME NEW s \in Streams, NEW j \in Starts(s), j <= Len(s), s[j] = "esc"
    PROVE  /\ j + 1 \notin Starts(s)
           /\ j + 1 <= Len(s) /\ s[j + 1] = "[" => j + 2 \notin Starts(s)
<1> DEFINE Overlap(i) ==
        /\ i \in Starts(s) /\ i <= Len(s) /\ s[i] = "esc"
        /\ i + 1 \in Starts(s) \/ (i + 1 <= Len(s) /\ s[i + 1] = "[" /\ i + 2 \in Starts(s))
<1> DEFINE T == {i \in 1..Len(s) : Overlap(i)}
<1>0. Len(s) \in Nat /\ \A i \in Starts(s) : i \in 1..(Len(s) + 1)
  BY DEF Streams, Starts
<1>1. SUFFICES T = {}
  <2>1. j \in 1..Len(s)
    BY <1>0
  <2> QED
    BY <1>1, <2>1
<1>2. SUFFICES ASSUME T # {} PROVE FALSE
  OBVIOUS
<1>3. PICK k \in T : \A m \in T : k <= m
  <2>1. T \subseteq Nat
    OBVIOUS
  <2> HIDE DEF T
  <2> QED
    BY <1>2, <2>1, LeastNat
<1>4. k \in 1..Len(s) /\ Overlap(k)
  BY <1>3
<1>5. \A i \in 1..Len(s) : i < k => ~Overlap(i)
  BY <1>3, <1>4
<1>6. k + 1 \notin Starts(s)
  <2>1. SUFFICES ASSUME k + 1 \in Starts(s) PROVE FALSE
    OBVIOUS
  <2>2. Follows(s, Starts(s), k + 1)
    BY <2>1, <1>0, StartFacts
  <2>3. \/ k - 1 \in Starts(s) /\ s[k - 1] = "esc" /\ s[k] # "["
        \/ k - 2 \in Starts(s) /\ s[k - 2] = "esc" /\ s[k - 1] = "["
    BY <2>2, <1>0, <1>4 DEF Follows
  <2>4. CASE k - 1 \in Starts(s) /\ s[k - 1] = "esc"
    <3>1. k - 1 \in 1..Len(s) /\ k - 1 < k /\ (k - 1) + 1 = k
      BY <2>4, <1>0, <1>4
    <3>2. Overlap(k - 1)
      BY <3>1, <2>4, <1>4
    <3> QED
      BY <3>1, <3>2, <1>5
  <2>5. CASE k - 2 \in Starts(s) /\ s[k - 2] = "esc" /\ s[k - 1] = "["
    <3>1. k - 2 \in 1..Len(s) /\ k - 2 < k /\ (k - 2) + 1 = k - 1 /\ (k - 2) + 2 = k
      BY <2>5, <1>0, <1>4
    <3>2. Overlap(k - 2)
      BY <3>1, <2>5, <1>4
    <3> QED
      BY <3>1, <3>2, <1>5
  <2> QED
    BY <2>3, <2>4, <2>5
<1>7. k + 1 <= Len(s) /\ s[k + 1] = "[" /\ k + 2 \in Starts(s)
  BY <1>4, <1>6
<1>8. Follows(s, Starts(s), k + 2)
  BY <1>7, <1>0, StartFacts
<1>9. k - 1 \in Starts(s) /\ s[k - 1] = "esc" /\ s[k] = "["
  BY <1>8, <1>7, <1>6, <1>4 DEF Follows
<1> QED
  BY <1>9, <1>4

\* What follows a stream does not change where its tokens start.
LEMMA PrefixStarts ==
    ASSUME NEW s \in Streams, NEW ch \in ByteClasses, NEW j \in 1..(Len(s) + 1)
    PROVE  j \in Starts(Append(s, ch)) <=> j \in Starts(s)
<1> DEFINE t == Append(s, ch)
<1>0. /\ t \in Streams /\ Len(s) \in Nat /\ Len(t) = Len(s) + 1
      /\ \A i \in 1..Len(s) : t[i] = s[i]
  BY DEF Streams
<1> HIDE DEF t
<1> DEFINE T == {i \in 1..(Len(s) + 1) : ~(i \in Starts(t) <=> i \in Starts(s))}
<1>1. SUFFICES T = {}
  BY <1>1 DEF t
<1>2. SUFFICES ASSUME T # {} PROVE FALSE
  OBVIOUS
<1>3. PICK k \in T : \A m \in T : k <= m
  <2>1. T \subseteq Nat
    OBVIOUS
  <2> HIDE DEF T
  <2> QED
    BY <1>2, <2>1, LeastNat
<1>4. k \in 1..(Len(s) + 1) /\ ~(k \in Starts(t) <=> k \in Starts(s))
  BY <1>3
<1>5. \A i \in Int : i < k => (i \in Starts(t) <=> i \in Starts(s))
  <2>1. ASSUME NEW i \in Int, i < k PROVE i \in Starts(t) <=> i \in Starts(s)
    <3>1. CASE i < 1
      BY <3>1 DEF Starts
    <3>2. CASE i >= 1
      <4>1. i \in 1..(Len(s) + 1) /\ i \notin T
        BY <3>2, <2>1, <1>3, <1>4, <1>0
      <4> QED
        BY <4>1
    <3> QED
      BY <3>1, <3>2
  <2> QED
    BY <2>1
<1>6. k \in Starts(s) <=> Follows(s, Starts(s), k)
  BY <1>4, StartFacts
<1>7. k \in Starts(t) <=> Follows(t, Starts(t), k)
  <2>1. k \in 1..(Len(t) + 1)
    BY <1>0, <1>4
  <2> QED
    BY <2>1, <1>0, StartFacts
<1>8. /\ k - 1 \in Starts(t) <=> k - 1 \in Starts(s)
      /\ k - 2 \in Starts(t) <=> k - 2 \in Starts(s)
      /\ k - 3 \in Starts(t) <=> k - 3 \in Starts(s)
  <2>1. k - 1 \in Int /\ k - 2 \in Int /\ k - 3 \in Int /\ k - 1 < k /\ k - 2 < k /\ k - 3 < k
    BY <1>4
  <2> QED
    BY <1>5, <2>1
<1>9. /\ k - 1 \in Starts(s) => t[k - 1] = s[k - 1]
      /\ k - 2 \in Starts(s) => t[k - 2] = s[k - 2] /\ t[k - 1] = s[k - 1]
      /\ k - 3 \in Starts(s) => t[k - 3] = s[k - 3] /\ t[k - 2] = s[k - 2]
  BY <1>0, <1>4 DEF Starts
<1>10. Follows(s, Starts(s), k) <=> Follows(t, Starts(t), k)
  BY <1>8, <1>9 DEF Follows
<1> QED
  BY <1>4, <1>6, <1>7, <1>10

LEMMA TokenFacts ==
    ASSUME NEW s \in Streams, NEW e \in 1..Len(s), NEW length \in 1..3
    PROVE  EndsToken(s, e, length) <=>
               /\ e >= length
               /\ e + 1 \in Starts(s) /\ e + 1 - length \in Starts(s)
               /\ \A j \in (e + 2 - length)..e : j \notin Starts(s)
<1>0. Len(s) \in Nat
  BY DEF Streams
<1>1. ASSUME NEW j \in 1..(Len(s) + 1) PROVE StartsToken(s)[j] <=> j \in Starts(s)
  BY <1>1, Zenon DEF Starts
<1>2. e + 1 \in 1..(Len(s) + 1)
  BY <1>0
<1>3. ASSUME e >= length
      PROVE  e + 1 - length \in 1..(Len(s) + 1) /\ (e + 2 - length)..e \subseteq 1..(Len(s) + 1)
  BY <1>0, <1>3
<1> QED
  BY <1>1, <1>2, <1>3, Zenon DEF EndsToken

LEMMA PrefixTokens ==
    ASSUME NEW s \in Streams, NEW ch \in ByteClasses, NEW e \in 1..Len(s), NEW length \in 1..3
    PROVE  EndsToken(Append(s, ch), e, length) <=> EndsToken(s, e, length)
<1> DEFINE t == Append(s, ch)
<1>0. t \in Streams /\ Len(s) \in Nat /\ Len(t) = Len(s) + 1
  BY DEF Streams
<1>1. \A j \in 1..(Len(s) + 1) : j \in Starts(t) <=> j \in Starts(s)
  BY PrefixStarts
<1> HIDE DEF t
<1>2. e \in 1..Len(t) /\ e + 1 \in 1..(Len(s) + 1)
  BY <1>0
<1>3. e >= length => e + 1 - length \in 1..(Len(s) + 1) /\ (e + 2 - length)..e \subseteq 1..(Len(s) + 1)
  BY <1>0
<1>4. EndsToken(t, e, length) <=>
               /\ e >= length
               /\ e + 1 \in Starts(t) /\ e + 1 - length \in Starts(t)
               /\ \A j \in (e + 2 - length)..e : j \notin Starts(t)
  BY <1>0, <1>2, TokenFacts
<1>5. EndsToken(s, e, length) <=>
               /\ e >= length
               /\ e + 1 \in Starts(s) /\ e + 1 - length \in Starts(s)
               /\ \A j \in (e + 2 - length)..e : j \notin Starts(s)
  BY TokenFacts
<1>6. EndsToken(t, e, length) <=> EndsToken(s, e, length)
  BY <1>1, <1>2, <1>3, <1>4, <1>5, Zenon
<1> QED
  BY <1>6 DEF t

\* Where the parser stands after a stream: at the start of a token, after its ESC, or
\* after its ESC [.
Standing(s, state) ==
    LET n == Len(s)
    IN  CASE state = "Normal"         -> n + 1 \in Starts(s)
          [] state = "ExpectBracket"  ->
                /\ n \in Starts(s) /\ s[n] = "esc"
                /\ n + 1 \notin Starts(s)
          [] state = "ExpectSequence" ->
                /\ n - 1 \in Starts(s) /\ s[n - 1] = "esc" /\ s[n] = "["
                /\ n \notin Starts(s) /\ n + 1 \notin Starts(s)
          [] OTHER                    -> FALSE

\* The state after one more byte.
After(state, ch) ==
    CASE state = "Normal" /\ ch = "esc"      -> "ExpectBracket"
      [] state = "ExpectBracket" /\ ch = "[" -> "ExpectSequence"
      [] OTHER                               -> "Normal"
\* The length of the token that one more byte completes, or 0.
Completed(state, ch) ==
    CASE state = "Normal" /\ ch # "esc"      -> 1
      [] state = "ExpectBracket" /\ ch # "[" -> 2
      [] state = "ExpectSequence"            -> 3
      [] OTHER                               -> 0

LEMMA OneMoreByte ==
    ASSUME NEW s \in Streams, NEW ch \in ByteClasses,
           NEW state \in {"Normal", "ExpectBracket", "ExpectSequence"}, Standing(s, state)
    PROVE  /\ Standing(Append(s, ch), After(state, ch))
           /\ \A length \in 1..3 :
                 EndsToken(Append(s, ch), Len(s) + 1, length) <=> length = Completed(state, ch)
<1> DEFINE t == Append(s, ch)
<1> DEFINE n == Len(s)
<1>0. /\ t \in Streams /\ n \in Nat /\ Len(t) = n + 1
      /\ \A i \in 1..n : t[i] = s[i]
      /\ t[n + 1] = ch
  BY DEF Streams
<1>1. \A j \in 1..(n + 1) : j \in Starts(t) <=> j \in Starts(s)
  BY PrefixStarts
<1> HIDE DEF t
<1>2. \A i \in Starts(s) : i \in 1..(n + 1)
  BY DEF Starts
<1>3. \A i \in Int : i <= n + 1 => (i \in Starts(t) <=> i \in Starts(s))
  <2>1. \A i \in Starts(t) : i >= 1
    BY DEF Starts
  <2> QED
    BY <1>1, <1>2, <2>1, <1>0
<1>4. n + 2 \in Starts(t) <=>
          \/ n + 1 \in Starts(s) /\ ch # "esc"
          \/ n \in Starts(s) /\ s[n] = "esc" /\ ch # "["
          \/ n - 1 \in Starts(s) /\ s[n - 1] = "esc" /\ s[n] = "["
  <2>1. n + 2 \in Starts(t) <=> Follows(t, Starts(t), n + 2)
    <3>1. n + 2 \in 1..(Len(t) + 1)
      BY <1>0
    <3> QED
      BY <3>1, <1>0, StartFacts
  <2>2. Follows(t, Starts(t), n + 2) <=>
            \/ n + 1 \in Starts(t) /\ t[n + 1] # "esc"
            \/ n \in Starts(t) /\ t[n] = "esc" /\ t[n + 1] # "["
            \/ n - 1 \in Starts(t) /\ t[n - 1] = "esc" /\ t[n] = "["
    BY <1>0 DEF Follows
  <2>3. /\ n + 1 \in Starts(t) <=> n + 1 \in Starts(s)
        /\ n \in Starts(t) <=> n \in Starts(s)
        /\ n - 1 \in Starts(t) <=> n - 1 \in Starts(s)
    BY <1>3, <1>0
  <2>4. /\ n \in Starts(s) => t[n] = s[n]
        /\ n - 1 \in Starts(s) => t[n - 1] = s[n - 1] /\ t[n] = s[n]
    BY <1>0, <1>2
  <2> QED
    BY <2>1, <2>2, <2>3, <2>4, <1>0
<1>5. ASSUME NEW length \in 1..3
      PROVE  EndsToken(t, n + 1, length) <=>
                 /\ n + 1 >= length
                 /\ n + 2 \in Starts(t) /\ n + 2 - length \in Starts(t)
                 /\ \A j \in (n + 3 - length)..(n + 1) : j \notin Starts(t)
  <2>1. n + 1 \in 1..Len(t) /\ (n + 1) + 1 = n + 2 /\ (n + 1) + 2 = n + 3
    BY <1>0
  <2> QED
    BY <2>1, <1>0, TokenFacts
<1>6. /\ EndsToken(t, n + 1, 1) <=> n + 2 \in Starts(t) /\ n + 1 \in Starts(s)
      /\ EndsToken(t, n + 1, 2) <=> n + 2 \in Starts(t) /\ n \in Starts(s) /\ n + 1 \notin Starts(s)
      /\ EndsToken(t, n + 1, 3) <=>
             n + 2 \in Starts(t) /\ n - 1 \in Starts(s) /\ n \notin Starts(s) /\ n + 1 \notin Starts(s)
  <2>1. 1 \in 1..3 /\ 2 \in 1..3 /\ 3 \in 1..3
    OBVIOUS
  <2>2. /\ n + 1 \in Starts(t) <=> n + 1 \in Starts(s)
        /\ n \in Starts(t) <=> n \in Starts(s)
        /\ n - 1 \in Starts(t) <=> n - 1 \in Starts(s)
    BY <1>3, <1>0
  <2>3. EndsToken(t, n + 1, 1) <=> n + 2 \in Starts(t) /\ n + 1 \in Starts(s)
    BY <1>5, <2>1, <2>2, <1>0
  <2>4. EndsToken(t, n + 1, 2) <=> n + 2 \in Starts(t) /\ n \in Starts(s) /\ n + 1 \notin Starts(s)
    <3>1. n \in Starts(s) => n + 1 >= 2
      BY <1>2, <1>0
    <3>2. (\A j \in (n + 1)..(n + 1) : j \notin Starts(t)) <=> n + 1 \notin Starts(t)
      BY <1>0
    <3>3. n + 3 - 2 = n + 1 /\ n + 2 - 2 = n
      BY <1>0
    <3> QED
      BY <1>5, <2>1, <2>2, <3>1, <3>2, <3>3
  <2>5. EndsToken(t, n + 1, 3) <=>
             n + 2 \in Starts(t) /\ n - 1 \in Starts(s) /\ n \notin Starts(s) /\ n + 1 \notin Starts(s)
    <3>1. n - 1 \in Starts(s) => n + 1 >= 3
      BY <1>2, <1>0
    <3>2. (\A j \in n..(n + 1) : j \notin Starts(t)) <=> n \notin Starts(t) /\ n + 1 \notin Starts(t)
      BY <1>0
    <3>3. n + 3 - 3 = n /\ n + 2 - 3 = n - 1
      BY <1>0
    <3> QED
      BY <1>5, <2>1, <2>2, <3>1, <3>2, <3>3
  <2> QED
    BY <2>3, <2>4, <2>5
<1>7. \A i \in Starts(s) : i <= n /\ s[i] = "esc" =>
          i + 1 \notin Starts(s) /\ (i + 1 <= n /\ s[i + 1] = "[" => i + 2 \notin Starts(s))
  BY NoOverlap
<1>8. CASE state = "Normal"
  <2>1. n + 1 \in Starts(s)
    BY <1>8 DEF Standing
  <2>2. ~(n \in Starts(s) /\ s[n] = "esc") /\ ~(n - 1 \in Starts(s) /\ s[n - 1] = "esc" /\ s[n] = "[")
    <3>1. n <= n /\ (n - 1) + 1 = n /\ (n - 1) + 2 = n + 1 /\ n - 1 <= n
      BY <1>0
    <3>2. ~(n \in Starts(s) /\ s[n] = "esc")
      BY <1>7, <2>1, <3>1
    <3>3. ~(n - 1 \in Starts(s) /\ s[n - 1] = "esc" /\ s[n] = "[")
      <4> DEFINE m == n - 1
      <4>1. m + 1 = n /\ m + 2 = n + 1 /\ m <= n /\ m + 1 <= n
        BY <3>1, <1>0
      <4>2. ~(m \in Starts(s) /\ s[m] = "esc" /\ s[n] = "[")
        <5> HIDE DEF m
        <5> QED
          BY <4>1, <1>7, <2>1
      <4> QED
        BY <4>2
    <3> QED
      BY <3>2, <3>3
  <2>3. n + 2 \in Starts(t) <=> ch # "esc"
    BY <1>4, <2>1, <2>2
  <2>4. n + 1 \in Starts(t)
    BY <1>3, <2>1, <1>0
  <2>5. Standing(t, After(state, ch))
    <3>1. CASE ch = "esc"
      <4>1. After(state, ch) = "ExpectBracket"
        BY <3>1, <1>8 DEF After
      <4>2. n + 1 \in Starts(t) /\ t[n + 1] = "esc" /\ n + 2 \notin Starts(t) /\ Len(t) = n + 1
        BY <3>1, <2>3, <2>4, <1>0
      <4>3. (n + 1) + 1 = n + 2
        BY <1>0
      <4> QED
        BY <4>1, <4>2, <4>3 DEF Standing
    <3>2. CASE ch # "esc"
      <4>1. After(state, ch) = "Normal"
        BY <3>2, <1>8 DEF After
      <4>2. n + 2 \in Starts(t) /\ Len(t) = n + 1 /\ (n + 1) + 1 = n + 2
        BY <3>2, <2>3, <1>0
      <4> QED
        BY <4>1, <4>2 DEF Standing
    <3> QED
      BY <3>1, <3>2
  <2>6. Completed(state, ch) = IF ch # "esc" THEN 1 ELSE 0
    BY <1>8 DEF Completed
  <2>7. ASSUME NEW length \in 1..3
        PROVE  EndsToken(t, n + 1, length) <=> length = Completed(state, ch)
    <3>1. length = 1 \/ length = 2 \/ length = 3
      OBVIOUS
    <3> QED
      BY <3>1, <1>6, <2>1, <2>3, <2>6
  <2> QED
    BY <2>5, <2>7 DEF t
<1>9. CASE state = "ExpectBracket"
  <2>1. n \in Starts(s) /\ s[n] = "esc" /\ n + 1 \notin Starts(s)
    BY <1>9 DEF Standing
  <2>2. n + 2 \in Starts(t) <=> ch # "["
    BY <1>4, <2>1
  <2>3. n \in Starts(t) /\ n + 1 \notin Starts(t) /\ n \in 1..n
    BY <1>2, <1>3, <2>1, <1>0
  <2>4. Standing(t, After(state, ch))
    <3>1. CASE ch = "["
      <4>1. After(state, ch) = "ExpectSequence"
        BY <3>1, <1>9 DEF After
      <4>2. t[n] = "esc" /\ t[n + 1] = "[" /\ n + 2 \notin Starts(t)
        BY <3>1, <2>1, <2>2, <2>3, <1>0
      <4>3. (n + 1) + 1 = n + 2 /\ (n + 1) - 1 = n /\ Len(t) = n + 1
        BY <1>0
      <4> QED
        BY <4>1, <4>2, <4>3, <2>3 DEF Standing
    <3>2. CASE ch # "["
      <4>1. After(state, ch) = "Normal"
        BY <3>2, <1>9 DEF After
      <4>2. n + 2 \in Starts(t) /\ Len(t) = n + 1 /\ (n + 1) + 1 = n + 2
        BY <3>2, <2>2, <1>0
      <4> QED
        BY <4>1, <4>2 DEF Standing
    <3> QED
      BY <3>1, <3>2
  <2>5. Completed(state, ch) = IF ch # "[" THEN 2 ELSE 0
    BY <1>9 DEF Completed
  <2>6. ASSUME NEW length \in 1..3
        PROVE  EndsToken(t, n + 1, length) <=> length = Completed(state, ch)
    <3>1. length = 1 \/ length = 2 \/ length = 3
      OBVIOUS
    <3> QED
      BY <3>1, <1>6, <2>1, <2>2, <2>5
  <2> QED
    BY <2>4, <2>6 DEF t
<1>10. CASE state = "ExpectSequence"
  <2>1. n - 1 \in Starts(s) /\ s[n - 1] = "esc" /\ s[n] = "[" /\ n \notin Starts(s) /\ n + 1 \notin Starts(s)
    BY <1>10 DEF Standing
  <2>2. n + 2 \in Starts(t)
    BY <1>4, <2>1
  <2>3. Standing(t, After(state, ch))
    <3>1. After(state, ch) = "Normal"
      BY <1>10 DEF After
    <3>2. Len(t) = n + 1 /\ (n + 1) + 1 = n + 2
      BY <1>0
    <3> QED
      BY <3>1, <3>2, <2>2 DEF Standing
  <2>4. Completed(state, ch) = 3
    BY <1>10 DEF Completed
  <2>5. ASSUME NEW length \in 1..3
        PROVE  EndsToken(t, n + 1, length) <=> length = Completed(state, ch)
    <3>1. length = 1 \/ length = 2 \/ length = 3
      OBVIOUS
    <3> QED
      BY <3>1, <1>6, <2>1, <2>2, <2>4
  <2> QED
    BY <2>3, <2>5 DEF t
<1> QED
  BY <1>8, <1>9, <1>10

\* The keys of the tokens that end with byte e.
TokenKeys(s, e) ==
    (IF EndsToken(s, e, 1) THEN mapCharToKey(s[e]) ELSE {})
    \cup (IF EndsToken(s, e, 2) THEN {"Escape"} \cup mapCharToKey(s[e]) ELSE {})
    \cup (IF EndsToken(s, e, 3) THEN arrow(s[e]) ELSE {})

LEMMA DecodedByToken ==
    ASSUME NEW s
    PROVE  DecodedKeys(s) = UNION {TokenKeys(s, e) : e \in 1..Len(s)}
  BY Zenon DEF DecodedKeys, TokenKeys

LEMMA OneMoreKey ==
    ASSUME NEW s \in Streams, NEW ch \in ByteClasses
    PROVE  DecodedKeys(Append(s, ch)) = DecodedKeys(s) \cup TokenKeys(Append(s, ch), Len(s) + 1)
<1> DEFINE t == Append(s, ch)
<1> DEFINE n == Len(s)
<1>0. /\ n \in Nat /\ Len(t) = n + 1
      /\ \A i \in 1..n : t[i] = s[i]
  BY DEF Streams
<1>1. \A e \in 1..n, length \in 1..3 : EndsToken(t, e, length) <=> EndsToken(s, e, length)
  BY PrefixTokens
<1> HIDE DEF t
<1>2. ASSUME NEW e \in 1..n PROVE TokenKeys(t, e) = TokenKeys(s, e)
  <2>1. 1 \in 1..3 /\ 2 \in 1..3 /\ 3 \in 1..3
    OBVIOUS
  <2>2. t[e] = s[e]
    BY <1>0
  <2>3. /\ EndsToken(t, e, 1) <=> EndsToken(s, e, 1)
        /\ EndsToken(t, e, 2) <=> EndsToken(s, e, 2)
        /\ EndsToken(t, e, 3) <=> EndsToken(s, e, 3)
    BY <1>1, <2>1
  <2> QED
    BY <2>2, <2>3, Zenon DEF TokenKeys
<1> DEFINE m == n + 1
<1>3. \A k : k \in DecodedKeys(s) <=> \E e \in 1..n : k \in TokenKeys(s, e)
  BY DecodedByToken, Zenon
<1>4. \A k : k \in DecodedKeys(t) <=> \E e \in 1..m : k \in TokenKeys(t, e)
  BY DecodedByToken, <1>0, Zenon
<1>5. \A e : e \in 1..m <=> e \in 1..n \/ e = m
  BY <1>0
<1> HIDE DEF m, n
<1>6. DecodedKeys(t) = DecodedKeys(s) \cup TokenKeys(t, m)
  BY <1>2, <1>3, <1>4, <1>5, Zenon
<1> QED
  BY <1>6 DEF t, m, n

-----------------------------------------------------------------------------
(* The characters typed in a stream.                                       *)

TypedStep(s, lengths, line, e) == IF CharacterAt(s, e, lengths) THEN Append(line, s[e]) ELSE line
TypedLines(s, lengths, f) ==
    /\ f \in [0..Len(s) -> Seq(Characters)]
    /\ f[0] = <<>>
    /\ \A e \in 1..Len(s) : f[e] = TypedStep(s, lengths, f[e - 1], e)

LEMMA TypedExists ==
    ASSUME NEW s \in Streams, NEW lengths
    PROVE  \E f : TypedLines(s, lengths, f) /\ Typed(s, lengths) = f[Len(s)]
<1> DEFINE n == Len(s)
<1> DEFINE V == Seq(Characters)
<1> DEFINE step == [p \in V \X (1..n) |-> TypedStep(s, lengths, p[1], p[2])]
<1>1. n \in Nat /\ <<>> \in V
  BY DEF Streams
<1>2. ASSUME NEW line \in V, NEW e \in 1..n PROVE TypedStep(s, lengths, line, e) \in V
  <2>1. CASE CharacterAt(s, e, lengths)
    BY <2>1 DEF TypedStep, CharacterAt
  <2>2. CASE ~CharacterAt(s, e, lengths)
    BY <2>2 DEF TypedStep
  <2> QED
    BY <2>1, <2>2
<1>3. step \in [V \X (1..n) -> V]
  BY <1>2
<1>4. ASSUME NEW line \in V, NEW e \in 1..n PROVE step[<<line, e>>] = TypedStep(s, lengths, line, e)
  OBVIOUS
<1>5. PICK f : Runs(f, n, V, <<>>, step)
  <2> HIDE DEF step, n, V
  <2> QED
    BY <1>1, <1>3, Recursion
<1>6. f \in [0..n -> V] /\ f[0] = <<>>
  BY <1>5 DEF Runs
<1>7. ASSUME NEW e \in 1..n PROVE f[e] = TypedStep(s, lengths, f[e - 1], e)
  <2>1. f[e - 1] \in V
    BY <1>6
  <2>2. f[e] = step[<<f[e - 1], e>>]
    BY <1>5 DEF Runs
  <2> HIDE DEF step
  <2> QED
    BY <2>1, <2>2, <1>4
<1> DEFINE Body(g, e) ==
        IF e = 0 THEN <<>>
        ELSE IF CharacterAt(s, e, lengths) THEN Append(g[e - 1], s[e]) ELSE g[e - 1]
<1>8. f = [e \in 0..n |-> Body(f, e)]
  <2> DEFINE g == [e \in 0..n |-> Body(f, e)]
  <2>1. ASSUME NEW e \in 0..n PROVE f[e] = g[e]
    <3>1. CASE e = 0
      BY <3>1, <1>6
    <3>2. CASE e # 0
      BY <3>2, <1>7 DEF TypedStep
    <3> QED
      BY <3>1, <3>2
  <2>2. g = [e \in 0..n |-> g[e]] /\ f = [e \in 0..n |-> f[e]]
    BY <1>6
  <2> HIDE DEF g
  <2> QED
    BY <2>1, <2>2
<1> DEFINE typed == CHOOSE g : g = [e \in 0..n |-> Body(g, e)]
<1>9. typed = [e \in 0..n |-> Body(typed, e)]
  BY <1>8, Zenon
<1>10. Typed(s, lengths) = typed[n]
  BY Zenon DEF Typed
<1> HIDE DEF typed
<1>11. DOMAIN typed = 0..n /\ \A e \in 0..n : typed[e] = Body(typed, e)
  <2> DEFINE g == [e \in 0..n |-> Body(typed, e)]
  <2>1. DOMAIN g = 0..n /\ \A e \in 0..n : g[e] = Body(typed, e)
    OBVIOUS
  <2>2. typed = g
    BY <1>9
  <2> HIDE DEF g
  <2> QED
    BY <2>1, <2>2, Zenon
<1>12. typed[0] = <<>> /\ \A e \in 1..n : typed[e] = TypedStep(s, lengths, typed[e - 1], e)
  <2>1. 0 \in 0..n /\ \A e \in 1..n : e \in 0..n /\ e # 0
    BY <1>1
  <2> QED
    BY <2>1, <1>11, Zenon DEF TypedStep
<1>13. \A e \in 0..n : typed[e] \in V
  <2> DEFINE T == {e \in 0..n : typed[e] \notin V}
  <2>1. SUFFICES ASSUME T # {} PROVE FALSE
    OBVIOUS
  <2>2. PICK e \in T : \A k \in T : e <= k
    <3>1. T \subseteq Nat
      OBVIOUS
    <3> HIDE DEF T
    <3> QED
      BY <2>1, <3>1, LeastNat
  <2>3. e # 0
    BY <1>1, <1>12, <2>2
  <2>4. e \in 1..n /\ e - 1 \in 0..n /\ e - 1 \notin T
    BY <2>2, <2>3
  <2>5. typed[e - 1] \in V
    BY <2>4
  <2>6. typed[e] \in V
    BY <2>4, <2>5, <1>2, <1>12
  <2> QED
    BY <2>2, <2>6
<1>14. typed \in [0..n -> V]
  <2>1. typed = [e \in 0..n |-> typed[e]]
    <3> DEFINE g == [e \in 0..n |-> Body(typed, e)]
    <3>1. g = [e \in 0..n |-> g[e]]
      OBVIOUS
    <3>2. typed = g
      BY <1>9
    <3> HIDE DEF g
    <3> QED
      BY <3>1, <3>2
  <2> QED
    BY <2>1, <1>13
<1>15. TypedLines(s, lengths, typed)
  BY <1>12, <1>14 DEF TypedLines
<1> QED
  BY <1>10, <1>15

LEMMA OneMoreCharacter ==
    ASSUME NEW s \in Streams, NEW ch \in ByteClasses, NEW lengths, lengths \subseteq 1..3
    PROVE  /\ Typed(s, lengths) \in Seq(Characters)
           /\ Typed(Append(s, ch), lengths)
                  = TypedStep(Append(s, ch), lengths, Typed(s, lengths), Len(s) + 1)
<1> DEFINE t == Append(s, ch)
<1> DEFINE n == Len(s)
<1>0. /\ t \in Streams /\ n \in Nat /\ Len(t) = n + 1
      /\ \A i \in 1..n : t[i] = s[i]
  BY DEF Streams
<1>1. \A e \in 1..n, length \in 1..3 : EndsToken(t, e, length) <=> EndsToken(s, e, length)
  BY PrefixTokens
<1> HIDE DEF t
<1>2. PICK f : TypedLines(s, lengths, f) /\ Typed(s, lengths) = f[n]
  BY TypedExists
<1>3. PICK g : TypedLines(t, lengths, g) /\ Typed(t, lengths) = g[n + 1]
  BY <1>0, TypedExists
<1>4. f \in [0..n -> Seq(Characters)] /\ f[0] = <<>>
  BY <1>2 DEF TypedLines
<1>5. g[0] = <<>> /\ \A e \in 1..(n + 1) : g[e] = TypedStep(t, lengths, g[e - 1], e)
  BY <1>0, <1>3 DEF TypedLines
<1>6. ASSUME NEW e \in 1..n, NEW line PROVE TypedStep(t, lengths, line, e) = TypedStep(s, lengths, line, e)
  <2>1. t[e] = s[e]
    BY <1>0
  <2>2. \A l \in lengths : EndsToken(t, e, l) <=> EndsToken(s, e, l)
    BY <1>1
  <2>3. CharacterAt(t, e, lengths) <=> CharacterAt(s, e, lengths)
    BY <2>1, <2>2, Zenon DEF CharacterAt
  <2> QED
    BY <2>1, <2>3, Zenon DEF TypedStep
<1>7. \A e \in 0..n : g[e] = f[e]
  <2> DEFINE T == {e \in 0..n : g[e] # f[e]}
  <2>1. SUFFICES ASSUME T # {} PROVE FALSE
    OBVIOUS
  <2>2. PICK e \in T : \A k \in T : e <= k
    <3>1. T \subseteq Nat
      OBVIOUS
    <3> HIDE DEF T
    <3> QED
      BY <2>1, <3>1, LeastNat
  <2>3. e # 0
    BY <1>4, <1>5, <2>2
  <2>4. e \in 1..n /\ e - 1 \in 0..n /\ e - 1 \notin T /\ e \in 1..(n + 1)
    BY <2>2, <2>3, <1>0
  <2>5. g[e - 1] = f[e - 1]
    BY <2>4
  <2>6. g[e] = TypedStep(s, lengths, f[e - 1], e)
    BY <2>4, <2>5, <1>5, <1>6
  <2>7. f[e] = TypedStep(s, lengths, f[e - 1], e)
    BY <2>4, <1>2 DEF TypedLines
  <2> QED
    BY <2>2, <2>6, <2>7
<1>8. n \in 0..n /\ n + 1 \in 1..(n + 1) /\ (n + 1) - 1 = n
  BY <1>0
<1>9. g[n + 1] = TypedStep(t, lengths, g[n], n + 1)
  BY <1>5, <1>8
<1>10. Typed(t, lengths) = TypedStep(t, lengths, Typed(s, lengths), n + 1)
  BY <1>2, <1>3, <1>7, <1>8, <1>9
<1>11. Typed(s, lengths) \in Seq(Characters)
  BY <1>2, <1>4, <1>8
<1> QED
  BY <1>10, <1>11 DEF t

LEMMA OneMoreKept ==
    ASSUME NEW line \in Seq(Characters), NEW ch \in Characters
    PROVE  /\ Len(FirstOnes(line)) < MAX_INPUT_BYTES <=> Len(line) < MAX_INPUT_BYTES
           /\ Len(line) < MAX_INPUT_BYTES =>
                  FirstOnes(Append(line, ch)) = Append(FirstOnes(line), ch)
           /\ Len(line) >= MAX_INPUT_BYTES => FirstOnes(Append(line, ch)) = FirstOnes(line)
<1> DEFINE M == MAX_INPUT_BYTES
<1> DEFINE longer == Append(line, ch)
<1>0. /\ M \in Nat /\ Len(line) \in Nat
      /\ longer \in Seq(Characters) /\ Len(longer) = Len(line) + 1
      /\ \A i \in 1..Len(line) : longer[i] = line[i] /\ line[i] \in Characters
  BY CapAssumption
<1>1. CASE Len(line) < M
  BY <1>0, <1>1 DEF FirstOnes
<1>2. CASE Len(line) >= M
  <2> HIDE DEF longer, M
  <2>1. /\ SubSeq(longer, 1, M) \in Seq(Characters) /\ Len(SubSeq(longer, 1, M)) = M
        /\ \A i \in 1..M : SubSeq(longer, 1, M)[i] = longer[i]
    <3>1. \A i \in 1..M : longer[i] \in Characters
      BY <1>0, <1>2
    <3>2. /\ SubSeq(longer, 1, M) \in Seq(Characters)
          /\ Len(SubSeq(longer, 1, M)) = IF 1 <= M THEN M - 1 + 1 ELSE 0
          /\ \A i \in 1..(M - 1 + 1) : SubSeq(longer, 1, M)[i] = longer[1 + i - 1]
      BY <1>0, <3>1, SubSeqProperties
    <3> QED
      BY <1>0, <3>2
  <2>2. /\ SubSeq(line, 1, M) \in Seq(Characters) /\ Len(SubSeq(line, 1, M)) = M
        /\ \A i \in 1..M : SubSeq(line, 1, M)[i] = line[i]
    <3>1. \A i \in 1..M : line[i] \in Characters
      BY <1>0, <1>2
    <3>2. /\ SubSeq(line, 1, M) \in Seq(Characters)
          /\ Len(SubSeq(line, 1, M)) = IF 1 <= M THEN M - 1 + 1 ELSE 0
          /\ \A i \in 1..(M - 1 + 1) : SubSeq(line, 1, M)[i] = line[1 + i - 1]
      BY <1>0, <3>1, SubSeqProperties
    <3> QED
      BY <1>0, <3>2
  <2>3. FirstOnes(longer) = SubSeq(longer, 1, M)
    BY <1>0, <1>2 DEF FirstOnes, M
  <2>4. FirstOnes(line) \in Seq(Characters) /\ Len(FirstOnes(line)) = M
           /\ \A i \in 1..M : FirstOnes(line)[i] = line[i]
    <3>1. CASE Len(line) = M
      <4>1. FirstOnes(line) = line
        BY <3>1, <1>0 DEF FirstOnes, M
      <4> QED
        BY <4>1, <3>1
    <3>2. CASE Len(line) # M
      <4>1. FirstOnes(line) = SubSeq(line, 1, M)
        BY <3>2, <1>0, <1>2 DEF FirstOnes, M
      <4> QED
        BY <4>1, <2>2
    <3> QED
      BY <3>1, <3>2
  <2>5. \A i \in 1..M : FirstOnes(longer)[i] = FirstOnes(line)[i]
    <3>1. \A i \in 1..M : longer[i] = line[i]
      BY <1>0, <1>2
    <3>2. \A i \in 1..M : FirstOnes(longer)[i] = longer[i]
      BY <2>1, <2>3
    <3> QED
      BY <3>1, <3>2, <2>4
  <2> DEFINE a == FirstOnes(longer)
  <2> DEFINE b == FirstOnes(line)
  <2>6. a \in Seq(Characters) /\ b \in Seq(Characters) /\ Len(a) = Len(b) /\ \A i \in 1..Len(a) : a[i] = b[i]
    BY <2>1, <2>3, <2>4, <2>5
  <2>7. a = b
    <3> HIDE DEF a, b
    <3> QED
      BY <2>6, SeqEqual
  <2> QED
    BY <1>0, <1>2, <2>4, <2>7 DEF longer, M
<1> QED
  BY <1>0, <1>1, <1>2

\* What is left of a stream that is cut inside a token.
UnfinishedLength(state) ==
    CASE state = "Normal" -> 0 [] state = "ExpectBracket" -> 1 [] OTHER -> 2

LEMMA Cut ==
    ASSUME NEW s \in Streams,
           NEW state \in {"Normal", "ExpectBracket", "ExpectSequence"}, Standing(s, state)
    PROVE  /\ Unfinished(s) \in Streams
           /\ Len(Unfinished(s)) = UnfinishedLength(state)
           /\ Len(Unfinished(s)) >= 1 => Unfinished(s)[1] = "esc"
           /\ Len(Unfinished(s)) >= 2 => Unfinished(s)[2] = "["
<1> DEFINE n == Len(s)
<1> DEFINE length == UnfinishedLength(state)
<1> DEFINE p == n + 1 - length
<1> DEFINE r == SubSeq(s, p, n)
<1>0. n \in Nat /\ \A i \in 1..n : s[i] \in ByteClasses
  BY DEF Streams
<1>1. length \in 0..2
  BY DEF UnfinishedLength
<1>2. p \in Starts(s) /\ \A j \in Starts(s) : j <= p
  <2>1. \A j \in Starts(s) : j \in 1..(n + 1)
    BY DEF Starts
  <2>2. CASE state = "Normal"
    <3>1. n + 1 \in Starts(s) /\ p = n + 1
      BY <2>2, <1>0 DEF Standing, UnfinishedLength
    <3> QED
      BY <3>1, <2>1, <1>0
  <2>3. CASE state = "ExpectBracket"
    <3>1. n \in Starts(s) /\ n + 1 \notin Starts(s) /\ p = n
      BY <2>3, <1>0 DEF Standing, UnfinishedLength
    <3> QED
      BY <3>1, <2>1, <1>0
  <2>4. CASE state = "ExpectSequence"
    <3>1. n - 1 \in Starts(s) /\ n \notin Starts(s) /\ n + 1 \notin Starts(s) /\ p = n - 1
      BY <2>4, <1>0 DEF Standing, UnfinishedLength
    <3> QED
      BY <3>1, <2>1, <1>0
  <2> QED
    BY <2>2, <2>3, <2>4
<1>3. p \in 1..(n + 1)
  BY <1>2 DEF Starts
<1>4. /\ length >= 1 => s[p] = "esc"
      /\ length >= 2 => s[p + 1] = "["
  <2>1. CASE state = "Normal"
    BY <2>1 DEF UnfinishedLength
  <2>2. CASE state = "ExpectBracket"
    <3>1. length = 1 /\ p = n /\ s[n] = "esc"
      BY <2>2, <1>0 DEF Standing, UnfinishedLength
    <3> QED
      BY <3>1
  <2>3. CASE state = "ExpectSequence"
    <3>1. length = 2 /\ p = n - 1 /\ p + 1 = n /\ s[n - 1] = "esc" /\ s[n] = "["
      BY <2>3, <1>0 DEF Standing, UnfinishedLength
    <3> QED
      BY <3>1
  <2> QED
    BY <2>1, <2>2, <2>3
<1>5. Unfinished(s) = r
  <2>1. {j \in DOMAIN StartsToken(s) : StartsToken(s)[j]} = Starts(s)
    BY StartFacts, Zenon DEF Starts
  <2>2. Max1(Starts(s)) = p
    <3>1. Max1(Starts(s)) \in Starts(s) /\ \A j \in Starts(s) : j <= Max1(Starts(s))
      BY <1>2, Zenon DEF Max1
    <3>2. Max1(Starts(s)) <= p /\ p <= Max1(Starts(s))
      BY <1>2, <3>1
    <3>3. Max1(Starts(s)) \in Int
      BY <3>1 DEF Starts
    <3> QED
      BY <3>2, <3>3, <1>3
  <2> QED
    BY <2>1, <2>2, Zenon DEF Unfinished
<1>6. /\ r \in Streams /\ Len(r) = length
      /\ \A i \in 1..length : r[i] = s[p + i - 1]
  <2> HIDE DEF n, p, length
  <2>1. p \in Int /\ n \in Int /\ \A i \in p..n : s[i] \in ByteClasses
    BY <1>0, <1>3
  <2>2. /\ r \in Seq(ByteClasses)
        /\ Len(r) = IF p <= n THEN n - p + 1 ELSE 0
        /\ \A i \in 1..(n - p + 1) : r[i] = s[p + i - 1]
    BY <2>1, SubSeqProperties
  <2>3. length = n - p + 1 /\ length = IF p <= n THEN n - p + 1 ELSE 0
    <3>1. p = n + 1 - length
      BY DEF p
    <3> QED
      BY <3>1, <1>0, <1>1
  <2> QED
    BY <2>2, <2>3 DEF Streams
<1> HIDE DEF r, length, p, n
<1>7. length >= 1 => r[1] = "esc"
  <2>1. length >= 1 => 1 \in 1..length /\ p + 1 - 1 = p
    BY <1>1, <1>3
  <2> QED
    BY <2>1, <1>4, <1>6
<1>8. length >= 2 => r[2] = "["
  <2>1. length >= 2 => 2 \in 1..length /\ p + 2 - 1 = p + 1
    BY <1>1, <1>3
  <2> QED
    BY <2>1, <1>4, <1>6
<1>9. length = UnfinishedLength(state)
  BY DEF length
<1> QED
  BY <1>5, <1>6, <1>7, <1>8, <1>9

\* Nothing has been decoded yet of an unfinished token.
LEMMA NothingYet ==
    ASSUME NEW r \in Streams, NEW state \in {"Normal", "ExpectBracket", "ExpectSequence"},
           Len(r) = UnfinishedLength(state),
           Len(r) >= 1 => r[1] = "esc",
           Len(r) >= 2 => r[2] = "["
    PROVE  /\ Standing(r, state)
           /\ DecodedKeys(r) = {}
           /\ Typed(r, {1}) = <<>>
<1>1. Len(r) \in 0..2
  BY DEF UnfinishedLength
<1>2. \A j \in 1..(Len(r) + 1) : j \in Starts(r) <=> Follows(r, Starts(r), j)
  BY StartFacts
<1>3. \A j \in Starts(r) : j \in 1..(Len(r) + 1)
  BY DEF Starts
<1>4. 1 \in Starts(r)
  BY <1>1, <1>2 DEF Follows
<1>5. Len(r) >= 1 => 2 \notin Starts(r)
  <2>1. SUFFICES ASSUME Len(r) >= 1, 2 \in Starts(r) PROVE FALSE
    OBVIOUS
  <2>2. Follows(r, Starts(r), 2)
    BY <2>1, <1>2, <1>3
  <2>3. 0 \notin Starts(r) /\ -1 \notin Starts(r)
    BY <1>3
  <2> QED
    BY <2>1, <2>2, <2>3 DEF Follows
<1>6. Len(r) >= 2 => 3 \notin Starts(r)
  <2>1. SUFFICES ASSUME Len(r) >= 2, 3 \in Starts(r) PROVE FALSE
    OBVIOUS
  <2>2. Follows(r, Starts(r), 3)
    BY <2>1, <1>2, <1>3
  <2>3. 0 \notin Starts(r) /\ 2 \notin Starts(r)
    BY <2>1, <1>3, <1>5
  <2> QED
    BY <2>1, <2>2, <2>3 DEF Follows
<1>7. Standing(r, state)
  <2>1. CASE state = "Normal"
    BY <2>1, <1>4 DEF Standing, UnfinishedLength
  <2>2. CASE state = "ExpectBracket"
    <3>1. Len(r) = 1
      BY <2>2 DEF UnfinishedLength
    <3>2. Len(r) \in Starts(r) /\ r[Len(r)] = "esc" /\ Len(r) + 1 \notin Starts(r)
      <4>1. Len(r) + 1 = 2
        BY <3>1
      <4> QED
        BY <3>1, <4>1, <1>4, <1>5
    <3> QED
      BY <2>2, <3>2 DEF Standing
  <2>3. CASE state = "ExpectSequence"
    <3>1. Len(r) = 2
      BY <2>3 DEF UnfinishedLength
    <3>2. Len(r) - 1 = 1 /\ Len(r) + 1 = 3
      BY <3>1
    <3>3. /\ Len(r) - 1 \in Starts(r) /\ r[Len(r) - 1] = "esc" /\ r[Len(r)] = "["
          /\ Len(r) \notin Starts(r) /\ Len(r) + 1 \notin Starts(r)
      BY <3>1, <3>2, <1>4, <1>5, <1>6
    <3> QED
      BY <2>3, <3>3 DEF Standing
  <2> QED
    BY <2>1, <2>2, <2>3
<1>8. ASSUME NEW e \in 1..Len(r), NEW l \in 1..3 PROVE ~EndsToken(r, e, l)
  <2>1. e + 1 \notin Starts(r)
    BY <1>1, <1>5, <1>6
  <2> QED
    BY <2>1, TokenFacts
<1>9. DecodedKeys(r) = {}
  <2>1. \A e \in 1..Len(r) : TokenKeys(r, e) = {}
    <3>1. 1 \in 1..3 /\ 2 \in 1..3 /\ 3 \in 1..3
      OBVIOUS
    <3> QED
      BY <3>1, <1>8 DEF TokenKeys
  <2> QED
    BY <2>1, DecodedByToken, Zenon
<1>10. Typed(r, {1}) = <<>>
  <2>1. PICK f : TypedLines(r, {1}, f) /\ Typed(r, {1}) = f[Len(r)]
    BY TypedExists
  <2>2. \A e \in 1..Len(r) : f[e] = f[e - 1]
    <3>1. 1 \in 1..3
      OBVIOUS
    <3>2. \A e \in 1..Len(r) : ~CharacterAt(r, e, {1})
      BY <3>1, <1>8 DEF CharacterAt
    <3> QED
      BY <2>1, <3>2 DEF TypedLines, TypedStep
  <2>3. f[0] = <<>>
    BY <2>1 DEF TypedLines
  <2>4. Len(r) = 0 \/ Len(r) = 1 \/ Len(r) = 2
    BY <1>1
  <2> QED
    BY <2>1, <2>2, <2>3, <2>4
<1> QED
  BY <1>7, <1>9, <1>10

-----------------------------------------------------------------------------
(* The device, by the stream of the frame: the parser stands where the     *)
(* stream leaves it, and keys and characters are those of its tokens.      *)

StreamTyped == carry \in Streams /\ frame \in Streams
DeviceFollows ==
    /\ parseState \in {"Normal", "ExpectBracket", "ExpectSequence"}
    /\ Standing(Stream, parseState)
    /\ keyStates = DecodedKeys(Stream)
    /\ inputBuffer = FirstOnes(Typed(Stream, {1}))
TokenInv == StreamTyped /\ DeviceFollows

LEMMA TokenInit == Init => TokenInv
<1> SUFFICES ASSUME Init PROVE TokenInv
  OBVIOUS
<1>1. carry = <<>> /\ frame = <<>> /\ parseState = "Normal" /\ keyStates = {} /\ inputBuffer = <<>>
  BY DEF Init, DeviceInit
<1>2. <<>> \in Streams /\ Len(<<>>) = 0 /\ <<>> \o <<>> = <<>>
  BY DEF Streams
<1>3. Standing(<<>>, "Normal") /\ DecodedKeys(<<>>) = {} /\ Typed(<<>>, {1}) = <<>>
  <2>1. UnfinishedLength("Normal") = 0
    BY DEF UnfinishedLength
  <2> QED
    BY <1>2, <2>1, NothingYet
<1>4. FirstOnes(<<>>) = <<>>
  BY <1>2, CapAssumption DEF FirstOnes
<1> QED
  BY <1>1, <1>2, <1>3, <1>4 DEF TokenInv, StreamTyped, DeviceFollows, Stream

LEMMA TokenReceive ==
    ASSUME TokenInv, NEW ch \in Bytes, Receive(ch)
    PROVE  TokenInv'
<1> DEFINE s == Stream
<1> DEFINE n == Len(s)
<1> DEFINE t == Append(s, ch)
<1>0. ch \in ByteClasses /\ carry \in Streams /\ frame \in Streams /\ s \in Streams
         /\ parseState \in {"Normal", "ExpectBracket", "ExpectSequence"} /\ Standing(s, parseState)
         /\ keyStates = DecodedKeys(s) /\ inputBuffer = FirstOnes(Typed(s, {1}))
  BY BytesAssumption DEF TokenInv, StreamTyped, DeviceFollows, Stream, Streams
<1>1. carry' \in Streams /\ frame' \in Streams /\ Stream' = t
  <2>1. carry' = carry /\ frame' = Append(frame, ch)
    BY DEF Receive
  <2>2. carry \o Append(frame, ch) = Append(carry \o frame, ch)
    BY <1>0 DEF Streams
  <2>3. Append(frame, ch) \in Streams
    BY <1>0 DEF Streams
  <2> QED
    BY <1>0, <2>1, <2>2, <2>3 DEF Stream
<1>2. /\ Standing(t, After(parseState, ch))
      /\ \A length \in 1..3 : EndsToken(t, n + 1, length) <=> length = Completed(parseState, ch)
  BY <1>0, OneMoreByte
<1>3. DecodedKeys(t) = DecodedKeys(s) \cup TokenKeys(t, n + 1)
  BY <1>0, OneMoreKey
<1>4. Typed(s, {1}) \in Seq(Characters)
         /\ Typed(t, {1}) = TypedStep(t, {1}, Typed(s, {1}), n + 1)
  <2>1. {1} \subseteq 1..3
    OBVIOUS
  <2> QED
    BY <1>0, <2>1, OneMoreCharacter
<1>5. t[n + 1] = ch
  BY <1>0 DEF Streams
<1> HIDE DEF s, n, t
<1> DEFINE done == Completed(parseState, ch)
<1>6. /\ EndsToken(t, n + 1, 1) <=> done = 1
      /\ EndsToken(t, n + 1, 2) <=> done = 2
      /\ EndsToken(t, n + 1, 3) <=> done = 3
  BY <1>2
<1>7. TokenKeys(t, n + 1) =
          (IF done = 1 THEN mapCharToKey(ch) ELSE {})
          \cup (IF done = 2 THEN {"Escape"} \cup mapCharToKey(ch) ELSE {})
          \cup (IF done = 3 THEN arrow(ch) ELSE {})
  <2> HIDE DEF done
  <2> QED
    BY <1>5, <1>6, Zenon DEF TokenKeys
<1>8. Typed(t, {1}) = IF done = 1 /\ ch \in Characters THEN Append(Typed(s, {1}), ch) ELSE Typed(s, {1})
  <2>1. CharacterAt(t, n + 1, {1}) <=> done = 1 /\ ch \in Characters
    <3> HIDE DEF done
    <3> QED
      BY <1>5, <1>6, Zenon DEF CharacterAt
  <2> HIDE DEF done
  <2> QED
    BY <1>4, <1>5, <2>1, Zenon DEF TypedStep
<1>9. pressKey(ch)
  BY DEF Receive
<1>10. parseState' = After(parseState, ch)
  BY <1>0, <1>9 DEF pressKey, PressNormal, PressAfterEscape, PressInSequence, After
<1>11. parseState' \in {"Normal", "ExpectBracket", "ExpectSequence"}
  BY <1>10 DEF After
<1>12. keyStates' = keyStates \cup TokenKeys(t, n + 1)
  <2>1. CASE parseState = "Normal"
    <3>1. keyStates' = IF ch = "esc" THEN keyStates ELSE keyStates \cup mapCharToKey(ch)
      BY <1>9, <2>1 DEF pressKey, PressNormal, PressAfterEscape, PressInSequence
    <3>2. done = IF ch = "esc" THEN 0 ELSE 1
      BY <2>1 DEF Completed
    <3> HIDE DEF done
    <3> QED
      BY <1>7, <3>1, <3>2
  <2>2. CASE parseState = "ExpectBracket"
    <3>1. keyStates' = IF ch = "[" THEN keyStates ELSE keyStates \cup {"Escape"} \cup mapCharToKey(ch)
      BY <1>9, <2>2 DEF pressKey, PressNormal, PressAfterEscape, PressInSequence
    <3>2. done = IF ch = "[" THEN 0 ELSE 2
      BY <2>2 DEF Completed
    <3> HIDE DEF done
    <3> QED
      BY <1>7, <3>1, <3>2
  <2>3. CASE parseState = "ExpectSequence"
    <3>1. keyStates' = keyStates \cup arrow(ch)
      BY <1>9, <2>3 DEF pressKey, PressNormal, PressAfterEscape, PressInSequence
    <3>2. done = 3
      BY <2>3 DEF Completed
    <3> HIDE DEF done
    <3> QED
      BY <1>7, <3>1, <3>2
  <2> QED
    BY <1>0, <2>1, <2>2, <2>3
<1>13. inputBuffer' = IF done = 1 /\ ch \in Characters /\ HasRoom THEN Append(inputBuffer, ch) ELSE inputBuffer
  <2>1. CASE parseState = "Normal" /\ ch # "esc"
    <3>1. done = 1
      BY <2>1 DEF Completed
    <3>2. Keep(ch)
      BY <1>9, <2>1 DEF pressKey, PressNormal, PressAfterEscape, PressInSequence
    <3> HIDE DEF done
    <3> QED
      BY <3>1, <3>2 DEF Keep
  <2>2. CASE ~(parseState = "Normal" /\ ch # "esc")
    <3>1. done # 1
      BY <2>2, <1>0 DEF Completed
    <3>2. inputBuffer' = inputBuffer
      BY <1>0, <1>9, <2>2 DEF pressKey, PressNormal, PressAfterEscape, PressInSequence
    <3> HIDE DEF done
    <3> QED
      BY <3>1, <3>2
  <2> QED
    BY <2>1, <2>2
<1> DEFINE line == Typed(s, {1})
<1>14. inputBuffer' = FirstOnes(Typed(t, {1}))
  <2> HIDE DEF done, line
  <2>0. line \in Seq(Characters) /\ inputBuffer = FirstOnes(line)
    BY <1>0, <1>4 DEF line, s
  <2>1. CASE done = 1 /\ ch \in Characters
    <3>1. /\ Len(FirstOnes(line)) < MAX_INPUT_BYTES <=> Len(line) < MAX_INPUT_BYTES
          /\ Len(line) < MAX_INPUT_BYTES =>
                 FirstOnes(Append(line, ch)) = Append(FirstOnes(line), ch)
          /\ Len(line) >= MAX_INPUT_BYTES => FirstOnes(Append(line, ch)) = FirstOnes(line)
      BY <2>0, <2>1, OneMoreKept
    <3>2. Len(line) < MAX_INPUT_BYTES \/ Len(line) >= MAX_INPUT_BYTES
      BY <2>0, CapAssumption
    <3>3. HasRoom <=> Len(line) < MAX_INPUT_BYTES
      BY <2>0, <3>1, Zenon DEF HasRoom
    <3>4. Typed(t, {1}) = Append(line, ch)
      BY <1>8, <2>1, Zenon DEF line
    <3> QED
      BY <1>13, <2>0, <2>1, <3>1, <3>2, <3>3, <3>4
  <2>2. CASE ~(done = 1 /\ ch \in Characters)
    BY <1>8, <1>13, <2>0, <2>2, Zenon DEF line
  <2> QED
    BY <2>1, <2>2
<1>15. Standing(Stream', parseState')
  BY <1>1, <1>2, <1>10
<1>16. keyStates' = DecodedKeys(Stream')
  BY <1>0, <1>1, <1>3, <1>12 DEF s
<1>17. inputBuffer' = FirstOnes(Typed(Stream', {1}))
  BY <1>1, <1>14
<1> QED
  BY <1>1, <1>11, <1>15, <1>16, <1>17 DEF TokenInv, StreamTyped, DeviceFollows

LEMMA TokenEndFrame ==
    ASSUME TokenInv, EndFrame
    PROVE  TokenInv'
<1> DEFINE r == Unfinished(Stream)
<1>0. Stream \in Streams /\ parseState \in {"Normal", "ExpectBracket", "ExpectSequence"}
         /\ Standing(Stream, parseState)
  BY DEF TokenInv, StreamTyped, DeviceFollows, Stream, Streams
<1>1. /\ r \in Streams /\ Len(r) = UnfinishedLength(parseState)
      /\ Len(r) >= 1 => r[1] = "esc"
      /\ Len(r) >= 2 => r[2] = "["
  BY <1>0, Cut
<1> HIDE DEF r
<1>2. Standing(r, parseState) /\ DecodedKeys(r) = {} /\ Typed(r, {1}) = <<>>
  BY <1>0, <1>1, NothingYet
<1>3. carry' = r /\ frame' = <<>> /\ parseState' = parseState /\ keyStates' = {} /\ inputBuffer' = <<>>
  BY DEF EndFrame, nextFrame, KeepParseState, r, Stream
<1>4. r \o <<>> = r /\ <<>> \in Streams
  BY <1>1 DEF Streams
<1>5. Stream' = r
  BY <1>3, <1>4 DEF Stream
<1>6. FirstOnes(<<>>) = <<>>
  BY CapAssumption DEF FirstOnes
<1> QED
  BY <1>0, <1>1, <1>2, <1>3, <1>4, <1>5, <1>6 DEF TokenInv, StreamTyped, DeviceFollows

LEMMA TokenStep == TokenInv /\ [Next]_vars => TokenInv'
<1> SUFFICES ASSUME TokenInv, [Next]_vars PROVE TokenInv'
  OBVIOUS
<1>1. ASSUME NEW ch \in Bytes, Receive(ch) PROVE TokenInv'
  BY <1>1, TokenReceive
<1>2. CASE EndFrame
  BY <1>2, TokenEndFrame
<1>3. CASE UNCHANGED vars
  BY <1>3 DEF vars, deviceVars, screenVars, TokenInv, StreamTyped, DeviceFollows, Stream
<1>4. CASE NoEnter \/ EnterMode \/ EnterName \/ EnterPassword \/ Verifying \/ GameFrame
  <2>1. EndFrame
    BY <1>4 DEF NoEnter, EnterMode, EnterName, EnterPassword, Verifying, GameFrame
  <2> QED
    BY <1>2, <2>1
<1> QED
  BY <1>1, <1>3, <1>4 DEF Next

LEMMA TokenKeysDecoded == TokenInv => KeysAreDecoded
<1> SUFFICES ASSUME TokenInv PROVE KeysAreDecoded
  OBVIOUS
<1>0. Stream \in Streams /\ parseState \in {"Normal", "ExpectBracket", "ExpectSequence"}
         /\ Standing(Stream, parseState) /\ keyStates = DecodedKeys(Stream)
  BY DEF TokenInv, StreamTyped, DeviceFollows, Stream, Streams
<1>1. Len(Unfinished(Stream)) = UnfinishedLength(parseState)
  BY <1>0, Cut
<1> QED
  BY <1>0, <1>1 DEF KeysAreDecoded, UnfinishedLength

-----------------------------------------------------------------------------
\* Every state of the input path is of its type, whatever the lengths of lines and frames:
\* the device keeps at most MAX_INPUT_BYTES characters, and no line grows past its limit.
THEOREM TypeCorrect == Spec => []TypeOK
<1>1. FrameInv => TypeOK
  BY DEF FrameInv
<1> QED
  BY <1>1, FrameInit, FrameStep, PTL DEF Spec

\* AuthContext::update() goes on with a name only if it has something visible at both ends
\* and fits the line it was typed in.
THEOREM NamesCorrect == Spec => []NamesAreVisible
<1>1. FrameInv => NamesAreVisible
  BY DEF FrameInv
<1> QED
  BY <1>1, FrameInit, FrameStep, PTL DEF Spec

\* AuthContext::render() skips no change of the login screen but the one that is named.
THEOREM ScreensCorrect == Spec => []ScreenIsCurrent
<1>1. FrameInv => ScreenIsCurrent
  BY DEF FrameInv
<1> QED
  BY <1>1, FrameInit, FrameStep, PTL DEF Spec

\* InputDevice::pressKey() decodes the keys of a byte stream wherever the network cuts it
\* into frames, for streams of any length.
THEOREM KeysCorrect == Spec => []KeysAreDecoded
  BY TokenInit, TokenStep, TokenKeysDecoded, PTL DEF Spec

\* What a frame hands on as text are the first characters typed in it outside of any escape
\* sequence, for frames of any length and any room for them.
THEOREM TextCorrect == Spec => []TextIsDecoded
<1>1. TokenInv => TextIsDecoded
  BY DEF TokenInv, DeviceFollows, TextIsDecoded
<1> QED
  BY <1>1, TokenInit, TokenStep, PTL DEF Spec
====
