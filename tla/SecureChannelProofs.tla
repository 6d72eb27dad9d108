------------------------ MODULE SecureChannelProofs -------------------------
(***************************************************************************)
(* The encrypted transport delivers in order whatever the network does,    *)
(* for every number of frames and of faults.  The inductive invariant says *)
(* that a frame on the wire is damaged or was sealed as it is, and that    *)
(* the receiver's counter is the length of what it delivered; without      *)
(* faults it also says that the wire continues where the receiver stands.  *)
(***************************************************************************)
EXTENDS SecureChannel, SequenceTheorems, TLAPS

USE DEF Pieces

\* Each end counts what it sealed or delivered, and what was delivered was sealed.
Counted ==
    \A d \in Dirs :
        /\ txCounter[d] = Len(sent[d])
        /\ rxCounter[d] = Len(delivered[d])
        /\ Len(delivered[d]) <= Len(sent[d])
        /\ \A n \in 1..Len(delivered[d]) : delivered[d][n] = sent[d][n]

\* A frame that some key and nonce open was sealed with that content.
Genuine(f) ==
    \/ f.counter = -1
    \/ f.counter + 1 \in 1..Len(sent[f.dir]) /\ f.payload = sent[f.dir][f.counter + 1]

AllGenuine == \A d \in Dirs : \A k \in 1..Len(wire[d]) : Genuine(wire[d][k])

\* Without faults the frames of the wire are the next ones, one after the other.
InStep ==
    faults = 0 =>
        \A d \in Dirs :
            /\ rxCounter[d] + Len(wire[d]) = txCounter[d]
            /\ \A k \in 1..Len(wire[d]) :
                  wire[d][k].dir = d /\ wire[d][k].counter = rxCounter[d] + k - 1

\* No buffer holds more than it can.
WithinCap == \A d \in Dirs : written[d] <= Cap

\* No frame is refused by the cipher without a fault.
NeverRejected == why = "rejected" => faults # 0

IInv ==
    /\ TypeOK
    /\ WithinCap
    /\ Counted
    /\ AllGenuine
    /\ InStep
    /\ NeverRejected

\* The values of the two ends.
EndsType ==
    /\ errno \in {"EAGAIN", "other"}
    /\ server \in {"idle", "pass", "sending", "gone"}
    /\ client \in {"running", "reading", "deaf", "gone"}
    /\ sending \in BOOLEAN
    /\ threaded \in BOOLEAN

-----------------------------------------------------------------------------
(* The steps, by what they do to the stream.                               *)

\* Before anything is sealed all counters are zero and the wires empty.
LEMMA InitIInv == Init => IInv
<1> SUFFICES ASSUME Init PROVE IInv
  OBVIOUS
<1>1. TypeOK
  <2>1. <<>> \in Seq(Payloads) /\ <<>> \in Seq(Frame) /\ Len(<<>>) = 0
    OBVIOUS
  <2>2. /\ sent \in [Dirs -> Seq(Payloads)] /\ delivered \in [Dirs -> Seq(Payloads)]
        /\ txCounter \in [Dirs -> Nat] /\ rxCounter \in [Dirs -> Nat]
        /\ wire \in [Dirs -> Seq(Frame)]
        /\ written \in [Dirs -> Nat] /\ arrived \in [Dirs -> Nat]
    BY <2>1 DEF Init
  <2>3. \A d \in Dirs : arrived[d] = 0 /\ written[d] = 0 /\ Len(wire[d]) = 0
    BY DEF Init
  <2>4. faults \in 0..MaxFaults
    BY BoundAssumption DEF Init
  <2>5. \A d \in Dirs : arrived[d] <= written[d] /\ written[d] <= Pieces * Len(wire[d])
    BY <2>3
  <2>6. sending \in BOOLEAN /\ threaded \in BOOLEAN
    BY DEF Init
  <2>7. /\ errno \in {"EAGAIN", "other"}
        /\ server \in {"idle", "pass", "sending", "gone"}
        /\ client \in {"running", "reading", "deaf", "gone"}
        /\ why \in {"none", "closed", "torn", "rejected", "oversized", "short", "banned"}
    BY DEF Init
  <2> QED BY <2>2, <2>4, <2>5, <2>6, <2>7 DEF TypeOK
<1>2. Counted /\ AllGenuine /\ InStep /\ NeverRejected
  BY DEF Init, Counted, AllGenuine, InStep, NeverRejected
<1>3. WithinCap
  BY CapAssumption DEF Init, WithinCap
<1> QED BY <1>1, <1>2, <1>3 DEF IInv

\* A step that seals, takes and changes no frame.
LEMMA StreamKept ==
    ASSUME IInv, UNCHANGED <<sent, delivered, txCounter, rxCounter, wire, faults>>,
           EndsType', arrived' \in [Dirs -> Nat], written' \in [Dirs -> Nat],
           \A d \in Dirs : /\ arrived'[d] <= written'[d]
                          /\ written'[d] <= Pieces * Len(wire[d]) /\ written'[d] <= Cap,
           why' \in {why, "closed", "torn", "oversized", "banned"}
    PROVE  IInv'
<1>1. TypeOK' /\ WithinCap'
  BY DEF IInv, TypeOK, EndsType, WithinCap
<1>2. Counted' /\ AllGenuine' /\ InStep'
  BY DEF IInv, Counted, AllGenuine, Genuine, InStep
<1>3. NeverRejected'
  BY DEF IInv, NeverRejected
<1> QED BY <1>1, <1>2, <1>3 DEF IInv

\* Appending to one of several sequences leaves everything else in its place.
LEMMA AppendFacts ==
    ASSUME NEW D, NEW S, NEW q \in [D -> Seq(S)], NEW d \in D, NEW x \in S
    PROVE  LET r == [q EXCEPT ![d] = Append(@, x)]
           IN  /\ r \in [D -> Seq(S)]
               /\ \A e \in D : e # d => r[e] = q[e]
               /\ Len(q[d]) \in Nat /\ Len(r[d]) = Len(q[d]) + 1
               /\ \A n \in 1..Len(q[d]) : r[d][n] = q[d][n]
               /\ r[d][Len(q[d]) + 1] = x
<1> DEFINE r == [q EXCEPT ![d] = Append(q[d], x)]
           s == Append(q[d], x)
<1>1. q[d] \in Seq(S)
  OBVIOUS
<1>2. /\ s \in Seq(S) /\ Len(q[d]) \in Nat /\ Len(s) = Len(q[d]) + 1
      /\ \A n \in 1..Len(q[d]) : s[n] = q[d][n]
      /\ s[Len(q[d]) + 1] = x
  BY <1>1
<1> HIDE DEF s
<1>3. r = [q EXCEPT ![d] = s]
  BY DEF s
<1>4. r \in [D -> Seq(S)] /\ r[d] = s /\ \A e \in D : e # d => r[e] = q[e]
  BY <1>2, <1>3
<1> HIDE DEF r
<1>5. /\ r \in [D -> Seq(S)]
      /\ \A e \in D : e # d => r[e] = q[e]
      /\ Len(q[d]) \in Nat /\ Len(r[d]) = Len(q[d]) + 1
      /\ \A n \in 1..Len(q[d]) : r[d][n] = q[d][n]
      /\ r[d][Len(q[d]) + 1] = x
  BY <1>2, <1>4
<1> QED BY <1>5 DEF r

\* Sealing appends the next payload and its frame, of which send() writes what there is room for.
LEMMA SealStep ==
    ASSUME IInv, NEW d \in Dirs, Seal(d),
           UNCHANGED <<delivered, rxCounter, arrived, faults, why>>, EndsType'
    PROVE  IInv' /\ \E m \in Payloads : Promise!Send(d, m)
<1>0. PICK size \in SizesOf(d) :
        /\ sent' = [sent EXCEPT ![d] = Append(@, [n |-> Len(sent[d]) + 1, size |-> size])]
        /\ wire' = [wire EXCEPT ![d] = Append(@,
                      Sealed(d, txCounter[d], [n |-> Len(sent[d]) + 1, size |-> size]))]
  BY DEF Seal
<1> DEFINE m == [n |-> Len(sent[d]) + 1, size |-> size]
           f == Sealed(d, txCounter[d], m)
<1>1. /\ sent' = [sent EXCEPT ![d] = Append(@, m)]
      /\ wire' = [wire EXCEPT ![d] = Append(@, f)]
      /\ txCounter' = [txCounter EXCEPT ![d] = @ + 1]
      /\ written' = [written EXCEPT ![d] = Room(Len(wire'[d]))]
      /\ txCounter[d] < MaxSent(d)
  BY <1>0 DEF Seal
<1>2. TypeOK /\ WithinCap /\ Counted /\ AllGenuine /\ InStep
  BY DEF IInv
<1>3. /\ sent \in [Dirs -> Seq(Payloads)] /\ wire \in [Dirs -> Seq(Frame)]
      /\ txCounter \in [Dirs -> Nat] /\ written \in [Dirs -> Nat]
      /\ rxCounter \in [Dirs -> Nat] /\ arrived \in [Dirs -> Nat]
      /\ \A e \in Dirs : arrived[e] <= written[e] /\ written[e] <= Pieces * Len(wire[e])
      /\ \A e \in Dirs : written[e] <= Cap
      /\ txCounter[d] = Len(sent[d])
  BY <1>2 DEF TypeOK, Counted, WithinCap
<1>4. m \in Payloads /\ f \in Frame
  <2>1. size \in Sizes
    BY DEF SizesOf, Sizes
  <2>2. Len(sent[d]) + 1 \in 1..MaxUp \cup 1..MaxDown
    BY <1>1, <1>3, BoundAssumption DEF MaxSent
  <2>3. m \in Payloads
    BY <2>1, <2>2 DEF Payloads
  <2> QED BY <1>3, <2>3 DEF Frame, Sealed
<1>5. f.dir = d /\ f.counter = txCounter[d] /\ f.payload = m
  BY DEF Sealed
<1> HIDE DEF m, f
<1>6. /\ sent' \in [Dirs -> Seq(Payloads)]
      /\ \A e \in Dirs : e # d => sent'[e] = sent[e]
      /\ Len(sent[d]) \in Nat /\ Len(sent'[d]) = Len(sent[d]) + 1
      /\ \A n \in 1..Len(sent[d]) : sent'[d][n] = sent[d][n]
      /\ sent'[d][Len(sent[d]) + 1] = m
  BY <1>1, <1>3, <1>4, AppendFacts
<1>7. /\ wire' \in [Dirs -> Seq(Frame)]
      /\ \A e \in Dirs : e # d => wire'[e] = wire[e]
      /\ Len(wire[d]) \in Nat /\ Len(wire'[d]) = Len(wire[d]) + 1
      /\ \A n \in 1..Len(wire[d]) : wire'[d][n] = wire[d][n]
      /\ wire'[d][Len(wire[d]) + 1] = f
  BY <1>1, <1>3, <1>4, AppendFacts
<1>8. /\ txCounter' \in [Dirs -> Nat] /\ txCounter'[d] = txCounter[d] + 1
      /\ \A e \in Dirs : e # d => txCounter'[e] = txCounter[e]
  BY <1>1, <1>3
<1>9. /\ written' \in [Dirs -> Nat] /\ written'[d] = Room(Len(wire[d]) + 1)
      /\ \A e \in Dirs : e # d => written'[e] = written[e]
  <2>1. written' = [written EXCEPT ![d] = Room(Len(wire[d]) + 1)]
    BY <1>1, <1>7
  <2>2. Room(Len(wire[d]) + 1) \in Nat
    BY <1>7, CapAssumption DEF Room
  <2> QED BY <1>3, <2>1, <2>2
<1>10. \A e \in Dirs : /\ arrived[e] <= written'[e]
                      /\ written'[e] <= Pieces * Len(wire'[e]) /\ written'[e] <= Cap
  <2> SUFFICES ASSUME NEW e \in Dirs
               PROVE  arrived[e] <= written'[e] /\ written'[e] <= 3 * Len(wire'[e]) /\ written'[e] <= Cap
    OBVIOUS
  <2>1. CASE e = d
    <3>1. arrived[d] \in Nat /\ arrived[d] <= 3 * Len(wire[d]) /\ arrived[d] <= Cap
      BY <1>3, <1>7, CapAssumption
    <3> QED BY <1>7, <1>9, <2>1, <3>1, CapAssumption DEF Room
  <2>2. CASE e # d
    BY <1>3, <1>7, <1>9, <2>2
  <2> QED BY <2>1, <2>2
<1>11. TypeOK' /\ WithinCap'
  BY <1>2, <1>6, <1>7, <1>8, <1>9, <1>10 DEF TypeOK, WithinCap, EndsType
<1>12. Counted'
  <2> SUFFICES ASSUME NEW e \in Dirs
               PROVE  /\ txCounter'[e] = Len(sent'[e])
                      /\ rxCounter[e] = Len(delivered[e])
                      /\ Len(delivered[e]) <= Len(sent'[e])
                      /\ \A n \in 1..Len(delivered[e]) : delivered[e][n] = sent'[e][n]
    BY DEF Counted
  <2>1. /\ txCounter[e] = Len(sent[e])
        /\ rxCounter[e] = Len(delivered[e]) /\ rxCounter[e] \in Nat
        /\ Len(delivered[e]) <= Len(sent[e])
        /\ \A n \in 1..Len(delivered[e]) : delivered[e][n] = sent[e][n]
    BY <1>2, <1>3 DEF Counted
  <2>2. CASE e = d
    BY <1>6, <1>8, <2>1, <2>2
  <2>3. CASE e # d
    BY <1>6, <1>8, <2>1, <2>3
  <2> QED BY <2>2, <2>3
<1>13. AllGenuine'
  <2> DEFINE Known(g) == \/ g.counter = -1
                         \/ /\ g.counter + 1 \in 1..Len(sent'[g.dir])
                            /\ g.payload = sent'[g.dir][g.counter + 1]
  <2>1. Known(f)
    BY <1>3, <1>5, <1>6
  <2>2. ASSUME NEW g \in Frame, Genuine(g)
        PROVE  Known(g)
    <3>1. g.dir \in Dirs
      BY DEF Frame
    <3>2. CASE g.counter = -1
      BY <3>2
    <3>3. CASE g.counter + 1 \in 1..Len(sent[g.dir]) /\ g.payload = sent[g.dir][g.counter + 1]
      <4>1. CASE g.dir = d
        <5>1. g.counter + 1 \in 1..Len(sent[d]) /\ g.payload = sent[d][g.counter + 1]
          BY <3>3, <4>1
        <5>2. g.counter + 1 \in 1..Len(sent'[d]) /\ g.payload = sent'[d][g.counter + 1]
          BY <1>6, <5>1
        <5> QED BY <4>1, <5>2
      <4>2. CASE g.dir # d
        <5>1. sent'[g.dir] = sent[g.dir]
          BY <1>6, <3>1, <4>2
        <5> QED BY <3>3, <5>1
      <4> QED BY <4>1, <4>2
    <3> QED BY <2>2, <3>2, <3>3 DEF Genuine
  <2>3. ASSUME NEW e \in Dirs, NEW k \in 1..Len(wire'[e])
        PROVE  Known(wire'[e][k])
    <3> HIDE DEF Known
    <3>1. CASE e = d /\ k = Len(wire[d]) + 1
      BY <1>7, <2>1, <3>1
    <3>2. CASE ~(e = d /\ k = Len(wire[d]) + 1)
      <4>1. k \in 1..Len(wire[e]) /\ wire'[e][k] = wire[e][k]
        BY <1>7, <3>2
      <4>2. wire[e][k] \in Frame
        BY <1>3, <4>1
      <4>3. Genuine(wire[e][k])
        BY <1>2, <4>1 DEF AllGenuine
      <4> QED BY <2>2, <4>1, <4>2, <4>3
    <3> QED BY <3>1, <3>2
  <2> QED BY <2>3 DEF AllGenuine, Genuine
<1>14. InStep'
  <2> SUFFICES ASSUME faults = 0, NEW e \in Dirs
               PROVE  /\ rxCounter[e] + Len(wire'[e]) = txCounter'[e]
                      /\ \A k \in 1..Len(wire'[e]) :
                            wire'[e][k].dir = e /\ wire'[e][k].counter = rxCounter[e] + k - 1
    BY DEF InStep
  <2>1. /\ rxCounter[e] + Len(wire[e]) = txCounter[e]
        /\ \A k \in 1..Len(wire[e]) :
              wire[e][k].dir = e /\ wire[e][k].counter = rxCounter[e] + k - 1
    BY <1>2 DEF InStep
  <2>2. CASE e # d
    BY <1>7, <1>8, <2>1, <2>2
  <2>3. CASE e = d
    <3>1. rxCounter[d] + Len(wire'[d]) = txCounter'[d]
      <4>1. rxCounter[d] \in Nat /\ Len(wire[d]) \in Nat /\ txCounter[d] = rxCounter[d] + Len(wire[d])
        BY <1>3, <1>7, <2>1, <2>3
      <4>2. Len(wire'[d]) = Len(wire[d]) + 1 /\ txCounter'[d] = txCounter[d] + 1
        BY <1>7, <1>8
      <4> QED BY <4>1, <4>2
    <3>2. ASSUME NEW k \in 1..Len(wire'[d])
          PROVE  wire'[d][k].dir = d /\ wire'[d][k].counter = rxCounter[d] + k - 1
      <4>1. CASE k \in 1..Len(wire[d])
        BY <1>7, <2>1, <2>3, <4>1
      <4>2. CASE k = Len(wire[d]) + 1
        BY <1>3, <1>5, <1>7, <2>1, <2>3, <4>2
      <4> QED BY <1>7, <4>1, <4>2
    <3> QED BY <2>3, <3>1, <3>2
  <2> QED BY <2>2, <2>3
<1>15. NeverRejected'
  BY DEF IInv, NeverRejected
<1>16. Promise!Send(d, m)
  BY <1>1 DEF Promise!Send
<1> QED BY <1>4, <1>11, <1>12, <1>13, <1>14, <1>15, <1>16 DEF IInv

\* Taking the frame at the head leaves the others as they were.
LEMMA TakeFacts ==
    ASSUME TypeOK, NEW d \in Dirs, Take(d)
    PROVE  /\ Len(wire[d]) >= 1 /\ Head(wire[d]) = wire[d][1] /\ wire[d][1] \in Frame
           /\ wire' \in [Dirs -> Seq(Frame)]
           /\ written' \in [Dirs -> Nat] /\ arrived' \in [Dirs -> Nat]
           /\ \A e \in Dirs : arrived'[e] <= written'[e] /\ written'[e] <= Pieces * Len(wire'[e])
           /\ \A e \in Dirs : written'[e] <= written[e]
           /\ \A e \in Dirs : e # d => wire'[e] = wire[e]
           /\ Len(wire'[d]) = Len(wire[d]) - 1
           /\ \A k \in 1..Len(wire'[d]) : wire'[d][k] = wire[d][k + 1]
<1>1. arrived[d] >= 3 /\ arrived[d] <= written[d] /\ written[d] <= 3 * Len(wire[d])
  BY DEF TypeOK, Take, WholeFrame
<1>2. wire[d] \in Seq(Frame) /\ Len(wire[d]) \in Nat /\ Len(wire[d]) >= 1
      /\ arrived[d] \in Nat /\ written[d] \in Nat
  BY <1>1 DEF TypeOK
<1>3. Tail(wire[d]) \in Seq(Frame) /\ Len(Tail(wire[d])) = Len(wire[d]) - 1
      /\ \A k \in 1..(Len(wire[d]) - 1) : Tail(wire[d])[k] = wire[d][k + 1]
  BY <1>2
<1>4. wire' = [wire EXCEPT ![d] = Tail(wire[d])]
      /\ written' = [written EXCEPT ![d] = written[d] - 3]
      /\ arrived' = [arrived EXCEPT ![d] = arrived[d] - 3]
  BY DEF Take
<1>5. /\ wire \in [Dirs -> Seq(Frame)] /\ written \in [Dirs -> Nat] /\ arrived \in [Dirs -> Nat]
      /\ \A e \in Dirs : arrived[e] <= written[e] /\ written[e] <= 3 * Len(wire[e])
  BY DEF TypeOK
<1>6. Head(wire[d]) = wire[d][1] /\ wire[d][1] \in Frame
  BY <1>2
<1>7. /\ wire' \in [Dirs -> Seq(Frame)] /\ wire'[d] = Tail(wire[d])
      /\ \A e \in Dirs : e # d => wire'[e] = wire[e]
  BY <1>3, <1>4, <1>5
<1>8. /\ written' \in [Dirs -> Nat] /\ written'[d] = written[d] - 3
      /\ \A e \in Dirs : e # d => written'[e] = written[e]
  BY <1>1, <1>2, <1>4, <1>5
<1>9. /\ arrived' \in [Dirs -> Nat] /\ arrived'[d] = arrived[d] - 3
      /\ \A e \in Dirs : e # d => arrived'[e] = arrived[e]
  BY <1>1, <1>2, <1>4, <1>5
<1>10. Len(wire'[d]) = Len(wire[d]) - 1 /\ \A k \in 1..Len(wire'[d]) : wire'[d][k] = wire[d][k + 1]
  BY <1>3, <1>7
<1>11. ASSUME NEW e \in Dirs
       PROVE  /\ arrived'[e] <= written'[e] /\ written'[e] <= 3 * Len(wire'[e])
              /\ written'[e] <= written[e]
  <2>1. CASE e = d
    BY <1>1, <1>2, <1>8, <1>9, <1>10, <2>1
  <2>2. CASE e # d
    BY <1>5, <1>7, <1>8, <1>9, <2>2
  <2> QED BY <2>1, <2>2
<1> QED BY <1>2, <1>6, <1>7, <1>8, <1>9, <1>10, <1>11

\* A frame that is taken leaves room.
LEMMA TakeWithinCap ==
    ASSUME TypeOK, WithinCap, NEW d \in Dirs, Take(d)
    PROVE  WithinCap'
<1>1. /\ written' \in [Dirs -> Nat] /\ written \in [Dirs -> Nat]
      /\ \A e \in Dirs : written'[e] <= written[e]
  BY TakeFacts DEF TypeOK
<1> QED BY <1>1, CapAssumption DEF WithinCap

\* What is on the wire after a frame is taken was there before, and nothing else changes.
LEMMA TakeKeepsFrames ==
    ASSUME TypeOK, AllGenuine, NEW d \in Dirs, Take(d), UNCHANGED sent
    PROVE  AllGenuine'
<1>1. /\ \A e \in Dirs : e # d => wire'[e] = wire[e]
      /\ Len(wire'[d]) = Len(wire[d]) - 1
      /\ \A k \in 1..Len(wire'[d]) : wire'[d][k] = wire[d][k + 1]
  BY TakeFacts
<1>2. Len(wire[d]) \in Nat
  BY DEF TypeOK
<1> SUFFICES ASSUME NEW e \in Dirs, NEW k \in 1..Len(wire'[e])
             PROVE  Genuine(wire[e][k])'
  BY DEF AllGenuine
<1>3. PICK j \in 1..Len(wire[e]) : wire'[e][k] = wire[e][j]
  <2>1. CASE e = d
    <3>1. k + 1 \in 1..Len(wire[d]) /\ wire'[d][k] = wire[d][k + 1]
      BY <1>1, <1>2, <2>1
    <3> QED BY <2>1, <3>1
  <2>2. CASE e # d
    BY <1>1, <2>2
  <2> QED BY <2>1, <2>2
<1>4. Genuine(wire[e][j])
  BY DEF AllGenuine
<1> QED BY <1>3, <1>4 DEF Genuine

\* The frame at the head opens: what it holds is the payload that comes next.
LEMMA UnsealStep ==
    ASSUME IInv, NEW d \in Dirs, Take(d), Unseal(d),
           UNCHANGED <<sent, txCounter, faults>>, EndsType', why' \in {why, "short"}
    PROVE  /\ IInv'
           /\ Len(delivered[d]) < Len(sent[d])
           /\ delivered' = [delivered EXCEPT ![d] = Append(@, sent[d][Len(@) + 1])]
<1> DEFINE f == wire[d][1]
           x == f.payload
<1>1. TypeOK /\ WithinCap /\ Counted /\ AllGenuine /\ InStep
  BY DEF IInv
<1>2. /\ Len(wire[d]) >= 1 /\ Head(wire[d]) = f /\ f \in Frame
      /\ wire' \in [Dirs -> Seq(Frame)]
      /\ written' \in [Dirs -> Nat] /\ arrived' \in [Dirs -> Nat]
      /\ \A e \in Dirs : arrived'[e] <= written'[e] /\ written'[e] <= Pieces * Len(wire'[e])
      /\ \A e \in Dirs : e # d => wire'[e] = wire[e]
      /\ Len(wire'[d]) = Len(wire[d]) - 1
      /\ \A k \in 1..Len(wire'[d]) : wire'[d][k] = wire[d][k + 1]
  BY <1>1, TakeFacts
<1>3. f.dir = d /\ f.counter = rxCounter[d]
      /\ delivered' = [delivered EXCEPT ![d] = Append(@, x)]
      /\ rxCounter' = [rxCounter EXCEPT ![d] = @ + 1]
  BY <1>2 DEF Unseal, Authentic, Count
<1>4. /\ delivered \in [Dirs -> Seq(Payloads)] /\ rxCounter \in [Dirs -> Nat]
      /\ rxCounter[d] \in Nat /\ rxCounter[d] = Len(delivered[d]) /\ Len(wire[d]) \in Nat
  BY <1>1 DEF TypeOK, Counted
<1>5. Genuine(f)
  <2>1. 1 \in 1..Len(wire[d])
    BY <1>2, <1>4
  <2> QED BY <1>1, <2>1 DEF AllGenuine
<1>6. Len(delivered[d]) + 1 \in 1..Len(sent[d]) /\ x = sent[d][Len(delivered[d]) + 1]
  BY <1>3, <1>4, <1>5 DEF Genuine
<1>7. x \in Payloads
  BY <1>2 DEF Frame
<1> HIDE DEF x, f
<1>8. /\ delivered' \in [Dirs -> Seq(Payloads)]
      /\ \A e \in Dirs : e # d => delivered'[e] = delivered[e]
      /\ Len(delivered[d]) \in Nat /\ Len(delivered'[d]) = Len(delivered[d]) + 1
      /\ \A n \in 1..Len(delivered[d]) : delivered'[d][n] = delivered[d][n]
      /\ delivered'[d][Len(delivered[d]) + 1] = x
  BY <1>3, <1>4, <1>7, AppendFacts
<1>9. /\ rxCounter' \in [Dirs -> Nat] /\ rxCounter'[d] = rxCounter[d] + 1
      /\ \A e \in Dirs : e # d => rxCounter'[e] = rxCounter[e]
  BY <1>3, <1>4
<1>10. TypeOK' /\ WithinCap'
  BY <1>1, <1>2, <1>8, <1>9, TakeWithinCap DEF TypeOK, EndsType
<1>11. Counted'
  <2> SUFFICES ASSUME NEW e \in Dirs
               PROVE  /\ txCounter[e] = Len(sent[e])
                      /\ rxCounter'[e] = Len(delivered'[e])
                      /\ Len(delivered'[e]) <= Len(sent[e])
                      /\ \A n \in 1..Len(delivered'[e]) : delivered'[e][n] = sent[e][n]
    BY DEF Counted
  <2>1. /\ txCounter[e] = Len(sent[e])
        /\ rxCounter[e] = Len(delivered[e])
        /\ Len(delivered[e]) <= Len(sent[e])
        /\ \A n \in 1..Len(delivered[e]) : delivered[e][n] = sent[e][n]
    BY <1>1 DEF Counted
  <2>2. CASE e # d
    BY <1>8, <1>9, <2>1, <2>2
  <2>3. CASE e = d
    <3>1. rxCounter'[d] = Len(delivered'[d]) /\ Len(delivered'[d]) <= Len(sent[d])
      BY <1>4, <1>6, <1>8, <1>9
    <3>2. \A n \in 1..Len(delivered'[d]) : delivered'[d][n] = sent[d][n]
      BY <1>6, <1>8, <2>1, <2>3
    <3> QED BY <2>1, <2>3, <3>1, <3>2
  <2> QED BY <2>2, <2>3
<1>12. AllGenuine'
  BY <1>1, TakeKeepsFrames
<1>13. InStep'
  <2> SUFFICES ASSUME faults = 0, NEW e \in Dirs
               PROVE  /\ rxCounter'[e] + Len(wire'[e]) = txCounter[e]
                      /\ \A k \in 1..Len(wire'[e]) :
                            wire'[e][k].dir = e /\ wire'[e][k].counter = rxCounter'[e] + k - 1
    BY DEF InStep
  <2>1. /\ rxCounter[e] + Len(wire[e]) = txCounter[e]
        /\ \A k \in 1..Len(wire[e]) :
              wire[e][k].dir = e /\ wire[e][k].counter = rxCounter[e] + k - 1
    BY <1>1 DEF InStep
  <2>2. CASE e # d
    BY <1>2, <1>9, <2>1, <2>2
  <2>3. CASE e = d
    <3>0. /\ rxCounter[d] \in Int /\ Len(wire[d]) \in Int
          /\ rxCounter'[d] = rxCounter[d] + 1 /\ Len(wire'[d]) = Len(wire[d]) - 1
      BY <1>2, <1>4, <1>9
    <3>1. rxCounter'[d] + Len(wire'[d]) = txCounter[d]
      <4>1. rxCounter[d] + Len(wire[d]) = txCounter[d]
        BY <2>1, <2>3
      <4>2. rxCounter[d] + 1 + (Len(wire[d]) - 1) = rxCounter[d] + Len(wire[d])
        BY <3>0
      <4> QED BY <3>0, <4>1, <4>2
    <3>2. ASSUME NEW k \in 1..Len(wire'[d])
          PROVE  wire'[d][k].dir = d /\ wire'[d][k].counter = rxCounter'[d] + k - 1
      <4>1. k + 1 \in 1..Len(wire[d]) /\ wire'[d][k] = wire[d][k + 1] /\ k \in Int
        BY <1>2, <1>4
      <4>2. wire[d][k + 1].dir = d /\ wire[d][k + 1].counter = rxCounter[d] + (k + 1) - 1
        BY <2>1, <2>3, <4>1
      <4>3. rxCounter[d] + (k + 1) - 1 = rxCounter[d] + 1 + k - 1
        <5>1. rxCounter[d] \in Int /\ k \in Int
          BY <3>0, <4>1
        <5> QED BY <5>1
      <4>4. rxCounter[d] + (k + 1) - 1 = rxCounter'[d] + k - 1
        BY <3>0, <4>3
      <4> QED BY <4>1, <4>2, <4>4
    <3> QED BY <2>3, <3>1, <3>2
  <2> QED BY <2>2, <2>3
<1>14. NeverRejected'
  BY DEF IInv, NeverRejected
<1>15. IInv'
  BY <1>10, <1>11, <1>12, <1>13, <1>14 DEF IInv
<1>16. delivered' = [delivered EXCEPT ![d] = Append(@, sent[d][Len(@) + 1])]
  BY <1>3, <1>6
<1>17. Len(delivered[d]) < Len(sent[d])
  <2>1. Len(sent[d]) \in Nat
    BY <1>1 DEF TypeOK
  <2> QED BY <1>6, <1>8, <2>1
<1> QED BY <1>15, <1>16, <1>17

\* The frame at the head does not open: there has been a fault.
LEMMA RejectStep ==
    ASSUME IInv, NEW d \in Dirs, Take(d), ~Authentic(d, Head(wire[d])),
           UNCHANGED <<sent, delivered, txCounter, rxCounter, faults>>, EndsType',
           why' \in {why, "rejected"}
    PROVE  IInv'
<1>1. TypeOK /\ WithinCap /\ Counted /\ AllGenuine /\ InStep
  BY DEF IInv
<1>2. /\ Len(wire[d]) >= 1 /\ Head(wire[d]) = wire[d][1]
      /\ wire' \in [Dirs -> Seq(Frame)]
      /\ written' \in [Dirs -> Nat] /\ arrived' \in [Dirs -> Nat]
      /\ \A e \in Dirs : arrived'[e] <= written'[e] /\ written'[e] <= Pieces * Len(wire'[e])
  BY <1>1, TakeFacts
<1>3. faults # 0
  <2> SUFFICES ASSUME faults = 0 PROVE FALSE
    OBVIOUS
  <2>1. 1 \in 1..Len(wire[d]) /\ rxCounter[d] \in Nat
    BY <1>1, <1>2 DEF TypeOK
  <2>2. wire[d][1].dir = d /\ wire[d][1].counter = rxCounter[d] + 1 - 1
    BY <1>1, <2>1 DEF InStep
  <2> QED BY <1>2, <2>1, <2>2 DEF Authentic
<1>4. faults \in Nat
  BY <1>1, BoundAssumption DEF TypeOK
<1>5. TypeOK' /\ WithinCap'
  BY <1>1, <1>2, TakeWithinCap DEF TypeOK, EndsType
<1>6. Counted'
  BY <1>1 DEF Counted
<1>7. AllGenuine'
  BY <1>1, TakeKeepsFrames
<1>8. InStep' /\ NeverRejected'
  BY <1>3, <1>4 DEF InStep, NeverRejected
<1> QED BY <1>5, <1>6, <1>7, <1>8 DEF IInv

\* Removing the k-th of the frames keeps the others, in their order.
LEMMA DropFacts ==
    ASSUME NEW q \in Seq(Frame), NEW k \in 1..Len(q)
    PROVE  LET r == SubSeq(q, 1, k - 1) \o SubSeq(q, k + 1, Len(q))
           IN  /\ r \in Seq(Frame) /\ Len(q) \in Nat /\ Len(r) = Len(q) - 1
               /\ \A j \in 1..Len(r) : \E i \in 1..Len(q) : r[j] = q[i]
<1> DEFINE a == SubSeq(q, 1, k - 1)
           b == SubSeq(q, k + 1, Len(q))
           r == a \o b
<1>1. Len(q) \in Nat /\ k \in Nat /\ 1 <= k /\ k <= Len(q)
  OBVIOUS
<1>2. a \in Seq(Frame) /\ Len(a) = k - 1 /\ \A j \in 1..(k - 1) : a[j] = q[j]
  BY <1>1
<1>3. b \in Seq(Frame) /\ Len(b) = Len(q) - k /\ \A j \in 1..(Len(q) - k) : b[j] = q[k + j]
  BY <1>1
<1> HIDE DEF a, b
<1>4. r \in Seq(Frame) /\ Len(r) = Len(a) + Len(b)
      /\ \A j \in 1..(Len(a) + Len(b)) : r[j] = IF j <= Len(a) THEN a[j] ELSE b[j - Len(a)]
  BY <1>2, <1>3, ConcatProperties
<1> HIDE DEF r
<1>5. Len(r) = Len(q) - 1
  BY <1>1, <1>2, <1>3, <1>4
<1>6. ASSUME NEW j \in 1..Len(r)
      PROVE  \E i \in 1..Len(q) : r[j] = q[i]
  <2>1. CASE j <= k - 1
    <3>1. j \in 1..Len(q) /\ r[j] = q[j]
      BY <1>1, <1>2, <1>3, <1>4, <1>5, <2>1
    <3> QED BY <3>1
  <2>2. CASE j > k - 1
    <3>1. j - (k - 1) \in 1..(Len(q) - k) /\ k + (j - (k - 1)) = j + 1
      BY <1>1, <1>5, <2>2
    <3>2. r[j] = b[j - (k - 1)]
      BY <1>1, <1>2, <1>3, <1>4, <1>5, <2>2
    <3>3. j + 1 \in 1..Len(q) /\ r[j] = q[j + 1]
      BY <1>1, <1>3, <1>5, <3>1, <3>2
    <3> QED BY <3>3
  <2> QED BY <1>1, <1>5, <2>1, <2>2
<1>7. /\ r \in Seq(Frame) /\ Len(q) \in Nat /\ Len(r) = Len(q) - 1
      /\ \A j \in 1..Len(r) : \E i \in 1..Len(q) : r[j] = q[i]
  BY <1>1, <1>4, <1>5, <1>6
<1> QED BY <1>7 DEF a, b, r

\* A fault leaves damaged frames and frames sealed before, nothing else.
LEMMA FaultStep ==
    ASSUME IInv, NEW d \in Dirs, Fault(d)
    PROVE  IInv'
<1>1. TypeOK /\ WithinCap /\ Counted /\ AllGenuine
  BY DEF IInv
<1>2. /\ faults \in Nat /\ faults' = faults + 1 /\ faults' \in 0..MaxFaults
      /\ UNCHANGED <<sent, delivered, txCounter, rxCounter, arrived, errno, server, clientVars, why>>
  BY <1>1, BoundAssumption DEF Fault, TypeOK
<1>3. /\ wire \in [Dirs -> Seq(Frame)] /\ written \in [Dirs -> Nat] /\ arrived \in [Dirs -> Nat]
      /\ \A e \in Dirs : arrived[e] <= written[e] /\ written[e] <= 3 * Len(wire[e])
      /\ wire[d] \in Seq(Frame) /\ Len(wire[d]) \in Nat
  BY <1>1 DEF TypeOK
<1>4. Counted' /\ InStep' /\ NeverRejected'
  BY <1>1, <1>2 DEF Counted, InStep, NeverRejected
\* What is enough of the new wire and of what is written on it.
<1>5. ASSUME NEW q \in Seq(Frame), wire' = [wire EXCEPT ![d] = q],
             \A j \in 1..Len(q) : Genuine(q[j]),
             written' \in [Dirs -> Nat], \A e \in Dirs : e # d => written'[e] = written[e],
             arrived[d] <= written'[d], written'[d] <= 3 * Len(q), written'[d] <= written[d]
      PROVE  IInv'
  <2>1. wire' \in [Dirs -> Seq(Frame)] /\ wire'[d] = q /\ \A e \in Dirs : e # d => wire'[e] = wire[e]
    BY <1>3, <1>5
  <2>2. \A e \in Dirs : arrived[e] <= written'[e] /\ written'[e] <= 3 * Len(wire'[e])
    BY <1>3, <1>5, <2>1
  <2>3. TypeOK'
    BY <1>1, <1>2, <1>5, <2>1, <2>2 DEF TypeOK, clientVars
  <2>5. WithinCap'
    <3> SUFFICES ASSUME NEW e \in Dirs PROVE written'[e] <= Cap
      BY DEF WithinCap
    <3>1. written'[e] \in Nat /\ written[e] \in Nat /\ written[e] <= Cap
      BY <1>1, <1>3, <1>5 DEF WithinCap
    <3>2. written'[e] <= written[e]
      BY <1>5, <3>1
    <3> QED BY <3>1, <3>2, CapAssumption
  <2>4. \A e \in Dirs : \A k \in 1..Len(wire'[e]) : Genuine(wire[e][k])'
    <3> SUFFICES ASSUME NEW e \in Dirs, NEW k \in 1..Len(wire'[e])
                 PROVE  Genuine(wire[e][k])'
      OBVIOUS
    <3>1. CASE e = d
      <4>1. k \in 1..Len(q) /\ wire'[e][k] = q[k]
        BY <2>1, <3>1
      <4>2. Genuine(q[k])
        BY <1>5, <4>1
      <4> QED BY <1>2, <4>1, <4>2 DEF Genuine
    <3>2. CASE e # d
      <4>1. k \in 1..Len(wire[e]) /\ wire'[e][k] = wire[e][k]
        BY <2>1, <3>2
      <4>2. Genuine(wire[e][k])
        BY <1>1, <4>1 DEF AllGenuine
      <4> QED BY <1>2, <4>1, <4>2 DEF Genuine
    <3> QED BY <3>1, <3>2
  <2> QED BY <1>4, <2>3, <2>4, <2>5 DEF IInv, AllGenuine
<1>6. PICK k \in 1..Len(wire[d]) :
        /\ Pieces * (k - 1) >= arrived[d] /\ Pieces * k <= written[d]
        /\ \/ /\ \E f \in ({Damaged(wire[d][k])} \cup SealedBefore) \ {wire[d][k]} :
                    wire' = [wire EXCEPT ![d][k] = f]
              /\ UNCHANGED written
           \/ /\ wire' = [wire EXCEPT ![d] = SubSeq(@, 1, k - 1) \o SubSeq(@, k + 1, Len(@))]
              /\ written' = [written EXCEPT ![d] = @ - Pieces]
  BY DEF Fault
<1>7. ASSUME NEW f \in {Damaged(wire[d][k])} \cup SealedBefore,
             wire' = [wire EXCEPT ![d][k] = f], UNCHANGED written
      PROVE  IInv'
  <2>1. f \in Frame /\ Genuine(f)
    <3>1. CASE f = Damaged(wire[d][k])
      <4>1. wire[d][k] \in Frame
        BY <1>3
      <4> QED BY <3>1, <4>1 DEF Damaged, Sealed, Frame, Genuine
    <3>2. CASE f \in SealedBefore
      <4>1. PICK e \in Dirs : \E n \in 1..Len(sent[e]) : f = Sealed(e, n - 1, sent[e][n])
        BY <3>2 DEF SealedBefore
      <4>2. PICK n \in 1..Len(sent[e]) : f = Sealed(e, n - 1, sent[e][n])
        BY <4>1
      <4>3. sent[e][n] \in Payloads /\ Len(sent[e]) \in Nat
        <5>1. sent[e] \in Seq(Payloads)
          BY <1>1 DEF TypeOK
        <5> QED BY <5>1
      <4>4. f.dir = e /\ f.counter = n - 1 /\ f.payload = sent[e][n]
        BY <4>2 DEF Sealed
      <4>5. f \in Frame
        BY <4>2, <4>3 DEF Sealed, Frame
      <4>6. f.counter + 1 = n
        BY <4>3, <4>4
      <4> QED BY <4>4, <4>5, <4>6 DEF Genuine
    <3> QED BY <3>1, <3>2
  <2> DEFINE q == [wire[d] EXCEPT ![k] = f]
  <2>2. /\ q \in Seq(Frame) /\ Len(q) = Len(wire[d])
        /\ \A j \in 1..Len(q) : q[j] = IF j = k THEN f ELSE wire[d][j]
    BY <1>3, <2>1
  <2>3. wire' = [wire EXCEPT ![d] = q]
    BY <1>7
  <2> HIDE DEF q
  <2>4. \A j \in 1..Len(q) : Genuine(q[j])
    BY <1>1, <2>1, <2>2 DEF AllGenuine
  <2>5. /\ \A e \in Dirs : e # d => written'[e] = written[e]
        /\ arrived[d] <= written'[d] /\ written'[d] <= 3 * Len(q) /\ written'[d] <= written[d]
    BY <1>3, <1>7, <2>2
  <2>6. written' \in [Dirs -> Nat]
    BY <1>3, <1>7
  <2> QED BY <1>5, <2>2, <2>3, <2>4, <2>5, <2>6
<1>8. ASSUME wire' = [wire EXCEPT ![d] = SubSeq(@, 1, k - 1) \o SubSeq(@, k + 1, Len(@))],
             written' = [written EXCEPT ![d] = @ - Pieces]
      PROVE  IInv'
  <2> DEFINE q == SubSeq(wire[d], 1, k - 1) \o SubSeq(wire[d], k + 1, Len(wire[d]))
  <2>1. /\ q \in Seq(Frame) /\ Len(q) = Len(wire[d]) - 1
        /\ \A j \in 1..Len(q) : \E i \in 1..Len(wire[d]) : q[j] = wire[d][i]
    BY <1>3, DropFacts
  <2>2. wire' = [wire EXCEPT ![d] = q]
    BY <1>8
  <2> HIDE DEF q
  <2>3. \A j \in 1..Len(q) : Genuine(q[j])
    BY <1>1, <2>1 DEF AllGenuine
  <2>4. k \in Nat /\ 1 <= k /\ k <= Len(wire[d]) /\ written[d] \in Nat /\ arrived[d] \in Nat
    BY <1>3
  <2>5. /\ written[d] - 3 \in Nat /\ written[d] - 3 <= 3 * (Len(wire[d]) - 1)
        /\ arrived[d] <= written[d] - 3
    BY <1>3, <1>6, <2>4
  <2>6. /\ written' \in [Dirs -> Nat] /\ written'[d] = written[d] - 3
        /\ \A e \in Dirs : e # d => written'[e] = written[e]
    BY <1>3, <1>8, <2>5
  <2>7. arrived[d] <= written'[d] /\ written'[d] <= 3 * Len(q) /\ written'[d] <= written[d]
    BY <1>3, <2>1, <2>4, <2>5, <2>6
  <2> QED BY <1>5, <2>1, <2>2, <2>3, <2>6, <2>7
<1> QED BY <1>6, <1>7, <1>8

-----------------------------------------------------------------------------
\* Every step keeps the invariant, and delivers at most the next payload of one direction.
LEMMA NextKeepsIInv ==
    ASSUME IInv, [Next]_vars
    PROVE  IInv' /\ [Promise!Next]_Promise!chanVars
<1> DEFINE Goal == IInv' /\ [Promise!Next]_Promise!chanVars
<1> USE DEF Up, Down, Dirs
<1>1. TypeOK
  BY DEF IInv
<1>2. /\ arrived \in [Dirs -> Nat] /\ written \in [Dirs -> Nat]
      /\ \A d \in Dirs : /\ arrived[d] <= written[d] /\ arrived[d] \in Nat /\ written[d] \in Nat
                         /\ written[d] <= Pieces * Len(wire[d]) /\ written[d] <= Cap
      /\ EndsType
  BY <1>1 DEF TypeOK, EndsType, IInv, WithinCap
\* A step of which the transport sees nothing.
<1>3. ASSUME UNCHANGED <<sent, delivered>>, IInv'
      PROVE  Goal
  BY <1>3 DEF Promise!chanVars
\* A step that seals, takes and changes no frame.
<1>4. ASSUME UNCHANGED <<sent, delivered, txCounter, rxCounter, wireVars, faults>>, EndsType',
             why' \in {why, "closed", "torn", "oversized", "banned"}
      PROVE  Goal
  BY <1>2, <1>3, <1>4, StreamKept DEF wireVars
<1>5. ASSUME NEW d \in Dirs, Seal(d),
             UNCHANGED <<delivered, rxCounter, arrived, faults, why>>, EndsType'
      PROVE  Goal
  BY <1>5, SealStep DEF Promise!Next
<1>6. ASSUME NEW d \in Dirs, Take(d), Unseal(d), UNCHANGED <<sent, txCounter, faults>>, EndsType',
             why' \in {why, "short"}
      PROVE  Goal
  <2>1. /\ IInv'
        /\ Len(delivered[d]) < Len(sent[d])
        /\ delivered' = [delivered EXCEPT ![d] = Append(@, sent[d][Len(@) + 1])]
    BY <1>6, UnsealStep
  <2>2. Promise!Deliver(d)
    BY <1>6, <2>1 DEF Promise!Deliver
  <2> QED BY <2>1, <2>2 DEF Promise!Next
<1>7. ASSUME NEW d \in Dirs, Take(d), ~Authentic(d, Head(wire[d])),
             UNCHANGED <<sent, delivered, txCounter, rxCounter, faults>>, EndsType',
             why' \in {why, "rejected"}
      PROVE  Goal
  BY <1>3, <1>7, RejectStep
<1>8. CASE Engine
  <2>1. CASE StartPass
    BY <1>2, <1>4, <2>1 DEF StartPass, engineKeeps, clientVars, EndsType
  <2>2. CASE NoData
    BY <1>2, <1>4, <2>2 DEF NoData, engineKeeps, clientVars, EndsType
  <2>3. CASE AtEof
    BY <1>2, <1>4, <2>3 DEF AtEof, GiveUp, engineKeeps, clientVars, EndsType
  <2>4. CASE TornHeader
    BY <1>2, <1>4, <2>4 DEF TornHeader, GiveUp, engineKeeps, clientVars, EndsType
  <2>5. CASE Oversized
    BY <1>2, <1>4, <2>5 DEF Oversized, GiveUp, engineKeeps, clientVars, EndsType
  <2>6. CASE TornFrame
    BY <1>2, <1>4, <2>6 DEF TornFrame, engineKeeps, clientVars, EndsType
  <2>7. CASE RecvFrame
    BY <1>2, <1>6, <2>7 DEF RecvFrame, engineKeeps, clientVars, EndsType
  <2>8. CASE ShortSize
    BY <1>2, <1>6, <2>8 DEF ShortSize, GiveUp, engineKeeps, clientVars, EndsType
  <2>9. CASE RejectFrame
    BY <1>2, <1>7, <2>9 DEF RejectFrame, GiveUp, engineKeeps, clientVars, EndsType
  <2> QED BY <1>8, <2>1, <2>2, <2>3, <2>4, <2>5, <2>6, <2>7, <2>8, <2>9 DEF Engine
<1>9. CASE OtherCall
  BY <1>2, <1>4, <1>9 DEF OtherCall, engineKeeps, clientVars, EndsType
<1>10. CASE Ban
  BY <1>2, <1>4, <1>10 DEF Ban, GiveUp, engineKeeps, clientVars, EndsType
<1>11. CASE SendFrame
  BY <1>2, <1>5, <1>11 DEF SendFrame, clientVars, EndsType
<1>12. CASE SendData
  <2>1. EndsType'
    BY <1>2, <1>12 DEF SendData, clientKeeps, EndsType
  <2> QED BY <1>5, <1>12, <2>1 DEF SendData, clientKeeps
<1>13. CASE CutShort
  BY <1>2, <1>4, <1>13 DEF CutShort, clientKeeps, EndsType
<1>14. CASE Reader
  <2>1. CASE StartPacket
    BY <1>2, <1>4, <2>1 DEF StartPacket, clientKeeps, EndsType
  <2>2. CASE RecvPacket
    BY <1>2, <1>6, <2>2 DEF RecvPacket, clientKeeps, EndsType
  <2>3. CASE RejectPacket
    BY <1>2, <1>7, <2>3 DEF RejectPacket, clientKeeps, EndsType
  <2> QED BY <1>14, <2>1, <2>2, <2>3 DEF Reader
<1>15. CASE StopReading
  BY <1>2, <1>4, <1>15 DEF StopReading, clientKeeps, EndsType
<1>16. CASE Leave
  BY <1>2, <1>4, <1>16 DEF Leave, clientKeeps, EndsType
<1>17. ASSUME NEW d \in Dirs, Write(d)
       PROVE  Goal
  <2>1. /\ UNCHANGED <<sent, delivered, txCounter, rxCounter, wire, arrived, errno, client, threaded, why, faults>>
        /\ written' = [written EXCEPT ![d] = Room(Len(wire[d]))]
    BY <1>17 DEF Write
  <2>2. Len(wire[d]) \in Nat /\ Cap \in Nat
    BY <1>1, CapAssumption DEF TypeOK
  <2>3. Room(Len(wire[d])) \in Nat
    BY <2>2 DEF Room
  <2>4. /\ written' \in [Dirs -> Nat]
        /\ \A e \in Dirs : /\ arrived[e] <= written'[e]
                           /\ written'[e] <= Pieces * Len(wire[e]) /\ written'[e] <= Cap
    <3>1. /\ written' \in [Dirs -> Nat] /\ written'[d] = Room(Len(wire[d]))
          /\ \A e \in Dirs : e # d => written'[e] = written[e]
      BY <1>2, <2>1, <2>3
    <3>2. /\ arrived[d] <= Room(Len(wire[d]))
          /\ Room(Len(wire[d])) <= Pieces * Len(wire[d]) /\ Room(Len(wire[d])) <= Cap
      <4>1. /\ arrived[d] \in Nat /\ written[d] \in Nat /\ arrived[d] <= written[d]
            /\ written[d] <= Pieces * Len(wire[d]) /\ written[d] <= Cap
        BY <1>2
      <4> QED BY <2>2, <4>1 DEF Room
    <3>3. ASSUME NEW e \in Dirs
          PROVE  /\ arrived[e] <= written'[e]
                 /\ written'[e] <= Pieces * Len(wire[e]) /\ written'[e] <= Cap
      <4>1. CASE e = d
        BY <3>1, <3>2, <4>1
      <4>2. CASE e # d
        BY <1>2, <3>1, <4>2
      <4> QED BY <4>1, <4>2
    <3> QED BY <3>1, <3>3
  <2>5. EndsType'
    BY <1>2, <1>17 DEF Write, InSend, OutOfSend, EndsType
  <2>6. IInv'
    BY <1>2, <2>1, <2>4, <2>5, StreamKept
  <2> QED BY <1>3, <2>1, <2>6
<1>18. ASSUME NEW d \in Dirs, SendFails(d)
       PROVE  Goal
  <2>1. EndsType'
    BY <1>2, <1>18 DEF SendFails, InSend, OutOfSend, EndsType
  <2> QED BY <1>4, <1>18, <2>1 DEF SendFails
<1>19. ASSUME NEW d \in Dirs, Arrive(d)
       PROVE  Goal
  <2>1. /\ UNCHANGED <<sent, delivered, txCounter, rxCounter, wire, written, errno, server, clientVars, why, faults>>
        /\ arrived[d] < written[d] /\ arrived' = [arrived EXCEPT ![d] = @ + 1]
    BY <1>19 DEF Arrive
  <2>2. arrived' \in [Dirs -> Nat] /\ \A e \in Dirs : arrived'[e] <= written[e]
    BY <1>2, <2>1
  <2>3. EndsType'
    BY <1>2, <2>1 DEF EndsType, clientVars
  <2>4. IInv'
    BY <1>2, <2>1, <2>2, <2>3, StreamKept
  <2> QED BY <1>3, <2>1, <2>4
<1>20. ASSUME NEW d \in Dirs, Reset(d)
       PROVE  Goal
  <2>1. PICK w \in arrived[d]..written[d] : written' = [written EXCEPT ![d] = w]
    BY <1>20 DEF Reset
  <2>2. UNCHANGED <<sent, delivered, txCounter, rxCounter, wire, arrived, errno, server, clientVars, why, faults>>
    BY <1>20 DEF Reset
  <2>3. /\ written' \in [Dirs -> Nat]
        /\ \A e \in Dirs : arrived[e] <= written'[e] /\ written'[e] <= written[e]
    BY <1>2, <2>1
  <2>4. \A e \in Dirs : written'[e] <= Pieces * Len(wire[e]) /\ written'[e] <= Cap
    <3> SUFFICES ASSUME NEW e \in Dirs
                 PROVE  written'[e] <= Pieces * Len(wire[e]) /\ written'[e] <= Cap
      OBVIOUS
    <3>1. wire[e] \in Seq(Frame)
      BY <1>1 DEF TypeOK
    <3>2. Len(wire[e]) \in Nat /\ Cap \in Nat
      BY <3>1, CapAssumption
    <3>3. written'[e] \in Nat /\ written[e] \in Nat /\ written'[e] <= written[e]
      BY <1>2, <2>3
    <3>4. written[e] <= Pieces * Len(wire[e]) /\ written[e] <= Cap
      BY <1>2
    <3> QED BY <3>2, <3>3, <3>4
  <2>5. EndsType'
    BY <1>2, <2>2 DEF EndsType, clientVars
  <2>6. IInv'
    BY <2>2, <2>3, <2>4, <2>5, <1>2, StreamKept
  <2> QED BY <1>3, <2>2, <2>6
<1>21. ASSUME NEW d \in Dirs, Fault(d)
       PROVE  Goal
  BY <1>3, <1>21, FaultStep DEF Fault
<1>22. CASE UNCHANGED vars
  BY <1>2, <1>4, <1>22 DEF vars, clientVars, EndsType
<1> QED
  BY <1>8, <1>9, <1>10, <1>11, <1>12, <1>13, <1>14, <1>15, <1>16, <1>17, <1>18, <1>19, <1>20,
     <1>21, <1>22 DEF Next, Quiet

-----------------------------------------------------------------------------
(* What a client is given up for.                                          *)

OversizedCause ==
    /\ Len(delivered[Up]) < Len(sent[Up])
    /\ sent[Up][Len(delivered[Up]) + 1].size = "oversized"

ShortCause ==
    \E n \in 1..Len(delivered[Up]) :
        sent[Up][n].size = "short" /\ \A k \in 1..(n - 1) : sent[Up][k].size = "empty"

\* The engine takes nothing more from a client it gave up, so that the cause remains to be seen.
Cause ==
    faults = 0 =>
        /\ why = "oversized" => server = "gone" /\ OversizedCause
        /\ why = "short" => server = "gone" /\ ShortCause

\* What the engine does with a client that is gone: nothing.
LEMMA GoneStays ==
    ASSUME TypeOK, [Next]_vars, server = "gone"
    PROVE  server' = "gone" /\ delivered'[Up] = delivered[Up]
<1> USE DEF Up, Down, Dirs
<1>1. delivered \in [Dirs -> Seq(Payloads)]
  BY DEF TypeOK
<1>2. CASE RecvPacket
  BY <1>1, <1>2 DEF RecvPacket, Unseal, clientKeeps
<1>3. CASE StartPacket \/ RejectPacket \/ StopReading \/ Leave \/ SendData \/ CutShort
  BY <1>3 DEF StartPacket, RejectPacket, StopReading, Leave, SendData, CutShort, clientKeeps
<1>4. CASE \E d \in Dirs : Write(d) \/ SendFails(d)
  BY <1>4 DEF Write, SendFails, InSend, OutOfSend
<1>5. CASE \E d \in Dirs : Arrive(d) \/ Fault(d) \/ Reset(d)
  BY <1>5 DEF Arrive, Fault, Reset
<1>6. CASE UNCHANGED vars
  BY <1>6 DEF vars
<1>7. ~(Engine \/ OtherCall \/ Ban \/ SendFrame)
  BY DEF Engine, StartPass, NoData, AtEof, TornHeader, Oversized, TornFrame, RecvFrame, ShortSize,
         RejectFrame, OtherCall, Ban, SendFrame
<1> QED BY <1>2, <1>3, <1>4, <1>5, <1>6, <1>7 DEF Next, Reader, Quiet

\* Only two handlers give a client up for what it sent.
LEMMA WhySteps ==
    ASSUME [Next]_vars, why' # why
    PROVE  \/ Oversized /\ why' = "oversized"
           \/ ShortSize /\ why' = "short"
           \/ why' \notin {"oversized", "short"}
<1>1. ~(Reader \/ StopReading \/ Leave \/ SendData \/ CutShort)
  BY DEF Reader, StartPacket, RecvPacket, RejectPacket, StopReading, Leave, SendData, CutShort, clientKeeps
<1>2. ~\E d \in Dirs : Write(d) \/ SendFails(d) \/ Arrive(d) \/ Fault(d) \/ Reset(d)
  BY DEF Write, SendFails, Arrive, Fault, Reset
<1>3. ~(UNCHANGED vars \/ OtherCall \/ SendFrame)
  BY DEF vars, OtherCall, SendFrame
<1>4. CASE Ban
  BY <1>4 DEF Ban, GiveUp
<1>5. CASE Engine
  BY <1>5 DEF Engine, StartPass, NoData, AtEof, TornHeader, Oversized, TornFrame, RecvFrame,
              ShortSize, RejectFrame, GiveUp
<1> QED BY <1>1, <1>2, <1>3, <1>4, <1>5 DEF Next, Quiet

\* What was sealed stays sealed, in its place.
LEMMA SentGrows ==
    ASSUME TypeOK, [Promise!Next]_Promise!chanVars
    PROVE  /\ Len(sent'[Up]) \in Nat /\ Len(sent[Up]) <= Len(sent'[Up])
           /\ \A n \in 1..Len(sent[Up]) : sent'[Up][n] = sent[Up][n]
<1>1. sent \in [Dirs -> Seq(Payloads)] /\ Up \in Dirs /\ Len(sent[Up]) \in Nat
  BY DEF TypeOK, Dirs
<1>2. CASE UNCHANGED sent
  BY <1>1, <1>2
<1>3. ASSUME NEW d \in Dirs, NEW m \in Payloads, Promise!Send(d, m)
      PROVE  /\ Len(sent'[Up]) \in Nat /\ Len(sent[Up]) <= Len(sent'[Up])
             /\ \A n \in 1..Len(sent[Up]) : sent'[Up][n] = sent[Up][n]
  <2>1. sent' = [sent EXCEPT ![d] = Append(@, m)]
    BY <1>3 DEF Promise!Send
  <2>2. /\ \A e \in Dirs : e # d => sent'[e] = sent[e]
        /\ Len(sent[d]) \in Nat /\ Len(sent'[d]) = Len(sent[d]) + 1
        /\ \A n \in 1..Len(sent[d]) : sent'[d][n] = sent[d][n]
    BY <1>1, <2>1, AppendFacts
  <2>3. CASE d = Up
    BY <2>2, <2>3
  <2>4. CASE d # Up
    BY <1>1, <2>2, <2>4
  <2> QED BY <2>3, <2>4
<1> QED BY <1>2, <1>3 DEF Promise!Next, Promise!Deliver, Promise!chanVars

\* A client that is given up was given up for what it sent, or for another reason.
LEMMA CauseStep ==
    ASSUME IInv, Cause, [Next]_vars
    PROVE  Cause'
<1>1. /\ IInv' /\ TypeOK /\ Counted /\ AllGenuine /\ InStep
      /\ [Promise!Next]_Promise!chanVars
  BY NextKeepsIInv DEF IInv
<1>2. /\ Up \in Dirs /\ Len(delivered[Up]) \in Nat /\ Len(sent[Up]) \in Nat
      /\ Len(sent'[Up]) \in Nat /\ Len(sent[Up]) <= Len(sent'[Up])
      /\ \A n \in 1..Len(sent[Up]) : sent'[Up][n] = sent[Up][n]
      /\ Len(delivered[Up]) <= Len(sent[Up])
  BY <1>1, SentGrows DEF TypeOK, Dirs, Counted
<1> SUFFICES ASSUME faults' = 0
             PROVE  /\ why' = "oversized" => server' = "gone" /\ OversizedCause'
                    /\ why' = "short" => server' = "gone" /\ ShortCause'
  BY DEF Cause
<1>3. faults = 0
  <2>1. faults \in Nat
    BY <1>1, BoundAssumption DEF TypeOK
  <2>2. faults' = faults \/ faults' = faults + 1
    BY DEF Next, Engine, StartPass, NoData, AtEof, TornHeader, Oversized, TornFrame, RecvFrame,
           ShortSize, RejectFrame, OtherCall, Ban, SendFrame, engineKeeps, Reader, StartPacket,
           RecvPacket, RejectPacket, StopReading, Leave, SendData, CutShort, clientKeeps, Write,
           SendFails, Arrive, Fault, Reset, Quiet, vars
  <2> QED BY <2>1, <2>2
<1>4. CASE why' = why
  <2>1. ASSUME why = "oversized" PROVE server' = "gone" /\ OversizedCause'
    <3>1. server = "gone" /\ OversizedCause
      BY <1>3, <2>1 DEF Cause
    <3>2. server' = "gone" /\ delivered'[Up] = delivered[Up]
      BY <1>1, <3>1, GoneStays
    <3> QED BY <1>2, <3>1, <3>2 DEF OversizedCause
  <2>2. ASSUME why = "short" PROVE server' = "gone" /\ ShortCause'
    <3>1. server = "gone" /\ ShortCause
      BY <1>3, <2>2 DEF Cause
    <3>2. server' = "gone" /\ delivered'[Up] = delivered[Up]
      BY <1>1, <3>1, GoneStays
    <3>3. PICK n \in 1..Len(delivered[Up]) :
            sent[Up][n].size = "short" /\ \A k \in 1..(n - 1) : sent[Up][k].size = "empty"
      BY <3>1 DEF ShortCause
    <3>4. n \in 1..Len(sent[Up]) /\ \A k \in 1..(n - 1) : k \in 1..Len(sent[Up])
      BY <1>2
    <3>5. sent'[Up][n].size = "short" /\ \A k \in 1..(n - 1) : sent'[Up][k].size = "empty"
      BY <1>2, <3>3, <3>4
    <3> QED BY <3>2, <3>5 DEF ShortCause
  <2> QED BY <1>4, <2>1, <2>2
<1>5. CASE Oversized /\ why' = "oversized"
  <2>1. /\ arrived[Up] >= 2 /\ Head(wire[Up]).payload.size = "oversized"
        /\ server' = "gone" /\ UNCHANGED <<sent, delivered>>
    BY <1>5 DEF Oversized, NextSize, GiveUp, engineKeeps
  <2>2. wire[Up] \in Seq(Frame) /\ Len(wire[Up]) \in Nat /\ 1 \in 1..Len(wire[Up])
    <3>1. /\ wire[Up] \in Seq(Frame) /\ arrived[Up] \in Nat /\ written[Up] \in Nat
          /\ arrived[Up] <= written[Up] /\ written[Up] <= 3 * Len(wire[Up])
      BY <1>1, <1>2 DEF TypeOK
    <3>2. Len(wire[Up]) \in Nat
      BY <3>1
    <3> QED BY <2>1, <3>1, <3>2
  <2>3. wire[Up][1].dir = Up /\ wire[Up][1].counter = rxCounter[Up] + 1 - 1
    BY <1>1, <1>2, <1>3, <2>2 DEF InStep
  <2>4. rxCounter[Up] = Len(delivered[Up])
    BY <1>1, <1>2 DEF Counted
  <2>5. Genuine(wire[Up][1])
    BY <1>1, <1>2, <2>2 DEF AllGenuine
  <2>6. /\ Len(delivered[Up]) + 1 \in 1..Len(sent[Up])
        /\ wire[Up][1].payload = sent[Up][Len(delivered[Up]) + 1]
    BY <1>2, <2>3, <2>4, <2>5 DEF Genuine
  <2>7. Head(wire[Up]) = wire[Up][1]
    BY <2>2
  <2>8. OversizedCause'
    BY <1>2, <2>1, <2>6, <2>7 DEF OversizedCause
  <2> QED BY <1>5, <2>1, <2>8
<1>6. CASE ShortSize /\ why' = "short"
  <2> DEFINE x == Head(wire[Up]).payload
             n == Len(delivered[Up]) + 1
  <2>1. /\ x.size = "short" /\ server' = "gone" /\ UNCHANGED sent
        /\ \A k \in 1..Len(delivered[Up]) : delivered[Up][k].size = "empty"
        /\ delivered' = [delivered EXCEPT ![Up] = Append(@, x)]
    BY <1>6 DEF ShortSize, NextSize, Waiting, Unseal, GiveUp, engineKeeps
  <2>2. x \in Payloads
    <3>1. Take(Up)
      BY <1>6 DEF ShortSize
    <3>2. Head(wire[Up]) \in Frame
      BY <1>1, <1>2, <3>1, TakeFacts
    <3> QED BY <3>2 DEF Frame
  <2> HIDE DEF x
  <2>3. Len(delivered'[Up]) = n /\ delivered'[Up][n] = x
    <3>1. delivered \in [Dirs -> Seq(Payloads)]
      BY <1>1 DEF TypeOK
    <3> QED BY <1>2, <2>1, <2>2, <3>1, AppendFacts
  <2>4. n \in 1..Len(delivered'[Up])
    BY <1>2, <2>3
  <2>5. sent'[Up][n] = x
    BY <1>1, <1>2, <2>3, <2>4 DEF IInv, Counted
  <2>6. \A k \in 1..(n - 1) : sent'[Up][k].size = "empty"
    BY <1>1, <1>2, <2>1 DEF Counted
  <2>7. ShortCause'
    BY <2>1, <2>4, <2>5, <2>6 DEF ShortCause
  <2> QED BY <1>6, <2>1, <2>7
<1> QED BY <1>4, <1>5, <1>6, WhySteps

-----------------------------------------------------------------------------
\* The inductive invariant holds in every state.
THEOREM Invariance == Spec => []IInv
<1>1. IInv /\ [Next]_vars => IInv'
  BY NextKeepsIInv
<1> QED BY InitIInv, <1>1, PTL DEF Spec

\* The counters, the streams and the states of both ends keep their types; in particular no
\* more pieces ever arrive than were written, and no more are written than frames have.
THEOREM TypeCorrect == Spec => []TypeOK
<1>1. IInv => TypeOK
  BY DEF IInv
<1> QED BY Invariance, <1>1, PTL

\* Without a fault of the network the engine refuses a frame only for what its sender put into
\* it: it is longer than the limit, or the first that holds something is no window size.  The
\* counters of the two EncryptedStreams stay in step through torn, cut and blocked frames.
THEOREM RefusedCorrect == Spec => []RefusedForCause
<1>1. Init => Cause
  BY DEF Init, Cause
<1>2. IInv /\ Cause /\ [Next]_vars => Cause'
  BY CauseStep
<1>3. IInv /\ Cause => RefusedForCause
  BY DEF IInv, NeverRejected, Cause, OversizedCause, ShortCause, RefusedForCause
<1> QED BY Invariance, <1>1, <1>2, <1>3, PTL DEF Spec

\* The encrypted transport implements the channel: whatever the network does, each
\* direction delivers the payloads that were sealed, in order, none of them twice.
THEOREM Refinement == Spec => ImplementsChannel
<1>1. Init => Promise!Init
  BY DEF Init, Promise!Init
<1>2. IInv /\ [Next]_vars => [Promise!Next]_Promise!chanVars
  BY NextKeepsIInv
<1> QED BY Invariance, <1>1, <1>2, PTL DEF Spec, ImplementsChannel, Promise!Spec

=============================================================================
