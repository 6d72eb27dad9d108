---------------------------- MODULE WorldProofs -----------------------------
(***************************************************************************)
(* What holds of sizes and drawing for every window a client may announce: *)
(* the frame fits its 16-bit length, the terminal's buffer has a place for *)
(* each character, clipping stays on the edge it cuts, and the cube world  *)
(* draws inside the engine's buffer; and what its pictures and polygons    *)
(* cover, for all of them: clipping leaves a polygon, no pixel of it is    *)
(* lost, it has no seams, the nearer one is seen in whatever order a mesh  *)
(* is drawn; text is in its place, and an overlay is cut at the edges.     *)
(***************************************************************************)
EXTENDS MCEcsWorld, NaturalsInduction, WellFoundedInduction, FiniteSetTheorems, SequenceTheorems, TLAPS

(* Sizes.                                                                  *)

LEMMA ClampedIsSmall ==
    ASSUME NEW n \in Unsigned16, NEW default \in 1..MaxSize
    PROVE  Clamped(n, default) \in 1..MaxSize
BY SMT DEF Clamped, MaxSize, Unsigned16

LEMMA BufferIsSmall ==
    ASSUME NEW n \in Unsigned16
    PROVE  BufferWidth(n) \in 1..MaxSize /\ BufferHeight(n) \in 1..MaxSize
<1>1. 80 \in 1..MaxSize /\ 24 \in 1..MaxSize
  BY SMT DEF MaxSize
<1>2. Clamped(n, 80) \in 1..MaxSize /\ Clamped(n, 24) \in 1..MaxSize
  BY <1>1, ClampedIsSmall
<1> QED
  BY <1>2 DEF BufferWidth, BufferHeight

LEMMA ProductIsMonotone ==
    ASSUME NEW a \in Nat, NEW b \in Nat, NEW c \in Nat, a <= b
    PROVE  a * c <= b * c /\ a * c \in Nat /\ b * c \in Nat
<1>1. (b - a) * c >= 0 /\ (b - a) * c = b * c - a * c
  OBVIOUS
<1> QED
  BY <1>1

IsArea(n) == n \in Nat /\ n <= 64516

LEMMA AreaIsSmall ==
    ASSUME NEW w \in 1..MaxSize, NEW h \in 1..MaxSize
    PROVE  IsArea(w * h)
<1>1. w \in Nat /\ h \in Nat /\ MaxSize \in Nat /\ w <= MaxSize /\ h <= MaxSize
  BY SMT DEF MaxSize
<1>2. w * h <= MaxSize * h /\ w * h \in Nat
  BY <1>1, ProductIsMonotone, Zenon
<1>3. IsArea(MaxSize * h)
  BY <1>1, SMT DEF MaxSize, IsArea
<1>4. ASSUME NEW a \in Nat, NEW b, IsArea(b), a <= b
      PROVE  IsArea(a)
  BY <1>4, SMT DEF IsArea
<1> QED
  BY <1>2, <1>3, <1>4, Zenon

\* The length of a sealed frame fits the two bytes that carry it, whatever the client announced
\* and however badly its picture compresses.
THEOREM FrameFits ==
    ASSUME NEW w \in Unsigned16, NEW h \in Unsigned16
    PROVE  PayloadBound(BufferWidth(w), BufferHeight(h)) \in Unsigned16
<1>1. IsArea(BufferWidth(w) * BufferHeight(h))
  BY BufferIsSmall, AreaIsSmall, Zenon
<1>2. ASSUME NEW n, IsArea(n)
      PROVE  6 + compressBound(n) \in Unsigned16
  <2>1. n \div 4096 \in 0..15 /\ n \div 16384 \in 0..3 /\ n \div 33554432 = 0
    BY <1>2, SMT DEF IsArea
  <2>2. 6 + compressBound(n) \in Nat /\ 6 + compressBound(n) <= MaxUnsigned16
    BY <1>2, <2>1, SMT DEF IsArea, compressBound, MaxUnsigned16
  <2>3. ASSUME NEW m \in Nat, m <= MaxUnsigned16
        PROVE  m \in Unsigned16
    BY <2>3 DEF Unsigned16
  <2> QED
    BY <2>2, <2>3, Zenon
<1> QED
  BY <1>1, <1>2, Zenon DEF PayloadBound

\* The terminal's buffer: every character and every newline has a place of its own behind the
\* home sequence and inside the buffer.
THEOREM CellsAreApart ==
    ASSUME NEW w \in 1..MaxSize, NEW h \in 1..MaxSize,
           NEW x \in 0..w - 1, NEW y \in 0..h - 1, NEW u \in 0..w - 1, NEW v \in 0..h - 1
    PROVE  /\ CellAt(w, x, y) \in HomeLength..RequiredSize(w, h) - 1
           /\ CellAt(w, x, y) = CellAt(w, u, v) => x = u /\ y = v
           /\ CellAt(w, x, y) # NewlineAt(w, v)
           /\ v < h - 1 => NewlineAt(w, v) \in HomeLength..RequiredSize(w, h) - 1
<1> DEFINE Row(n) == n * (w + 1)
<1>1. ASSUME NEW m \in 0..h - 1, NEW n \in 0..h - 1, m < n
      PROVE  Row(m) + w + 1 <= Row(n)
  <2>1. (m + 1) * (w + 1) <= n * (w + 1)
    BY <1>1, ProductIsMonotone DEF MaxSize
  <2>2. (m + 1) * (w + 1) = Row(m) + w + 1
    BY DEF MaxSize
  <2> QED
    BY <2>1, <2>2
<1>2. ASSUME NEW n \in 0..h - 1
      PROVE  Row(n) \in Nat /\ Row(n) <= Row(h - 1)
  BY ProductIsMonotone DEF MaxSize
<1>3. Row(h - 1) + w = w * h + h - 1
  BY DEF MaxSize
<1>4. Row(y) \in Nat /\ Row(v) \in Nat
  BY <1>2
<1> HIDE DEF Row
<1>5. CellAt(w, x, y) = 3 + Row(y) + x /\ CellAt(w, u, v) = 3 + Row(v) + u /\ NewlineAt(w, v) = 3 + Row(v) + w
  BY DEF CellAt, NewlineAt, HomeLength, Row
<1>6. RequiredSize(w, h) = 3 + Row(h - 1) + w
  BY <1>2, <1>3 DEF RequiredSize, HomeLength, MaxSize
<1>7. CASE y < v
  BY <1>1, <1>2, <1>4, <1>5, <1>6, <1>7 DEF HomeLength, MaxSize
<1>8. CASE v < y
  BY <1>1, <1>2, <1>4, <1>5, <1>6, <1>8 DEF HomeLength, MaxSize
<1>9. CASE v = y
  BY <1>1, <1>2, <1>4, <1>5, <1>6, <1>9 DEF HomeLength, MaxSize
<1> QED
  BY <1>7, <1>8, <1>9

\* The point where clipping cuts an edge lies on that edge, from whichever side it is cut, and
\* no edge that is cut divides by zero.
THEOREM CrossingIsOnEdge ==
    ASSUME NEW a \in Int, NEW b \in Int, NEW plane \in Int, (a >= plane) # (b >= plane)
    PROVE  \/ Denominator(a, b) > 0 /\ Numerator(a, plane) \in 0..Denominator(a, b)
           \/ Denominator(a, b) < 0 /\ Numerator(a, plane) \in Denominator(a, b)..0
BY DEF Denominator, Numerator

-----------------------------------------------------------------------------
(* Polygons.  edgeFunction is twice the signed area of a triangle; what    *)
(* follows are the identities of areas that the fan of a polygon rests on. *)

Corner == [x : Int, y : Int]

LEMMA EdgeOfCorners ==
    ASSUME NEW a \in Corner, NEW b \in Corner, NEW c \in Corner
    PROVE  edgeFunction(a, b, c) \in Int
BY DEF Corner, edgeFunction

\* The corners of a triangle may be named from any of them, and seen from behind the area is
\* negative.
LEMMA Turned ==
    ASSUME NEW a \in Corner, NEW b \in Corner, NEW c \in Corner
    PROVE  /\ edgeFunction(b, c, a) = edgeFunction(a, b, c)
           /\ edgeFunction(b, a, c) = -edgeFunction(a, b, c)
           /\ edgeFunction(a, b, a) = 0 /\ edgeFunction(a, b, b) = 0
BY SMTT(30) DEF Corner, edgeFunction

\* The triangles that a point makes with the edges of a triangle add up to it.
LEMMA AreasAddUp ==
    ASSUME NEW a \in Corner, NEW b \in Corner, NEW c \in Corner, NEW p \in Corner
    PROVE  edgeFunction(a, b, p) + edgeFunction(b, c, p) + edgeFunction(c, a, p) = edgeFunction(a, b, c)
BY SMTT(30) DEF Corner, edgeFunction

\* A point is the average of the corners, each weighted with the triangle opposite to it.
LEMMA WeightedCorners ==
    ASSUME NEW a \in Corner, NEW b \in Corner, NEW c \in Corner, NEW p \in Corner
    PROVE  /\ edgeFunction(b, c, p) * (a.x - p.x) + edgeFunction(c, a, p) * (b.x - p.x)
                 + edgeFunction(a, b, p) * (c.x - p.x) = 0
           /\ edgeFunction(b, c, p) * (a.y - p.y) + edgeFunction(c, a, p) * (b.y - p.y)
                 + edgeFunction(a, b, p) * (c.y - p.y) = 0
<1> a.x \in Int /\ a.y \in Int /\ b.x \in Int /\ b.y \in Int /\ c.x \in Int /\ c.y \in Int /\ p.x \in Int /\ p.y \in Int
  BY DEF Corner
<1>1. edgeFunction(b, c, p) * (a.x - p.x) + edgeFunction(c, a, p) * (b.x - p.x)
          + edgeFunction(a, b, p) * (c.x - p.x) = 0
  BY SMTT(30) DEF edgeFunction
<1>2. edgeFunction(b, c, p) * (a.y - p.y) + edgeFunction(c, a, p) * (b.y - p.y)
          + edgeFunction(a, b, p) * (c.y - p.y) = 0
  BY SMTT(30) DEF edgeFunction
<1> QED
  BY <1>1, <1>2

Area(ax, ay, bx, by, cx, cy) == (cx - ax) * (by - ay) - (cy - ay) * (bx - ax)

\* So it is for any other edge: the area it makes with a point is the weighted sum of the areas
\* it makes with the corners.
LEMMA WeightedAreas ==
    ASSUME NEW a \in Corner, NEW b \in Corner, NEW c \in Corner, NEW d \in Corner, NEW p \in Corner
    PROVE  /\ edgeFunction(a, b, c) * edgeFunction(c, d, p) =
                  edgeFunction(b, c, p) * edgeFunction(c, d, a) + edgeFunction(c, a, p) * edgeFunction(c, d, b)
           /\ edgeFunction(a, b, c) * edgeFunction(d, c, p) =
                  edgeFunction(b, c, p) * edgeFunction(d, c, a) + edgeFunction(c, a, p) * edgeFunction(d, c, b)
<1> DEFINE ax == a.x  ay == a.y  bx == b.x  by == b.y  cx == c.x  cy == c.y  dx == d.x  dy == d.y  px == p.x  py == p.y
<1>1. /\ ax \in Int /\ ay \in Int /\ bx \in Int /\ by \in Int /\ cx \in Int /\ cy \in Int
      /\ dx \in Int /\ dy \in Int /\ px \in Int /\ py \in Int
  BY DEF Corner
<1>2. /\ edgeFunction(a, b, c) = Area(ax, ay, bx, by, cx, cy)
      /\ edgeFunction(c, d, p) = Area(cx, cy, dx, dy, px, py)
      /\ edgeFunction(b, c, p) = Area(bx, by, cx, cy, px, py)
      /\ edgeFunction(c, d, a) = Area(cx, cy, dx, dy, ax, ay)
      /\ edgeFunction(c, a, p) = Area(cx, cy, ax, ay, px, py)
      /\ edgeFunction(c, d, b) = Area(cx, cy, dx, dy, bx, by)
      /\ edgeFunction(d, c, p) = Area(dx, dy, cx, cy, px, py)
      /\ edgeFunction(d, c, a) = Area(dx, dy, cx, cy, ax, ay)
      /\ edgeFunction(d, c, b) = Area(dx, dy, cx, cy, bx, by)
  BY Zenon DEF edgeFunction, Area
<1> HIDE DEF ax, ay, bx, by, cx, cy, dx, dy, px, py
<1>3. Area(ax, ay, bx, by, cx, cy) * Area(cx, cy, dx, dy, px, py) =
          Area(bx, by, cx, cy, px, py) * Area(cx, cy, dx, dy, ax, ay)
              + Area(cx, cy, ax, ay, px, py) * Area(cx, cy, dx, dy, bx, by)
  BY <1>1, SMTT(60) DEF Area
<1>4. Area(ax, ay, bx, by, cx, cy) * Area(dx, dy, cx, cy, px, py) =
          Area(bx, by, cx, cy, px, py) * Area(dx, dy, cx, cy, ax, ay)
              + Area(cx, cy, ax, ay, px, py) * Area(dx, dy, cx, cy, bx, by)
  BY <1>1, SMTT(60) DEF Area
<1> QED
  BY <1>2, <1>3, <1>4, Zenon

LEMMA SignOfAverage ==
    ASSUME NEW area \in Int, area > 0, NEW v \in Int, NEW u1 \in Int, NEW u2 \in Int, NEW z1 \in Int, NEW z2 \in Int,
           u1 >= 0, u2 >= 0, z1 >= 0, z2 >= 0, area * v = u1 * z1 + u2 * z2
    PROVE  v >= 0
<1>1. u1 * z1 >= 0 /\ u2 * z2 >= 0 /\ u1 * z1 \in Int /\ u2 * z2 \in Int
  OBVIOUS
<1>2. v < 0 => area * v < 0
  BY SMT
<1> QED
  BY <1>1, <1>2

\* Of three differences whose weighted sum is zero, not all are positive and not all negative.
LEMMA SomeOnEachSide ==
    ASSUME NEW u1 \in Nat, NEW u2 \in Nat, NEW u3 \in Nat, u1 + u2 + u3 > 0,
           NEW z1 \in Int, NEW z2 \in Int, NEW z3 \in Int, u1 * z1 + u2 * z2 + u3 * z3 = 0
    PROVE  (z1 <= 0 \/ z2 <= 0 \/ z3 <= 0) /\ (z1 >= 0 \/ z2 >= 0 \/ z3 >= 0)
<1>1. ASSUME NEW u \in Nat, NEW z \in Int
      PROVE  u * z \in Int /\ (z > 0 => u * z >= u) /\ (z < 0 => u * z <= -u)
  BY SMT
<1>2. \A u \in Nat, z \in Int : u * z \in Int /\ (z > 0 => u * z >= u) /\ (z < 0 => u * z <= -u)
  BY <1>1
<1> DEFINE a == u1 * z1  b == u2 * z2  c == u3 * z3
<1>3. a \in Int /\ b \in Int /\ c \in Int /\ a + b + c = 0
  BY <1>2
<1>4. (z1 > 0 => a >= u1) /\ (z2 > 0 => b >= u2) /\ (z3 > 0 => c >= u3)
  BY <1>2
<1>5. (z1 < 0 => a <= -u1) /\ (z2 < 0 => b <= -u2) /\ (z3 < 0 => c <= -u3)
  BY <1>2
<1> HIDE DEF a, b, c
<1> QED
  BY <1>3, <1>4, <1>5

LEMMA LargestOf ==
    ASSUME NEW S \in SUBSET Int, NEW m \in S, \A y \in S : m >= y
    PROVE  Max(S) \in S /\ \A y \in S : Max(S) >= y
BY DEF Max

LEMMA SmallestOf ==
    ASSUME NEW S \in SUBSET Int, NEW m \in S, \A y \in S : m <= y
    PROVE  Min(S) \in S /\ \A y \in S : Min(S) <= y
BY DEF Min

LEMMA PairOf ==
    ASSUME NEW a \in Int, NEW b \in Int
    PROVE  /\ Max({a, b}) \in Int /\ Min({a, b}) \in Int
           /\ Max({a, b}) = a \/ Max({a, b}) = b
           /\ Max({a, b}) >= a /\ Max({a, b}) >= b
           /\ Min({a, b}) = a \/ Min({a, b}) = b
           /\ Min({a, b}) <= a /\ Min({a, b}) <= b
<1> DEFINE S == {a, b}
<1>1. (\E m \in S : \A y \in S : m >= y) /\ (\E m \in S : \A y \in S : m <= y) /\ S \in SUBSET Int
  OBVIOUS
<1> HIDE DEF S
<1>2. /\ Max(S) \in S /\ \A y \in S : Max(S) >= y
      /\ Min(S) \in S /\ \A y \in S : Min(S) <= y
  BY <1>1, LargestOf, SmallestOf
<1> DEFINE high == Max(S)  low == Min(S)
<1> HIDE DEF high, low
<1>3. /\ high \in S /\ \A y \in S : high >= y
      /\ low \in S /\ \A y \in S : low <= y
  BY <1>2 DEF high, low
<1>4. /\ high \in Int /\ low \in Int
      /\ high = a \/ high = b
      /\ high >= a /\ high >= b
      /\ low = a \/ low = b
      /\ low <= a /\ low <= b
  BY <1>3 DEF S
<1> QED
  BY <1>4, Zenon DEF high, low, S

LEMMA TripleOf ==
    ASSUME NEW a \in Int, NEW b \in Int, NEW c \in Int
    PROVE  /\ Max({a, b, c}) \in Int /\ Min({a, b, c}) \in Int
           /\ Max({a, b, c}) >= a /\ Max({a, b, c}) >= b /\ Max({a, b, c}) >= c
           /\ Min({a, b, c}) <= a /\ Min({a, b, c}) <= b /\ Min({a, b, c}) <= c
<1> DEFINE S == {a, b, c}
<1>1. (\E m \in S : \A y \in S : m >= y) /\ (\E m \in S : \A y \in S : m <= y) /\ S \in SUBSET Int
  OBVIOUS
<1> HIDE DEF S
<1>2. /\ Max(S) \in S /\ \A y \in S : Max(S) >= y
      /\ Min(S) \in S /\ \A y \in S : Min(S) <= y
  BY <1>1, LargestOf, SmallestOf
<1> DEFINE high == Max(S)  low == Min(S)
<1> HIDE DEF high, low
<1>3. /\ high \in S /\ \A y \in S : high >= y
      /\ low \in S /\ \A y \in S : low <= y
  BY <1>2 DEF high, low
<1>4. /\ high \in Int /\ low \in Int
      /\ high >= a /\ high >= b /\ high >= c
      /\ low <= a /\ low <= b /\ low <= c
  BY <1>3 DEF S
<1> QED
  BY <1>4, Zenon DEF high, low, S

LEMMA TruncatedIsPixel ==
    ASSUME NEW v \in Int, NEW k \in Nat
    PROVE  /\ Truncated(v) \in Int
           /\ v <= 2 * k => Truncated(v) <= k
           /\ v >= 2 * k => Truncated(v) >= k
BY SMT DEF Truncated

\* One axis of the box: a pixel of the target between the least and the greatest of the corners.
LEMMA AxisOfBox ==
    ASSUME NEW a \in Int, NEW b \in Int, NEW c \in Int, NEW n \in Int, NEW k \in 0..n - 1,
           a <= 2 * k \/ b <= 2 * k \/ c <= 2 * k, a >= 2 * k \/ b >= 2 * k \/ c >= 2 * k
    PROVE  k \in Max({0, Truncated(Min({a, b, c}))})..Min({n - 1, Truncated(Max({a, b, c})) + 1})
<1> DEFINE low == Min({a, b, c})  high == Max({a, b, c})
<1>1. /\ low \in Int /\ high \in Int
      /\ high >= a /\ high >= b /\ high >= c /\ low <= a /\ low <= b /\ low <= c
  BY TripleOf, Zenon
<1> HIDE DEF low, high
<1> DEFINE first == Truncated(low)  last == Truncated(high) + 1
<1>2. first \in Int /\ last \in Int /\ first <= k /\ k <= last
  <2>1. low <= 2 * k /\ high >= 2 * k /\ k \in Nat
    BY <1>1
  <2> QED
    BY <1>1, <2>1, TruncatedIsPixel
<1> HIDE DEF first, last
<1> DEFINE from == Max({0, first})  to == Min({n - 1, last})
<1>3. from \in Int /\ to \in Int /\ (from = 0 \/ from = first) /\ (to = n - 1 \/ to = last)
  <2>1. 0 \in Int /\ n - 1 \in Int
    OBVIOUS
  <2> QED
    BY <1>2, <2>1, PairOf, Zenon
<1> HIDE DEF from, to
<1>4. k \in from..to
  BY <1>2, <1>3
<1> QED
  BY <1>4, Zenon DEF from, to, first, last, low, high

LEMMA AxisInTarget ==
    ASSUME NEW v \in Int, NEW u \in Int, NEW n \in Int, NEW k \in Max({0, v})..Min({n - 1, u})
    PROVE  k \in 0..n - 1
<1> DEFINE from == Max({0, v})  to == Min({n - 1, u})
<1>1. from \in Int /\ to \in Int /\ from >= 0 /\ to <= n - 1
  <2>1. 0 \in Int /\ n - 1 \in Int
    OBVIOUS
  <2> QED
    BY <2>1, PairOf, Zenon
<1>2. k \in from..to
  OBVIOUS
<1> HIDE DEF from, to
<1> QED
  BY <1>1, <1>2

\* The box loses no pixel: the fragments of a triangle that faces the viewer are the pixels of
\* the target that it covers, wherever its corners are and however large the target is.
THEOREM BoxLosesNothing ==
    ASSUME NEW a \in Corner, NEW b \in Corner, NEW c \in Corner, NEW w \in Int, NEW h \in Int,
           FrontFacing(<<a, b, c>>)
    PROVE  Fragments(<<a, b, c>>, w, h) =
               {k \in (0..w - 1) \X (0..h - 1) : Covers(<<a, b, c>>, Pixel(k[1], k[2]))}
<1> DEFINE t == <<a, b, c>>
<1>1. t[1] = a /\ t[2] = b /\ t[3] = c
  OBVIOUS
<1>2. a.x \in Int /\ a.y \in Int /\ b.x \in Int /\ b.y \in Int /\ c.x \in Int /\ c.y \in Int
  BY DEF Corner
<1> DEFINE Columns == Max({0, Truncated(Min({a.x, b.x, c.x}))})..Min({w - 1, Truncated(Max({a.x, b.x, c.x})) + 1})
           Rows == Max({0, Truncated(Min({a.y, b.y, c.y}))})..Min({h - 1, Truncated(Max({a.y, b.y, c.y})) + 1})
<1>3. Box(t, w, h) = Columns \X Rows
  BY <1>1, Zenon DEF Box
<1>4. Columns \subseteq 0..w - 1 /\ Rows \subseteq 0..h - 1
  <2>1. ASSUME NEW i \in Int, NEW j \in Int, NEW l \in Int
        PROVE  Truncated(Min({i, j, l})) \in Int /\ Truncated(Max({i, j, l})) + 1 \in Int
    <3>1. Min({i, j, l}) \in Int /\ Max({i, j, l}) \in Int
      BY TripleOf, Zenon
    <3> QED
      BY <3>1, TruncatedIsPixel
  <2> QED
    BY <1>2, <2>1, AxisInTarget
<1>5. ASSUME NEW k \in (0..w - 1) \X (0..h - 1), Covers(t, Pixel(k[1], k[2]))
      PROVE  k[1] \in Columns /\ k[2] \in Rows
  <2> DEFINE p == Pixel(k[1], k[2])
  <2>1. k[1] \in 0..w - 1 /\ k[2] \in 0..h - 1
    OBVIOUS
  <2>2. p \in Corner /\ p.x = 2 * k[1] /\ p.y = 2 * k[2]
    BY <2>1 DEF Pixel, Corner
  <2> HIDE DEF p
  <2> DEFINE u1 == edgeFunction(b, c, p)  u2 == edgeFunction(c, a, p)  u3 == edgeFunction(a, b, p)
  <2>3. u1 \in Int /\ u2 \in Int /\ u3 \in Int /\ edgeFunction(a, b, c) \in Int
    BY <2>2, EdgeOfCorners
  <2>4. u1 >= 0 /\ u2 >= 0 /\ u3 >= 0 /\ edgeFunction(a, b, c) > 0
    BY <1>1, <1>5, Zenon DEF Covers, FrontFacing, p
  <2>5. u3 + u1 + u2 = edgeFunction(a, b, c)
    BY <2>2, AreasAddUp
  <2>6. /\ u1 * (a.x - p.x) + u2 * (b.x - p.x) + u3 * (c.x - p.x) = 0
        /\ u1 * (a.y - p.y) + u2 * (b.y - p.y) + u3 * (c.y - p.y) = 0
    BY <2>2, WeightedCorners
  <2> HIDE DEF u1, u2, u3
  <2>7. u1 \in Nat /\ u2 \in Nat /\ u3 \in Nat /\ u1 + u2 + u3 > 0
    BY <2>3, <2>4, <2>5
  <2>8. p.x \in Int /\ p.y \in Int
    BY <2>1, <2>2
  <2>9. /\ a.x - p.x <= 0 \/ b.x - p.x <= 0 \/ c.x - p.x <= 0
        /\ a.x - p.x >= 0 \/ b.x - p.x >= 0 \/ c.x - p.x >= 0
    <3>1. a.x - p.x \in Int /\ b.x - p.x \in Int /\ c.x - p.x \in Int
      BY <1>2, <2>8
    <3> QED
      BY <2>6, <2>7, <3>1, SomeOnEachSide
  <2>10. /\ a.y - p.y <= 0 \/ b.y - p.y <= 0 \/ c.y - p.y <= 0
         /\ a.y - p.y >= 0 \/ b.y - p.y >= 0 \/ c.y - p.y >= 0
    <3>1. a.y - p.y \in Int /\ b.y - p.y \in Int /\ c.y - p.y \in Int
      BY <1>2, <2>8
    <3> QED
      BY <2>6, <2>7, <3>1, SomeOnEachSide
  <2>11. k[1] \in Columns
    <3>1. /\ a.x <= 2 * k[1] \/ b.x <= 2 * k[1] \/ c.x <= 2 * k[1]
          /\ a.x >= 2 * k[1] \/ b.x >= 2 * k[1] \/ c.x >= 2 * k[1]
      BY <1>2, <2>1, <2>2, <2>9
    <3> QED
      BY <1>2, <2>1, <3>1, AxisOfBox
  <2>12. k[2] \in Rows
    <3>1. /\ a.y <= 2 * k[2] \/ b.y <= 2 * k[2] \/ c.y <= 2 * k[2]
          /\ a.y >= 2 * k[2] \/ b.y >= 2 * k[2] \/ c.y >= 2 * k[2]
      BY <1>2, <2>1, <2>2, <2>10
    <3> QED
      BY <1>2, <2>1, <3>1, AxisOfBox
  <2> QED
    BY <2>11, <2>12
<1> HIDE DEF Columns, Rows, t
<1>6. Fragments(t, w, h) = {k \in Columns \X Rows : Covers(t, Pixel(k[1], k[2]))}
  BY <1>3, Zenon DEF Fragments, t
<1>7. Fragments(t, w, h) = {k \in (0..w - 1) \X (0..h - 1) : Covers(t, Pixel(k[1], k[2]))}
  BY <1>4, <1>5, <1>6
<1> QED
  BY <1>7 DEF t

\* Of a convex quadrilateral, a pixel is inside exactly when one of the fan's two triangles
\* covers it.
LEMMA FanCovers ==
    ASSUME NEW a \in Corner, NEW b \in Corner, NEW c \in Corner, NEW d \in Corner, NEW p \in Corner,
           edgeFunction(a, b, c) > 0, edgeFunction(b, c, d) > 0, edgeFunction(c, d, a) > 0, edgeFunction(d, a, b) > 0
    PROVE  (Covers(<<a, b, c>>, p) \/ Covers(<<a, c, d>>, p)) <=>
               /\ edgeFunction(a, b, p) >= 0 /\ edgeFunction(b, c, p) >= 0
               /\ edgeFunction(c, d, p) >= 0 /\ edgeFunction(d, a, p) >= 0
<1> DEFINE ab == edgeFunction(a, b, p)  bc == edgeFunction(b, c, p)  cd == edgeFunction(c, d, p)
           da == edgeFunction(d, a, p)  ac == edgeFunction(a, c, p)
           A == edgeFunction(a, b, c)  B == edgeFunction(b, c, d)  C == edgeFunction(c, d, a)  D == edgeFunction(d, a, b)
<1>1. /\ ab \in Int /\ bc \in Int /\ cd \in Int /\ da \in Int /\ ac \in Int
      /\ A \in Int /\ B \in Int /\ C \in Int /\ D \in Int
      /\ A > 0 /\ B > 0 /\ C > 0 /\ D > 0
  BY EdgeOfCorners
<1>2. edgeFunction(c, a, p) = -ac
  BY Turned
<1>3. /\ Covers(<<a, b, c>>, p) <=> bc >= 0 /\ -ac >= 0 /\ ab >= 0
      /\ Covers(<<a, c, d>>, p) <=> cd >= 0 /\ da >= 0 /\ ac >= 0
  BY <1>2 DEF Covers
<1>4. /\ edgeFunction(c, d, b) = B /\ edgeFunction(d, a, c) = C /\ edgeFunction(a, b, d) = D
      /\ edgeFunction(b, c, a) = A /\ edgeFunction(c, a, b) = A /\ edgeFunction(a, c, d) = C
  BY Turned
\* The edges that the first triangle does not have.
<1>5. A * cd = bc * C + (-ac) * B
  BY <1>2, <1>4, WeightedAreas
<1>6. A * da = (-ac) * D + ab * C
  <2>1. edgeFunction(b, c, a) * edgeFunction(d, a, p) =
            edgeFunction(c, a, p) * edgeFunction(d, a, b) + edgeFunction(a, b, p) * edgeFunction(d, a, c)
    BY WeightedAreas
  <2> QED
    BY <1>2, <1>4, <2>1
\* The edges that the second one does not have.
<1>7. C * ab = da * A + ac * D
  <2>1. edgeFunction(c, d, a) * edgeFunction(a, b, p) =
            edgeFunction(d, a, p) * edgeFunction(a, b, c) + edgeFunction(a, c, p) * edgeFunction(a, b, d)
    BY WeightedAreas
  <2> QED
    BY <1>4, <2>1
<1>8. C * bc = ac * B + cd * A
  <2>1. edgeFunction(d, a, c) * edgeFunction(b, c, p) =
            edgeFunction(a, c, p) * edgeFunction(b, c, d) + edgeFunction(c, d, p) * edgeFunction(b, c, a)
    BY WeightedAreas
  <2> QED
    BY <1>4, <2>1
<1> HIDE DEF ab, bc, cd, da, ac, A, B, C, D
<1>9. ASSUME bc >= 0, -ac >= 0, ab >= 0
      PROVE  cd >= 0 /\ da >= 0
  <2>1. -ac \in Int
    BY <1>1
  <2>2. cd >= 0
    BY <1>1, <1>5, <1>9, <2>1, SignOfAverage
  <2>3. da >= 0
    BY <1>1, <1>6, <1>9, <2>1, SignOfAverage
  <2> QED
    BY <2>2, <2>3
<1>10. ASSUME cd >= 0, da >= 0, ac >= 0
       PROVE  ab >= 0 /\ bc >= 0
  <2>1. ab >= 0
    BY <1>1, <1>7, <1>10, SignOfAverage
  <2>2. bc >= 0
    BY <1>1, <1>8, <1>10, SignOfAverage
  <2> QED
    BY <2>1, <2>2
<1>11. (Covers(<<a, b, c>>, p) \/ Covers(<<a, c, d>>, p)) <=> ab >= 0 /\ bc >= 0 /\ cd >= 0 /\ da >= 0
  <2>1. -ac >= 0 \/ ac >= 0
    BY <1>1
  <2> QED
    BY <1>3, <1>9, <1>10, <2>1
<1> QED
  BY <1>11, Zenon DEF ab, bc, cd, da

\* A quadrilateral, which is what clipping leaves of a triangle with two corners in front of
\* the plane, is drawn without a seam between its two triangles and without a pixel too many,
\* for all corners and targets: rasterizeTriangle() draws the pixels inside it and no others.
THEOREM FanIsSeamless ==
    ASSUME NEW a \in Corner, NEW b \in Corner, NEW c \in Corner, NEW d \in Corner, NEW w \in Int, NEW h \in Int,
           Convex(<<a, b, c, d>>)
    PROVE  Seamless(<<a, b, c, d>>, w, h)
<1> DEFINE q == <<a, b, c, d>>  Pixels == (0..w - 1) \X (0..h - 1)
<1>1. /\ q[1] = a /\ q[2] = b /\ q[3] = c /\ q[4] = d
      /\ (1 % 4) + 1 = 2 /\ (2 % 4) + 1 = 3 /\ (3 % 4) + 1 = 4 /\ (4 % 4) + 1 = 1
      /\ ((1 + 1) % 4) + 1 = 3 /\ ((2 + 1) % 4) + 1 = 4 /\ ((3 + 1) % 4) + 1 = 1 /\ ((4 + 1) % 4) + 1 = 2
  OBVIOUS
<1>2. /\ edgeFunction(a, b, c) > 0 /\ edgeFunction(b, c, d) > 0
      /\ edgeFunction(c, d, a) > 0 /\ edgeFunction(d, a, b) > 0
  <2>1. \A k \in 1..4 : TurnsRight(q[k], q[(k % 4) + 1], q[((k + 1) % 4) + 1])
    BY Zenon DEF Convex
  <2>2. 1 \in 1..4 /\ 2 \in 1..4 /\ 3 \in 1..4 /\ 4 \in 1..4
    OBVIOUS
  <2>3. TurnsRight(a, b, c) /\ TurnsRight(b, c, d) /\ TurnsRight(c, d, a) /\ TurnsRight(d, a, b)
    <3> HIDE DEF q
    <3>1. /\ TurnsRight(q[1], q[2], q[3]) /\ TurnsRight(q[2], q[3], q[4])
          /\ TurnsRight(q[3], q[4], q[1]) /\ TurnsRight(q[4], q[1], q[2])
      BY <1>1, <2>1, <2>2
    <3> QED
      BY <1>1, <3>1, Zenon
  <2> QED
    BY <2>3, Zenon DEF TurnsRight
<1>3. ASSUME NEW p
      PROVE  InsideOf(q, p) <=>
                 /\ edgeFunction(a, b, p) >= 0 /\ edgeFunction(b, c, p) >= 0
                 /\ edgeFunction(c, d, p) >= 0 /\ edgeFunction(d, a, p) >= 0
  <2> DEFINE OnSide(k) == edgeFunction(q[k], q[(k % 4) + 1], p) >= 0
  <2>1. /\ OnSide(1) <=> edgeFunction(a, b, p) >= 0
        /\ OnSide(2) <=> edgeFunction(b, c, p) >= 0
        /\ OnSide(3) <=> edgeFunction(c, d, p) >= 0
        /\ OnSide(4) <=> edgeFunction(d, a, p) >= 0
    <3> HIDE DEF q
    <3> QED
      BY <1>1, Zenon
  <2>2. InsideOf(q, p) <=> \A k \in 1..4 : OnSide(k)
    BY Zenon DEF InsideOf
  <2> HIDE DEF OnSide
  <2>3. (\A k \in 1..4 : OnSide(k)) <=> OnSide(1) /\ OnSide(2) /\ OnSide(3) /\ OnSide(4)
    <3>1. \A k \in 1..4 : k = 1 \/ k = 2 \/ k = 3 \/ k = 4
      OBVIOUS
    <3>2. 1 \in 1..4 /\ 2 \in 1..4 /\ 3 \in 1..4 /\ 4 \in 1..4
      OBVIOUS
    <3> QED
      BY <3>1, <3>2, Zenon
  <2> QED
    BY <2>1, <2>2, <2>3, Zenon
<1>4. Fan(q) = <<<<a, b, c>>, <<a, c, d>>>>
  <2>1. Len(q) = 4
    OBVIOUS
  <2>2. Fan(q) = <<<<q[1], q[2], q[3]>>, <<q[1], q[3], q[4]>>>>
    BY <2>1 DEF Fan
  <2> QED
    BY <1>1, <2>2
<1>5. Range(Fan(q)) = {<<a, b, c>>, <<a, c, d>>}
  BY <1>4 DEF Range
<1>6. /\ Fragments(<<a, b, c>>, w, h) = {k \in Pixels : Covers(<<a, b, c>>, Pixel(k[1], k[2]))}
      /\ Fragments(<<a, c, d>>, w, h) = {k \in Pixels : Covers(<<a, c, d>>, Pixel(k[1], k[2]))}
  <2>1. edgeFunction(a, c, d) = edgeFunction(c, d, a)
    BY Turned
  <2>2. FrontFacing(<<a, b, c>>) /\ FrontFacing(<<a, c, d>>)
    BY <1>2, <2>1 DEF FrontFacing
  <2>3. ASSUME NEW u \in Corner, NEW v \in Corner, NEW x \in Corner, FrontFacing(<<u, v, x>>)
        PROVE  Fragments(<<u, v, x>>, w, h) = {k \in Pixels : Covers(<<u, v, x>>, Pixel(k[1], k[2]))}
    BY <2>3, BoxLosesNothing
  <2> HIDE DEF Pixels
  <2>4. Fragments(<<a, b, c>>, w, h) = {k \in Pixels : Covers(<<a, b, c>>, Pixel(k[1], k[2]))}
    BY <2>2, <2>3
  <2>5. Fragments(<<a, c, d>>, w, h) = {k \in Pixels : Covers(<<a, c, d>>, Pixel(k[1], k[2]))}
    BY <2>2, <2>3
  <2> QED
    BY <2>4, <2>5
<1>7. ASSUME NEW k \in Pixels
      PROVE  (Covers(<<a, b, c>>, Pixel(k[1], k[2])) \/ Covers(<<a, c, d>>, Pixel(k[1], k[2])))
                 <=> InsideOf(q, Pixel(k[1], k[2]))
  <2>1. Pixel(k[1], k[2]) \in Corner
    BY DEF Pixel, Corner
  <2> DEFINE p == Pixel(k[1], k[2])
  <2>2. p \in Corner
    BY <2>1
  <2> HIDE DEF p
  <2>3. (Covers(<<a, b, c>>, p) \/ Covers(<<a, c, d>>, p)) <=> InsideOf(q, p)
    BY <1>2, <1>3, <2>2, FanCovers, Zenon
  <2> QED
    BY <2>3, Zenon DEF p
<1> DEFINE one == <<a, b, c>>  two == <<a, c, d>>
<1> HIDE DEF one, two, q, Pixels
<1>8. UNION {Fragments(t, w, h) : t \in Range(Fan(q))} = Fragments(one, w, h) \cup Fragments(two, w, h)
  <2>1. Range(Fan(q)) = {one, two}
    BY <1>5, Zenon DEF one, two
  <2> QED
    BY <2>1, Zenon
<1>9. UNION {Fragments(t, w, h) : t \in Range(Fan(q))} = {k \in Pixels : InsideOf(q, Pixel(k[1], k[2]))}
  <2>1. /\ Fragments(one, w, h) = {k \in Pixels : Covers(one, Pixel(k[1], k[2]))}
        /\ Fragments(two, w, h) = {k \in Pixels : Covers(two, Pixel(k[1], k[2]))}
    BY <1>6, Zenon DEF one, two
  <2>2. \A k \in Pixels : (Covers(one, Pixel(k[1], k[2])) \/ Covers(two, Pixel(k[1], k[2])))
                               <=> InsideOf(q, Pixel(k[1], k[2]))
    BY <1>7, Zenon DEF one, two
  <2> QED
    BY <1>8, <2>1, <2>2
<1> QED
  BY <1>9, Zenon DEF Seamless, Drawn, Pixels, q

Targets(cells, colours) == [w : Int, h : Int, depth : [cells -> Int], colour : [cells -> colours]]
Draws(g, t, z, c) == c \in Fragments(t, g.w, g.h) /\ z < g.depth[c]

\* What drawing a triangle makes of each pixel.
LEMMA PixelsOfTriangle ==
    ASSUME NEW cells, NEW colours, NEW g \in Targets(cells, colours), NEW t, NEW z \in Int, NEW colour \in colours
    PROVE  /\ DrawTriangle(g, t, z, colour) \in Targets(cells, colours)
           /\ DrawTriangle(g, t, z, colour).w = g.w /\ DrawTriangle(g, t, z, colour).h = g.h
           /\ \A c \in cells :
                 /\ DrawTriangle(g, t, z, colour).depth[c] = IF Draws(g, t, z, c) THEN z ELSE g.depth[c]
                 /\ DrawTriangle(g, t, z, colour).colour[c] = IF Draws(g, t, z, c) THEN colour ELSE g.colour[c]
<1> USE DEF Targets
<1> DEFINE nearer == {c \in Fragments(t, g.w, g.h) : IsNearer(z, g.depth[c])}
           depth2 == [c \in cells |-> IF c \in nearer THEN z ELSE g.depth[c]]
           colour2 == [c \in cells |-> IF c \in nearer THEN colour ELSE g.colour[c]]
<1>1. DOMAIN g.depth = cells /\ DOMAIN g.colour = cells
  OBVIOUS
<1>2. DrawTriangle(g, t, z, colour) = [g EXCEPT !.depth = depth2, !.colour = colour2]
  BY <1>1 DEF DrawTriangle
<1>3. depth2 \in [cells -> Int] /\ colour2 \in [cells -> colours]
  OBVIOUS
<1>4. \A c \in cells : c \in nearer <=> Draws(g, t, z, c)
  BY DEF IsNearer, Draws
<1>5. \A c \in cells : /\ depth2[c] = IF c \in nearer THEN z ELSE g.depth[c]
                       /\ colour2[c] = IF c \in nearer THEN colour ELSE g.colour[c]
  OBVIOUS
<1> HIDE DEF depth2, colour2, nearer
<1>6. LET g2 == [g EXCEPT !.depth = depth2, !.colour = colour2]
      IN  /\ g2 \in Targets(cells, colours)
          /\ g2.w = g.w /\ g2.h = g.h /\ g2.depth = depth2 /\ g2.colour = colour2
  BY <1>3
<1> QED
  BY <1>2, <1>4, <1>5, <1>6

-----------------------------------------------------------------------------
(* Recursion over positions.                                               *)

\* A set of numbers has a least one.
LEMMA LeastNat ==
    ASSUME NEW T, T \subseteq Nat, T # {}
    PROVE  \E n \in T : \A m \in T : n <= m
<1>1. IsWellFoundedOn(OpToRel(<, Nat), Nat)
  BY NatLessThanWellFounded
<1>2. PICK n \in T : \A m \in T : ~(<<m, n>> \in OpToRel(<, Nat))
  BY <1>1, WFMin
<1>3. \A m \in T : ~(m < n)
  BY <1>2 DEF OpToRel
<1> QED
  BY <1>3

\* A function that goes on from its value before, by a step within V, stays in V.
Runs(f, n, V, first, step) ==
    /\ f \in [0..n -> V]
    /\ f[0] = first
    /\ \A k \in 1..n : f[k] = step[<<f[k - 1], k>>]

\* A recursion over the numbers up to n has a function that satisfies it.
LEMMA Recursion ==
    ASSUME NEW V, NEW n \in Nat, NEW first \in V, NEW step \in [V \X (1..n) -> V]
    PROVE  \E f : Runs(f, n, V, first, step)
<1> DEFINE T == {m \in 0..n : ~\E f : Runs(f, m, V, first, step)}
<1>1. SUFFICES T = {}
  <2>1. n \in 0..n
    OBVIOUS
  <2> QED
    BY <1>1, <2>1, Zenon
<1>2. SUFFICES ASSUME T # {} PROVE FALSE
  OBVIOUS
<1>3. PICK m \in T : \A k \in T : m <= k
  <2>1. T \subseteq Nat
    OBVIOUS
  <2> HIDE DEF T
  <2> QED
    BY <1>2, <2>1, LeastNat
<1>4. CASE m = 0
  <2> DEFINE f == [k \in 0..0 |-> first]
  <2>1. Runs(f, 0, V, first, step)
    BY DEF Runs
  <2> QED
    BY <2>1, <1>4, <1>3
<1>5. CASE m # 0
  <2>1. m \in 1..n /\ m - 1 \in 0..n /\ m - 1 \notin T
    BY <1>3, <1>5
  <2>2. PICK f : Runs(f, m - 1, V, first, step)
    BY <2>1
  <2> DEFINE v == step[<<f[m - 1], m>>]
  <2> DEFINE g == [k \in 0..m |-> IF k = m THEN v ELSE f[k]]
  <2>3. f \in [0..(m - 1) -> V] /\ f[0] = first
    BY <2>2 DEF Runs
  <2>4. v \in V
    BY <2>1, <2>3
  <2>5. g \in [0..m -> V]
    BY <2>1, <2>3, <2>4
  <2>6. g[0] = first
    BY <2>1, <2>3
  <2>7. ASSUME NEW k \in 1..m PROVE g[k] = step[<<g[k - 1], k>>]
    <3>1. g[k - 1] = f[k - 1]
      BY <2>1
    <3>2. CASE k = m
      BY <3>1, <3>2
    <3>3. CASE k # m
      <4>1. k \in 1..(m - 1)
        BY <3>3, <2>1
      <4>2. f[k] = step[<<f[k - 1], k>>]
        BY <4>1, <2>2 DEF Runs
      <4>3. g[k] = f[k]
        BY <3>3
      <4> QED
        BY <3>1, <4>2, <4>3
    <3> QED
      BY <3>2, <3>3
  <2>8. Runs(g, m, V, first, step)
    <3> HIDE DEF g
    <3> QED
      BY <2>5, <2>6, <2>7 DEF Runs
  <2> QED
    BY <2>8, <1>3
<1> QED
  BY <1>4, <1>5

\* Whatever follows the rule of a recursion, as far as it stays in V, satisfies it.
LEMMA RunsAsRuled ==
    ASSUME NEW V, NEW n \in Nat, NEW first \in V, NEW step \in [V \X (1..n) -> V],
           NEW f, f = [k \in 0..n |-> f[k]], f[0] = first,
           \A k \in 1..n : f[k - 1] \in V => f[k] = step[<<f[k - 1], k>>]
    PROVE  Runs(f, n, V, first, step)
<1> DEFINE out == {k \in 0..n : f[k] \notin V}
<1>1. out = {}
  <2>1. SUFFICES ASSUME out # {} PROVE FALSE
    OBVIOUS
  <2>2. PICK k \in out : \A m \in out : k <= m
    <3>1. out \subseteq Nat
      OBVIOUS
    <3> HIDE DEF out
    <3> QED
      BY <2>1, <3>1, LeastNat
  <2>3. k \in 1..n /\ k - 1 \in 0..n /\ k - 1 \notin out
    BY <2>2
  <2>4. f[k] = step[<<f[k - 1], k>>] /\ f[k - 1] \in V
    BY <2>3
  <2>5. f[k] \in V
    BY <2>3, <2>4
  <2> QED
    BY <2>2, <2>5
<1>2. \A k \in 0..n : f[k] \in V
  BY <1>1
<1>3. ASSUME NEW k \in 1..n
      PROVE  f[k] = step[<<f[k - 1], k>>]
  <2>1. k - 1 \in 0..n
    OBVIOUS
  <2> QED
    BY <1>2, <2>1
<1>4. f \in [0..n -> V]
  BY <1>2
<1> QED
  BY <1>3, <1>4 DEF Runs

-----------------------------------------------------------------------------
(* A mesh of polygons.                                                     *)

\* What draw() takes: polygons of any number of corners, anywhere.
Polygons(colours) == [corners : Seq(Corner), z : Int, colour : colours]

\* What is drawn of a triangle and of a quadrilateral; of nothing else is anything drawn.
LEMMA DrawnOfFan ==
    ASSUME NEW p, NEW w, NEW h
    PROVE  /\ Len(p) = 3 => Drawn(p, w, h) = Fragments(Fan(p)[1], w, h)
           /\ Len(p) = 4 => Drawn(p, w, h) = Fragments(Fan(p)[1], w, h) \cup Fragments(Fan(p)[2], w, h)
           /\ Len(p) \notin {3, 4} => Drawn(p, w, h) = {}
<1>1. ASSUME NEW f, NEW one, NEW two
      PROVE  /\ f = <<one>> => Range(f) = {f[1]}
             /\ f = <<one, two>> => Range(f) = {f[1], f[2]}
             /\ f = <<>> => Range(f) = {}
  BY DEF Range
<1>2. CASE Len(p) = 3
  <2>1. Fan(p) = <<<<p[1], p[2], p[3]>>>>
    BY <1>2 DEF Fan
  <2>2. Range(Fan(p)) = {Fan(p)[1]}
    BY <1>1, <2>1, Zenon
  <2> QED
    BY <1>2, <2>2 DEF Drawn
<1>3. CASE Len(p) = 4
  <2>1. Fan(p) = <<<<p[1], p[2], p[3]>>, <<p[1], p[3], p[4]>>>>
    BY <1>3 DEF Fan
  <2>2. Range(Fan(p)) = {Fan(p)[1], Fan(p)[2]}
    BY <1>1, <2>1, Zenon
  <2> QED
    BY <1>3, <2>2 DEF Drawn
<1>4. CASE Len(p) \notin {3, 4}
  <2>1. Fan(p) = <<>>
    BY <1>4 DEF Fan
  <2>2. Range(Fan(p)) = {}
    BY <1>1, <2>1, Zenon
  <2> QED
    BY <1>4, <2>2 DEF Drawn
<1> QED
  BY <1>2, <1>3, <1>4

\* What drawing a polygon makes of each pixel: its triangles draw no pixel twice.
LEMMA PixelsOfPolygon ==
    ASSUME NEW cells, NEW colours, NEW g \in Targets(cells, colours), NEW p \in Polygons(colours)
    PROVE  /\ DrawPolygon(g, p) \in Targets(cells, colours)
           /\ DrawPolygon(g, p).w = g.w /\ DrawPolygon(g, p).h = g.h
           /\ \A c \in cells :
                 IF c \in Drawn(p.corners, g.w, g.h) /\ p.z < g.depth[c]
                 THEN DrawPolygon(g, p).depth[c] = p.z /\ DrawPolygon(g, p).colour[c] = p.colour
                 ELSE DrawPolygon(g, p).depth[c] = g.depth[c] /\ DrawPolygon(g, p).colour[c] = g.colour[c]
<1> DEFINE fan == Fan(p.corners)
           one == DrawTriangle(g, fan[1], p.z, p.colour)
           two == DrawTriangle(one, fan[2], p.z, p.colour)
<1>1. p.z \in Int /\ p.colour \in colours
  BY DEF Polygons
<1>2. \A c \in cells : g.depth[c] \in Int
  BY DEF Targets
<1>3. /\ one \in Targets(cells, colours) /\ one.w = g.w /\ one.h = g.h
      /\ \A c \in cells :
            /\ one.depth[c] = IF Draws(g, fan[1], p.z, c) THEN p.z ELSE g.depth[c]
            /\ one.colour[c] = IF Draws(g, fan[1], p.z, c) THEN p.colour ELSE g.colour[c]
  <2> HIDE DEF fan
  <2> QED
    BY <1>1, PixelsOfTriangle
<1> HIDE DEF one
<1>4. /\ two \in Targets(cells, colours) /\ two.w = g.w /\ two.h = g.h
      /\ \A c \in cells :
            /\ two.depth[c] = IF Draws(one, fan[2], p.z, c) THEN p.z ELSE one.depth[c]
            /\ two.colour[c] = IF Draws(one, fan[2], p.z, c) THEN p.colour ELSE one.colour[c]
  BY <1>1, <1>3, PixelsOfTriangle
<1> HIDE DEF two, fan
<1>5. CASE Len(p.corners) = 3
  <2>1. DrawPolygon(g, p) = one
    BY <1>5 DEF DrawPolygon, one, fan
  <2>2. Drawn(p.corners, g.w, g.h) = Fragments(fan[1], g.w, g.h)
    BY <1>5, DrawnOfFan DEF fan
  <2> QED
    BY <1>3, <2>1, <2>2 DEF Draws
<1>6. CASE Len(p.corners) = 4
  <2>1. DrawPolygon(g, p) = two
    BY <1>6 DEF DrawPolygon, one, two, fan
  <2>2. Drawn(p.corners, g.w, g.h) = Fragments(fan[1], g.w, g.h) \cup Fragments(fan[2], g.w, g.h)
    BY <1>6, DrawnOfFan DEF fan
  <2>3. ASSUME NEW c \in cells
        PROVE  IF c \in Drawn(p.corners, g.w, g.h) /\ p.z < g.depth[c]
               THEN two.depth[c] = p.z /\ two.colour[c] = p.colour
               ELSE two.depth[c] = g.depth[c] /\ two.colour[c] = g.colour[c]
    <3>1. /\ Draws(g, fan[1], p.z, c) <=> c \in Fragments(fan[1], g.w, g.h) /\ p.z < g.depth[c]
          /\ Draws(one, fan[2], p.z, c) <=> c \in Fragments(fan[2], g.w, g.h) /\ p.z < one.depth[c]
      BY <1>3, Zenon DEF Draws
    <3>2. /\ one.depth[c] = IF Draws(g, fan[1], p.z, c) THEN p.z ELSE g.depth[c]
          /\ one.colour[c] = IF Draws(g, fan[1], p.z, c) THEN p.colour ELSE g.colour[c]
          /\ two.depth[c] = IF Draws(one, fan[2], p.z, c) THEN p.z ELSE one.depth[c]
          /\ two.colour[c] = IF Draws(one, fan[2], p.z, c) THEN p.colour ELSE one.colour[c]
      BY <1>3, <1>4
    <3> QED
      BY <1>1, <1>2, <2>2, <3>1, <3>2
  <2> QED
    BY <1>4, <2>1, <2>3
<1>7. CASE Len(p.corners) \notin {3, 4}
  <2>1. DrawPolygon(g, p) = g
    BY <1>7 DEF DrawPolygon
  <2>2. Drawn(p.corners, g.w, g.h) = {}
    BY <1>7, DrawnOfFan
  <2> QED
    BY <2>1, <2>2
<1> QED
  BY <1>5, <1>6, <1>7

\* The targets that draw() goes through, from one polygon to the next.
IsDrawing(f, g, mesh, pixels) ==
    /\ f \in [0..Len(mesh) -> pixels]
    /\ f[0] = g /\ f[Len(mesh)] = draw(g, mesh)
    /\ \A k \in 1..Len(mesh) : f[k] = DrawPolygon(f[k - 1], mesh[k])

\* draw() ends where they end.
LEMMA DrawingOfMesh ==
    ASSUME NEW cells, NEW colours, NEW g \in Targets(cells, colours), NEW mesh \in Seq(Polygons(colours))
    PROVE  \E f : IsDrawing(f, g, mesh, Targets(cells, colours))
<1> DEFINE pixels == Targets(cells, colours)
           n == Len(mesh)
           step == [p \in pixels \X (1..n) |-> DrawPolygon(p[1], mesh[p[2]])]
<1>1. n \in Nat /\ g \in pixels
  OBVIOUS
<1>2. ASSUME NEW u \in pixels, NEW k \in 1..n
      PROVE  DrawPolygon(u, mesh[k]) \in pixels
  <2>1. mesh[k] \in Polygons(colours)
    BY <1>2
  <2> QED
    BY <2>1, PixelsOfPolygon
<1> HIDE DEF pixels
<1>3. step \in [pixels \X (1..n) -> pixels]
  BY <1>2
<1>4. ASSUME NEW u \in pixels, NEW k \in 1..n
      PROVE  step[<<u, k>>] = DrawPolygon(u, mesh[k])
  OBVIOUS
<1>5. PICK f : Runs(f, n, pixels, g, step)
  <2> HIDE DEF step, n
  <2> QED
    BY <1>1, <1>3, Recursion
<1>6. f \in [0..n -> pixels] /\ f[0] = g
  BY <1>5 DEF Runs
<1>7. ASSUME NEW k \in 1..n
      PROVE  f[k] = DrawPolygon(f[k - 1], mesh[k])
  <2>1. f[k - 1] \in pixels
    BY <1>6
  <2>2. f[k] = step[<<f[k - 1], k>>]
    BY <1>5 DEF Runs
  <2> HIDE DEF step
  <2> QED
    BY <1>4, <2>1, <2>2
<1> DEFINE Goes(u) == u = [k \in 0..n |-> IF k = 0 THEN g ELSE DrawPolygon(u[k - 1], mesh[k])]
<1>8. Goes(f)
  <2> DEFINE other == [k \in 0..n |-> IF k = 0 THEN g ELSE DrawPolygon(f[k - 1], mesh[k])]
  <2>1. ASSUME NEW k \in 0..n
        PROVE  f[k] = other[k]
    <3>1. CASE k = 0
      BY <1>6, <3>1
    <3>2. CASE k # 0
      <4>1. k \in 1..n
        BY <3>2
      <4> QED
        BY <1>7, <4>1, <3>2
    <3> QED
      BY <3>1, <3>2
  <2> QED
    BY <1>6, <2>1
<1> DEFINE after == CHOOSE u : Goes(u)
<1>9. Goes(after)
  BY <1>8, Zenon
<1>10. draw(g, mesh) = after[n]
  BY Zenon DEF draw
<1>11. after = f
  <2> DEFINE apart == {k \in 0..n : after[k] # f[k]}
  <2>1. SUFFICES apart = {}
    BY <1>6, <1>9, <2>1
  <2>2. SUFFICES ASSUME apart # {} PROVE FALSE
    OBVIOUS
  <2>3. PICK k \in apart : \A m \in apart : k <= m
    <3>1. apart \subseteq Nat
      OBVIOUS
    <3> HIDE DEF apart
    <3> QED
      BY <2>2, <3>1, LeastNat
  <2>4. k \in 0..n /\ after[k] # f[k]
    BY <2>3
  <2>5. after[k] = (IF k = 0 THEN g ELSE DrawPolygon(after[k - 1], mesh[k]))
    BY <1>9, <2>4
  <2>6. CASE k = 0
    BY <1>6, <2>4, <2>5, <2>6
  <2>7. CASE k # 0
    <3>1. k \in 1..n /\ k - 1 \in 0..n /\ k - 1 \notin apart
      BY <2>3, <2>4, <2>7
    <3>2. after[k - 1] = f[k - 1]
      BY <3>1
    <3> QED
      BY <1>7, <2>4, <2>5, <2>7, <3>1, <3>2
  <2> QED
    BY <2>6, <2>7
<1> QED
  BY <1>6, <1>7, <1>10, <1>11 DEF IsDrawing, pixels

\* Of the polygons that a pixel may show, those that have been drawn after k steps.
SoFar(g, mesh, c, k) == {j \in Candidates(g, mesh, c) : j <= k}
\* The target u shows at pixel c what is in front of the others of js, or what g did.
ShowsFront(u, g, mesh, c, js) ==
    IF js = {} THEN u.depth[c] = g.depth[c] /\ u.colour[c] = g.colour[c]
    ELSE \E j \in DOMAIN mesh : IsInFront(mesh, j, js) /\ u.depth[c] = mesh[j].z /\ u.colour[c] = mesh[j].colour

\* One more polygon is seen where it is nearer than those before it.
LEMMA OneMorePolygon ==
    ASSUME NEW cells, NEW colours, NEW g \in Targets(cells, colours), NEW mesh \in Seq(Polygons(colours)),
           NEW u \in Targets(cells, colours), u.w = g.w, u.h = g.h, NEW k \in 1..Len(mesh), NEW c \in cells,
           ShowsFront(u, g, mesh, c, SoFar(g, mesh, c, k - 1))
    PROVE  ShowsFront(DrawPolygon(u, mesh[k]), g, mesh, c, SoFar(g, mesh, c, k))
<1> DEFINE v == DrawPolygon(u, mesh[k])  z(j) == mesh[j].z  before == SoFar(g, mesh, c, k - 1)  after == SoFar(g, mesh, c, k)
           isThere == c \in Drawn(mesh[k].corners, g.w, g.h)
<1>1. /\ mesh[k] \in Polygons(colours) /\ k \in DOMAIN mesh /\ DOMAIN mesh \subseteq Int
      /\ \A j \in DOMAIN mesh : z(j) \in Int
      /\ g.depth[c] \in Int
  <2>1. \A j \in 1..Len(mesh) : mesh[j] \in Polygons(colours)
    OBVIOUS
  <2>2. \A p \in Polygons(colours) : p.z \in Int
    BY DEF Polygons
  <2>3. DOMAIN mesh = 1..Len(mesh) /\ Len(mesh) \in Nat
    OBVIOUS
  <2>4. g.depth[c] \in Int
    BY DEF Targets
  <2> QED
    BY <2>1, <2>2, <2>3, <2>4
<1>2. IF isThere /\ z(k) < u.depth[c]
      THEN v.depth[c] = z(k) /\ v.colour[c] = mesh[k].colour
      ELSE v.depth[c] = u.depth[c] /\ v.colour[c] = u.colour[c]
  <2> DEFINE p == mesh[k]
  <2>1. p \in Polygons(colours)
    BY <1>1
  <2> HIDE DEF p
  <2>2. IF c \in Drawn(p.corners, u.w, u.h) /\ p.z < u.depth[c]
        THEN DrawPolygon(u, p).depth[c] = p.z /\ DrawPolygon(u, p).colour[c] = p.colour
        ELSE DrawPolygon(u, p).depth[c] = u.depth[c] /\ DrawPolygon(u, p).colour[c] = u.colour[c]
    BY <2>1, PixelsOfPolygon
  <2> QED
    BY <2>2 DEF p
<1>3. \A j : j \in before <=> j \in Candidates(g, mesh, c) /\ j <= k - 1
  BY DEF SoFar
<1>4. \A j : j \in after <=> j \in Candidates(g, mesh, c) /\ j <= k
  BY DEF SoFar
<1>5. \A j \in Candidates(g, mesh, c) : j \in DOMAIN mesh /\ z(j) < g.depth[c]
  BY DEF Candidates, IsNearer
<1>6. k \in Candidates(g, mesh, c) <=> isThere /\ z(k) < g.depth[c]
  BY <1>1 DEF Candidates, IsNearer
<1>7. after = IF isThere /\ z(k) < g.depth[c] THEN before \cup {k} ELSE before
  <2>1. \A j \in Candidates(g, mesh, c) : j <= k <=> j <= k - 1 \/ j = k
    BY <1>1, <1>5
  <2> HIDE DEF before, after, isThere
  <2> QED
    BY <1>1, <1>3, <1>4, <1>6, <2>1
<1>8. k \notin before /\ \A j \in before : j \in DOMAIN mesh /\ j < k /\ z(j) < g.depth[c]
  BY <1>1, <1>3, <1>5
<1>9. \A j : IsInFront(mesh, j, before) <=>
                j \in before /\ \A i \in before : z(j) < z(i) \/ (z(j) = z(i) /\ j <= i)
  BY DEF IsInFront
<1>10. \A j : IsInFront(mesh, j, after) <=>
                j \in after /\ \A i \in after : z(j) < z(i) \/ (z(j) = z(i) /\ j <= i)
  BY DEF IsInFront
<1> HIDE DEF v, z, before, after, isThere
<1>11. ASSUME before = {}
       PROVE  ShowsFront(v, g, mesh, c, after)
  <2>1. u.depth[c] = g.depth[c] /\ u.colour[c] = g.colour[c]
    BY <1>11 DEF ShowsFront, before
  <2>2. CASE isThere /\ z(k) < g.depth[c]
    <3>1. after = {k}
      BY <1>7, <1>11, <2>2
    <3>2. IsInFront(mesh, k, after)
      <4>1. z(k) = z(k) /\ k <= k
        BY <1>1
      <4> QED
        BY <1>10, <3>1, <4>1, Zenon
    <3> QED
      BY <1>1, <1>2, <2>1, <2>2, <3>1, <3>2 DEF ShowsFront, z
  <2>3. CASE ~(isThere /\ z(k) < g.depth[c])
    <3>1. after = {}
      BY <1>7, <1>11, <2>3
    <3> QED
      BY <1>2, <2>1, <2>3, <3>1 DEF ShowsFront
  <2> QED
    BY <2>2, <2>3
<1>12. ASSUME NEW j \in DOMAIN mesh, IsInFront(mesh, j, before), u.depth[c] = z(j), u.colour[c] = mesh[j].colour
       PROVE  ShowsFront(v, g, mesh, c, after)
  <2>1. j \in before /\ j < k /\ z(j) < g.depth[c]
    BY <1>8, <1>9, <1>12
  <2>2. after # {}
    BY <1>7, <2>1
  <2>3. CASE isThere /\ z(k) < z(j)
    <3>1. after = before \cup {k}
      BY <1>1, <1>7, <2>1, <2>3
    <3>2. \A i \in before : z(k) < z(i)
      <4>1. \A i \in before : z(i) \in Int /\ z(j) <= z(i)
        BY <1>1, <1>8, <1>9, <1>12
      <4> QED
        BY <1>1, <2>3, <4>1
    <3>3. IsInFront(mesh, k, after)
      <4>1. z(k) = z(k) /\ k <= k
        BY <1>1
      <4>2. \A i \in after : i \in before \/ i = k
        BY <3>1
      <4>3. k \in after
        BY <3>1
      <4> QED
        BY <1>10, <3>2, <4>1, <4>2, <4>3, Zenon
    <3> QED
      BY <1>1, <1>2, <1>12, <2>2, <2>3, <3>3 DEF ShowsFront, z
  <2>4. CASE ~(isThere /\ z(k) < z(j))
    <3>1. \A i \in after : z(j) < z(i) \/ (z(j) = z(i) /\ j <= i)
      BY <1>1, <1>7, <1>9, <1>12, <2>1, <2>4
    <3>2. IsInFront(mesh, j, after)
      BY <1>7, <1>10, <2>1, <3>1
    <3>3. v.depth[c] = z(j) /\ v.colour[c] = mesh[j].colour
      BY <1>2, <1>12, <2>4
    <3> QED
      BY <2>2, <3>2, <3>3 DEF ShowsFront, z
  <2> QED
    BY <2>3, <2>4
<1>13. CASE before # {}
  <2>1. PICK j \in DOMAIN mesh : IsInFront(mesh, j, before) /\ u.depth[c] = z(j) /\ u.colour[c] = mesh[j].colour
    BY <1>13 DEF ShowsFront, before, z
  <2> QED
    BY <1>12, <2>1 DEF v, after
<1> QED
  BY <1>11, <1>13 DEF v, after

\* Hence, step by step, a mesh.
LEMMA FrontOfMesh ==
    ASSUME NEW cells, NEW colours, NEW g \in Targets(cells, colours), NEW mesh \in Seq(Polygons(colours))
    PROVE  /\ draw(g, mesh) \in Targets(cells, colours) /\ draw(g, mesh).w = g.w /\ draw(g, mesh).h = g.h
           /\ \A c \in cells : ShowsFront(draw(g, mesh), g, mesh, c, Candidates(g, mesh, c))
<1> DEFINE n == Len(mesh)
<1>1. PICK f : IsDrawing(f, g, mesh, Targets(cells, colours))
  BY DrawingOfMesh
<1>2. /\ f \in [0..n -> Targets(cells, colours)] /\ f[0] = g /\ f[n] = draw(g, mesh) /\ n \in Nat
      /\ \A k \in 1..n : f[k] = DrawPolygon(f[k - 1], mesh[k])
  BY <1>1 DEF IsDrawing
<1> DEFINE Right(k) == /\ f[k].w = g.w /\ f[k].h = g.h
                       /\ \A c \in cells : ShowsFront(f[k], g, mesh, c, SoFar(g, mesh, c, k))
<1>3. \A c : \A j \in Candidates(g, mesh, c) : j \in 1..n
  BY DEF Candidates
<1>4. Right(0)
  <2>1. ASSUME NEW c \in cells
        PROVE  SoFar(g, mesh, c, 0) = {}
    BY <1>3 DEF SoFar
  <2> QED
    BY <1>2, <2>1 DEF ShowsFront
<1>5. ASSUME NEW k \in 1..n, Right(k - 1)
      PROVE  Right(k)
  <2>1. f[k - 1] \in Targets(cells, colours) /\ f[k] = DrawPolygon(f[k - 1], mesh[k])
    BY <1>2
  <2>2. mesh[k] \in Polygons(colours)
    OBVIOUS
  <2>3. f[k].w = f[k - 1].w /\ f[k].h = f[k - 1].h
    <3> DEFINE p == mesh[k]
    <3> HIDE DEF p
    <3>1. p \in Polygons(colours)
      BY <2>2 DEF p
    <3>2. DrawPolygon(f[k - 1], p).w = f[k - 1].w /\ DrawPolygon(f[k - 1], p).h = f[k - 1].h
      BY <2>1, <3>1, PixelsOfPolygon
    <3> QED
      BY <2>1, <3>2 DEF p
  <2>4. ASSUME NEW c \in cells
        PROVE  ShowsFront(f[k], g, mesh, c, SoFar(g, mesh, c, k))
    BY <1>5, <2>1, OneMorePolygon
  <2> QED
    BY <1>5, <2>3, <2>4
<1>6. ASSUME NEW k \in 0..n
      PROVE  Right(k)
  <2> DEFINE wrong == {m \in 0..n : ~Right(m)}
  <2>1. SUFFICES wrong = {}
    BY <2>1
  <2>2. SUFFICES ASSUME wrong # {} PROVE FALSE
    OBVIOUS
  <2> HIDE DEF Right
  <2>3. PICK m \in wrong : \A i \in wrong : m <= i
    <3>1. wrong \subseteq Nat
      OBVIOUS
    <3> HIDE DEF wrong
    <3> QED
      BY <2>2, <3>1, LeastNat
  <2>4. m \in 0..n /\ ~Right(m) /\ m # 0
    BY <1>4, <2>3
  <2>5. m \in 1..n /\ m - 1 \in 0..n /\ m - 1 \notin wrong
    BY <2>3, <2>4
  <2> QED
    BY <1>5, <2>4, <2>5
<1>7. ASSUME NEW c \in cells
      PROVE  SoFar(g, mesh, c, n) = Candidates(g, mesh, c)
  BY <1>3 DEF SoFar
<1>8. Right(n)
  <2> HIDE DEF Right
  <2> QED
    BY <1>2, <1>6
<1> QED
  BY <1>2, <1>7, <1>8

\* A mesh of any number of polygons shows at each pixel the nearest of those that are there,
\* and of several as near the one that was drawn first, and leaves the others as they were.
THEOREM NearestSeen ==
    ASSUME NEW cells, NEW colours, NEW g \in Targets(cells, colours), NEW mesh \in Seq(Polygons(colours))
    PROVE  NearestIsSeen(g, mesh)
<1>1. DOMAIN g.depth = cells
  BY DEF Targets
<1>2. \A c \in cells : ShowsFront(draw(g, mesh), g, mesh, c, Candidates(g, mesh, c))
  BY FrontOfMesh
<1> QED
  BY <1>1, <1>2, Zenon DEF NearestIsSeen, ShowsFront

-----------------------------------------------------------------------------
(* Clipping.                                                               *)

\* The points of a clipped triangle: a corner, or the point where an edge is cut.
At(j) == <<j>>
On(i, j) == <<i, j>>

\* They are different points.
LEMMA PointsDiffer ==
    ASSUME NEW i \in Int, NEW j \in Int, NEW k \in Int, NEW l \in Int
    PROVE  /\ Len(At(i)) = 1 /\ Len(On(i, j)) = 2 /\ At(i)[1] = i
           /\ Range(At(i)) = {i} /\ Range(On(i, j)) = {i, j}
           /\ At(i) = At(j) <=> i = j
           /\ At(i) # On(j, k)
           /\ On(i, j) = On(k, l) <=> i = k /\ j = l
<1>1. Len(At(i)) = 1 /\ Len(On(i, j)) = 2 /\ At(i)[1] = i /\ Len(On(j, k)) = 2
  BY DEF At, On
<1>2. Range(At(i)) = {i} /\ Range(On(i, j)) = {i, j}
  BY DEF Range, At, On
<1>3. At(i) = At(j) <=> i = j
  BY DEF At
<1>4. On(i, j) = On(k, l) <=> i = k /\ j = l
  BY DEF On
<1>5. At(i) # On(j, k)
  <2> SUFFICES ASSUME At(i) = On(j, k) PROVE FALSE
    OBVIOUS
  <2> HIDE DEF At, On
  <2> QED
    BY <1>1
<1> QED
  BY <1>1, <1>2, <1>3, <1>4, <1>5

\* The parts that clipping joins, point by point.
LEMMA JoinedParts ==
    ASSUME NEW S, NEW f \in Seq(S), NEW g \in Seq(S), NEW h \in Seq(S)
    PROVE  LET p == f \o g \o h
               m == Len(f)
               n == Len(f) + Len(g)
           IN  /\ p \in Seq(S) /\ Len(p) = n + Len(h)
               /\ \A i \in 1..n + Len(h) : p[i] = IF i <= m THEN f[i] ELSE IF i <= n THEN g[i - m] ELSE h[i - n]
<1> DEFINE fg == f \o g
<1>1. /\ fg \in Seq(S) /\ Len(fg) = Len(f) + Len(g)
      /\ \A i \in 1..Len(f) + Len(g) : fg[i] = IF i <= Len(f) THEN f[i] ELSE g[i - Len(f)]
  BY ConcatProperties
<1> HIDE DEF fg
<1>2. ASSUME NEW u \in Seq(S)
      PROVE  /\ u \o h \in Seq(S) /\ Len(u \o h) = Len(u) + Len(h)
             /\ \A i \in 1..Len(u) + Len(h) : (u \o h)[i] = IF i <= Len(u) THEN u[i] ELSE h[i - Len(u)]
  BY ConcatProperties
<1>3. f \o g \o h = fg \o h
  BY DEF fg
<1> DEFINE q == fg \o h
<1> HIDE DEF q
<1>4. q \in Seq(S) /\ Len(q) = Len(f) + Len(g) + Len(h)
  BY <1>1, <1>2 DEF q
<1>5. \A i \in 1..Len(f) + Len(g) + Len(h) :
          q[i] = IF i <= Len(f) THEN f[i] ELSE IF i <= Len(f) + Len(g) THEN g[i - Len(f)] ELSE h[i - (Len(f) + Len(g))]
  BY <1>1, <1>2 DEF q
<1> QED
  BY <1>3, <1>4, <1>5, Zenon DEF q

\* What clipping leaves of a triangle, by the corners that are in front of the plane.
LEMMA Clippings ==
    ASSUME NEW inside \in [0..2 -> BOOLEAN]
    PROVE  LET a == inside[0]
               b == inside[1]
               c == inside[2]
               p == ClippedPolygon(inside)
           IN  /\ \E S : p \in Seq(S)
               /\ ~a /\ ~b /\ ~c => Len(p) = 0
               /\ a /\ ~b /\ ~c => Len(p) = 3 /\ p[1] = At(0) /\ p[2] = On(0, 1) /\ p[3] = On(2, 0)
               /\ ~a /\ b /\ ~c => Len(p) = 3 /\ p[1] = On(0, 1) /\ p[2] = At(1) /\ p[3] = On(1, 2)
               /\ ~a /\ ~b /\ c => Len(p) = 3 /\ p[1] = On(1, 2) /\ p[2] = At(2) /\ p[3] = On(2, 0)
               /\ a /\ b /\ ~c => Len(p) = 4 /\ p[1] = At(0) /\ p[2] = At(1) /\ p[3] = On(1, 2) /\ p[4] = On(2, 0)
               /\ a /\ ~b /\ c => Len(p) = 4 /\ p[1] = At(0) /\ p[2] = On(0, 1) /\ p[3] = On(1, 2) /\ p[4] = At(2)
               /\ ~a /\ b /\ c => Len(p) = 4 /\ p[1] = On(0, 1) /\ p[2] = At(1) /\ p[3] = At(2) /\ p[4] = On(2, 0)
               /\ a /\ b /\ c => Len(p) = 3 /\ p[1] = At(0) /\ p[2] = At(1) /\ p[3] = At(2)
<1> DEFINE a == inside[0]  b == inside[1]  c == inside[2]
           S == {At(0), At(1), At(2), On(0, 1), On(1, 2), On(2, 0)}
           f == Kept(inside, 0)  g == Kept(inside, 1)  h == Kept(inside, 2)
<1>1. Following(0) = 1 /\ Following(1) = 2 /\ Following(2) = 0
  BY DEF Following
<1>2. ASSUME NEW j, NEW k, NEW here \in BOOLEAN, NEW there \in BOOLEAN, At(j) \in S, On(j, k) \in S
      PROVE  LET part == (IF here THEN <<At(j)>> ELSE <<>>) \o (IF here # there THEN <<On(j, k)>> ELSE <<>>)
             IN  /\ part \in Seq(S)
                 /\ ~here /\ ~there => Len(part) = 0
                 /\ here /\ there => Len(part) = 1 /\ part[1] = At(j)
                 /\ ~here /\ there => Len(part) = 1 /\ part[1] = On(j, k)
                 /\ here /\ ~there => Len(part) = 2 /\ part[1] = At(j) /\ part[2] = On(j, k)
  <2> DEFINE left == IF here THEN <<At(j)>> ELSE <<>>
             right == IF here # there THEN <<On(j, k)>> ELSE <<>>
             part == left \o right
  <2> HIDE DEF S
  <2>1. left \in Seq(S) /\ right \in Seq(S)
    BY <1>2
  <2>2. /\ here => Len(left) = 1 /\ left[1] = At(j)
        /\ ~here => Len(left) = 0
        /\ (here # there) => Len(right) = 1 /\ right[1] = On(j, k)
        /\ ~(here # there) => Len(right) = 0
    OBVIOUS
  <2> HIDE DEF left, right
  <2>3. /\ part \in Seq(S) /\ Len(part) = Len(left) + Len(right)
        /\ \A i \in 1..Len(left) + Len(right) : part[i] = IF i <= Len(left) THEN left[i] ELSE right[i - Len(left)]
    BY <2>1, ConcatProperties
  <2> HIDE DEF part
  <2>4. /\ ~here /\ ~there => Len(part) = 0
        /\ here /\ there => Len(part) = 1 /\ part[1] = At(j)
        /\ ~here /\ there => Len(part) = 1 /\ part[1] = On(j, k)
        /\ here /\ ~there => Len(part) = 2 /\ part[1] = At(j) /\ part[2] = On(j, k)
    BY <2>2, <2>3
  <2> QED
    BY <2>3, <2>4 DEF part, left, right
<1>3. a \in BOOLEAN /\ b \in BOOLEAN /\ c \in BOOLEAN
  OBVIOUS
<1>4. /\ At(0) \in S /\ At(1) \in S /\ At(2) \in S
      /\ On(0, 1) \in S /\ On(1, 2) \in S /\ On(2, 0) \in S
  OBVIOUS
<1> HIDE DEF S
<1>5. /\ f \in Seq(S)
      /\ ~a /\ ~b => Len(f) = 0
      /\ a /\ b => Len(f) = 1 /\ f[1] = At(0)
      /\ ~a /\ b => Len(f) = 1 /\ f[1] = On(0, 1)
      /\ a /\ ~b => Len(f) = 2 /\ f[1] = At(0) /\ f[2] = On(0, 1)
  <2>1. f = (IF a THEN <<At(0)>> ELSE <<>>) \o (IF a # b THEN <<On(0, 1)>> ELSE <<>>)
    BY <1>1, Zenon DEF Kept, Crosses, At, On
  <2> HIDE DEF f, a, b
  <2> QED
    BY <1>2, <1>3, <1>4, <2>1
<1>6. /\ g \in Seq(S)
      /\ ~b /\ ~c => Len(g) = 0
      /\ b /\ c => Len(g) = 1 /\ g[1] = At(1)
      /\ ~b /\ c => Len(g) = 1 /\ g[1] = On(1, 2)
      /\ b /\ ~c => Len(g) = 2 /\ g[1] = At(1) /\ g[2] = On(1, 2)
  <2>1. g = (IF b THEN <<At(1)>> ELSE <<>>) \o (IF b # c THEN <<On(1, 2)>> ELSE <<>>)
    BY <1>1, Zenon DEF Kept, Crosses, At, On
  <2> HIDE DEF g, b, c
  <2> QED
    BY <1>2, <1>3, <1>4, <2>1
<1>7. /\ h \in Seq(S)
      /\ ~c /\ ~a => Len(h) = 0
      /\ c /\ a => Len(h) = 1 /\ h[1] = At(2)
      /\ ~c /\ a => Len(h) = 1 /\ h[1] = On(2, 0)
      /\ c /\ ~a => Len(h) = 2 /\ h[1] = At(2) /\ h[2] = On(2, 0)
  <2>1. h = (IF c THEN <<At(2)>> ELSE <<>>) \o (IF c # a THEN <<On(2, 0)>> ELSE <<>>)
    BY <1>1, Zenon DEF Kept, Crosses, At, On
  <2> HIDE DEF h, c, a
  <2> QED
    BY <1>2, <1>3, <1>4, <2>1
<1> DEFINE p == ClippedPolygon(inside)
<1>8. p = f \o g \o h
  BY Zenon DEF ClippedPolygon
<1> HIDE DEF f, g, h, a, b, c, p
<1>9. /\ p \in Seq(S) /\ Len(p) = Len(f) + Len(g) + Len(h)
      /\ \A i \in 1..Len(f) + Len(g) + Len(h) :
            p[i] = IF i <= Len(f) THEN f[i]
                   ELSE IF i <= Len(f) + Len(g) THEN g[i - Len(f)] ELSE h[i - (Len(f) + Len(g))]
  BY <1>5, <1>6, <1>7, <1>8, JoinedParts
<1>10. ASSUME ~a /\ ~b /\ ~c
       PROVE  Len(p) = 0
  <2>1. Len(f) = 0
    BY <1>5, <1>10, Zenon
  <2>2. Len(g) = 0
    BY <1>6, <1>10, Zenon
  <2>3. Len(h) = 0
    BY <1>7, <1>10, Zenon
  <2> QED
    BY <1>9, <2>1, <2>2, <2>3
<1>11. ASSUME a /\ ~b /\ ~c
       PROVE  Len(p) = 3 /\ p[1] = At(0) /\ p[2] = On(0, 1) /\ p[3] = On(2, 0)
  <2>1. Len(f) = 2 /\ f[1] = At(0) /\ f[2] = On(0, 1)
    BY <1>5, <1>11, Zenon
  <2>2. Len(g) = 0
    BY <1>6, <1>11, Zenon
  <2>3. Len(h) = 1 /\ h[1] = On(2, 0)
    BY <1>7, <1>11, Zenon
  <2> QED
    BY <1>9, <2>1, <2>2, <2>3
<1>12. ASSUME ~a /\ b /\ ~c
       PROVE  Len(p) = 3 /\ p[1] = On(0, 1) /\ p[2] = At(1) /\ p[3] = On(1, 2)
  <2>1. Len(f) = 1 /\ f[1] = On(0, 1)
    BY <1>5, <1>12, Zenon
  <2>2. Len(g) = 2 /\ g[1] = At(1) /\ g[2] = On(1, 2)
    BY <1>6, <1>12, Zenon
  <2>3. Len(h) = 0
    BY <1>7, <1>12, Zenon
  <2> QED
    BY <1>9, <2>1, <2>2, <2>3
<1>13. ASSUME ~a /\ ~b /\ c
       PROVE  Len(p) = 3 /\ p[1] = On(1, 2) /\ p[2] = At(2) /\ p[3] = On(2, 0)
  <2>1. Len(f) = 0
    BY <1>5, <1>13, Zenon
  <2>2. Len(g) = 1 /\ g[1] = On(1, 2)
    BY <1>6, <1>13, Zenon
  <2>3. Len(h) = 2 /\ h[1] = At(2) /\ h[2] = On(2, 0)
    BY <1>7, <1>13, Zenon
  <2> QED
    BY <1>9, <2>1, <2>2, <2>3
<1>14. ASSUME a /\ b /\ ~c
       PROVE  Len(p) = 4 /\ p[1] = At(0) /\ p[2] = At(1) /\ p[3] = On(1, 2) /\ p[4] = On(2, 0)
  <2>1. Len(f) = 1 /\ f[1] = At(0)
    BY <1>5, <1>14, Zenon
  <2>2. Len(g) = 2 /\ g[1] = At(1) /\ g[2] = On(1, 2)
    BY <1>6, <1>14, Zenon
  <2>3. Len(h) = 1 /\ h[1] = On(2, 0)
    BY <1>7, <1>14, Zenon
  <2> QED
    BY <1>9, <2>1, <2>2, <2>3
<1>15. ASSUME a /\ ~b /\ c
       PROVE  Len(p) = 4 /\ p[1] = At(0) /\ p[2] = On(0, 1) /\ p[3] = On(1, 2) /\ p[4] = At(2)
  <2>1. Len(f) = 2 /\ f[1] = At(0) /\ f[2] = On(0, 1)
    BY <1>5, <1>15, Zenon
  <2>2. Len(g) = 1 /\ g[1] = On(1, 2)
    BY <1>6, <1>15, Zenon
  <2>3. Len(h) = 1 /\ h[1] = At(2)
    BY <1>7, <1>15, Zenon
  <2> QED
    BY <1>9, <2>1, <2>2, <2>3
<1>16. ASSUME ~a /\ b /\ c
       PROVE  Len(p) = 4 /\ p[1] = On(0, 1) /\ p[2] = At(1) /\ p[3] = At(2) /\ p[4] = On(2, 0)
  <2>1. Len(f) = 1 /\ f[1] = On(0, 1)
    BY <1>5, <1>16, Zenon
  <2>2. Len(g) = 1 /\ g[1] = At(1)
    BY <1>6, <1>16, Zenon
  <2>3. Len(h) = 2 /\ h[1] = At(2) /\ h[2] = On(2, 0)
    BY <1>7, <1>16, Zenon
  <2> QED
    BY <1>9, <2>1, <2>2, <2>3
<1>17. ASSUME a /\ b /\ c
       PROVE  Len(p) = 3 /\ p[1] = At(0) /\ p[2] = At(1) /\ p[3] = At(2)
  <2>1. Len(f) = 1 /\ f[1] = At(0)
    BY <1>5, <1>17, Zenon
  <2>2. Len(g) = 1 /\ g[1] = At(1)
    BY <1>6, <1>17, Zenon
  <2>3. Len(h) = 1 /\ h[1] = At(2)
    BY <1>7, <1>17, Zenon
  <2> QED
    BY <1>9, <2>1, <2>2, <2>3
<1> QED
  BY <1>9, <1>10, <1>11, <1>12, <1>13, <1>14, <1>15, <1>16, <1>17, Zenon DEF a, b, c, p

\* WellClipped with its parts named: two neighbours are both corners, both cuts, or share a
\* corner; every corner in front is there; no point comes twice.
Meets(u, v) == Len(u) = Len(v) \/ Range(u) \cap Range(v) # {}
WellShaped(p, corners) ==
    /\ Len(p) \in {0, 3, 4} /\ (p = <<>> <=> corners = {})
    /\ {v[1] : v \in {u \in Range(p) : Len(u) = 1}} = corners
    /\ \A k \in 1..Len(p) : Meets(p[k], p[(k % Len(p)) + 1]) /\ (Len(p[k]) = 1 => p[k][1] \in corners)
    /\ \A k, l \in 1..Len(p) : p[k] = p[l] => k = l

\* Enough for it: neighbours meet, and each point differs from those after it.
LEMMA ShapeOf ==
    ASSUME NEW S, NEW p \in Seq(S), NEW corners, corners # {}, Len(p) \in {3, 4},
           \A k \in 1..Len(p) : Len(p[k]) = 1 => p[k][1] \in corners,
           \A j \in corners : \E k \in 1..Len(p) : Len(p[k]) = 1 /\ p[k][1] = j,
           \A k \in 1..Len(p) - 1 : Meets(p[k], p[k + 1]), Meets(p[Len(p)], p[1]),
           \A k \in 1..Len(p), l \in 1..Len(p) : k < l => p[k] # p[l]
    PROVE  WellShaped(p, corners)
<1>1. Range(p) = {p[k] : k \in 1..Len(p)}
  BY DEF Range
<1>2. p # <<>>
  OBVIOUS
<1>3. {v[1] : v \in {u \in Range(p) : Len(u) = 1}} = corners
  BY <1>1
<1>4. ASSUME NEW k \in 1..Len(p)
      PROVE  Meets(p[k], p[(k % Len(p)) + 1])
  <2>1. CASE k = Len(p)
    <3>1. (k % Len(p)) + 1 = 1
      BY <2>1
    <3> QED
      BY <2>1, <3>1
  <2>2. CASE k # Len(p)
    <3>1. k \in 1..Len(p) - 1
      BY <2>2
    <3>2. CASE Len(p) = 3
      <4>1. k % 3 = k
        BY <3>1, <3>2
      <4> QED
        BY <3>1, <3>2, <4>1
    <3>3. CASE Len(p) = 4
      <4>1. k % 4 = k
        BY <3>1, <3>3
      <4> QED
        BY <3>1, <3>3, <4>1
    <3> QED
      BY <3>2, <3>3
  <2> QED
    BY <2>1, <2>2
<1>5. \A k, l \in 1..Len(p) : p[k] = p[l] => k = l
  OBVIOUS
<1> QED
  BY <1>2, <1>3, <1>4, <1>5, Zenon DEF WellShaped

LEMMA ShapeOfThree ==
    ASSUME NEW S, NEW p \in Seq(S), NEW corners, corners # {}, Len(p) = 3,
           Meets(p[1], p[2]), Meets(p[2], p[3]), Meets(p[3], p[1]), p[1] # p[2], p[1] # p[3], p[2] # p[3],
           \A j : j \in corners <=> \E y \in {p[1], p[2], p[3]} : Len(y) = 1 /\ y[1] = j
    PROVE  WellShaped(p, corners)
<1>1. \A k \in 1..Len(p) : p[k] \in {p[1], p[2], p[3]}
  OBVIOUS
<1>2. \A k \in 1..Len(p) : Len(p[k]) = 1 => p[k][1] \in corners
  BY <1>1, Zenon
<1>3. 1 \in 1..Len(p) /\ 2 \in 1..Len(p) /\ 3 \in 1..Len(p)
  OBVIOUS
<1>4. \A j \in corners : \E k \in 1..Len(p) : Len(p[k]) = 1 /\ p[k][1] = j
  BY <1>3
<1>5. \A k \in 1..Len(p) - 1 : Meets(p[k], p[k + 1])
  <2>1. \A k \in 1..Len(p) - 1 : k = 1 \/ k = 2
    OBVIOUS
  <2>2. 1 + 1 = 2 /\ 2 + 1 = 3
    OBVIOUS
  <2> QED
    BY <2>1, <2>2, Zenon
<1>6. Meets(p[Len(p)], p[1])
  BY Zenon
<1>7. \A k \in 1..Len(p), l \in 1..Len(p) : k < l => p[k] # p[l]
  <2>1. \A k \in 1..Len(p), l \in 1..Len(p) : k < l => <<k, l>> \in {<<1, 2>>, <<1, 3>>, <<2, 3>>}
    OBVIOUS
  <2> QED
    BY <2>1
<1> QED
  BY <1>2, <1>4, <1>5, <1>6, <1>7, ShapeOf

LEMMA ShapeOfFour ==
    ASSUME NEW S, NEW p \in Seq(S), NEW corners, corners # {}, Len(p) = 4,
           Meets(p[1], p[2]), Meets(p[2], p[3]), Meets(p[3], p[4]), Meets(p[4], p[1]),
           p[1] # p[2], p[1] # p[3], p[1] # p[4], p[2] # p[3], p[2] # p[4], p[3] # p[4],
           \A j : j \in corners <=> \E y \in {p[1], p[2], p[3], p[4]} : Len(y) = 1 /\ y[1] = j
    PROVE  WellShaped(p, corners)
<1>1. \A k \in 1..Len(p) : p[k] \in {p[1], p[2], p[3], p[4]}
  OBVIOUS
<1>2. \A k \in 1..Len(p) : Len(p[k]) = 1 => p[k][1] \in corners
  BY <1>1, Zenon
<1>3. 1 \in 1..Len(p) /\ 2 \in 1..Len(p) /\ 3 \in 1..Len(p) /\ 4 \in 1..Len(p)
  OBVIOUS
<1>4. \A j \in corners : \E k \in 1..Len(p) : Len(p[k]) = 1 /\ p[k][1] = j
  BY <1>3
<1>5. \A k \in 1..Len(p) - 1 : Meets(p[k], p[k + 1])
  <2>1. \A k \in 1..Len(p) - 1 : k = 1 \/ k = 2 \/ k = 3
    OBVIOUS
  <2>2. 1 + 1 = 2 /\ 2 + 1 = 3 /\ 3 + 1 = 4
    OBVIOUS
  <2> QED
    BY <2>1, <2>2, Zenon
<1>6. Meets(p[Len(p)], p[1])
  BY Zenon
<1>7. \A k \in 1..Len(p), l \in 1..Len(p) : k < l => p[k] # p[l]
  <2>1. \A k \in 1..Len(p), l \in 1..Len(p) :
            k < l => <<k, l>> \in {<<1, 2>>, <<1, 3>>, <<1, 4>>, <<2, 3>>, <<2, 4>>, <<3, 4>>}
    OBVIOUS
  <2> QED
    BY <2>1
<1> QED
  BY <1>2, <1>4, <1>5, <1>6, <1>7, ShapeOf

\* Clipping a triangle leaves nothing, a triangle or a quadrilateral: the corners in front of
\* the plane and the points where its edges cross it, once each and in order, whichever
\* corners are in front.
THEOREM ClippedIsPolygon ==
    ASSUME NEW inside \in [0..2 -> BOOLEAN]
    PROVE  WellClipped(inside)
<1> DEFINE a == inside[0]  b == inside[1]  c == inside[2]
           p == ClippedPolygon(inside)
           corners == {j \in 0..2 : inside[j]}
<1>1. \A j : j \in corners <=> (j = 0 /\ a) \/ (j = 1 /\ b) \/ (j = 2 /\ c)
  <2>1. \A j : j \in 0..2 <=> j = 0 \/ j = 1 \/ j = 2
    OBVIOUS
  <2> QED
    BY <2>1
<1>2. PICK S : p \in Seq(S)
  BY Clippings
<1>3. ~a /\ ~b /\ ~c => Len(p) = 0
  BY Clippings, Zenon
<1>4. a /\ ~b /\ ~c => Len(p) = 3 /\ p[1] = At(0) /\ p[2] = On(0, 1) /\ p[3] = On(2, 0)
  BY Clippings, Zenon
<1>5. ~a /\ b /\ ~c => Len(p) = 3 /\ p[1] = On(0, 1) /\ p[2] = At(1) /\ p[3] = On(1, 2)
  BY Clippings, Zenon
<1>6. ~a /\ ~b /\ c => Len(p) = 3 /\ p[1] = On(1, 2) /\ p[2] = At(2) /\ p[3] = On(2, 0)
  BY Clippings, Zenon
<1>7. a /\ b /\ ~c => Len(p) = 4 /\ p[1] = At(0) /\ p[2] = At(1) /\ p[3] = On(1, 2) /\ p[4] = On(2, 0)
  BY Clippings, Zenon
<1>8. a /\ ~b /\ c => Len(p) = 4 /\ p[1] = At(0) /\ p[2] = On(0, 1) /\ p[3] = On(1, 2) /\ p[4] = At(2)
  BY Clippings, Zenon
<1>9. ~a /\ b /\ c => Len(p) = 4 /\ p[1] = On(0, 1) /\ p[2] = At(1) /\ p[3] = At(2) /\ p[4] = On(2, 0)
  BY Clippings, Zenon
<1>10. a /\ b /\ c => Len(p) = 3 /\ p[1] = At(0) /\ p[2] = At(1) /\ p[3] = At(2)
  BY Clippings, Zenon
<1> HIDE DEF a, b, c, p, corners
<1>11. ASSUME NEW i \in 0..2, NEW j \in 0..2, NEW k \in 0..2
       PROVE  /\ Meets(At(i), At(j)) /\ Meets(On(i, j), On(j, k)) /\ Meets(On(j, k), On(i, j))
              /\ Meets(At(i), On(i, j)) /\ Meets(On(i, j), At(j))
              /\ Len(At(i)) = 1 /\ At(i)[1] = i /\ Len(On(i, j)) # 1
              /\ At(i) # On(j, k) /\ (At(i) = At(j) => i = j) /\ (On(i, j) = On(j, k) => i = j)
  <2>1. /\ Len(At(i)) = 1 /\ Len(At(j)) = 1 /\ Len(On(i, j)) = 2 /\ Len(On(j, k)) = 2 /\ At(i)[1] = i
        /\ Range(At(i)) = {i} /\ Range(At(j)) = {j} /\ Range(On(i, j)) = {i, j}
    BY PointsDiffer
  <2>2. At(i) # On(j, k) /\ (At(i) = At(j) => i = j) /\ (On(i, j) = On(j, k) => i = j)
    BY PointsDiffer
  <2>3. Meets(At(i), At(j)) /\ Meets(On(i, j), On(j, k)) /\ Meets(On(j, k), On(i, j))
    BY <2>1 DEF Meets
  <2>4. Meets(At(i), On(i, j)) /\ Meets(On(i, j), At(j))
    BY <2>1 DEF Meets
  <2> QED
    BY <2>1, <2>2, <2>3, <2>4
<1>12. /\ Meets(At(0), At(1)) /\ Meets(At(1), At(2)) /\ Meets(At(2), At(0))
       /\ Meets(At(0), On(0, 1)) /\ Meets(At(1), On(1, 2)) /\ Meets(At(2), On(2, 0))
       /\ Meets(On(0, 1), At(1)) /\ Meets(On(1, 2), At(2)) /\ Meets(On(2, 0), At(0))
       /\ Meets(On(0, 1), On(1, 2)) /\ Meets(On(1, 2), On(2, 0)) /\ Meets(On(2, 0), On(0, 1))
       /\ Meets(On(1, 2), On(0, 1)) /\ Meets(On(2, 0), On(1, 2)) /\ Meets(On(0, 1), On(2, 0))
       /\ Len(At(0)) = 1 /\ At(0)[1] = 0 /\ Len(At(1)) = 1 /\ At(1)[1] = 1 /\ Len(At(2)) = 1 /\ At(2)[1] = 2
       /\ Len(On(0, 1)) # 1 /\ Len(On(1, 2)) # 1 /\ Len(On(2, 0)) # 1
  <2>1. 0 \in 0..2 /\ 1 \in 0..2 /\ 2 \in 0..2
    OBVIOUS
  <2> QED
    BY <1>11, <2>1, Zenon
<1>13. /\ At(0) # At(1) /\ At(0) # At(2) /\ At(1) # At(2)
       /\ On(0, 1) # On(1, 2) /\ On(0, 1) # On(2, 0) /\ On(1, 2) # On(2, 0)
       /\ At(0) # On(0, 1) /\ At(0) # On(1, 2) /\ At(0) # On(2, 0)
       /\ At(1) # On(0, 1) /\ At(1) # On(1, 2) /\ At(1) # On(2, 0)
       /\ At(2) # On(0, 1) /\ At(2) # On(1, 2) /\ At(2) # On(2, 0)
       /\ On(0, 1) # At(1) /\ On(0, 1) # At(2) /\ On(1, 2) # At(2)
  <2>1. 0 # 1 /\ 0 # 2 /\ 1 # 2
    OBVIOUS
  <2> QED
    BY <2>1, PointsDiffer
<1>14. ASSUME ~a /\ ~b /\ ~c
       PROVE  WellShaped(p, corners)
  <2>1. p = <<>> /\ Len(p) = 0 /\ corners = {}
    BY <1>1, <1>2, <1>3, <1>14
  <2>2. Range(p) = {}
    BY <2>1 DEF Range
  <2> QED
    BY <2>1, <2>2 DEF WellShaped
<1>15. ASSUME a /\ ~b /\ ~c
       PROVE  WellShaped(p, corners)
  <2>1. corners = {0}
    BY <1>1, <1>15
  <2>2. Len(p) = 3 /\ p[1] = At(0) /\ p[2] = On(0, 1) /\ p[3] = On(2, 0)
    BY <1>4, <1>15, Zenon
  <2>3. \A j : j \in corners <=> \E y \in {At(0), On(0, 1), On(2, 0)} : Len(y) = 1 /\ y[1] = j
    BY <1>12, <2>1
  <2>4. corners # {}
    BY <2>1
  <2>5. \A j : j \in corners <=> \E y \in {p[1], p[2], p[3]} : Len(y) = 1 /\ y[1] = j
    BY <2>2, <2>3
  <2>6. Meets(p[1], p[2]) /\ Meets(p[2], p[3]) /\ Meets(p[3], p[1])
    BY <1>12, <2>2, Zenon
  <2>7. p[1] # p[2] /\ p[1] # p[3] /\ p[2] # p[3]
    BY <1>13, <2>2
  <2> QED
    BY <1>2, <2>2, <2>4, <2>5, <2>6, <2>7, ShapeOfThree
<1>16. ASSUME ~a /\ b /\ ~c
       PROVE  WellShaped(p, corners)
  <2>1. corners = {1}
    BY <1>1, <1>16
  <2>2. Len(p) = 3 /\ p[1] = On(0, 1) /\ p[2] = At(1) /\ p[3] = On(1, 2)
    BY <1>5, <1>16, Zenon
  <2>3. \A j : j \in corners <=> \E y \in {On(0, 1), At(1), On(1, 2)} : Len(y) = 1 /\ y[1] = j
    BY <1>12, <2>1
  <2>4. corners # {}
    BY <2>1
  <2>5. \A j : j \in corners <=> \E y \in {p[1], p[2], p[3]} : Len(y) = 1 /\ y[1] = j
    BY <2>2, <2>3
  <2>6. Meets(p[1], p[2]) /\ Meets(p[2], p[3]) /\ Meets(p[3], p[1])
    BY <1>12, <2>2, Zenon
  <2>7. p[1] # p[2] /\ p[1] # p[3] /\ p[2] # p[3]
    BY <1>13, <2>2
  <2> QED
    BY <1>2, <2>2, <2>4, <2>5, <2>6, <2>7, ShapeOfThree
<1>17. ASSUME ~a /\ ~b /\ c
       PROVE  WellShaped(p, corners)
  <2>1. corners = {2}
    BY <1>1, <1>17
  <2>2. Len(p) = 3 /\ p[1] = On(1, 2) /\ p[2] = At(2) /\ p[3] = On(2, 0)
    BY <1>6, <1>17, Zenon
  <2>3. \A j : j \in corners <=> \E y \in {On(1, 2), At(2), On(2, 0)} : Len(y) = 1 /\ y[1] = j
    BY <1>12, <2>1
  <2>4. corners # {}
    BY <2>1
  <2>5. \A j : j \in corners <=> \E y \in {p[1], p[2], p[3]} : Len(y) = 1 /\ y[1] = j
    BY <2>2, <2>3
  <2>6. Meets(p[1], p[2]) /\ Meets(p[2], p[3]) /\ Meets(p[3], p[1])
    BY <1>12, <2>2, Zenon
  <2>7. p[1] # p[2] /\ p[1] # p[3] /\ p[2] # p[3]
    BY <1>13, <2>2
  <2> QED
    BY <1>2, <2>2, <2>4, <2>5, <2>6, <2>7, ShapeOfThree
<1>18. ASSUME a /\ b /\ ~c
       PROVE  WellShaped(p, corners)
  <2>1. corners = {0, 1}
    BY <1>1, <1>18
  <2>2. Len(p) = 4 /\ p[1] = At(0) /\ p[2] = At(1) /\ p[3] = On(1, 2) /\ p[4] = On(2, 0)
    BY <1>7, <1>18, Zenon
  <2>3. \A j : j \in corners <=> \E y \in {At(0), At(1), On(1, 2), On(2, 0)} : Len(y) = 1 /\ y[1] = j
    BY <1>12, <2>1
  <2>4. corners # {}
    BY <2>1
  <2>5. \A j : j \in corners <=> \E y \in {p[1], p[2], p[3], p[4]} : Len(y) = 1 /\ y[1] = j
    BY <2>2, <2>3
  <2>6. Meets(p[1], p[2]) /\ Meets(p[2], p[3]) /\ Meets(p[3], p[4]) /\ Meets(p[4], p[1])
    BY <1>12, <2>2, Zenon
  <2>7. p[1] # p[2] /\ p[1] # p[3] /\ p[1] # p[4] /\ p[2] # p[3] /\ p[2] # p[4] /\ p[3] # p[4]
    BY <1>13, <2>2
  <2> QED
    BY <1>2, <2>2, <2>4, <2>5, <2>6, <2>7, ShapeOfFour
<1>19. ASSUME a /\ ~b /\ c
       PROVE  WellShaped(p, corners)
  <2>1. corners = {0, 2}
    BY <1>1, <1>19
  <2>2. Len(p) = 4 /\ p[1] = At(0) /\ p[2] = On(0, 1) /\ p[3] = On(1, 2) /\ p[4] = At(2)
    BY <1>8, <1>19, Zenon
  <2>3. \A j : j \in corners <=> \E y \in {At(0), On(0, 1), On(1, 2), At(2)} : Len(y) = 1 /\ y[1] = j
    BY <1>12, <2>1
  <2>4. corners # {}
    BY <2>1
  <2>5. \A j : j \in corners <=> \E y \in {p[1], p[2], p[3], p[4]} : Len(y) = 1 /\ y[1] = j
    BY <2>2, <2>3
  <2>6. Meets(p[1], p[2]) /\ Meets(p[2], p[3]) /\ Meets(p[3], p[4]) /\ Meets(p[4], p[1])
    BY <1>12, <2>2, Zenon
  <2>7. p[1] # p[2] /\ p[1] # p[3] /\ p[1] # p[4] /\ p[2] # p[3] /\ p[2] # p[4] /\ p[3] # p[4]
    BY <1>13, <2>2
  <2> QED
    BY <1>2, <2>2, <2>4, <2>5, <2>6, <2>7, ShapeOfFour
<1>20. ASSUME ~a /\ b /\ c
       PROVE  WellShaped(p, corners)
  <2>1. corners = {1, 2}
    BY <1>1, <1>20
  <2>2. Len(p) = 4 /\ p[1] = On(0, 1) /\ p[2] = At(1) /\ p[3] = At(2) /\ p[4] = On(2, 0)
    BY <1>9, <1>20, Zenon
  <2>3. \A j : j \in corners <=> \E y \in {On(0, 1), At(1), At(2), On(2, 0)} : Len(y) = 1 /\ y[1] = j
    BY <1>12, <2>1
  <2>4. corners # {}
    BY <2>1
  <2>5. \A j : j \in corners <=> \E y \in {p[1], p[2], p[3], p[4]} : Len(y) = 1 /\ y[1] = j
    BY <2>2, <2>3
  <2>6. Meets(p[1], p[2]) /\ Meets(p[2], p[3]) /\ Meets(p[3], p[4]) /\ Meets(p[4], p[1])
    BY <1>12, <2>2, Zenon
  <2>7. p[1] # p[2] /\ p[1] # p[3] /\ p[1] # p[4] /\ p[2] # p[3] /\ p[2] # p[4] /\ p[3] # p[4]
    BY <1>13, <2>2
  <2> QED
    BY <1>2, <2>2, <2>4, <2>5, <2>6, <2>7, ShapeOfFour
<1>21. ASSUME a /\ b /\ c
       PROVE  WellShaped(p, corners)
  <2>1. corners = {0, 1, 2}
    BY <1>1, <1>21
  <2>2. Len(p) = 3 /\ p[1] = At(0) /\ p[2] = At(1) /\ p[3] = At(2)
    BY <1>10, <1>21, Zenon
  <2>3. \A j : j \in corners <=> \E y \in {At(0), At(1), At(2)} : Len(y) = 1 /\ y[1] = j
    BY <1>12, <2>1
  <2>4. corners # {}
    BY <2>1
  <2>5. \A j : j \in corners <=> \E y \in {p[1], p[2], p[3]} : Len(y) = 1 /\ y[1] = j
    BY <2>2, <2>3
  <2>6. Meets(p[1], p[2]) /\ Meets(p[2], p[3]) /\ Meets(p[3], p[1])
    BY <1>12, <2>2, Zenon
  <2>7. p[1] # p[2] /\ p[1] # p[3] /\ p[2] # p[3]
    BY <1>13, <2>2
  <2> QED
    BY <1>2, <2>2, <2>4, <2>5, <2>6, <2>7, ShapeOfThree
<1>22. a \in BOOLEAN /\ b \in BOOLEAN /\ c \in BOOLEAN
  BY DEF a, b, c
<1>23. WellShaped(p, corners)
  BY <1>14, <1>15, <1>16, <1>17, <1>18, <1>19, <1>20, <1>21, <1>22
<1> QED
  BY <1>23, Zenon DEF WellClipped, WellShaped, Meets, p, corners

-----------------------------------------------------------------------------
(* The order of drawing.                                                   *)

\* A pixel's depth after drawing is that of the nearest candidate, whichever it is.
LEMMA FrontsAreAsNear ==
    ASSUME NEW colours, NEW g, NEW mesh \in Seq(Polygons(colours)), NEW other \in Seq(Polygons(colours)),
           NEW c, Range(mesh) = Range(other)
    PROVE  /\ Candidates(g, mesh, c) = {} <=> Candidates(g, other, c) = {}
           /\ \A k \in DOMAIN mesh, l \in DOMAIN other :
                 IsInFront(mesh, k, Candidates(g, mesh, c)) /\ IsInFront(other, l, Candidates(g, other, c))
                    => mesh[k].z = other[l].z
<1> DEFINE There(p) == c \in Drawn(p.corners, g.w, g.h) /\ p.z < g.depth[c]
<1>1. /\ \A k : k \in Candidates(g, mesh, c) <=> k \in DOMAIN mesh /\ There(mesh[k])
      /\ \A k : k \in Candidates(g, other, c) <=> k \in DOMAIN other /\ There(other[k])
  BY DEF Candidates, IsNearer
<1> HIDE DEF There
<1>2. /\ \A k \in DOMAIN mesh : \E l \in DOMAIN other : other[l] = mesh[k]
      /\ \A l \in DOMAIN other : \E k \in DOMAIN mesh : mesh[k] = other[l]
  BY DEF Range
<1>3. /\ \A k \in DOMAIN mesh : mesh[k].z \in Int
      /\ \A l \in DOMAIN other : other[l].z \in Int
  <2>1. /\ \A k \in DOMAIN mesh : mesh[k] \in Polygons(colours)
        /\ \A l \in DOMAIN other : other[l] \in Polygons(colours)
    OBVIOUS
  <2>2. \A p \in Polygons(colours) : p.z \in Int
    BY DEF Polygons
  <2> QED
    BY <2>1, <2>2, Zenon
<1>4. Candidates(g, mesh, c) = {} <=> Candidates(g, other, c) = {}
  BY <1>1, <1>2
<1>5. ASSUME NEW k \in DOMAIN mesh, NEW l \in DOMAIN other,
             IsInFront(mesh, k, Candidates(g, mesh, c)), IsInFront(other, l, Candidates(g, other, c))
      PROVE  mesh[k].z = other[l].z
  <2>1. /\ k \in Candidates(g, mesh, c) /\ \A j \in Candidates(g, mesh, c) : mesh[k].z < mesh[j].z \/ mesh[k].z = mesh[j].z
        /\ l \in Candidates(g, other, c) /\ \A j \in Candidates(g, other, c) : other[l].z < other[j].z \/ other[l].z = other[j].z
    BY <1>5, Zenon DEF IsInFront
  <2>2. PICK i \in DOMAIN other : other[i] = mesh[k]
    BY <1>2
  <2>3. PICK j \in DOMAIN mesh : mesh[j] = other[l]
    BY <1>2
  <2>4. i \in Candidates(g, other, c) /\ j \in Candidates(g, mesh, c)
    BY <1>1, <2>1, <2>2, <2>3
  <2>5. /\ mesh[k].z < other[l].z \/ mesh[k].z = other[l].z
        /\ other[l].z < mesh[k].z \/ other[l].z = mesh[k].z
    BY <2>1, <2>2, <2>3, <2>4, Zenon
  <2> QED
    BY <1>3, <2>5
<1> QED
  BY <1>4, <1>5

\* What is seen of a mesh does not depend on the order its polygons are drawn in, if those at
\* one depth look alike; the depths, which is all that the pass for the shadows writes, never do.
THEOREM OrderDoesNotMatter ==
    ASSUME NEW cells, NEW colours, NEW g \in Targets(cells, colours),
           NEW mesh \in Seq(Polygons(colours)), NEW other \in Seq(Polygons(colours)), Range(mesh) = Range(other)
    PROVE  /\ DrawDepth(g, mesh) = DrawDepth(g, other)
           /\ (\A p, q \in Range(mesh) : p.z = q.z => p.colour = q.colour) => draw(g, mesh) = draw(g, other)
<1> DEFINE u == draw(g, mesh)  v == draw(g, other)
<1>1. /\ u \in Targets(cells, colours) /\ u.w = g.w /\ u.h = g.h
      /\ v \in Targets(cells, colours) /\ v.w = g.w /\ v.h = g.h
      /\ \A c \in cells : ShowsFront(u, g, mesh, c, Candidates(g, mesh, c))
      /\ \A c \in cells : ShowsFront(v, g, other, c, Candidates(g, other, c))
  BY FrontOfMesh
<1> HIDE DEF u, v
<1>2. ASSUME NEW c \in cells
      PROVE  /\ u.depth[c] = v.depth[c]
             /\ u.colour[c] = v.colour[c] \/ \E p, q \in Range(mesh) : p.z = q.z /\ p.colour # q.colour
  <2>1. CASE Candidates(g, mesh, c) = {}
    <3>1. Candidates(g, other, c) = {}
      BY <2>1, FrontsAreAsNear
    <3> QED
      BY <1>1, <2>1, <3>1 DEF ShowsFront
  <2>2. CASE Candidates(g, mesh, c) # {}
    <3>1. Candidates(g, other, c) # {}
      BY <2>2, FrontsAreAsNear
    <3>2. PICK k \in DOMAIN mesh : /\ IsInFront(mesh, k, Candidates(g, mesh, c))
                                   /\ u.depth[c] = mesh[k].z /\ u.colour[c] = mesh[k].colour
      BY <1>1, <2>2 DEF ShowsFront
    <3>3. PICK l \in DOMAIN other : /\ IsInFront(other, l, Candidates(g, other, c))
                                    /\ v.depth[c] = other[l].z /\ v.colour[c] = other[l].colour
      BY <1>1, <3>1 DEF ShowsFront
    <3>4. mesh[k].z = other[l].z
      BY <3>2, <3>3, FrontsAreAsNear
    <3>5. mesh[k] \in Range(mesh) /\ other[l] \in Range(mesh)
      BY DEF Range
    <3> QED
      BY <3>2, <3>3, <3>4, <3>5
  <2> QED
    BY <2>1, <2>2
<1>3. u.depth = v.depth
  <2>1. u.depth \in [cells -> Int] /\ v.depth \in [cells -> Int]
    BY <1>1 DEF Targets
  <2> QED
    BY <1>2, <2>1
<1>4. DrawDepth(g, mesh) = DrawDepth(g, other)
  BY <1>3, Zenon DEF DrawDepth, u, v
<1>5. ASSUME \A p, q \in Range(mesh) : p.z = q.z => p.colour = q.colour
      PROVE  u = v
  <2>1. \A c \in cells : u.colour[c] = v.colour[c]
    BY <1>2, <1>5
  <2>2. u.colour \in [cells -> colours] /\ v.colour \in [cells -> colours]
    BY <1>1 DEF Targets
  <2>3. u.colour = v.colour
    BY <2>1, <2>2
  <2>4. u.w = v.w /\ u.h = v.h
    BY <1>1
  <2>5. /\ u = [w |-> u.w, h |-> u.h, depth |-> u.depth, colour |-> u.colour]
        /\ v = [w |-> v.w, h |-> v.h, depth |-> v.depth, colour |-> v.colour]
    BY <1>1 DEF Targets
  <2> QED
    BY <1>3, <2>3, <2>4, <2>5, Zenon
<1> QED
  BY <1>4, <1>5 DEF u, v

\* The pass for the shadows finds the depths of the other pass.
LEMMA DepthAlone ==
    ASSUME NEW cells, NEW colours, NEW g \in Targets(cells, colours), NEW mesh \in Seq(Polygons(colours))
    PROVE  DrawDepth(g, mesh) = [draw(g, mesh) EXCEPT !.colour = g.colour]
<1> DEFINE u == draw(g, mesh)
<1>1. u \in Targets(cells, colours) /\ u.w = g.w /\ u.h = g.h
  BY FrontOfMesh
<1> HIDE DEF u
<1>2. [g EXCEPT !.depth = u.depth] = [u EXCEPT !.colour = g.colour]
  BY <1>1 DEF Targets
<1> QED
  BY <1>2, Zenon DEF DrawDepth, u

\* What the run evaluates for its samples follows from what holds of all polygons.
LEMMA PolygonsRight == PolygonsDrawRight
<1>1. \A inside \in [0..2 -> BOOLEAN] : WellClipped(inside)
  BY ClippedIsPolygon
<1>2. ASSUME NEW a \in Points, NEW b \in Points, NEW c \in Points, NEW d \in Points, Convex(<<a, b, c, d>>)
      PROVE  Seamless(<<a, b, c, d>>, 3, 3)
  <2>1. a \in Corner /\ b \in Corner /\ c \in Corner /\ d \in Corner
    BY DEF Points, Corner
  <2> QED
    BY <1>2, <2>1, FanIsSeamless
<1> DEFINE cells == Cells(Side, Side)  colours == {"none", "near", "far"}
<1>3. Blank \in Targets(cells, colours)
  BY DEF Blank, Targets, Side
<1>4. \A q \in Samples : q \in Seq(Corner)
  <2>1. \A i, j, k, l \in Corner : <<i, j, k, l>> \in Seq(Corner)
    OBVIOUS
  <2>2. \A i, j, k \in Corner : <<i, j, k>> \in Seq(Corner)
    OBVIOUS
  <2>3. /\ [x |-> -1, y |-> -1] \in Corner /\ [x |-> -1, y |-> 4] \in Corner
        /\ [x |-> 4, y |-> 4] \in Corner /\ [x |-> 4, y |-> -1] \in Corner
        /\ [x |-> 2, y |-> -1] \in Corner /\ [x |-> 1, y |-> 4] \in Corner
        /\ [x |-> 4, y |-> 2] \in Corner /\ [x |-> -1, y |-> 2] \in Corner
        /\ [x |-> 2, y |-> 4] \in Corner /\ [x |-> 4, y |-> 1] \in Corner
        /\ [x |-> 1, y |-> -1] \in Corner
    BY DEF Corner
  <2>4. <<[x |-> -1, y |-> -1], [x |-> -1, y |-> 4], [x |-> 4, y |-> 4], [x |-> 4, y |-> -1]>> \in Seq(Corner)
    BY <2>1, <2>3
  <2>5. <<[x |-> 2, y |-> -1], [x |-> 1, y |-> 4], [x |-> 4, y |-> 2]>> \in Seq(Corner)
    BY <2>2, <2>3
  <2>6. <<[x |-> -1, y |-> 2], [x |-> 2, y |-> 4], [x |-> 4, y |-> 1], [x |-> 1, y |-> -1]>> \in Seq(Corner)
    BY <2>1, <2>3
  <2> QED
    BY <2>4, <2>5, <2>6, Zenon DEF Samples
<1> HIDE DEF cells, colours
<1>5. ASSUME NEW q \in Samples, NEW r \in Samples, NEW z \in 0..2
      PROVE  LET near == [corners |-> q, z |-> 1, colour |-> "near"]
                 far == [corners |-> r, z |-> z, colour |-> "far"]
             IN  /\ NearestIsSeen(Blank, <<near, far, near>>)
                 /\ DrawDepth(Blank, <<far, near>>) = [draw(Blank, <<near, far>>) EXCEPT !.colour = Blank.colour]
  <2> DEFINE near == [corners |-> q, z |-> 1, colour |-> "near"]
             far == [corners |-> r, z |-> z, colour |-> "far"]
  <2>1. near \in Polygons(colours) /\ far \in Polygons(colours)
    BY <1>4 DEF Polygons, colours
  <2> HIDE DEF near, far
  <2> DEFINE nf == <<near, far>>  fn == <<far, near>>  nfn == <<near, far, near>>
  <2>2. nfn \in Seq(Polygons(colours)) /\ nf \in Seq(Polygons(colours)) /\ fn \in Seq(Polygons(colours))
    BY <2>1
  <2>3. Range(nf) = Range(fn)
    BY DEF Range
  <2> HIDE DEF nf, fn, nfn
  <2>4. NearestIsSeen(Blank, nfn)
    BY <1>3, <2>2, NearestSeen
  <2>5. DrawDepth(Blank, fn) = DrawDepth(Blank, nf)
    BY <1>3, <2>2, <2>3, OrderDoesNotMatter
  <2>6. DrawDepth(Blank, nf) = [draw(Blank, nf) EXCEPT !.colour = Blank.colour]
    BY <1>3, <2>2, DepthAlone
  <2> QED
    BY <2>4, <2>5, <2>6, Zenon DEF near, far, nf, fn, nfn
<1>6. Side = 3
  BY DEF Side
<1> QED
  BY <1>1, <1>2, <1>5, <1>6, Zenon DEF PolygonsDrawRight

\* What a session draws with: clipping leaves a polygon, the polygon is drawn without a seam or
\* a lost pixel, and the nearer one is seen in whatever order two are drawn.
THEOREM PolygonsWhole == Spec => []PolygonsAreWhole
<1>1. PolygonsAreWhole
  BY PolygonsRight, Zenon DEF PolygonsAreWhole
<1> QED
  BY <1>1, PTL

-----------------------------------------------------------------------------
(* Pictures.                                                               *)

\* blit_texture() cuts a picture that hangs over an edge of the view, or misses it altogether,
\* for pictures and views of every size and every position.
THEOREM BlitIsClipped ==
    ASSUME NEW w \in Int, NEW h \in Int, NEW values, NEW t \in [w : {w}, h : {h}, at : [Cells(w, h) -> values]],
           NEW m \in Int, NEW n \in Int, NEW p \in [w : {m}, h : {n}, at : [Cells(m, n) -> values]],
           NEW x \in Int, NEW y \in Int
    PROVE  Clips(t, p, x, y)
<1> DEFINE target == {<<x + c[1], y + c[2]>> : c \in Overlap(t, p, x, y)}
           Shown(c) == <<c[1] - x, c[2] - y>>
<1>1. /\ t.w = w /\ t.h = h /\ DOMAIN t.at = Cells(w, h)
      /\ p.w = m /\ p.h = n /\ DOMAIN p.at = Cells(m, n)
  OBVIOUS
<1>2. ASSUME NEW i \in Int, NEW j \in Int
      PROVE  <<i, j>> \in Overlap(t, p, x, y) <=>
                 /\ 0 <= i /\ i < m /\ 0 <= x + i /\ x + i < w
                 /\ 0 <= j /\ j < n /\ 0 <= y + j /\ y + j < h
  BY <1>1 DEF Overlap, AtLeast, AtMost
<1>3. Overlap(t, p, x, y) \subseteq Int \X Int
  BY <1>1 DEF Overlap, AtLeast, AtMost
<1>4. ASSUME NEW i \in Int, NEW j \in Int
      PROVE  <<i, j>> \in target <=> <<i - x, j - y>> \in Overlap(t, p, x, y)
  <2>1. ASSUME <<i, j>> \in target
        PROVE  <<i - x, j - y>> \in Overlap(t, p, x, y)
    <3>1. PICK c \in Overlap(t, p, x, y) : <<i, j>> = <<x + c[1], y + c[2]>>
      BY <2>1
    <3>2. c \in Int \X Int
      BY <1>3
    <3>3. c = <<i - x, j - y>>
      BY <3>1, <3>2
    <3> QED
      BY <3>1, <3>3
  <2>2. ASSUME <<i - x, j - y>> \in Overlap(t, p, x, y)
        PROVE  <<i, j>> \in target
    <3> DEFINE c == <<i - x, j - y>>
    <3>1. <<i, j>> = <<x + c[1], y + c[2]>>
      OBVIOUS
    <3> HIDE DEF c
    <3>2. c \in Overlap(t, p, x, y)
      BY <2>2 DEF c
    <3> QED
      BY <3>1, <3>2
  <2> QED
    BY <2>1, <2>2
<1>5. target \subseteq Int \X Int
  <2>1. ASSUME NEW c \in Overlap(t, p, x, y)
        PROVE  <<x + c[1], y + c[2]>> \in Int \X Int
    <3>1. c \in Int \X Int
      BY <1>3
    <3> QED
      BY <3>1
  <2> QED
    BY <2>1
<1> HIDE DEF target
<1>6. target \subseteq Cells(w, h)
  <2>1. ASSUME NEW i \in Int, NEW j \in Int, <<i, j>> \in target
        PROVE  <<i, j>> \in Cells(w, h)
    <3>1. i - x \in Int /\ j - y \in Int
      OBVIOUS
    <3>2. 0 <= x + (i - x) /\ x + (i - x) < w /\ 0 <= y + (j - y) /\ y + (j - y) < h
      BY <1>2, <1>4, <2>1, <3>1
    <3> QED
      BY <3>2 DEF Cells
  <2> QED
    BY <1>5, <2>1
<1>7. ASSUME NEW c \in Cells(w, h)
      PROVE  c \in target <=> Shown(c) \in Cells(m, n)
  <2>1. PICK i \in 0..w - 1, j \in 0..h - 1 : c = <<i, j>>
    BY DEF Cells
  <2>2. i - x \in Int /\ j - y \in Int /\ i \in Int /\ j \in Int
    OBVIOUS
  <2>3. c \in target <=> 0 <= i - x /\ i - x < m /\ 0 <= j - y /\ j - y < n
    <3>1. 0 <= x + (i - x) /\ x + (i - x) < w /\ 0 <= y + (j - y) /\ y + (j - y) < h
      OBVIOUS
    <3> QED
      BY <1>2, <1>4, <2>1, <2>2, <3>1
  <2>4. Shown(c) \in Cells(m, n) <=> 0 <= i - x /\ i - x < m /\ 0 <= j - y /\ j - y < n
    BY <2>1 DEF Cells
  <2> QED
    BY <2>3, <2>4
<1>8. blit_texture(t, p, x, y) =
          [t EXCEPT !.at = [c \in Cells(w, h) \cup target |-> IF c \in target THEN p.at[Shown(c)] ELSE t.at[c]]]
  BY <1>1, Zenon DEF blit_texture, target
<1>9. [c \in Cells(w, h) \cup target |-> IF c \in target THEN p.at[Shown(c)] ELSE t.at[c]]
          = [c \in Cells(w, h) |-> IF Shown(c) \in Cells(m, n) THEN p.at[Shown(c)] ELSE t.at[c]]
  <2>1. Cells(w, h) \cup target = Cells(w, h)
    BY <1>6, Zenon
  <2> HIDE DEF Shown
  <2> QED
    BY <1>7, <2>1
<1>10. blit_texture(t, p, x, y) =
           [t EXCEPT !.at = [c \in Cells(w, h) |-> IF Shown(c) \in Cells(m, n) THEN p.at[Shown(c)] ELSE t.at[c]]]
  BY <1>8, <1>9, Zenon
<1>11. DOMAIN t.at = Cells(w, h) /\ DOMAIN p.at = Cells(m, n)
  BY <1>1
<1> QED
  BY <1>10, <1>11 DEF Clips

-----------------------------------------------------------------------------
(* Text written in rows.                                                   *)

\* There is one quotient and one remainder.
LEMMA DividedOnce ==
    ASSUME NEW w \in Nat \ {0}, NEW q \in Int, NEW r \in 0..w - 1, NEW q2 \in Int, NEW r2 \in 0..w - 1,
           w * q + r = w * q2 + r2
    PROVE  q = q2 /\ r = r2
<1>1. ASSUME NEW a \in Int, NEW b \in Int, NEW c \in 0..w - 1, NEW d \in 0..w - 1, a < b
      PROVE  w * a + c < w * b + d
  <2>1. (b - a - 1) * w >= 0 /\ (b - a - 1) * w = w * b - w * a - w
    BY <1>1
  <2> QED
    BY <2>1
<1>2. ~(q < q2)
  BY <1>1
<1>3. ~(q2 < q)
  BY <1>1
<1> QED
  BY <1>2, <1>3

\* The row and the column of an offset.
LEMMA RowAndColumn ==
    ASSUME NEW w \in Nat \ {0}, NEW v \in Int
    PROVE  /\ RowOf(v, w) \in Nat /\ ColumnOf(v, w) \in Int
           /\ v < 0 => RowOf(v, w) = 0 /\ ColumnOf(v, w) = v
           /\ v >= 0 => ColumnOf(v, w) \in 0..w - 1 /\ v = w * RowOf(v, w) + ColumnOf(v, w)
<1> DEFINE q == v \div w  r == v % w
<1>1. q \in Int /\ r \in 0..w - 1 /\ v = w * q + r
  OBVIOUS
<1> HIDE DEF q, r
<1>2. v >= 0 => q >= 0
  <2>1. SUFFICES ASSUME v >= 0, q < 0 PROVE FALSE
    BY <1>1
  <2>2. (-1 - q) * w >= 0 /\ (-1 - q) * w = -w - w * q
    BY <1>1, <2>1
  <2> QED
    BY <1>1, <2>1, <2>2
<1> QED
  BY <1>1, <1>2 DEF RowOf, ColumnOf, q, r

\* The next offset is in the next column, or begins the next row.
LEMMA NextColumn ==
    ASSUME NEW w \in Nat \ {0}, NEW v \in Int
    PROVE  IF ColumnOf(v, w) + 1 >= w THEN RowOf(v + 1, w) = RowOf(v, w) + 1 /\ ColumnOf(v + 1, w) = 0
           ELSE RowOf(v + 1, w) = RowOf(v, w) /\ ColumnOf(v + 1, w) = ColumnOf(v, w) + 1
<1> DEFINE r == RowOf(v, w)  c == ColumnOf(v, w)  r2 == RowOf(v + 1, w)  c2 == ColumnOf(v + 1, w)
<1>1. /\ r \in Nat /\ c \in Int /\ (v < 0 => r = 0 /\ c = v)
      /\ v >= 0 => c \in 0..w - 1 /\ v = w * r + c
  BY RowAndColumn
<1>2. /\ r2 \in Nat /\ c2 \in Int /\ (v + 1 < 0 => r2 = 0 /\ c2 = v + 1)
      /\ v + 1 >= 0 => c2 \in 0..w - 1 /\ v + 1 = w * r2 + c2
  <2>1. v + 1 \in Int
    OBVIOUS
  <2> QED
    BY <2>1, RowAndColumn
<1>3. SUFFICES IF c + 1 >= w THEN r2 = r + 1 /\ c2 = 0 ELSE r2 = r /\ c2 = c + 1
  OBVIOUS
<1> HIDE DEF r, c, r2, c2
<1>4. CASE v + 1 < 0
  BY <1>1, <1>2, <1>4
<1>5. CASE v = -1
  <2>1. w * r2 + c2 = w * 0 + 0 /\ 0 \in 0..w - 1 /\ c2 \in 0..w - 1
    BY <1>2, <1>5
  <2>2. r2 = 0 /\ c2 = 0
    BY <1>2, <2>1, DividedOnce
  <2> QED
    BY <1>1, <1>5, <2>2
<1>6. CASE v >= 0
  <2>1. CASE c + 1 >= w
    <3>1. w * r2 + c2 = w * (r + 1) + 0 /\ 0 \in 0..w - 1 /\ c2 \in 0..w - 1 /\ r + 1 \in Int
      BY <1>1, <1>2, <1>6, <2>1
    <3> QED
      BY <1>2, <2>1, <3>1, DividedOnce
  <2>2. CASE c + 1 < w
    <3>1. w * r2 + c2 = w * r + (c + 1) /\ c + 1 \in 0..w - 1 /\ c2 \in 0..w - 1
      BY <1>1, <1>2, <1>6, <2>2
    <3> QED
      BY <1>1, <1>2, <2>2, <3>1, DividedOnce
  <2> QED
    BY <1>1, <2>1, <2>2
<1> QED
  BY <1>4, <1>5, <1>6

IsLetter(ch) == ch \notin {Newline, Return}

\* The letters of a line, one position further.
LEMMA LettersSoFar ==
    ASSUME NEW text, NEW from \in Nat \ {0}, NEW k \in Nat, from <= k + 1
    PROVE  /\ Letters(text, from, k) \in Nat
           /\ Letters(text, k + 1, k) = 0
           /\ from <= k => Letters(text, from, k) = Letters(text, from, k - 1) + (IF IsLetter(text[k]) THEN 1 ELSE 0)
<1> DEFINE S(i, j) == {l \in i..j : text[l] \notin {Newline, Return}}
<1>1. ASSUME NEW i \in Int, NEW j \in Int
      PROVE  IsFiniteSet(S(i, j)) /\ Cardinality(S(i, j)) \in Nat
  <2>1. IsFiniteSet(i..j) /\ S(i, j) \in SUBSET (i..j)
    BY FS_Interval
  <2> HIDE DEF S
  <2>2. IsFiniteSet(S(i, j))
    BY <2>1, FS_Subset
  <2> QED
    BY <2>2, FS_CardinalityType
<1>2. S(k + 1, k) = {}
  OBVIOUS
<1>3. ASSUME from <= k
      PROVE  S(from, k) = IF IsLetter(text[k]) THEN S(from, k - 1) \cup {k} ELSE S(from, k - 1)
  BY <1>3 DEF IsLetter
<1>4. k \notin S(from, k - 1)
  OBVIOUS
<1>5. Letters(text, from, k) = Cardinality(S(from, k)) /\ Letters(text, k + 1, k) = Cardinality(S(k + 1, k))
      /\ Letters(text, from, k - 1) = Cardinality(S(from, k - 1))
  BY Zenon DEF Letters
<1> HIDE DEF S
<1>6. k \in Int /\ k - 1 \in Int /\ from \in Int
  OBVIOUS
<1>7. Cardinality(S(from, k)) \in Nat
  BY <1>1, <1>6
<1>8. Cardinality(S(k + 1, k)) = 0
  BY <1>2, FS_EmptySet
<1>9. ASSUME from <= k
      PROVE  Cardinality(S(from, k)) = Cardinality(S(from, k - 1)) + (IF IsLetter(text[k]) THEN 1 ELSE 0)
  <2>1. IsFiniteSet(S(from, k - 1)) /\ Cardinality(S(from, k - 1)) \in Nat
    BY <1>1, <1>6
  <2>2. CASE IsLetter(text[k])
    <3>1. Cardinality(S(from, k - 1) \cup {k}) = Cardinality(S(from, k - 1)) + 1
      BY <2>1, <1>4, FS_AddElement
    <3> QED
      BY <1>3, <1>9, <2>2, <3>1
  <2>3. CASE ~IsLetter(text[k])
    BY <1>3, <1>9, <2>1, <2>3
  <2> QED
    BY <2>2, <2>3
<1> QED
  BY <1>5, <1>7, <1>8, <1>9

\* A line goes on until a newline.
LEMMA StartOfLine ==
    ASSUME NEW text
    PROVE  /\ LineStart(text, 1) = 1
           /\ \A k \in Nat \ {0} : /\ LineStart(text, k) \in 1..k
                                   /\ LineStart(text, k + 1) = IF text[k] = Newline THEN k + 1 ELSE LineStart(text, k)
<1> DEFINE S(k) == {0} \cup {j \in 1..k - 1 : text[j] = Newline}
<1>1. \A k : LineStart(text, k) = Max(S(k)) + 1
  BY Zenon DEF LineStart
<1>2. S(1) = {0}
  OBVIOUS
<1>3. Max({0}) = 0
  BY DEF Max
<1>4. ASSUME NEW k \in Nat \ {0}, text[k] = Newline
      PROVE  Max(S(k + 1)) = k
  <2>1. S(k + 1) \in SUBSET Int /\ k \in S(k + 1) /\ \A y \in S(k + 1) : k >= y
    BY <1>4
  <2> HIDE DEF S
  <2>2. \A m \in S(k + 1) : (\A y \in S(k + 1) : m >= y) => m = k
    BY <2>1
  <2> QED
    BY <2>1, <2>2 DEF Max
<1>5. ASSUME NEW k \in Nat \ {0}, text[k] # Newline
      PROVE  S(k + 1) = S(k)
  BY <1>5
<1> DEFINE out == {k \in Nat : k # 0 /\ Max(S(k)) \notin 0..k - 1}
<1>6. out = {}
  <2>1. SUFFICES ASSUME out # {} PROVE FALSE
    OBVIOUS
  <2>2. PICK k \in out : \A m \in out : k <= m
    <3>1. out \subseteq Nat
      OBVIOUS
    <3> HIDE DEF out
    <3> QED
      BY <2>1, <3>1, LeastNat
  <2>3. k # 1
    BY <1>2, <1>3, <2>2
  <2>4. k - 1 \in Nat \ {0} /\ k - 1 \notin out /\ (k - 1) + 1 = k
    BY <2>2, <2>3
  <2> HIDE DEF S
  <2>5. Max(S(k - 1)) \in 0..k - 2
    BY <2>4
  <2>6. Max(S(k)) \in 0..k - 1
    BY <1>4, <1>5, <2>4, <2>5
  <2> QED
    BY <2>2, <2>6
<1> HIDE DEF S
<1>7. \A k \in Nat \ {0} : Max(S(k)) \in 0..k - 1
  BY <1>6
<1> QED
  BY <1>1, <1>2, <1>3, <1>4, <1>5, <1>7

\* How far a line has come, and the rows it took.
LEMMA OffsetIsInt ==
    ASSUME NEW text, NEW k \in Nat \ {0}, NEW x \in Int, NEW w \in Nat \ {0}
    PROVE  /\ Indent(text, k, x, w) = IF LineStart(text, k) > 1 THEN 0 ELSE IF x < w THEN x ELSE w
           /\ Letters(text, LineStart(text, k), k - 1) \in Nat
           /\ Offset(text, k, x, w) = Indent(text, k, x, w) + Letters(text, LineStart(text, k), k - 1)
           /\ Offset(text, k, x, w) \in Int
           /\ Wrapped(text, k, x, w) \in Nat
<1>1. Min({x, w}) = IF x < w THEN x ELSE w
  <2>1. CASE x < w
    <3>1. x \in {x, w} /\ \A y \in {x, w} : x <= y
      BY <2>1
    <3>2. \A m \in {x, w} : (\A y \in {x, w} : m <= y) => m = x
      BY <2>1
    <3> QED
      BY <2>1, <3>1, <3>2 DEF Min
  <2>2. CASE ~(x < w)
    <3>1. w \in {x, w} /\ \A y \in {x, w} : w <= y
      BY <2>2
    <3>2. \A m \in {x, w} : (\A y \in {x, w} : m <= y) => m = w
      BY <2>2
    <3> QED
      BY <2>2, <3>1, <3>2 DEF Min
  <2> QED
    BY <2>1, <2>2
<1>2. LineStart(text, k) \in 1..k
  BY StartOfLine
<1>3. Letters(text, LineStart(text, k), k - 1) \in Nat
  <2>1. LineStart(text, k) \in Nat \ {0} /\ k - 1 \in Nat /\ LineStart(text, k) <= (k - 1) + 1
    BY <1>2
  <2> QED
    BY <2>1, LettersSoFar
<1>4. Indent(text, k, x, w) = IF LineStart(text, k) > 1 THEN 0 ELSE IF x < w THEN x ELSE w
  BY <1>1, Zenon DEF Indent
<1>5. Offset(text, k, x, w) = Indent(text, k, x, w) + Letters(text, LineStart(text, k), k - 1)
  BY Zenon DEF Offset
<1>6. Offset(text, k, x, w) \in Int
  BY <1>3, <1>4, <1>5
<1>7. Wrapped(text, k, x, w) \in Nat
  <2>1. Offset(text, k, x, w) - 1 \in Int
    BY <1>6
  <2>2. RowOf(Offset(text, k, x, w) - 1, w) \in Nat
    BY <2>1, RowAndColumn
  <2> QED
    BY <2>2 DEF Wrapped
<1> QED
  BY <1>3, <1>4, <1>5, <1>6, <1>7

\* The rows above a line, one position further.
LEMMA RowsSoFar ==
    ASSUME NEW V, NEW text \in Seq(V), NEW x \in Int, NEW w \in Nat \ {0}
    PROVE  /\ RowsBefore(text, 1, x, w) = 0
           /\ \A k \in 1..Len(text) :
                 /\ RowsBefore(text, k, x, w) \in Nat
                 /\ RowsBefore(text, k + 1, x, w) =
                        RowsBefore(text, k, x, w) + (IF text[k] = Newline THEN 1 + Wrapped(text, k, x, w) ELSE 0)
           /\ RowsBefore(text, Len(text) + 1, x, w) \in Nat
<1> DEFINE n == Len(text)
           more == [k \in 1..n |-> IF text[k] = Newline THEN 1 + Wrapped(text, k, x, w) ELSE 0]
           step == [p \in Nat \X (1..n) |-> p[1] + more[p[2]]]
<1>1. n \in Nat
  OBVIOUS
<1>2. more \in [1..n -> Nat]
  <2>1. ASSUME NEW k \in 1..n
        PROVE  Wrapped(text, k, x, w) \in Nat
    <3>1. k \in Nat \ {0}
      OBVIOUS
    <3> QED
      BY <3>1, OffsetIsInt
  <2> QED
    BY <2>1
<1>3. \A k \in 1..n : more[k] = IF text[k] = Newline THEN 1 + Wrapped(text, k, x, w) ELSE 0
  OBVIOUS
<1> HIDE DEF more, n
<1>4. step \in [Nat \X (1..n) -> Nat]
  BY <1>2
<1>5. \A u \in Nat, k \in 1..n : step[<<u, k>>] = u + more[k]
  OBVIOUS
<1> HIDE DEF step
<1>6. PICK f : Runs(f, n, Nat, 0, step)
  BY <1>1, <1>4, Recursion
<1>7. /\ f \in [0..n -> Nat] /\ f[0] = 0
      /\ \A k \in 1..n : f[k] = f[k - 1] + more[k]
  <2>1. f \in [0..n -> Nat] /\ f[0] = 0 /\ \A k \in 1..n : f[k] = step[<<f[k - 1], k>>]
    BY <1>6 DEF Runs
  <2>2. \A k \in 1..n : f[k - 1] \in Nat
    BY <1>1, <2>1
  <2> QED
    BY <1>5, <2>1, <2>2
<1> DEFINE Goes(u) == u = [k \in 0..n |-> IF k = 0 THEN 0 ELSE u[k - 1] + (IF text[k] = Newline THEN 1 + Wrapped(text, k, x, w) ELSE 0)]
           sum == CHOOSE u : Goes(u)
<1>8. Goes(f)
  <2>1. ASSUME NEW k \in 0..n, k # 0
        PROVE  f[k] = f[k - 1] + (IF text[k] = Newline THEN 1 + Wrapped(text, k, x, w) ELSE 0)
    <3>1. k \in 1..n
      BY <1>1, <2>1
    <3> QED
      BY <1>3, <1>7, <3>1
  <2> QED
    BY <1>7, <2>1
<1>9. Goes(sum)
  BY <1>8, Zenon
<1>10. \A k : RowsBefore(text, k, x, w) = sum[k - 1]
  BY Zenon DEF RowsBefore, n
<1>11. /\ sum = [k \in 0..n |-> sum[k]] /\ sum[0] = 0
       /\ \A k \in 1..n : sum[k] = sum[k - 1] + more[k]
  <2> HIDE DEF sum
  <2>1. \A k \in 0..n : sum[k] = IF k = 0 THEN 0 ELSE sum[k - 1] + (IF text[k] = Newline THEN 1 + Wrapped(text, k, x, w) ELSE 0)
    BY <1>9
  <2>2. sum[0] = 0
    BY <1>1, <2>1
  <2>3. ASSUME NEW k \in 1..n
        PROVE  sum[k] = sum[k - 1] + more[k]
    <3>1. k \in 0..n /\ k # 0
      BY <1>1
    <3> QED
      BY <1>3, <2>1, <3>1
  <2>4. sum = [k \in 0..n |-> sum[k]]
    BY <1>9
  <2> QED
    BY <2>2, <2>3, <2>4
<1> HIDE DEF sum, Goes
<1>12. Runs(sum, n, Nat, 0, step)
  <2>1. \A k \in 1..n : sum[k - 1] \in Nat => sum[k] = step[<<sum[k - 1], k>>]
    BY <1>5, <1>11
  <2>2. 0 \in Nat
    OBVIOUS
  <2> QED
    BY <1>1, <1>4, <1>11, <2>1, <2>2, RunsAsRuled
<1>13. sum \in [0..n -> Nat]
  BY <1>12 DEF Runs
<1>14. ASSUME NEW k \in 1..n
       PROVE  sum[k - 1] \in Nat /\ sum[(k + 1) - 1] = sum[k - 1] + more[k]
  <2>1. k - 1 \in 0..n /\ (k + 1) - 1 = k
    BY <1>1
  <2> QED
    BY <1>11, <1>13, <2>1
<1>15. sum[(n + 1) - 1] \in Nat /\ sum[1 - 1] = 0
  BY <1>1, <1>11, <1>13
<1> QED
  BY <1>3, <1>10, <1>14, <1>15 DEF n

\* Where drawText() would write next: the row before position k, and the column, which is w
\* after a full row.
Row(text, k, x, y, w) == y + RowsBefore(text, k, x, w) + Wrapped(text, k, x, w)
Column(text, k, x, w) ==
    IF Letters(text, LineStart(text, k), k - 1) = 0 THEN IF LineStart(text, k) > 1 THEN 0 ELSE x
    ELSE ColumnOf(Offset(text, k, x, w) - 1, w) + 1

\* A letter goes there, or to the next row if the row is full.
LEMMA LetterGoesThere ==
    ASSUME NEW text, NEW k \in Nat \ {0}, NEW x \in Int, NEW y \in Int, NEW w \in Nat \ {0}
    PROVE  /\ Column(text, k, x, w) \in Int /\ Wrapped(text, k, x, w) \in Nat
           /\ LET o == Offset(text, k, x, w)
                  wraps == Column(text, k, x, w) >= w
              IN  /\ RowOf(o, w) = Wrapped(text, k, x, w) + (IF wraps THEN 1 ELSE 0)
                  /\ ColumnOf(o, w) = IF wraps THEN 0 ELSE Column(text, k, x, w)
<1> DEFINE o == Offset(text, k, x, w)
           l == Letters(text, LineStart(text, k), k - 1)
           i == Indent(text, k, x, w)
           r == Wrapped(text, k, x, w)
           c == Column(text, k, x, w)
           later == LineStart(text, k) > 1
<1>1. /\ i = (IF later THEN 0 ELSE IF x < w THEN x ELSE w)
      /\ l \in Nat /\ o = i + l /\ o \in Int /\ r \in Nat
  BY OffsetIsInt
<1>2. /\ r = IF l = 0 THEN 0 ELSE RowOf(o - 1, w)
      /\ c = IF l = 0 THEN IF later THEN 0 ELSE x ELSE ColumnOf(o - 1, w) + 1
  BY Zenon DEF Wrapped, Column
<1>3. SUFFICES /\ c \in Int
               /\ RowOf(o, w) = r + (IF c >= w THEN 1 ELSE 0)
               /\ ColumnOf(o, w) = IF c >= w THEN 0 ELSE c
  BY <1>1
<1> HIDE DEF o, l, i, r, c, later
<1>4. o - 1 \in Int /\ (o - 1) + 1 = o
  BY <1>1
<1>5. CASE l # 0
  <2>1. /\ ColumnOf(o - 1, w) \in Int /\ RowOf(o - 1, w) \in Nat
    BY <1>4, RowAndColumn
  <2>2. IF ColumnOf(o - 1, w) + 1 >= w THEN RowOf(o, w) = RowOf(o - 1, w) + 1 /\ ColumnOf(o, w) = 0
        ELSE RowOf(o, w) = RowOf(o - 1, w) /\ ColumnOf(o, w) = ColumnOf(o - 1, w) + 1
    <3>1. IF ColumnOf(o - 1, w) + 1 >= w
          THEN RowOf((o - 1) + 1, w) = RowOf(o - 1, w) + 1 /\ ColumnOf((o - 1) + 1, w) = 0
          ELSE RowOf((o - 1) + 1, w) = RowOf(o - 1, w) /\ ColumnOf((o - 1) + 1, w) = ColumnOf(o - 1, w) + 1
      BY <1>4, NextColumn
    <3> QED
      BY <1>4, <3>1
  <2> QED
    BY <1>2, <1>5, <2>1, <2>2
<1>6. CASE l = 0
  <2>1. o = i /\ r = 0 /\ c = IF later THEN 0 ELSE x
    BY <1>1, <1>2, <1>6
  <2>2. /\ RowOf(o, w) \in Nat /\ ColumnOf(o, w) \in Int
        /\ o < 0 => RowOf(o, w) = 0 /\ ColumnOf(o, w) = o
        /\ o >= 0 => ColumnOf(o, w) \in 0..w - 1 /\ o = w * RowOf(o, w) + ColumnOf(o, w)
    BY <1>1, RowAndColumn
  <2>3. CASE c < w
    <3>1. o = c
      BY <1>1, <2>1, <2>3
    <3>2. ASSUME o >= 0
          PROVE  RowOf(o, w) = 0 /\ ColumnOf(o, w) = o
      <4>1. w * RowOf(o, w) + ColumnOf(o, w) = w * 0 + o /\ o \in 0..w - 1
        BY <1>1, <2>2, <2>3, <3>1, <3>2
      <4> QED
        BY <2>2, <3>2, <4>1, DividedOnce
    <3> QED
      BY <1>1, <2>1, <2>2, <2>3, <3>1, <3>2
  <2>4. CASE c >= w
    <3>1. o = w
      BY <1>1, <2>1, <2>4
    <3>2. w * RowOf(o, w) + ColumnOf(o, w) = w * 1 + 0 /\ 0 \in 0..w - 1 /\ ColumnOf(o, w) \in 0..w - 1
      BY <2>2, <3>1
    <3>3. RowOf(o, w) = 1 /\ ColumnOf(o, w) = 0
      BY <2>2, <3>2, DividedOnce
    <3> QED
      BY <1>1, <2>1, <2>4, <3>3
  <2>5. c \in Int
    BY <2>1
  <2> QED
    BY <2>3, <2>4, <2>5
<1> QED
  BY <1>5, <1>6

\* What one character makes of it.
MovesOn(text, k, x, y, w) ==
    LET row == Row(text, k, x, y, w)
        column == Column(text, k, x, w)
        place == PlaceOf(text, k, x, y, w)
    IN  /\ row \in Int /\ column \in Int
        /\ text[k] = Newline => Row(text, k + 1, x, y, w) = row + 1 /\ Column(text, k + 1, x, w) = 0
        /\ text[k] = Return => Row(text, k + 1, x, y, w) = row /\ Column(text, k + 1, x, w) = column
        /\ IsLetter(text[k]) =>
              /\ place = IF column >= w THEN <<0, row + 1>> ELSE <<column, row>>
              /\ Row(text, k + 1, x, y, w) = place[2] /\ Column(text, k + 1, x, w) = place[1] + 1

LEMMA PointerMoves ==
    ASSUME NEW V, NEW text \in Seq(V), NEW x \in Int, NEW y \in Int, NEW w \in Nat \ {0}, NEW k \in 1..Len(text)
    PROVE  MovesOn(text, k, x, y, w)
<1> DEFINE o == Offset(text, k, x, w)
           l == Letters(text, LineStart(text, k), k - 1)
           r == Wrapped(text, k, x, w)
           b == RowsBefore(text, k, x, w)
           c == Column(text, k, x, w)
           o2 == Offset(text, k + 1, x, w)
           l2 == Letters(text, LineStart(text, k + 1), k)
           r2 == Wrapped(text, k + 1, x, w)
           b2 == RowsBefore(text, k + 1, x, w)
           c2 == Column(text, k + 1, x, w)
           from == LineStart(text, k)
           from2 == LineStart(text, k + 1)
<1>1. k \in Nat \ {0} /\ k + 1 \in Nat \ {0} /\ k \in Nat /\ k - 1 \in Nat /\ (k + 1) - 1 = k
  OBVIOUS
<1>2. from \in 1..k /\ from2 = IF text[k] = Newline THEN k + 1 ELSE from
  BY <1>1, StartOfLine
<1>3. /\ Letters(text, k + 1, k) = 0
      /\ Letters(text, from, k) = l + (IF IsLetter(text[k]) THEN 1 ELSE 0)
  <2>1. from \in Nat \ {0} /\ from <= k + 1 /\ from <= k
    BY <1>1, <1>2
  <2> HIDE DEF from
  <2> QED
    BY <1>1, <2>1, LettersSoFar DEF from
<1>4. /\ l \in Nat /\ o = Indent(text, k, x, w) + l /\ o \in Int /\ r \in Nat
      /\ Indent(text, k, x, w) = IF from > 1 THEN 0 ELSE IF x < w THEN x ELSE w
  BY <1>1, OffsetIsInt
<1>5. /\ l2 \in Nat /\ o2 = Indent(text, k + 1, x, w) + l2 /\ o2 \in Int /\ r2 \in Nat
      /\ Indent(text, k + 1, x, w) = IF from2 > 1 THEN 0 ELSE IF x < w THEN x ELSE w
  <2>1. LET kk == k + 1
        IN  /\ Letters(text, LineStart(text, kk), kk - 1) \in Nat
            /\ Offset(text, kk, x, w) = Indent(text, kk, x, w) + Letters(text, LineStart(text, kk), kk - 1)
            /\ Offset(text, kk, x, w) \in Int /\ Wrapped(text, kk, x, w) \in Nat
            /\ Indent(text, kk, x, w) = IF LineStart(text, kk) > 1 THEN 0 ELSE IF x < w THEN x ELSE w
    BY <1>1, OffsetIsInt
  <2> QED
    BY <1>1, <2>1
<1>6. b \in Nat /\ b2 = b + (IF text[k] = Newline THEN 1 + r ELSE 0)
  BY RowsSoFar
<1>7. /\ c \in Int
      /\ RowOf(o, w) = r + (IF c >= w THEN 1 ELSE 0)
      /\ ColumnOf(o, w) = IF c >= w THEN 0 ELSE c
  BY <1>1, LetterGoesThere
<1>8. /\ r2 = IF l2 = 0 THEN 0 ELSE RowOf(o2 - 1, w)
      /\ c2 = IF l2 = 0 THEN IF from2 > 1 THEN 0 ELSE x ELSE ColumnOf(o2 - 1, w) + 1
      /\ r = IF l = 0 THEN 0 ELSE RowOf(o - 1, w)
      /\ c = IF l = 0 THEN IF from > 1 THEN 0 ELSE x ELSE ColumnOf(o - 1, w) + 1
  BY <1>1 DEF Wrapped, Column
<1>9. /\ Row(text, k, x, y, w) = y + b + r /\ Row(text, k + 1, x, y, w) = y + b2 + r2
      /\ PlaceOf(text, k, x, y, w) = <<ColumnOf(o, w), y + b + RowOf(o, w)>>
  BY Zenon DEF Row, PlaceOf
<1>10. l2 = IF text[k] = Newline THEN 0 ELSE l + (IF IsLetter(text[k]) THEN 1 ELSE 0)
  BY <1>2, <1>3
<1> HIDE DEF o, l, r, b, c, o2, l2, r2, b2, c2, from, from2
<1>11. ASSUME text[k] = Newline
       PROVE  y + b2 + r2 = y + b + r + 1 /\ c2 = 0
  <2>1. from2 = k + 1 /\ from2 > 1 /\ l2 = 0 /\ b2 = b + 1 + r
    BY <1>1, <1>2, <1>4, <1>6, <1>10, <1>11
  <2>2. r2 = 0 /\ c2 = 0
    BY <1>8, <2>1
  <2> QED
    BY <1>4, <1>6, <2>1, <2>2
<1>12. ASSUME text[k] = Return
       PROVE  y + b2 + r2 = y + b + r /\ c2 = c
  <2>1. from2 = from /\ l2 = l /\ b2 = b
    BY <1>2, <1>4, <1>6, <1>10, <1>12, CharactersDiffer DEF IsLetter
  <2>2. o2 = o
    BY <1>4, <1>5, <2>1
  <2> QED
    BY <1>8, <2>1, <2>2
<1>13. ASSUME IsLetter(text[k])
       PROVE  /\ y + b2 + r2 = y + b + RowOf(o, w) /\ c2 = ColumnOf(o, w) + 1
  <2>1. from2 = from /\ l2 = l + 1 /\ b2 = b
    BY <1>2, <1>4, <1>6, <1>10, <1>13 DEF IsLetter
  <2>2. o2 - 1 = o /\ l2 # 0
    BY <1>4, <1>5, <2>1
  <2> QED
    BY <1>8, <2>1, <2>2
<1>14. y + b + r \in Int /\ y + b + RowOf(o, w) = IF c >= w THEN y + b + r + 1 ELSE y + b + r
  BY <1>4, <1>6, <1>7
<1> QED
  BY <1>7, <1>9, <1>11, <1>12, <1>13, <1>14 DEF MovesOn, c, c2

\* What drawText() goes through, from one character to the next.
Pictures(w, h, V) == [w : {w}, h : {h}, at : [Cells(w, h) -> V]]
Strokes(w, h, V) == [t : Pictures(w, h, V), cx : Int, cy : Int, full : BOOLEAN]
IsWriting(f, g, text, x, y, V) ==
    /\ f \in [0..Len(text) -> Strokes(g.w, g.h, V)]
    /\ f[0] = [t |-> g, cx |-> x, cy |-> y, full |-> FALSE]
    /\ \A k \in 1..Len(text) : f[k] = PutChar(f[k - 1], text[k])
    /\ LET end == f[Len(text)]
       IN  drawText(g, x, y, text) = [t |-> end.t, fits |-> ~end.full /\ end.cy < end.t.h]

\* PutChar(), for each kind of character.
HasPut(s, ch, s2, w, h) ==
    LET cx == IF s.cx >= w THEN 0 ELSE s.cx
        cy == IF s.cx >= w THEN s.cy + 1 ELSE s.cy
    IN  /\ s.full \/ ch = Return => s2 = s
        /\ ~s.full /\ ch = Newline => ~s2.full /\ s2.t = s.t /\ s2.cx = 0 /\ s2.cy = s.cy + 1
        /\ ~s.full /\ IsLetter(ch) =>
              IF cy >= h THEN s2.full /\ s2.t = s.t
              ELSE /\ ~s2.full /\ s2.cx = cx + 1 /\ s2.cy = cy
                   /\ \A c \in Cells(w, h) : s2.t.at[c] = IF c = <<cx, cy>> THEN ch ELSE s.t.at[c]

LEMMA CharIsPut ==
    ASSUME NEW w \in Int, NEW h \in Int, NEW V, NEW s \in Strokes(w, h, V), NEW ch \in V
    PROVE  PutChar(s, ch) \in Strokes(w, h, V) /\ HasPut(s, ch, PutChar(s, ch), w, h)
<1> DEFINE cells == Cells(w, h)
           cx == IF s.cx >= w THEN 0 ELSE s.cx
           cy == IF s.cx >= w THEN s.cy + 1 ELSE s.cy
           at == IF <<cx, cy>> \in DOMAIN s.t.at THEN [s.t.at EXCEPT ![<<cx, cy>>] = ch] ELSE s.t.at
<1>1. /\ s.t \in Pictures(w, h, V) /\ s.cx \in Int /\ s.cy \in Int /\ s.full \in BOOLEAN
      /\ s = [t |-> s.t, cx |-> s.cx, cy |-> s.cy, full |-> s.full]
  BY DEF Strokes
<1>2. /\ s.t.w = w /\ s.t.h = h /\ s.t.at \in [cells -> V]
      /\ s.t = [w |-> w, h |-> h, at |-> s.t.at]
  BY <1>1 DEF Pictures
<1>3. /\ at \in [cells -> V]
      /\ \A c \in cells : at[c] = IF c = <<cx, cy>> THEN ch ELSE s.t.at[c]
  <2> DEFINE p == <<cx, cy>>
  <2> HIDE DEF p, cells
  <2>1. at = IF p \in cells THEN [s.t.at EXCEPT ![p] = ch] ELSE s.t.at
    BY <1>2 DEF p
  <2> HIDE DEF at
  <2>2. /\ at \in [cells -> V]
        /\ \A c \in cells : at[c] = IF c = p THEN ch ELSE s.t.at[c]
    BY <1>2, <2>1
  <2> QED
    BY <2>2 DEF p
<1> HIDE DEF cells
<1>4. CASE s.full \/ ch = Return
  BY <1>1, <1>4, CharactersDiffer DEF PutChar, IsLetter, HasPut
<1>5. CASE ~s.full /\ ch = Newline
  <2>1. PutChar(s, ch) = [s EXCEPT !.cx = 0, !.cy = s.cy + 1]
    BY <1>1, <1>5, CharactersDiffer DEF PutChar
  <2>2. PutChar(s, ch) = [t |-> s.t, cx |-> 0, cy |-> s.cy + 1, full |-> s.full]
    BY <1>1, <2>1
  <2>3. PutChar(s, ch) \in Strokes(w, h, V)
    BY <1>1, <2>2 DEF Strokes
  <2> QED
    BY <1>5, <2>2, <2>3, CharactersDiffer DEF IsLetter, HasPut
<1>6. CASE ~s.full /\ IsLetter(ch)
  <2>1. ch # Return /\ ch # Newline
    BY <1>6 DEF IsLetter
  <2>2. MustWrap(s.t, s.cx) <=> s.cx >= w
    BY <1>2 DEF MustWrap
  <2>3. PutChar(s, ch) = IF cy >= h THEN [s EXCEPT !.cx = cx, !.cy = cy, !.full = TRUE]
                         ELSE [s EXCEPT !.cx = cx + 1, !.cy = cy, !.t.at = at]
    BY <1>2, <1>6, <2>1, <2>2 DEF PutChar
  <2>4. cx \in Int /\ cy \in Int
    BY <1>1
  <2> HIDE DEF cx, cy, at
  <2>5. CASE cy >= h
    <3>1. PutChar(s, ch) = [t |-> s.t, cx |-> cx, cy |-> cy, full |-> TRUE]
      BY <1>1, <2>3, <2>5
    <3>2. PutChar(s, ch) \in Strokes(w, h, V)
      BY <1>1, <2>4, <3>1 DEF Strokes
    <3> QED
      BY <1>6, <2>1, <2>5, <3>1, <3>2 DEF cx, cy, HasPut
  <2>6. CASE ~(cy >= h)
    <3>1. PutChar(s, ch) = [t |-> [w |-> w, h |-> h, at |-> at], cx |-> cx + 1, cy |-> cy, full |-> s.full]
      <4>1. PutChar(s, ch) = [s EXCEPT !.cx = cx + 1, !.cy = cy, !.t.at = at]
        BY <2>3, <2>6
      <4>2. PutChar(s, ch) = [t |-> [s.t EXCEPT !.at = at], cx |-> cx + 1, cy |-> cy, full |-> s.full]
        BY <1>1, <4>1
      <4>3. [s.t EXCEPT !.at = at] = [w |-> w, h |-> h, at |-> at]
        BY <1>2
      <4> QED
        BY <4>2, <4>3
    <3>2. [w |-> w, h |-> h, at |-> at] \in Pictures(w, h, V)
      BY <1>3 DEF Pictures, cells
    <3>3. PutChar(s, ch) \in Strokes(w, h, V)
      BY <1>1, <2>4, <3>1, <3>2 DEF Strokes
    <3>4. /\ ~PutChar(s, ch).full /\ PutChar(s, ch).cx = cx + 1 /\ PutChar(s, ch).cy = cy
          /\ PutChar(s, ch).t.at = at
      BY <1>6, <3>1
    <3> QED
      BY <1>3, <1>6, <2>1, <2>6, <3>3, <3>4 DEF cx, cy, cells, HasPut
  <2> QED
    BY <2>5, <2>6
<1> QED
  BY <1>1, <1>4, <1>5, <1>6 DEF IsLetter

\* drawText() ends where they end.
LEMMA WritingOfText ==
    ASSUME NEW w \in Int, NEW h \in Int, NEW V, NEW g \in Pictures(w, h, V), NEW text \in Seq(V),
           NEW x \in Int, NEW y \in Int
    PROVE  \E f : IsWriting(f, g, text, x, y, V)
<1> DEFINE S == Strokes(w, h, V)
           n == Len(text)
           first == [t |-> g, cx |-> x, cy |-> y, full |-> FALSE]
           step == [p \in S \X (1..n) |-> PutChar(p[1], text[p[2]])]
<1>1. n \in Nat /\ first \in S
  BY DEF Strokes
<1>2. ASSUME NEW u \in S, NEW k \in 1..n
      PROVE  PutChar(u, text[k]) \in S
  <2>1. text[k] \in V
    OBVIOUS
  <2> QED
    BY <2>1, CharIsPut
<1> HIDE DEF S, first
<1>3. step \in [S \X (1..n) -> S]
  BY <1>2
<1>4. \A u \in S, k \in 1..n : step[<<u, k>>] = PutChar(u, text[k])
  OBVIOUS
<1> HIDE DEF step, n
<1>5. PICK f : Runs(f, n, S, first, step)
  BY <1>1, <1>3, Recursion
<1>6. /\ f \in [0..n -> S] /\ f[0] = first
      /\ \A k \in 1..n : f[k] = PutChar(f[k - 1], text[k])
  <2>1. f \in [0..n -> S] /\ f[0] = first /\ \A k \in 1..n : f[k] = step[<<f[k - 1], k>>]
    BY <1>5 DEF Runs
  <2>2. \A k \in 1..n : f[k - 1] \in S
    BY <1>1, <2>1
  <2> QED
    BY <1>4, <2>1, <2>2
<1> DEFINE Goes(u) == u = [k \in 0..n |-> IF k = 0 THEN first ELSE PutChar(u[k - 1], text[k])]
           after == CHOOSE u : Goes(u)
<1>7. Goes(f)
  <2>1. ASSUME NEW k \in 0..n, k # 0
        PROVE  f[k] = PutChar(f[k - 1], text[k])
    <3>1. k \in 1..n
      BY <1>1, <2>1
    <3> QED
      BY <1>6, <3>1
  <2> QED
    BY <1>6, <2>1
<1>8. Goes(after)
  BY <1>7, Zenon
<1>9. drawText(g, x, y, text) = [t |-> after[n].t, fits |-> ~after[n].full /\ after[n].cy < g.h]
  BY Zenon DEF drawText, n, first
<1>10. /\ after = [k \in 0..n |-> after[k]] /\ after[0] = first
       /\ \A k \in 1..n : after[k] = PutChar(after[k - 1], text[k])
  <2> HIDE DEF after
  <2>1. \A k \in 0..n : after[k] = IF k = 0 THEN first ELSE PutChar(after[k - 1], text[k])
    BY <1>8
  <2>2. after[0] = first
    BY <1>1, <2>1
  <2>3. ASSUME NEW k \in 1..n
        PROVE  after[k] = PutChar(after[k - 1], text[k])
    <3>1. k \in 0..n /\ k # 0
      BY <1>1
    <3> QED
      BY <2>1, <3>1
  <2>4. after = [k \in 0..n |-> after[k]]
    BY <1>8
  <2> QED
    BY <2>2, <2>3, <2>4
<1> HIDE DEF after, Goes
<1>11. Runs(after, n, S, first, step)
  <2>1. \A k \in 1..n : after[k - 1] \in S => after[k] = step[<<after[k - 1], k>>]
    BY <1>4, <1>10
  <2> QED
    BY <1>1, <1>3, <1>10, <2>1, RunsAsRuled
<1>12. after \in [0..n -> S]
  BY <1>11 DEF Runs
<1>13. after[n].t.h = g.h /\ g.w = w /\ g.h = h
  <2>1. after[n] \in S
    BY <1>1, <1>12
  <2> QED
    BY <2>1 DEF S, Strokes, Pictures
<1> QED
  BY <1>9, <1>10, <1>12, <1>13, Zenon DEF IsWriting, S, n, first

\* After k characters the letters so far are at their places, and nothing else has changed; once
\* the view is full, so it stays.
Precedes(p, column, row) == p[2] < row \/ (p[2] = row /\ p[1] < column)
GoesTo(text, j, x, y, w, c) == IsLetter(text[j]) /\ PlaceOf(text, j, x, y, w) = c
IsWritten(s, g, text, k, x, y) ==
    /\ IF s.full THEN Row(text, k + 1, x, y, g.w) >= g.h
       ELSE /\ s.cx = Column(text, k + 1, x, g.w) /\ s.cy = Row(text, k + 1, x, y, g.w)
            /\ \A j \in 1..k : IsLetter(text[j]) => Precedes(PlaceOf(text, j, x, y, g.w), s.cx, s.cy)
    /\ \A c \in Cells(g.w, g.h) :
          /\ \A j \in 1..k : GoesTo(text, j, x, y, g.w, c) => s.t.at[c] = text[j]
          /\ (\A j \in 1..k : ~GoesTo(text, j, x, y, g.w, c)) => s.t.at[c] = g.at[c]

\* One more character, whatever it is.
LEMMA OneMoreCharacter ==
    ASSUME NEW w \in Nat \ {0}, NEW h \in Int, NEW V, NEW g \in Pictures(w, h, V), NEW text \in Seq(V),
           NEW x \in Int, NEW y \in Int, NEW k \in 1..Len(text), NEW s \in Strokes(w, h, V),
           IsWritten(s, g, text, k - 1, x, y)
    PROVE  IsWritten(PutChar(s, text[k]), g, text, k, x, y)
<1> DEFINE s2 == PutChar(s, text[k])
           cx == IF s.cx >= w THEN 0 ELSE s.cx
           cy == IF s.cx >= w THEN s.cy + 1 ELSE s.cy
           column == Column(text, k, x, w)
           row == Row(text, k, x, y, w)
           column2 == Column(text, k + 1, x, w)
           row2 == Row(text, k + 1, x, y, w)
           P(j) == PlaceOf(text, j, x, y, w)
           L(j) == IsLetter(text[j])
           cells == Cells(w, h)
<1>1. g.w = w /\ g.h = h /\ w \in Int
  BY DEF Pictures
<1>2. /\ row \in Int /\ column \in Int
      /\ text[k] = Newline => row2 = row + 1 /\ column2 = 0
      /\ text[k] = Return => row2 = row /\ column2 = column
      /\ L(k) => /\ P(k) = IF column >= w THEN <<0, row + 1>> ELSE <<column, row>>
                 /\ row2 = P(k)[2] /\ column2 = P(k)[1] + 1
  <2>1. MovesOn(text, k, x, y, w)
    BY PointerMoves
  <2> QED
    BY <2>1, Zenon DEF MovesOn
<1>3. /\ s2 \in Strokes(w, h, V)
      /\ s.full \/ text[k] = Return => s2 = s
      /\ ~s.full /\ text[k] = Newline => ~s2.full /\ s2.t = s.t /\ s2.cx = 0 /\ s2.cy = s.cy + 1
      /\ ~s.full /\ L(k) =>
            IF cy >= h THEN s2.full /\ s2.t = s.t
            ELSE /\ ~s2.full /\ s2.cx = cx + 1 /\ s2.cy = cy
                 /\ \A c \in cells : s2.t.at[c] = IF c = <<cx, cy>> THEN text[k] ELSE s.t.at[c]
  <2>1. text[k] \in V
    OBVIOUS
  <2>2. s2 \in Strokes(w, h, V) /\ HasPut(s, text[k], s2, w, h)
    BY <1>1, <2>1, CharIsPut
  <2> QED
    BY <2>2, Zenon DEF HasPut
<1>4. /\ (k - 1) + 1 = k /\ k \in 1..k
      /\ \A j \in 1..k : j = k \/ j \in 1..k - 1
      /\ \A j \in 1..k - 1 : j \in 1..k
  OBVIOUS
<1>5. /\ IF s.full THEN row >= h
         ELSE s.cx = column /\ s.cy = row /\ \A j \in 1..k - 1 : L(j) => Precedes(P(j), s.cx, s.cy)
      /\ \A c \in cells :
            /\ \A j \in 1..k - 1 : L(j) /\ P(j) = c => s.t.at[c] = text[j]
            /\ (\A j \in 1..k - 1 : ~(L(j) /\ P(j) = c)) => s.t.at[c] = g.at[c]
  BY <1>1, <1>4, Zenon DEF IsWritten, GoesTo
<1>6. SUFFICES
        /\ IF s2.full THEN row2 >= h
           ELSE s2.cx = column2 /\ s2.cy = row2 /\ \A j \in 1..k : L(j) => Precedes(P(j), s2.cx, s2.cy)
        /\ \A c \in cells :
              /\ \A j \in 1..k : L(j) /\ P(j) = c => s2.t.at[c] = text[j]
              /\ (\A j \in 1..k : ~(L(j) /\ P(j) = c)) => s2.t.at[c] = g.at[c]
  BY <1>1, Zenon DEF IsWritten, GoesTo
<1>7. text[k] = Newline \/ text[k] = Return \/ L(k)
  BY DEF IsLetter
<1>8. ASSUME NEW j \in 1..k - 1
      PROVE  P(j)[1] \in Int /\ P(j)[2] \in Int
  <2>1. j \in Nat \ {0} /\ j \in 1..Len(text)
    OBVIOUS
  <2>2. /\ Offset(text, j, x, w) \in Int /\ RowsBefore(text, j, x, w) \in Nat
    BY <2>1, OffsetIsInt, RowsSoFar
  <2>3. RowOf(Offset(text, j, x, w), w) \in Nat /\ ColumnOf(Offset(text, j, x, w), w) \in Int
    BY <2>2, RowAndColumn
  <2> QED
    BY <2>2, <2>3 DEF PlaceOf
<1>9. \A c \in cells : c[1] \in 0..w - 1 /\ c[2] \in 0..h - 1
  BY DEF Cells
<1>10. s.cx \in Int /\ s.cy \in Int
  BY DEF Strokes
<1> HIDE DEF s2, column, row, column2, row2, P, L, cells
\* Where nothing is drawn, what was drawn stays.
<1>11. ASSUME s2.t = s.t, \A c \in cells : ~(L(k) /\ P(k) = c)
       PROVE  \A c \in cells :
                 /\ \A j \in 1..k : L(j) /\ P(j) = c => s2.t.at[c] = text[j]
                 /\ (\A j \in 1..k : ~(L(j) /\ P(j) = c)) => s2.t.at[c] = g.at[c]
  BY <1>4, <1>5, <1>11
<1>12. CASE s.full
  <2>1. s2 = s
    BY <1>3, <1>12
  <2>2. row2 >= h
    BY <1>2, <1>5, <1>7, <1>12
  <2>3. ASSUME L(k)
        PROVE  P(k) \notin cells
    BY <1>2, <1>5, <1>9, <1>12, <2>3
  <2> QED
    BY <1>11, <1>12, <2>1, <2>2, <2>3
<1>13. CASE ~s.full /\ ~L(k)
  <2>1. s2.t = s.t /\ ~s2.full
    BY <1>3, <1>7, <1>13
  <2>2. s2.cx = column2 /\ s2.cy = row2
    BY <1>2, <1>3, <1>5, <1>7, <1>13
  <2>3. s2.cy = s.cy + 1 \/ (s2.cy = s.cy /\ s2.cx = s.cx)
    BY <1>3, <1>7, <1>13
  <2>4. ASSUME NEW j \in 1..k, L(j)
        PROVE  Precedes(P(j), s2.cx, s2.cy)
    <3>1. j \in 1..k - 1
      BY <1>4, <1>13, <2>4
    <3>2. Precedes(P(j), s.cx, s.cy)
      BY <1>5, <1>13, <2>4, <3>1
    <3> QED
      BY <1>8, <1>10, <2>3, <3>1, <3>2 DEF Precedes
  <2> QED
    BY <1>11, <1>13, <2>1, <2>2, <2>4
<1>14. CASE ~s.full /\ L(k)
  <2>1. P(k) = <<cx, cy>> /\ row2 = cy /\ column2 = cx + 1
    BY <1>2, <1>5, <1>14
  <2>2. CASE cy >= h
    <3>1. s2.full /\ s2.t = s.t
      BY <1>3, <1>14, <2>2
    <3>2. P(k) \notin cells
      BY <1>9, <1>10, <2>1, <2>2
    <3> QED
      BY <1>11, <2>1, <2>2, <3>1, <3>2
  <2>3. CASE ~(cy >= h)
    <3>1. /\ ~s2.full /\ s2.cx = cx + 1 /\ s2.cy = cy
          /\ \A c \in cells : s2.t.at[c] = IF c = P(k) THEN text[k] ELSE s.t.at[c]
      BY <1>3, <1>14, <2>1, <2>3
    <3>2. ASSUME NEW j \in 1..k - 1, L(j)
          PROVE  Precedes(P(j), cx, cy)
      <4>1. Precedes(P(j), s.cx, s.cy)
        BY <1>5, <1>14, <3>2
      <4>2. (cx = s.cx /\ cy = s.cy) \/ cy = s.cy + 1
        OBVIOUS
      <4> QED
        BY <1>8, <1>10, <4>1, <4>2 DEF Precedes
    <3>3. ASSUME NEW j \in 1..k - 1, L(j)
          PROVE  Precedes(P(j), cx + 1, cy) /\ P(j) # P(k)
      <4>1. Precedes(P(j), cx, cy)
        BY <3>2, <3>3
      <4>2. cx \in Int /\ cy \in Int
        BY <1>10
      <4> HIDE DEF cx, cy
      <4>3. ~Precedes(P(k), cx, cy)
        BY <2>1, <4>2 DEF Precedes
      <4> QED
        BY <1>8, <4>1, <4>2, <4>3 DEF Precedes
    <3>4. Precedes(P(k), cx + 1, cy)
      BY <1>10, <2>1 DEF Precedes
    <3>5. \A j \in 1..k : L(j) => Precedes(P(j), s2.cx, s2.cy)
      BY <1>4, <3>1, <3>3, <3>4
    <3>6. ASSUME NEW c \in cells
          PROVE  /\ \A j \in 1..k : L(j) /\ P(j) = c => s2.t.at[c] = text[j]
                 /\ (\A j \in 1..k : ~(L(j) /\ P(j) = c)) => s2.t.at[c] = g.at[c]
      <4>1. CASE c = P(k)
        BY <1>4, <1>14, <3>1, <3>3, <4>1
      <4>2. CASE c # P(k)
        BY <1>4, <1>5, <3>1, <4>2
      <4> QED
        BY <4>1, <4>2
    <3> QED
      BY <2>1, <3>1, <3>5, <3>6
  <2> QED
    BY <2>2, <2>3
<1> QED
  BY <1>12, <1>13, <1>14

\* drawText() writes each letter once, from left to right and from row to row, cuts what is
\* outside the view, changes nothing else, and answers whether the row the text ends on is inside.
THEOREM TextInPlace ==
    ASSUME NEW w \in Nat \ {0}, NEW h \in Int, NEW V, NEW g \in Pictures(w, h, V), NEW text \in Seq(V),
           NEW x \in Int, NEW y \in Int
    PROVE  PlacesText(g, x, y, text)
<1> DEFINE n == Len(text)
           cells == Cells(w, h)
<1>1. g.w = w /\ g.h = h /\ g.at \in [cells -> V] /\ w \in Int
  BY DEF Pictures
<1>2. PICK f : IsWriting(f, g, text, x, y, V)
  BY <1>1, WritingOfText
<1>3. /\ f \in [0..n -> Strokes(w, h, V)]
      /\ f[0] = [t |-> g, cx |-> x, cy |-> y, full |-> FALSE]
      /\ \A k \in 1..n : f[k] = PutChar(f[k - 1], text[k])
      /\ drawText(g, x, y, text) = [t |-> f[n].t, fits |-> ~f[n].full /\ f[n].cy < f[n].t.h]
  BY <1>1, <1>2, Zenon DEF IsWriting
<1>4. IsWritten(f[0], g, text, 0, x, y)
  <2>1. Row(text, 1, x, y, w) = y /\ Column(text, 1, x, w) = x
    <3>1. LineStart(text, 1) = 1 /\ Letters(text, 1, 0) = 0
      <4>1. Letters(text, 0 + 1, 0) = 0
        <5>1. 1 \in Nat \ {0} /\ 0 \in Nat /\ 1 <= 0 + 1
          OBVIOUS
        <5> QED
          BY <5>1, LettersSoFar
      <4> QED
        BY <4>1, StartOfLine
    <3>2. Wrapped(text, 1, x, w) = 0 /\ Column(text, 1, x, w) = x
      <4>1. Letters(text, LineStart(text, 1), 1 - 1) = 0 /\ ~(LineStart(text, 1) > 1)
        BY <3>1
      <4> QED
        BY <4>1, Zenon DEF Wrapped, Column
    <3>3. RowsBefore(text, 1, x, w) = 0
      BY RowsSoFar
    <3> QED
      BY <3>2, <3>3 DEF Row
  <2>2. /\ f[0].t = g /\ f[0].cx = x /\ f[0].cy = y /\ ~f[0].full
        /\ \A j : j \notin 1..0
        /\ 0 + 1 = 1
    BY <1>3
  <2> QED
    BY <1>1, <2>1, <2>2, Zenon DEF IsWritten
<1> DEFINE wrong == {k \in 0..n : ~IsWritten(f[k], g, text, k, x, y)}
<1>5. wrong = {}
  <2>1. SUFFICES ASSUME wrong # {} PROVE FALSE
    OBVIOUS
  <2>2. PICK k \in wrong : \A m \in wrong : k <= m
    <3>1. wrong \subseteq Nat
      OBVIOUS
    <3> HIDE DEF wrong
    <3> QED
      BY <2>1, <3>1, LeastNat
  <2>3. k \in 0..n /\ k # 0
    BY <1>4, <2>2
  <2>4. k \in 1..n /\ k - 1 \in 0..n /\ k - 1 \notin wrong
    BY <2>2, <2>3
  <2>5. IsWritten(f[k - 1], g, text, k - 1, x, y) /\ f[k - 1] \in Strokes(w, h, V)
    BY <1>3, <2>4
  <2>6. IsWritten(PutChar(f[k - 1], text[k]), g, text, k, x, y)
    BY <2>4, <2>5, OneMoreCharacter
  <2>7. IsWritten(f[k], g, text, k, x, y)
    BY <1>3, <2>4, <2>6
  <2> QED
    BY <2>2, <2>7
<1>6. IsWritten(f[n], g, text, n, x, y) /\ f[n] \in Strokes(w, h, V)
  <2>1. n \in 0..n
    OBVIOUS
  <2> QED
    BY <1>3, <1>5, <2>1
<1> DEFINE e == f[n]
           letters == {k \in DOMAIN text : text[k] \notin {Newline, Return}}
           Place(k) == PlaceOf(text, k, x, y, w)
           at == [c \in cells |-> IF \E k \in letters : Place(k) = c THEN text[CHOOSE k \in letters : Place(k) = c] ELSE g.at[c]]
<1>7. \A k : k \in letters <=> k \in 1..n /\ IsLetter(text[k])
  BY DEF IsLetter
<1>8. /\ IF e.full THEN Row(text, n + 1, x, y, w) >= h ELSE e.cy = Row(text, n + 1, x, y, w)
      /\ \A c \in cells :
            /\ \A j \in letters : Place(j) = c => e.t.at[c] = text[j]
            /\ (\A j \in letters : Place(j) # c) => e.t.at[c] = g.at[c]
  <2> HIDE DEF letters
  <2> QED
    BY <1>1, <1>6, <1>7, Zenon DEF IsWritten, GoesTo
<1>9. e.t.w = w /\ e.t.h = h /\ e.t.at \in [cells -> V] /\ e.t = [w |-> w, h |-> h, at |-> e.t.at]
  BY <1>6 DEF Strokes, Pictures
<1> HIDE DEF e, letters, Place, cells
<1>10. \A c \in cells : e.t.at[c] = IF \E k \in letters : Place(k) = c THEN text[CHOOSE k \in letters : Place(k) = c] ELSE g.at[c]
  BY <1>8, Zenon
<1>11. e.t = [g EXCEPT !.at = [c \in DOMAIN g.at |->
                IF \E k \in letters : Place(k) = c THEN text[CHOOSE k \in letters : Place(k) = c] ELSE g.at[c]]]
  <2>1. e.t.at = at
    BY <1>9, <1>10
  <2> HIDE DEF at
  <2>2. g = [w |-> w, h |-> h, at |-> g.at]
    BY DEF Pictures
  <2>3. e.t = [g EXCEPT !.at = at]
    BY <1>9, <2>1, <2>2
  <2>4. DOMAIN g.at = cells
    BY <1>1
  <2> QED
    BY <2>3, <2>4, Zenon DEF at
<1>12. EndRow(text, x, y, w) = Row(text, n + 1, x, y, w)
  BY Zenon DEF EndRow, Row, n
<1>13. EndRow(text, x, y, w) \in Int
  <2>1. n + 1 \in Nat \ {0}
    OBVIOUS
  <2>2. Wrapped(text, n + 1, x, w) \in Nat /\ RowsBefore(text, n + 1, x, w) \in Nat
    BY <2>1, OffsetIsInt, RowsSoFar
  <2> QED
    BY <2>2 DEF EndRow
<1>14. ~e.full /\ e.cy < e.t.h <=> EndRow(text, x, y, w) < h
  BY <1>8, <1>9, <1>12, <1>13
<1>15. drawText(g, x, y, text).t = e.t /\ drawText(g, x, y, text).fits = (~e.full /\ e.cy < e.t.h)
  BY <1>3 DEF e
<1> QED
  BY <1>1, <1>11, <1>14, <1>15, Zenon DEF PlacesText, letters, Place

-----------------------------------------------------------------------------
(* Text as a picture.                                                      *)

\* The lines of a text, from one character to the next.
Splits(V) == Seq(Seq(V)) \ {<<>>}
IsSplitting(f, text, V) ==
    /\ f \in [0..Len(text) -> Splits(V)]
    /\ f[0] = <<<<>>>>
    /\ \A k \in 1..Len(text) : f[k] = TakeChar(f[k - 1], text[k])
    /\ f[Len(text)] = Split(text)

\* A newline opens a line, another character is appended to the last one.
HasTaken(lines, ch, lines2, m) ==
    /\ ch = Newline => /\ Len(lines2) = m + 1 /\ lines2[m + 1] = <<>>
                       /\ \A i \in 1..m : lines2[i] = lines[i]
    /\ ch # Newline => /\ Len(lines2) = m /\ lines2[m] = Append(lines[m], ch)
                       /\ \A i \in 1..m - 1 : lines2[i] = lines[i]

LEMMA CharIsTaken ==
    ASSUME NEW V, NEW lines \in Splits(V), NEW ch \in V
    PROVE  /\ Len(lines) \in Nat \ {0} /\ \A i \in 1..Len(lines) : lines[i] \in Seq(V)
           /\ TakeChar(lines, ch) \in Splits(V)
           /\ HasTaken(lines, ch, TakeChar(lines, ch), Len(lines))
<1> DEFINE m == Len(lines)
<1>1. lines \in Seq(Seq(V)) /\ m \in Nat \ {0} /\ DOMAIN lines = 1..m /\ \A i \in 1..m : lines[i] \in Seq(V)
  BY EmptySeq DEF Splits
<1>2. CASE ch = Newline
  <2>1. <<>> \in Seq(V)
    OBVIOUS
  <2>2. TakeChar(lines, ch) = Append(lines, <<>>)
    BY <1>2 DEF TakeChar
  <2>3. /\ Append(lines, <<>>) \in Seq(Seq(V)) /\ Len(Append(lines, <<>>)) = m + 1
        /\ Append(lines, <<>>)[m + 1] = <<>> /\ \A i \in 1..m : Append(lines, <<>>)[i] = lines[i]
    BY <1>1, <2>1, AppendProperties
  <2>4. Append(lines, <<>>) # <<>>
    <3>1. m + 1 # 0
      BY <1>1
    <3> QED
      BY <2>3, <3>1
  <2> QED
    BY <1>1, <1>2, <2>2, <2>3, <2>4 DEF Splits, HasTaken
<1>3. CASE ch # Newline
  <2> DEFINE last == Append(lines[m], ch)
  <2>1. m \in 1..m /\ last \in Seq(V)
    BY <1>1
  <2>2. TakeChar(lines, ch) = [lines EXCEPT ![m] = last]
    BY <1>3 DEF TakeChar
  <2> HIDE DEF last
  <2> DEFINE lines2 == [lines EXCEPT ![m] = last]
  <2>3. lines2 \in Seq(Seq(V)) /\ Len(lines2) = m /\ lines2[m] = last /\ \A i \in 1..m - 1 : lines2[i] = lines[i]
    <3>1. m \in 1..Len(lines)
      BY <2>1
    <3>2. /\ lines2 \in Seq(Seq(V)) /\ Len(lines2) = Len(lines)
          /\ \A i \in 1..Len(lines) : lines2[i] = IF i = m THEN last ELSE lines[i]
      <4> DEFINE at == m
      <4>1. at \in 1..Len(lines)
        BY <3>1
      <4> HIDE DEF at
      <4>2. /\ [lines EXCEPT ![at] = last] \in Seq(Seq(V)) /\ Len([lines EXCEPT ![at] = last]) = Len(lines)
            /\ \A i \in 1..Len(lines) : [lines EXCEPT ![at] = last][i] = IF i = at THEN last ELSE lines[i]
        BY <1>1, <2>1, <4>1, ExceptSeq
      <4> QED
        BY <4>2 DEF at
    <3> HIDE DEF lines2
    <3>3. m = Len(lines) /\ m \in Nat
      BY <1>1
    <3> HIDE DEF m
    <3>4. \A i \in 1..m - 1 : i \in 1..m /\ i # m
      BY <3>3
    <3> QED
      BY <3>1, <3>2, <3>3, <3>4, Zenon
  <2>4. lines2 # <<>>
    BY <1>1, <2>3
  <2> QED
    BY <1>1, <1>3, <2>2, <2>3, <2>4 DEF Splits, HasTaken, last
<1> QED
  BY <1>2, <1>3

\* Split() ends where they end.
LEMMA SplittingOfText ==
    ASSUME NEW V, NEW text \in Seq(V)
    PROVE  \E f : IsSplitting(f, text, V)
<1> DEFINE S == Splits(V)
           n == Len(text)
           first == <<<<>>>>
           step == [p \in S \X (1..n) |-> TakeChar(p[1], text[p[2]])]
<1>1. n \in Nat /\ first \in S
  BY DEF Splits
<1>2. ASSUME NEW u \in S, NEW k \in 1..n
      PROVE  TakeChar(u, text[k]) \in S
  <2>1. text[k] \in V
    OBVIOUS
  <2> QED
    BY <2>1, CharIsTaken
<1> HIDE DEF S, first
<1>3. step \in [S \X (1..n) -> S]
  BY <1>2
<1>4. \A u \in S, k \in 1..n : step[<<u, k>>] = TakeChar(u, text[k])
  OBVIOUS
<1> HIDE DEF step, n
<1>5. PICK f : Runs(f, n, S, first, step)
  BY <1>1, <1>3, Recursion
<1>6. /\ f \in [0..n -> S] /\ f[0] = first
      /\ \A k \in 1..n : f[k] = TakeChar(f[k - 1], text[k])
  <2>1. f \in [0..n -> S] /\ f[0] = first /\ \A k \in 1..n : f[k] = step[<<f[k - 1], k>>]
    BY <1>5 DEF Runs
  <2>2. \A k \in 1..n : f[k - 1] \in S
    BY <1>1, <2>1
  <2> QED
    BY <1>4, <2>1, <2>2
<1> DEFINE Goes(u) == u = [k \in 0..n |-> IF k = 0 THEN first ELSE TakeChar(u[k - 1], text[k])]
           after == CHOOSE u : Goes(u)
<1>7. Goes(f)
  <2>1. ASSUME NEW k \in 0..n, k # 0
        PROVE  f[k] = TakeChar(f[k - 1], text[k])
    <3>1. k \in 1..n
      BY <1>1, <2>1
    <3> QED
      BY <1>6, <3>1
  <2> QED
    BY <1>6, <2>1
<1>8. Goes(after)
  BY <1>7, Zenon
<1>9. Split(text) = after[n]
  BY Zenon DEF Split, n, first
<1>10. /\ after = [k \in 0..n |-> after[k]] /\ after[0] = first
       /\ \A k \in 1..n : after[k] = TakeChar(after[k - 1], text[k])
  <2> HIDE DEF after
  <2>1. \A k \in 0..n : after[k] = IF k = 0 THEN first ELSE TakeChar(after[k - 1], text[k])
    BY <1>8
  <2>2. after[0] = first
    BY <1>1, <2>1
  <2>3. ASSUME NEW k \in 1..n
        PROVE  after[k] = TakeChar(after[k - 1], text[k])
    <3>1. k \in 0..n /\ k # 0
      BY <1>1
    <3> QED
      BY <2>1, <3>1
  <2>4. after = [k \in 0..n |-> after[k]]
    BY <1>8
  <2> QED
    BY <2>2, <2>3, <2>4
<1> HIDE DEF after, Goes
<1>11. Runs(after, n, S, first, step)
  <2>1. \A k \in 1..n : after[k - 1] \in S => after[k] = step[<<after[k - 1], k>>]
    BY <1>4, <1>10
  <2> QED
    BY <1>1, <1>3, <1>10, <2>1, RunsAsRuled
<1>12. after \in [0..n -> S]
  BY <1>11 DEF Runs
<1> QED
  BY <1>9, <1>10, <1>12, Zenon DEF IsSplitting, S, n, first

\* What chopping a carriage return off leaves of a line.
EndsInReturn(line) == line # <<>> /\ line[Len(line)] = Return

LEMMA LineIsChopped ==
    ASSUME NEW V, NEW line \in Seq(V)
    PROVE  /\ Chopped(line) \in Seq(V) /\ Len(Chopped(line)) \in Nat
           /\ Chopped(<<>>) = <<>>
           /\ ~EndsInReturn(line) => Chopped(line) = line
           /\ \A ch \in V : /\ Chopped(Append(line, ch)) = IF ch = Return THEN line ELSE Append(line, ch)
                            /\ EndsInReturn(Append(line, ch)) <=> ch = Return
                            /\ Len(Chopped(line)) <= Len(Chopped(Append(line, ch)))
<1>1. ASSUME NEW s \in Seq(V), s # <<>>
      PROVE  Len(s) \in Nat \ {0} /\ Front(s) \in Seq(V) /\ Len(Front(s)) = Len(s) - 1 /\ Last(s) = s[Len(s)]
  <2>1. Len(s) \in Nat \ {0}
    BY <1>1, EmptySeq
  <2>2. Front(s) = SubSeq(s, 1, Len(s) - 1) /\ Last(s) = s[Len(s)]
    BY Zenon DEF Front, Last
  <2>3. SubSeq(s, 1, Len(s) - 1) \in Seq(V) /\ Len(SubSeq(s, 1, Len(s) - 1)) = Len(s) - 1
    <3> DEFINE n == Len(s) - 1
    <3>1. n \in Nat /\ \A i \in 1..n : s[i] \in V
      BY <2>1
    <3> HIDE DEF n
    <3>2. SubSeq(s, 1, n) \in Seq(V) /\ Len(SubSeq(s, 1, n)) = n
      BY <3>1, SubSeqProperties
    <3> QED
      BY <3>2 DEF n
  <2> QED
    BY <2>1, <2>2, <2>3
<1>2. /\ ~EndsInReturn(line) => Chopped(line) = line
      /\ EndsInReturn(line) => Chopped(line) = Front(line)
  <2>1. line # <<>> => Last(line) = line[Len(line)]
    BY <1>1
  <2> QED
    BY <2>1, Zenon DEF Chopped, EndsInReturn
<1>3. Chopped(line) \in Seq(V) /\ Len(Chopped(line)) \in Nat /\ Len(Chopped(line)) <= Len(line)
  <2>1. CASE EndsInReturn(line)
    <3>1. line # <<>>
      BY <2>1 DEF EndsInReturn
    <3>2. Len(line) \in Nat \ {0} /\ Front(line) \in Seq(V) /\ Len(Front(line)) = Len(line) - 1
      BY <1>1, <3>1
    <3> QED
      BY <1>2, <2>1, <3>2
  <2>2. CASE ~EndsInReturn(line)
    BY <1>2, <2>2
  <2> QED
    BY <2>1, <2>2
<1>4. Chopped(<<>>) = <<>>
  BY DEF Chopped
<1>5. ASSUME NEW ch \in V
      PROVE  /\ Chopped(Append(line, ch)) = IF ch = Return THEN line ELSE Append(line, ch)
             /\ EndsInReturn(Append(line, ch)) <=> ch = Return
             /\ Len(Chopped(line)) <= Len(Chopped(Append(line, ch)))
  <2> DEFINE s == Append(line, ch)
  <2>1. s \in Seq(V) /\ Len(s) = Len(line) + 1 /\ s[Len(line) + 1] = ch /\ Len(line) \in Nat
    BY AppendProperties
  <2>2. s # <<>>
    BY <2>1
  <2>3. SubSeq(s, 1, Len(s) - 1) = line
    OBVIOUS
  <2>4. Front(s) = line /\ Last(s) = ch
    <3>1. Front(s) = SubSeq(s, 1, Len(s) - 1) /\ Last(s) = s[Len(s)]
      BY Zenon DEF Front, Last
    <3> QED
      BY <2>1, <2>3, <3>1
  <2> HIDE DEF s
  <2>5. EndsInReturn(s) <=> ch = Return
    BY <2>1, <2>2 DEF EndsInReturn
  <2>6. Chopped(s) = IF ch = Return THEN line ELSE s
    BY <2>2, <2>4, Zenon DEF Chopped
  <2>7. Len(Chopped(line)) <= Len(Chopped(s))
    BY <1>3, <2>1, <2>6
  <2> QED
    BY <2>5, <2>6, <2>7 DEF s
<1> QED
  BY <1>2, <1>3, <1>4, <1>5

\* A view that shows lines as they are, one to a row, and nothing else.
InLine(lines, c) == c[2] < Len(lines) /\ c[1] < Len(Chopped(lines[c[2] + 1]))
ShowsLines(at, lines, cells) ==
    \A c \in cells : at[c] = IF InLine(lines, c) THEN Chopped(lines[c[2] + 1])[c[1] + 1] ELSE Space
\* After k characters drawText() shows the lines so far, and stands at the end of the last one.
IsLaid(s, lines, text, k, w, h) ==
    /\ ShowsLines(s.t.at, lines, Cells(w, h))
    /\ IF s.full THEN Len(lines) - 1 >= h
       ELSE s.cx = Len(Chopped(lines[Len(lines)])) /\ s.cy = Len(lines) - 1
    /\ EndsInReturn(lines[Len(lines)]) => k > 0 /\ text[k] = Return
Fits(lines, w) == \A i \in 1..Len(lines) : Len(Chopped(lines[i])) <= w
ReturnsEndLines(text) == \A k \in DOMAIN text : text[k] = Return => k = Len(text) \/ text[k + 1] = Newline

\* Lines only grow.
LEMMA FitsBefore ==
    ASSUME NEW V, NEW lines \in Splits(V), NEW ch \in V, NEW w \in Int, Fits(TakeChar(lines, ch), w)
    PROVE  Fits(lines, w)
<1> DEFINE m == Len(lines)
           lines2 == TakeChar(lines, ch)
<1>1. /\ m \in Nat \ {0} /\ lines2 \in Splits(V)
      /\ \A i \in 1..m : lines[i] \in Seq(V)
      /\ ch = Newline => /\ Len(lines2) = m + 1 /\ lines2[m + 1] = <<>>
                         /\ \A i \in 1..m : lines2[i] = lines[i]
      /\ ch # Newline => /\ Len(lines2) = m /\ lines2[m] = Append(lines[m], ch)
                         /\ \A i \in 1..m - 1 : lines2[i] = lines[i]
  BY CharIsTaken DEF HasTaken
<1> HIDE DEF m, lines2
<1>2. SUFFICES ASSUME NEW i \in 1..m
               PROVE  Len(Chopped(lines[i])) <= w
  BY DEF Fits, m
<1>3. \A j \in 1..Len(lines2) : Len(Chopped(lines2[j])) <= w
  BY DEF Fits, lines2
<1>4. CASE lines2[i] = lines[i]
  <2>1. i \in 1..Len(lines2)
    BY <1>1
  <2> QED
    BY <1>3, <1>4, <2>1
<1>5. CASE lines2[i] # lines[i]
  <2>1. ch # Newline /\ i = m /\ lines2[i] = Append(lines[i], ch) /\ i \in 1..Len(lines2) /\ lines[i] \in Seq(V)
    BY <1>1, <1>5
  <2>2. /\ Len(Chopped(lines[i])) <= Len(Chopped(Append(lines[i], ch)))
        /\ Len(Chopped(lines[i])) \in Nat
    BY <2>1, LineIsChopped
  <2>3. Append(lines[i], ch) \in Seq(V)
    BY <2>1, AppendProperties
  <2>4. Len(Chopped(Append(lines[i], ch))) \in Nat
    BY <2>3, LineIsChopped
  <2>5. Len(Chopped(lines2[i])) <= w
    BY <1>3, <2>1
  <2> QED
    BY <2>1, <2>2, <2>4, <2>5
<1> QED
  BY <1>4, <1>5

\* One more character of a text whose lines fit.
LEMMA OneMoreInLine ==
    ASSUME NEW w \in Nat \ {0}, NEW h \in Int, NEW V, NEW text \in Seq(V), ReturnsEndLines(text),
           NEW k \in 1..Len(text), NEW s \in Strokes(w, h, V), NEW lines \in Splits(V),
           IsLaid(s, lines, text, k - 1, w, h), Fits(TakeChar(lines, text[k]), w)
    PROVE  IsLaid(PutChar(s, text[k]), TakeChar(lines, text[k]), text, k, w, h)
<1> DEFINE ch == text[k]
           m == Len(lines)
           last == lines[m]
           lines2 == TakeChar(lines, ch)
           s2 == PutChar(s, ch)
           cells == Cells(w, h)
           cx == IF s.cx >= w THEN 0 ELSE s.cx
           cy == IF s.cx >= w THEN s.cy + 1 ELSE s.cy
<1>1. ch \in V /\ w \in Int
  OBVIOUS
<1>2. /\ m \in Nat \ {0} /\ lines2 \in Splits(V)
      /\ \A i \in 1..m : lines[i] \in Seq(V)
      /\ ch = Newline => /\ Len(lines2) = m + 1 /\ lines2[m + 1] = <<>>
                         /\ \A i \in 1..m : lines2[i] = lines[i]
      /\ ch # Newline => /\ Len(lines2) = m /\ lines2[m] = Append(last, ch)
                         /\ \A i \in 1..m - 1 : lines2[i] = lines[i]
  <2>1. m \in Nat \ {0} /\ lines2 \in Splits(V) /\ (\A i \in 1..m : lines[i] \in Seq(V)) /\ HasTaken(lines, ch, lines2, m)
    BY <1>1, CharIsTaken, Zenon
  <2> QED
    BY <2>1, Zenon DEF HasTaken
<1>3. /\ s.full \/ ch = Return => s2 = s
      /\ ~s.full /\ ch = Newline => ~s2.full /\ s2.t = s.t /\ s2.cx = 0 /\ s2.cy = s.cy + 1
      /\ ~s.full /\ IsLetter(ch) =>
            IF cy >= h THEN s2.full /\ s2.t = s.t
            ELSE /\ ~s2.full /\ s2.cx = cx + 1 /\ s2.cy = cy
                 /\ \A c \in cells : s2.t.at[c] = IF c = <<cx, cy>> THEN ch ELSE s.t.at[c]
  <2>1. HasPut(s, ch, s2, w, h)
    BY <1>1, CharIsPut
  <2> QED
    BY <2>1, Zenon DEF HasPut
<1>4. /\ \A c \in cells : s.t.at[c] = IF InLine(lines, c) THEN Chopped(lines[c[2] + 1])[c[1] + 1] ELSE Space
      /\ IF s.full THEN m - 1 >= h ELSE s.cx = Len(Chopped(last)) /\ s.cy = m - 1
      /\ EndsInReturn(last) => k - 1 > 0 /\ text[k - 1] = Return
  BY DEF IsLaid, ShowsLines
<1>5. /\ last \in Seq(V) /\ Len(last) \in Nat
      /\ Chopped(<<>>) = <<>>
      /\ ~EndsInReturn(last) => Chopped(last) = last
      /\ Chopped(Append(last, ch)) = IF ch = Return THEN last ELSE Append(last, ch)
      /\ EndsInReturn(Append(last, ch)) <=> ch = Return
  <2>1. last \in Seq(V)
    BY <1>2
  <2>2. Len(last) \in Nat
    BY <2>1
  <2> HIDE DEF last, ch
  <2> QED
    BY <1>1, <2>1, <2>2, LineIsChopped, Zenon
<1>6. \A i \in 1..Len(lines2) : Len(Chopped(lines2[i])) <= w
  BY DEF Fits
<1>7. ASSUME EndsInReturn(last)
      PROVE  ch = Newline
  <2>1. k - 1 \in DOMAIN text /\ text[k - 1] = Return /\ k - 1 # Len(text) /\ (k - 1) + 1 = k
    BY <1>4, <1>7
  <2> QED
    BY <2>1 DEF ReturnsEndLines
<1>8. \A c \in cells : c[1] \in 0..w - 1 /\ c[2] \in 0..h - 1 /\ c = <<c[1], c[2]>>
  BY DEF Cells
<1>9. s.cx \in Int /\ s.cy \in Int
  BY DEF Strokes
<1>10. /\ Len(Append(last, ch)) = Len(last) + 1 /\ Append(last, ch)[Len(last) + 1] = ch
       /\ \A i \in 1..Len(last) : Append(last, ch)[i] = last[i]
  <2> HIDE DEF last, ch
  <2> QED
    BY <1>1, <1>5, AppendProperties
<1> DEFINE m2 == Len(lines2)
           Glyph(c) == IF InLine(lines, c) THEN Chopped(lines[c[2] + 1])[c[1] + 1] ELSE Space
           Glyph2(c) == IF InLine(lines2, c) THEN Chopped(lines2[c[2] + 1])[c[1] + 1] ELSE Space
<1>11. SUFFICES /\ \A c \in cells : s2.t.at[c] = Glyph2(c)
                /\ IF s2.full THEN m2 - 1 >= h ELSE s2.cx = Len(Chopped(lines2[m2])) /\ s2.cy = m2 - 1
                /\ EndsInReturn(lines2[m2]) => k > 0 /\ ch = Return
  BY Zenon DEF IsLaid, ShowsLines
<1>12. k > 0
  OBVIOUS
<1>13. EndsInReturn(lines2[m2]) => ch = Return
  <2>1. ~EndsInReturn(<<>>)
    BY DEF EndsInReturn
  <2> QED
    BY <1>2, <1>5, <2>1
<1> HIDE DEF ch, m, last, lines2, s2, cells
<1>14. ASSUME NEW c \in cells, c[2] < m - 1
       PROVE  Glyph2(c) = Glyph(c)
  <2>1. c[2] \in Nat /\ m \in Nat /\ m2 \in Nat /\ m2 >= m
    BY <1>2, <1>8
  <2>2. c[2] + 1 \in 1..m - 1 /\ c[2] + 1 \in 1..m /\ c[2] < m /\ c[2] < m2
    <3> HIDE DEF m2
    <3> QED
      BY <1>14, <2>1
  <2>3. lines2[c[2] + 1] = lines[c[2] + 1]
    BY <1>2, <2>2, Zenon
  <2> QED
    BY <2>2, <2>3, Zenon DEF InLine, m
<1>15. CASE s.full
  <2>1. s2 = s /\ m - 1 >= h /\ m2 >= m /\ m2 \in Int
    BY <1>2, <1>3, <1>4, <1>15
  <2>2. \A c \in cells : c[2] < m - 1
    BY <1>2, <1>8, <2>1
  <2>3. \A c \in cells : s2.t.at[c] = Glyph2(c)
    BY <1>4, <1>14, <2>1, <2>2
  <2>4. m2 - 1 >= h
    BY <1>2, <2>1
  <2> QED
    BY <1>12, <1>13, <1>15, <2>1, <2>3, <2>4
<1>16. CASE ~s.full /\ ch = Newline
  <2>1. ~s2.full /\ s2.t = s.t /\ s2.cx = 0 /\ s2.cy = m /\ m2 = m + 1 /\ lines2[m2] = <<>>
    BY <1>2, <1>3, <1>4, <1>16
  <2>2. Len(Chopped(lines2[m2])) = 0
    BY <1>5, <2>1
  <2>3. ASSUME NEW c \in cells
        PROVE  Glyph2(c) = Glyph(c)
    <3>1. CASE c[2] < m
      <4>1. c[2] + 1 \in 1..m /\ c[2] < m2
        BY <1>2, <1>8, <2>1, <3>1
      <4>2. lines2[c[2] + 1] = lines[c[2] + 1]
        BY <1>2, <1>16, <4>1
      <4> QED
        BY <3>1, <4>1, <4>2 DEF InLine, m
    <3>2. CASE c[2] = m
      <4>1. ~InLine(lines, c)
        BY <1>2, <3>2 DEF InLine, m
      <4>2. ~InLine(lines2, c)
        BY <1>8, <2>1, <2>2, <3>2 DEF InLine
      <4> QED
        BY <4>1, <4>2
    <3>3. CASE c[2] > m
      BY <1>2, <1>8, <2>1, <3>3 DEF InLine, m
    <3> QED
      BY <1>2, <1>8, <3>1, <3>2, <3>3
  <2>4. \A c \in cells : s2.t.at[c] = Glyph2(c)
    BY <1>4, <2>1, <2>3
  <2> QED
    BY <1>2, <1>12, <1>13, <2>1, <2>2, <2>4
<1>17. CASE ~s.full /\ ch # Newline
  <2>1. m2 = m /\ lines2[m] = Append(last, ch) /\ Chopped(last) = last /\ s.cx = Len(last) /\ s.cy = m - 1
    BY <1>2, <1>4, <1>5, <1>7, <1>17
  <2>2. last = lines[m]
    BY DEF last
  <2>3. CASE ch = Return
    <3>1. s2 = s /\ Chopped(lines2[m]) = last
      BY <1>3, <1>5, <2>1, <2>3
    <3>2. ASSUME NEW c \in cells
          PROVE  Glyph2(c) = Glyph(c)
      <4>1. CASE c[2] < m - 1
        BY <1>14, <4>1
      <4>2. CASE c[2] = m - 1
        <5>1. c[2] + 1 = m
          BY <1>2, <4>2
        <5> QED
          BY <2>1, <2>2, <3>1, <5>1 DEF InLine, m
      <4>3. CASE c[2] > m - 1
        <5>1. ~(c[2] < m)
          BY <1>2, <1>8, <4>3
        <5> QED
          BY <2>1, <5>1 DEF InLine, m
      <4> QED
        BY <1>2, <1>8, <4>1, <4>2, <4>3
    <3>3. \A c \in cells : s2.t.at[c] = Glyph2(c)
      BY <1>4, <3>1, <3>2
    <3> QED
      BY <1>12, <1>13, <1>17, <2>1, <3>1, <3>3
  <2>4. CASE ch # Return
    <3>1. IsLetter(ch) /\ Chopped(lines2[m]) = Append(last, ch)
      BY <1>5, <1>17, <2>1, <2>4 DEF IsLetter
    <3>2. Len(last) + 1 <= w
      <4>1. m \in 1..Len(lines2)
        BY <1>2, <2>1
      <4> QED
        BY <1>6, <1>10, <3>1, <4>1
    <3>3. cx = Len(last) /\ cy = m - 1
      BY <1>5, <2>1, <3>2
    <3> HIDE DEF cx, cy
    <3>4. ASSUME NEW c \in cells, c # <<cx, cy>>
          PROVE  Glyph2(c) = Glyph(c)
      <4>1. CASE c[2] < m - 1
        BY <1>14, <4>1
      <4>2. CASE c[2] = m - 1
        <5>1. c[2] + 1 = m /\ c[1] # Len(last) /\ c[1] \in Nat
          BY <1>2, <1>8, <3>3, <3>4, <4>2
        <5>2. /\ InLine(lines, c) <=> c[1] < Len(last)
              /\ InLine(lines2, c) <=> c[1] < Len(last) + 1
          <6>1. c[2] < m /\ Len(Chopped(lines[m])) = Len(last) /\ Len(Chopped(lines2[m])) = Len(last) + 1
            BY <1>2, <1>10, <2>1, <2>2, <3>1, <4>2
          <6> QED
            BY <2>1, <5>1, <6>1, Zenon DEF InLine, m
        <5>3. CASE c[1] < Len(last)
          <6>1. Append(last, ch)[c[1] + 1] = last[c[1] + 1]
            <7>1. c[1] + 1 \in 1..Len(last)
              BY <1>5, <5>1, <5>3
            <7> QED
              BY <1>10, <7>1
          <6> QED
            <7>1. c[1] < Len(last) + 1
              BY <1>5, <5>1, <5>3
            <7>2. InLine(lines, c) /\ InLine(lines2, c)
              BY <5>2, <5>3, <7>1
            <7>3. Chopped(lines[m]) = last /\ Chopped(lines2[m]) = Append(last, ch)
              BY <2>1, <2>2, <3>1
            <7> QED
              BY <5>1, <6>1, <7>2, <7>3, Zenon
        <5>4. CASE ~(c[1] < Len(last))
          BY <1>5, <5>1, <5>2, <5>4
        <5> QED
          BY <5>3, <5>4
      <4>3. CASE c[2] > m - 1
        <5>1. ~(c[2] < m)
          BY <1>2, <1>8, <4>3
        <5> QED
          BY <2>1, <5>1 DEF InLine, m
      <4> QED
        BY <1>2, <1>8, <4>1, <4>2, <4>3
    <3>5. ASSUME NEW c \in cells, c = <<cx, cy>>
          PROVE  Glyph2(c) = ch
      <4>1. c[1] = Len(last) /\ c[2] = m - 1 /\ c[2] + 1 = m
        BY <1>2, <3>3, <3>5
      <4>2. InLine(lines2, c)
        <5>1. c[2] < m2 /\ c[1] < Len(last) + 1
          BY <1>2, <1>5, <2>1, <4>1
        <5> QED
          BY <1>10, <3>1, <4>1, <5>1, Zenon DEF InLine
      <4> QED
        BY <1>10, <3>1, <4>1, <4>2
    <3>6. CASE cy >= h
      <4>1. s2.full /\ s2.t = s.t
        BY <1>3, <1>17, <3>1, <3>6 DEF cx, cy
      <4>2. \A c \in cells : c # <<cx, cy>>
        BY <1>2, <1>8, <3>3, <3>6
      <4>3. \A c \in cells : s2.t.at[c] = Glyph2(c)
        BY <1>4, <3>4, <4>1, <4>2
      <4> QED
        BY <1>12, <1>13, <2>1, <3>3, <3>6, <4>1, <4>3
    <3>7. CASE ~(cy >= h)
      <4>1. /\ ~s2.full /\ s2.cx = cx + 1 /\ s2.cy = cy
            /\ \A c \in cells : s2.t.at[c] = IF c = <<cx, cy>> THEN ch ELSE s.t.at[c]
        BY <1>3, <1>17, <3>1, <3>7 DEF cx, cy
      <4>2. \A c \in cells : s2.t.at[c] = Glyph2(c)
        BY <1>4, <3>4, <3>5, <4>1
      <4> QED
        BY <1>10, <1>12, <1>13, <2>1, <3>1, <3>3, <4>1, <4>2
    <3> QED
      BY <3>6, <3>7
  <2> QED
    BY <2>3, <2>4
<1> QED
  BY <1>15, <1>16, <1>17

\* A set of numbers up to a bound has a largest one.
LEMMA LargestNat ==
    ASSUME NEW S \in SUBSET Nat, S # {}, NEW b \in Nat, \A m \in S : m <= b
    PROVE  Max(S) \in S /\ \A m \in S : m <= Max(S)
<1> DEFINE T == {b - m : m \in S}
<1>1. T \subseteq Nat /\ T # {}
  <2>1. \A m \in S : b - m \in Nat
    OBVIOUS
  <2> QED
    BY <2>1
<1>2. PICK d \in T : \A e \in T : d <= e
  <2> HIDE DEF T
  <2> QED
    BY <1>1, LeastNat
<1>3. PICK n \in S : d = b - n
  BY <1>2
<1>4. ASSUME NEW m \in S
      PROVE  m <= n
  <2>1. b - m \in T
    OBVIOUS
  <2>2. d <= b - m
    BY <1>2, <2>1
  <2> QED
    BY <1>3, <2>2
<1>5. n \in S /\ \A m \in S : n >= m
  BY <1>4
<1>6. \A k \in S : (\A m \in S : k >= m) => \A m \in S : m <= k
  OBVIOUS
<1> QED
  BY <1>5, <1>6, Zenon DEF Max

\* Finitely many numbers have a bound.
LEMMA LengthsAreBounded ==
    ASSUME NEW n \in Nat, NEW f, \A k \in 1..n : f[k] \in Nat
    PROVE  \E b \in Nat : \A k \in 1..n : f[k] <= b
<1> DEFINE wrong == {k \in 0..n : ~\E b \in Nat : \A j \in 1..k : f[j] <= b}
<1>1. wrong = {}
  <2>1. SUFFICES ASSUME wrong # {} PROVE FALSE
    OBVIOUS
  <2>2. PICK k \in wrong : \A m \in wrong : k <= m
    <3>1. wrong \subseteq Nat
      OBVIOUS
    <3> HIDE DEF wrong
    <3> QED
      BY <2>1, <3>1, LeastNat
  <2>3. k # 0
    <3>1. \A j \in 1..0 : f[j] <= 0
      OBVIOUS
    <3> QED
      BY <2>2, <3>1
  <2>4. k \in 1..n /\ k - 1 \in 0..n
    <3>1. k \in 0..n
      BY <2>2
    <3> HIDE DEF wrong
    <3> QED
      BY <2>3, <3>1
  <2>5. PICK b \in Nat : \A j \in 1..k - 1 : f[j] <= b
    <3>1. k - 1 \notin wrong
      <4> HIDE DEF wrong
      <4> QED
        BY <2>2, <2>4
    <3> QED
      BY <2>4, <3>1, Zenon
  <2>6. f[k] \in Nat /\ b + f[k] \in Nat
    BY <2>4
  <2>7. ASSUME NEW j \in 1..k
        PROVE  f[j] <= b + f[k]
    <3>1. CASE j = k
      BY <2>6, <3>1
    <3>2. CASE j # k
      <4>1. j \in 1..k - 1 /\ f[j] \in Nat
        BY <2>4, <3>2
      <4> QED
        BY <2>5, <2>6, <4>1
    <3> QED
      BY <3>1, <3>2
  <2> QED
    BY <2>2, <2>6, <2>7
<1>2. n \in 0..n
  OBVIOUS
<1> QED
  BY <1>1, <1>2

\* The picture of a text: it is as wide as its longest line, and shows the lines and nothing else.
LEMMA PictureOfText ==
    ASSUME NEW V, Space \in V, NEW text \in Seq(V)
    PROVE  LET p == strToTexture(text)
               all == Split(text)
           IN  /\ p.w \in Nat \ {0} /\ p.h \in Nat /\ p \in Pictures(p.w, p.h, V)
               /\ Fits(all, p.w)
               /\ \A c : /\ c \in DOMAIN p.at /\ InLine(all, c) => p.at[c] = Chopped(all[c[2] + 1])[c[1] + 1]
                         /\ c \in DOMAIN p.at /\ ~InLine(all, c) => p.at[c] = Space
                         /\ c \in Nat \X Nat /\ InLine(all, c) => c \in DOMAIN p.at
<1> DEFINE p == strToTexture(text)
           all == Split(text)
           lines == Lines(text)
           m == IF all[Len(all)] = <<>> THEN Len(all) - 1 ELSE Len(all)
           widths == {1} \cup {Len(lines[n]) : n \in DOMAIN lines}
           w == Max(widths)
<1>1. PICK f : IsSplitting(f, text, V)
  BY SplittingOfText
<1>2. all \in Splits(V)
  <2>1. Len(text) \in 0..Len(text)
    OBVIOUS
  <2> QED
    BY <1>1, <2>1 DEF IsSplitting
<1>3. /\ Len(all) \in Nat \ {0} /\ \A i \in 1..Len(all) : all[i] \in Seq(V)
  <2> HIDE DEF all
  <2>1. all \in Seq(Seq(V)) /\ all # <<>>
    BY <1>2 DEF Splits
  <2>2. Len(all) \in Nat \ {0}
    BY <2>1, EmptySeq
  <2> QED
    BY <2>1, <2>2
<1>4. lines = [n \in 1..m |-> Chopped(all[n])]
  BY Zenon DEF Lines
<1>5. p = [w |-> w, h |-> Len(lines),
           at |-> [c \in Cells(w, Len(lines)) |->
                      IF c[1] < Len(lines[c[2] + 1]) THEN lines[c[2] + 1][c[1] + 1] ELSE Space]]
  BY Zenon DEF strToTexture
<1> HIDE DEF all, lines, p
<1>6. m \in Nat /\ m <= Len(all)
  BY <1>3
<1>7. m < Len(all) => m + 1 = Len(all) /\ all[Len(all)] = <<>>
  BY <1>3
<1> HIDE DEF m
<1>8. \A i \in 1..Len(all) : Chopped(all[i]) \in Seq(V) /\ Len(Chopped(all[i])) \in Nat
  BY <1>3, LineIsChopped
<1>9. Chopped(<<>>) = <<>>
  BY DEF Chopped
<1>10. /\ DOMAIN lines = 1..m /\ Len(lines) = m
       /\ \A n \in 1..m : n \in 1..Len(all) /\ lines[n] = Chopped(all[n]) /\ lines[n] \in Seq(V) /\ Len(lines[n]) \in Nat
  <2>1. \A n \in 1..m : n \in 1..Len(all)
    BY <1>3, <1>6
  <2>2. DOMAIN lines = 1..m /\ \A n \in 1..m : lines[n] = Chopped(all[n])
    BY <1>4
  <2>3. lines \in Seq(Seq(V))
    BY <1>4, <1>6, <1>8, <2>1
  <2>4. Len(lines) = m
    BY <1>6, <2>2, <2>3
  <2> QED
    BY <1>8, <2>1, <2>2, <2>4
<1>11. w \in Nat \ {0} /\ \A n \in 1..m : Len(lines[n]) <= w
  <2> DEFINE length == [n \in 1..m |-> Len(lines[n])]
  <2>1. \A n \in 1..m : length[n] = Len(lines[n]) /\ length[n] \in Nat
    BY <1>10
  <2> HIDE DEF length
  <2>2. PICK b \in Nat : \A n \in 1..m : length[n] <= b
    BY <1>6, <2>1, LengthsAreBounded
  <2>3. widths \in SUBSET Nat /\ 1 \in widths /\ \A n \in 1..m : length[n] \in widths
    <3>1. \A n \in DOMAIN lines : Len(lines[n]) = length[n] /\ length[n] \in Nat
      BY <1>10, <2>1
    <3>2. \A n \in 1..m : n \in DOMAIN lines
      BY <1>10
    <3>3. \A n \in DOMAIN lines : Len(lines[n]) \in widths
      OBVIOUS
    <3>4. \A v \in widths : v = 1 \/ \E n \in DOMAIN lines : v = Len(lines[n])
      OBVIOUS
    <3>5. 1 \in widths
      OBVIOUS
    <3> HIDE DEF widths
    <3> QED
      BY <3>1, <3>2, <3>3, <3>4, <3>5
  <2>4. \A v \in widths : v <= b + 1
    <3>1. \A v \in widths : v = 1 \/ \E n \in 1..m : v = length[n]
      BY <1>10, <2>1
    <3> HIDE DEF widths
    <3> QED
      BY <2>1, <2>2, <2>3, <3>1
  <2> HIDE DEF widths
  <2>5. w \in widths /\ \A v \in widths : v <= w
    <3>1. b + 1 \in Nat /\ widths # {}
      BY <2>3
    <3> QED
      BY <2>3, <2>4, <3>1, LargestNat
  <2> HIDE DEF w
  <2>6. w \in Nat /\ 1 <= w
    BY <2>3, <2>5
  <2>7. \A n \in 1..m : length[n] <= w
    BY <2>3, <2>5
  <2> QED
    BY <2>1, <2>6, <2>7
<1> HIDE DEF w
<1> DEFINE Glyph(c) == IF c[1] < Len(lines[c[2] + 1]) THEN lines[c[2] + 1][c[1] + 1] ELSE Space
<1>12. /\ p.w = w /\ p.h = m /\ p = [w |-> w, h |-> m, at |-> p.at]
       /\ p.at = [c \in Cells(w, m) |-> Glyph(c)]
  BY <1>5, <1>10
<1>13. ASSUME NEW c \in Cells(w, m)
       PROVE  /\ c[1] \in Nat /\ c[2] \in Nat /\ c[2] + 1 \in 1..m /\ c[2] < m
              /\ Glyph(c) \in V
  <2>1. c[1] \in Nat /\ c[2] \in Nat /\ c[2] + 1 \in 1..m /\ c[2] < m
    BY <1>6, <1>11, <1>13 DEF Cells
  <2>2. lines[c[2] + 1] \in Seq(V)
    BY <1>10, <2>1
  <2>3. ASSUME NEW s \in Seq(V), NEW x \in Nat, x < Len(s)
        PROVE  s[x + 1] \in V
    <3>1. x + 1 \in 1..Len(s)
      BY <2>3
    <3> QED
      BY <3>1
  <2> QED
    BY <2>1, <2>2, <2>3
<1>14. p \in Pictures(w, m, V)
  <2>1. p.at \in [Cells(w, m) -> V]
    <3> HIDE DEF Glyph
    <3> QED
      BY <1>12, <1>13
  <2> QED
    BY <1>12, <2>1, Zenon DEF Pictures
<1>15. ASSUME NEW i \in 1..Len(all), i \notin 1..m
       PROVE  i = Len(all) /\ i = m + 1 /\ Chopped(all[i]) = <<>> /\ Len(Chopped(all[i])) = 0
  <2>1. i = Len(all) /\ m < Len(all)
    BY <1>3, <1>6, <1>7, <1>15
  <2>2. all[i] = <<>> /\ i = m + 1
    BY <1>7, <2>1
  <2>3. Len(<<>>) = 0
    OBVIOUS
  <2> QED
    BY <1>9, <2>1, <2>2, <2>3
<1>16. Fits(all, w)
  <2>1. ASSUME NEW i \in 1..Len(all)
        PROVE  Len(Chopped(all[i])) <= w
    <3>1. CASE i \in 1..m
      BY <1>10, <1>11, <3>1
    <3>2. CASE i \notin 1..m
      <4>1. Len(Chopped(all[i])) = 0
        BY <1>15, <3>2
      <4> QED
        BY <1>11, <4>1
    <3> QED
      BY <3>1, <3>2
  <2> QED
    BY <2>1 DEF Fits
<1>17. ASSUME NEW c \in Cells(w, m)
       PROVE  /\ InLine(all, c) <=> c[1] < Len(lines[c[2] + 1])
              /\ lines[c[2] + 1] = Chopped(all[c[2] + 1])
  <2>1. lines[c[2] + 1] = Chopped(all[c[2] + 1]) /\ c[2] < Len(all)
    <3>1. c[2] \in Nat /\ c[2] + 1 \in 1..m
      BY <1>13
    <3>2. c[2] + 1 \in 1..Len(all) /\ lines[c[2] + 1] = Chopped(all[c[2] + 1])
      BY <1>10, <3>1
    <3> QED
      BY <3>1, <3>2
  <2> QED
    BY <2>1, Zenon DEF InLine
<1>18. ASSUME NEW c \in Nat \X Nat, InLine(all, c)
       PROVE  c \in Cells(w, m)
  <2>1. c[1] \in Nat /\ c[2] \in Nat /\ c = <<c[1], c[2]>>
    OBVIOUS
  <2>2. c[2] + 1 \in 1..Len(all) /\ c[1] < Len(Chopped(all[c[2] + 1]))
    BY <1>3, <1>18, <2>1 DEF InLine
  <2>3. c[2] + 1 \in 1..m
    BY <1>15, <2>1, <2>2
  <2>4. c[1] < w
    BY <1>8, <1>11, <1>16, <2>1, <2>2 DEF Fits
  <2>5. c[1] \in 0..w - 1 /\ c[2] \in 0..m - 1
    BY <1>6, <1>11, <2>1, <2>3, <2>4
  <2> QED
    BY <2>1, <2>5, Zenon DEF Cells
<1>19. DOMAIN p.at = Cells(w, m) /\ \A c \in Cells(w, m) : p.at[c] = Glyph(c)
  <2> HIDE DEF Glyph
  <2> QED
    BY <1>12
<1>20. \A c : /\ c \in DOMAIN p.at /\ InLine(all, c) => p.at[c] = Chopped(all[c[2] + 1])[c[1] + 1]
              /\ c \in DOMAIN p.at /\ ~InLine(all, c) => p.at[c] = Space
              /\ c \in Nat \X Nat /\ InLine(all, c) => c \in DOMAIN p.at
  BY <1>17, <1>18, <1>19, Zenon
<1> QED
  BY <1>6, <1>11, <1>12, <1>14, <1>16, <1>20, Zenon DEF p, all

\* The cube world's overlay goes through strToTexture() and blit_texture() instead of drawText():
\* on an empty view as wide as its longest line both show the same, whatever the text and the
\* height, if a carriage return only ends a line.
THEOREM OverlayAsWritten ==
    ASSUME NEW V, Space \in V, NEW w \in Nat \ {0}, NEW h \in Int, NEW text \in Seq(V)
    PROVE  BlitsAsWritten(Filled(w, h, Space), text)
<1> DEFINE g == Filled(w, h, Space)
           p == strToTexture(text)
           all == Split(text)
           n == Len(text)
           cells == Cells(w, h)
           r == drawText(g, 0, 0, text).t
           b == blit_texture(g, p, 0, 0)
<1>1. /\ g.w = w /\ g.h = h /\ DOMAIN g.at = cells /\ g = [w |-> w, h |-> h, at |-> g.at]
      /\ \A c \in cells : g.at[c] = Space
  BY DEF Filled
<1>2. g \in Pictures(w, h, V)
  BY DEF Filled, Pictures
<1>3. /\ p.w \in Nat \ {0} /\ p.h \in Nat /\ p \in Pictures(p.w, p.h, V)
      /\ Fits(all, p.w)
      /\ \A c : /\ c \in DOMAIN p.at /\ InLine(all, c) => p.at[c] = Chopped(all[c[2] + 1])[c[1] + 1]
                /\ c \in DOMAIN p.at /\ ~InLine(all, c) => p.at[c] = Space
                /\ c \in Nat \X Nat /\ InLine(all, c) => c \in DOMAIN p.at
  BY PictureOfText, Zenon
<1>4. Clips(g, p, 0, 0)
  <2> HIDE DEF g, p
  <2>1. /\ g \in [w : {w}, h : {h}, at : [Cells(w, h) -> V]]
        /\ p \in [w : {p.w}, h : {p.h}, at : [Cells(p.w, p.h) -> V]]
    BY <1>2, <1>3, Zenon DEF Pictures
  <2>2. w \in Int /\ p.w \in Int /\ p.h \in Int /\ 0 \in Int
    BY <1>3
  <2> QED
    BY <2>1, <2>2, BlitIsClipped
<1>5. SUFFICES ASSUME p.w <= w, ReturnsEndLines(text)
               PROVE  b = r
  <2> HIDE DEF p, b, r, g
  <2> QED
    BY <1>1, Zenon DEF BlitsAsWritten, ReturnsEndLines, g, p, b, r
<1>6. PICK f : IsWriting(f, g, text, 0, 0, V)
  <2>1. 0 \in Int /\ w \in Int
    OBVIOUS
  <2> HIDE DEF g
  <2> QED
    BY <1>2, <2>1, WritingOfText
<1>7. PICK q : IsSplitting(q, text, V)
  BY SplittingOfText
<1> HIDE DEF g, p, cells
<1>8. /\ f \in [0..n -> Strokes(w, h, V)]
      /\ f[0] = [t |-> g, cx |-> 0, cy |-> 0, full |-> FALSE]
      /\ \A k \in 1..n : f[k] = PutChar(f[k - 1], text[k])
      /\ r = f[n].t
  <2>1. /\ f \in [0..n -> Strokes(w, h, V)]
        /\ f[0] = [t |-> g, cx |-> 0, cy |-> 0, full |-> FALSE]
        /\ \A k \in 1..n : f[k] = PutChar(f[k - 1], text[k])
        /\ drawText(g, 0, 0, text) = [t |-> f[n].t, fits |-> ~f[n].full /\ f[n].cy < f[n].t.h]
    BY <1>1, <1>6, Zenon DEF IsWriting
  <2> QED
    BY <2>1
<1>9. /\ q \in [0..n -> Splits(V)] /\ q[0] = <<<<>>>>
      /\ \A k \in 1..n : q[k] = TakeChar(q[k - 1], text[k])
      /\ q[n] = all
  BY <1>7, Zenon DEF IsSplitting
<1>10. n \in Nat /\ \A k \in 1..n : text[k] \in V /\ k - 1 \in 0..n /\ k \in 0..n
  OBVIOUS
<1> HIDE DEF n, all, r, b
\* All lines fit, from the last character back to the first.
<1> DEFINE wide == {j \in 0..n : ~Fits(q[n - j], w)}
<1>11. wide = {}
  <2>1. SUFFICES ASSUME wide # {} PROVE FALSE
    OBVIOUS
  <2>2. PICK j \in wide : \A m \in wide : j <= m
    <3>1. wide \subseteq Nat
      OBVIOUS
    <3> HIDE DEF wide
    <3> QED
      BY <2>1, <3>1, LeastNat
  <2>3. j \in 0..n /\ ~Fits(q[n - j], w)
    BY <2>2
  <2>4. j # 0
    <3>1. \A i \in 1..Len(all) : Len(Chopped(all[i])) <= p.w
      BY <1>3 DEF Fits
    <3>2. \A i \in 1..Len(all) : Len(Chopped(all[i])) \in Nat
      <4>1. all \in Splits(V)
        BY <1>9, <1>10
      <4>2. \A i \in 1..Len(all) : all[i] \in Seq(V)
        BY <4>1 DEF Splits
      <4> QED
        BY <4>2, LineIsChopped
    <3>3. Fits(all, w)
      BY <1>3, <1>5, <3>1, <3>2 DEF Fits
    <3>4. n - 0 = n
      BY <1>10
    <3> QED
      BY <1>9, <2>3, <3>3, <3>4
  <2> DEFINE k == n - j + 1
  <2>5. k \in 1..n /\ k - 1 = n - j /\ k = n - (j - 1) /\ j - 1 \in 0..n /\ ~(j <= j - 1)
    BY <1>10, <2>3, <2>4
  <2>6. j - 1 \notin wide
    <3> HIDE DEF wide
    <3> QED
      BY <2>2, <2>5
  <2>7. Fits(q[k], w)
    BY <2>5, <2>6
  <2> HIDE DEF k, wide
  <2>8. Fits(TakeChar(q[k - 1], text[k]), w) /\ q[k - 1] \in Splits(V) /\ text[k] \in V /\ w \in Int
    BY <1>9, <1>10, <2>5, <2>7
  <2>9. Fits(q[k - 1], w)
    BY <2>8, FitsBefore
  <2> QED
    BY <2>3, <2>5, <2>9
<1>12. ASSUME NEW k \in 0..n
       PROVE  Fits(q[k], w)
  <2>1. n - k \in 0..n /\ n - (n - k) = k
    BY <1>10
  <2> QED
    BY <1>11, <2>1
<1> HIDE DEF wide
<1>13. IsLaid(f[0], q[0], text, 0, w, h)
  <2>1. f[0].t = g /\ f[0].cx = 0 /\ f[0].cy = 0 /\ ~f[0].full
    BY <1>8
  <2>2. Len(q[0]) = 1 /\ q[0][1] = <<>> /\ Chopped(<<>>) = <<>> /\ Len(<<>>) = 0 /\ ~EndsInReturn(<<>>)
    BY <1>9 DEF Chopped, EndsInReturn
  <2>3. ASSUME NEW c \in cells
        PROVE  ~InLine(q[0], c)
    <3>1. c[1] \in 0..w - 1 /\ c[2] \in 0..h - 1
      BY DEF cells, Cells
    <3>2. c[2] < 1 => c[2] + 1 = 1
      BY <3>1
    <3>3. ~(c[1] < 0)
      BY <3>1
    <3> QED
      BY <2>2, <3>2, <3>3 DEF InLine
  <2>4. ShowsLines(g.at, q[0], cells)
    BY <1>1, <2>3 DEF ShowsLines
  <2> QED
    BY <2>1, <2>2, <2>4 DEF IsLaid, cells
<1> DEFINE wrong == {k \in 0..n : ~IsLaid(f[k], q[k], text, k, w, h)}
<1>14. wrong = {}
  <2>1. SUFFICES ASSUME wrong # {} PROVE FALSE
    OBVIOUS
  <2>2. PICK k \in wrong : \A m \in wrong : k <= m
    <3>1. wrong \subseteq Nat
      OBVIOUS
    <3> HIDE DEF wrong
    <3> QED
      BY <2>1, <3>1, LeastNat
  <2>3. k \in 0..n /\ k # 0 /\ ~IsLaid(f[k], q[k], text, k, w, h)
    BY <1>13, <2>2
  <2>4. k \in 1..n /\ k - 1 \in 0..n /\ ~(k <= k - 1)
    BY <1>10, <2>3
  <2>5. k - 1 \notin wrong
    <3> HIDE DEF wrong
    <3> QED
      BY <2>2, <2>4
  <2>6. IsLaid(f[k - 1], q[k - 1], text, k - 1, w, h) /\ f[k - 1] \in Strokes(w, h, V) /\ q[k - 1] \in Splits(V)
    BY <1>8, <1>9, <2>4, <2>5
  <2>7. f[k] = PutChar(f[k - 1], text[k]) /\ q[k] = TakeChar(q[k - 1], text[k]) /\ Fits(q[k], w)
    BY <1>8, <1>9, <1>12, <2>3, <2>4
  <2> HIDE DEF wrong
  <2>8. k \in 1..Len(text)
    BY <2>4 DEF n
  <2>9. IsLaid(PutChar(f[k - 1], text[k]), TakeChar(q[k - 1], text[k]), text, k, w, h)
    BY <1>5, <2>6, <2>7, <2>8, OneMoreInLine
  <2> QED
    BY <2>3, <2>7, <2>9
<1>15. ShowsLines(r.at, all, cells) /\ r \in Pictures(w, h, V)
  <2>1. n \in 0..n
    BY <1>10
  <2>2. IsLaid(f[n], q[n], text, n, w, h) /\ f[n] \in Strokes(w, h, V)
    BY <1>8, <1>14, <2>1
  <2>3. f[n].t \in Pictures(w, h, V)
    BY <2>2 DEF Strokes
  <2> QED
    BY <1>8, <1>9, <2>2, <2>3, Zenon DEF IsLaid, cells
<1> DEFINE at == [c \in cells |-> IF <<c[1] - 0, c[2] - 0>> \in DOMAIN p.at THEN p.at[<<c[1] - 0, c[2] - 0>>] ELSE g.at[c]]
<1>16. b = [w |-> w, h |-> h, at |-> at]
  <2>1. b = [g EXCEPT !.at = at]
    BY <1>1, <1>4, Zenon DEF Clips, b
  <2> HIDE DEF at
  <2> QED
    BY <1>1, <2>1
<1>17. ASSUME NEW c \in cells
       PROVE  at[c] = r.at[c]
  <2>1. c[1] \in Nat /\ c[2] \in Nat /\ c = <<c[1], c[2]>> /\ c \in Nat \X Nat
    BY DEF cells, Cells
  <2>2. <<c[1] - 0, c[2] - 0>> = c
    BY <2>1
  <2>3. at[c] = IF c \in DOMAIN p.at THEN p.at[c] ELSE Space
    BY <1>1, <2>2
  <2>4. r.at[c] = IF InLine(all, c) THEN Chopped(all[c[2] + 1])[c[1] + 1] ELSE Space
    BY <1>15 DEF ShowsLines
  <2> HIDE DEF at
  <2> QED
    BY <1>3, <2>1, <2>3, <2>4, Zenon
<1>18. r.at \in [cells -> V] /\ r = [w |-> w, h |-> h, at |-> r.at]
  BY <1>15 DEF Pictures, cells
<1>19. at = r.at
  <2>1. DOMAIN at = cells /\ at = [c \in cells |-> at[c]]
    OBVIOUS
  <2> HIDE DEF at
  <2> QED
    BY <1>17, <1>18, <2>1
<1> QED
  BY <1>16, <1>18, <1>19

\* What the run writes are texts.
LEMMA TextsAreTexts ==
    LET V == Nat \cup {Newline, Return, Space}
    IN  Texts \subseteq Seq(V)
<1> DEFINE V == Nat \cup {Newline, Return, Space}
<1>1. SUFFICES ASSUME NEW kinds \in BoundedSeq(Kinds, 4)
               PROVE  Text(kinds) \in Seq(V)
  BY Zenon DEF Texts
<1>2. PICK m \in 0..4 : kinds \in [1..m -> Kinds]
  BY DEF BoundedSeq, SeqOf
<1>3. Text(kinds) = [k \in 1..m |-> CASE kinds[k] = "letter" -> k [] kinds[k] = "newline" -> Newline [] OTHER -> Return]
  BY <1>2 DEF Text
<1>4. Text(kinds) \in [1..m -> V]
  BY <1>3
<1> QED
  BY <1>4

\* What the run evaluates follows from what holds of all texts and views.
LEMMA TextRight == TextDrawsRight
<1> DEFINE V == Nat \cup {Newline, Return, Space}
<1>1. SUFFICES ASSUME NEW t \in Views, NEW text \in Texts
               PROVE  /\ \A x \in -1..t.w + 1, y \in -1..1 : PlacesText(t, x, y, text)
                      /\ BlitsAsWritten(t, text)
                      /\ \A x, y \in -2..2 : Clips(t, strToTexture(text), x, y)
  BY Zenon DEF TextDrawsRight
<1>2. PICK w \in 1..3, h \in 1..2 : t = Filled(w, h, Space)
  BY DEF Views
<1>3. w \in Nat \ {0} /\ w \in Int /\ h \in Int
  OBVIOUS
<1>4. text \in Seq(V) /\ Space \in V
  BY TextsAreTexts
<1>5. t \in Pictures(w, h, V) /\ t.w = w
  BY <1>2, <1>4 DEF Filled, Pictures
<1> HIDE DEF V
<1>6. ASSUME NEW x \in -1..t.w + 1, NEW y \in -1..1
      PROVE  PlacesText(t, x, y, text)
  <2>1. x \in Int /\ y \in Int
    BY <1>3, <1>5
  <2> QED
    BY <1>3, <1>4, <1>5, <2>1, TextInPlace
<1>7. BlitsAsWritten(t, text)
  <2>1. BlitsAsWritten(Filled(w, h, Space), text)
    BY <1>3, <1>4, OverlayAsWritten
  <2> QED
    BY <1>2, <2>1, Zenon
<1>8. ASSUME NEW x \in -2..2, NEW y \in -2..2
      PROVE  Clips(t, strToTexture(text), x, y)
  <2> DEFINE p == strToTexture(text)
  <2>1. p.w \in Nat \ {0} /\ p.h \in Nat /\ p \in Pictures(p.w, p.h, V)
    BY <1>4, PictureOfText, Zenon
  <2> HIDE DEF p
  <2>2. p.w \in Int /\ p.h \in Int /\ x \in Int /\ y \in Int
    BY <2>1
  <2>3. /\ t \in [w : {w}, h : {h}, at : [Cells(w, h) -> V]]
        /\ p \in [w : {p.w}, h : {p.h}, at : [Cells(p.w, p.h) -> V]]
    BY <1>5, <2>1, Zenon DEF Pictures
  <2>4. Clips(t, p, x, y)
    BY <1>3, <2>2, <2>3, BlitIsClipped
  <2> QED
    BY <2>4 DEF p
<1> QED
  BY <1>6, <1>7, <1>8, Zenon

\* What a session writes: each letter in its place, an overlay as it would be written, a picture
\* cut at the edges of the view.
THEOREM TextPlaced == Spec => []TextIsPlaced
<1>1. TextIsPlaced
  BY TextRight, Zenon DEF TextIsPlaced
<1> QED
  BY <1>1, PTL

-----------------------------------------------------------------------------
(* Drawing.                                                                *)

SizesInv ==
    /\ \A p \in Sessions : window[p] \in Windows
    /\ phase \in {"update", "render"} => todo \subseteq Sessions

LEMMA SidesOfTheBuffer ==
    ASSUME NEW n \in Unsigned16
    PROVE  /\ BufferWidth(n) \in Int /\ BufferHeight(n) \in Int
           /\ BufferWidth(n) >= 20 \/ n \in 1..19
           /\ BufferHeight(n) >= 5 \/ n \in 1..4
           /\ n <= BufferWidth(n) \/ n > MaxSize
           /\ n <= BufferHeight(n) \/ n > MaxSize
BY SMT DEF BufferWidth, BufferHeight, Clamped, MaxSize, Unsigned16

LEMMA DrawnSizes ==
    ASSUME NEW size \in Unsigned16 \X Unsigned16
    PROVE  /\ TextViewFits(size) \/ size[1] \in 1..19 \/ size[2] \in 1..4
           /\ PassFits(size, TRUE)
           /\ PassFits(size, FALSE) \/ size[1] > MaxSize \/ size[2] > MaxSize
<1>1. size[1] \in Unsigned16 /\ size[2] \in Unsigned16
  OBVIOUS
<1>2. Buffer(size).w = BufferWidth(size[1]) /\ Buffer(size).h = BufferHeight(size[2])
  BY DEF Buffer
<1>3. BufferWidth(size[1]) \in Int /\ BufferHeight(size[2]) \in Int
  BY <1>1, SidesOfTheBuffer
<1>4. TextViewFits(size) \/ size[1] \in 1..19 \/ size[2] \in 1..4
  <2>1. BufferWidth(size[1]) >= 20 \/ size[1] \in 1..19
    BY <1>1, SidesOfTheBuffer, Zenon
  <2>2. BufferHeight(size[2]) >= 5 \/ size[2] \in 1..4
    BY <1>1, SidesOfTheBuffer, Zenon
  <2> QED
    BY <1>2, <1>3, <2>1, <2>2, SMT DEF TextViewFits, SubViewFits
<1>5. PassFits(size, TRUE)
  BY <1>2, <1>3, SMT DEF PassFits, SessionWidth, SessionHeight
<1>6. PassFits(size, FALSE) \/ size[1] > MaxSize \/ size[2] > MaxSize
  <2>1. size[1] <= BufferWidth(size[1]) \/ size[1] > MaxSize
    BY <1>1, SidesOfTheBuffer, Zenon
  <2>2. size[2] <= BufferHeight(size[2]) \/ size[2] > MaxSize
    BY <1>1, SidesOfTheBuffer, Zenon
  <2> QED
    BY <1>2, <2>1, <2>2 DEF PassFits, SessionWidth, SessionHeight
<1> QED
  BY <1>4, <1>5, <1>6

LEMMA SizesInit == Init => SizesInv
BY DEF Init, SizesInv, Sessions

LEMMA SizesNext ==
    ASSUME SizesInv, [Next]_vars
    PROVE  SizesInv'
<1> USE DEF SizesInv, Sessions
<1>1. CASE UNCHANGED vars
  BY <1>1 DEF vars
<1>2. ASSUME NEW p \in Players, Join(p)
      PROVE  SizesInv'
  <2>1. phase = "receive" /\ phase' = "receive"
    BY <1>2 DEF Join
  <2>2. PICK size \in Windows : window' = [q \in Sessions \cup {p} |-> IF q = p THEN size ELSE window[q]]
    BY <1>2 DEF Join
  <2>3. \A q \in DOMAIN window' : window'[q] \in Windows
    BY <2>2
  <2> QED
    BY <2>1, <2>3
<1>3. ASSUME NEW p \in Players, Disconnect(p)
      PROVE  SizesInv'
  <2>1. phase' = "receive"
    BY <1>3 DEF Disconnect
  <2>2. \A q \in DOMAIN window' : window'[q] \in Windows
    BY <1>3 DEF Disconnect, Restrict
  <2> QED
    BY <2>1, <2>2
<1>4. ASSUME NEW p \in Players, Update(p) \/ Render(p)
      PROVE  SizesInv'
  BY <1>4 DEF Update, Render
<1>5. CASE Received \/ Updated \/ Processed \/ DestroyedAll \/ Create \/ EndFrame
  BY <1>5 DEF Received, Updated, Processed, DestroyedAll, Create, EndFrame, StartRender
<1>6. CASE (\E e \in todo : Process(e)) \/ DestroyNext \/ ResetDestroy
  BY <1>6 DEF Process, DestroyNext, ResetDestroy
<1> QED
  BY <1>1, <1>2, <1>3, <1>4, <1>5, <1>6 DEF Next

\* Whatever clients announce, a session of the cube world draws inside the engine's buffer,
\* but for the windows that the property names.
THEOREM DrawingIsInside == Spec => []DrawnInside
<1>1. SizesInv => DrawnInside
  BY WindowsAssumption, DrawnSizes DEF SizesInv, DrawnInside
<1> QED
  BY <1>1, SizesInit, SizesNext, PTL DEF Spec
=============================================================================
