----------------------------- MODULE MCEcsWorld -----------------------------
(***************************************************************************)
(* The cube world with window sizes and symmetry for model checking, and   *)
(* the operators its sessions draw with, compared with references over     *)
(* all small inputs.                                                       *)
(***************************************************************************)
EXTENDS EcsWorld, Rasterizer, TLC

MCWindows == {<<0, 5>>, <<20, 4>>, <<65535, 24>>}
Symmetry == Permutations(Players)

-----------------------------------------------------------------------------
(* Text.  A character is its position in the text, so that a misplaced one *)
(* shows.                                                                  *)

Kinds == {"letter", "newline", "return"}
Text(kinds) ==
    [k \in DOMAIN kinds |-> CASE kinds[k] = "letter" -> k [] kinds[k] = "newline" -> Newline [] OTHER -> Return]
Texts == {Text(kinds) : kinds \in BoundedSeq(Kinds, 4)}
Views == {Filled(w, h, Space) : w \in 1..3, h \in 1..2}

Letters(text, from, to) == Cardinality({j \in from..to : text[j] \notin {Newline, Return}})
LineStart(text, k) == Max({0} \cup {j \in 1..k - 1 : text[j] = Newline}) + 1
\* Where a line of a text that begins at startX begins, and the rows and columns of its nth letter.
Indent(text, k, startX, w) == IF LineStart(text, k) > 1 THEN 0 ELSE Min({startX, w})
RowOf(v, w) == IF v < 0 THEN 0 ELSE v \div w
ColumnOf(v, w) == IF v < 0 THEN v ELSE v % w

\* How far the line that k is in has come before k, and the rows it took beyond its first.
Offset(text, k, startX, w) == Indent(text, k, startX, w) + Letters(text, LineStart(text, k), k - 1)
Wrapped(text, k, startX, w) ==
    IF Letters(text, LineStart(text, k), k - 1) = 0 THEN 0 ELSE RowOf(Offset(text, k, startX, w) - 1, w)
\* The rows that the lines before k took: each newline ends those its line took beyond the
\* first, and its own.
RowsBefore(text, k, startX, w) ==
    LET Sum[j \in 0..Len(text)] ==
            IF j = 0 THEN 0 ELSE Sum[j - 1] + (IF text[j] = Newline THEN 1 + Wrapped(text, j, startX, w) ELSE 0)
    IN  Sum[k - 1]

\* The place of each letter: rows are filled from the left, a full one continues on the next.
PlaceOf(text, k, startX, startY, w) ==
    <<ColumnOf(Offset(text, k, startX, w), w),
      startY + RowsBefore(text, k, startX, w) + RowOf(Offset(text, k, startX, w), w)>>
\* The row the text ends on.
EndRow(text, startX, startY, w) ==
    startY + RowsBefore(text, Len(text) + 1, startX, w) + Wrapped(text, Len(text) + 1, startX, w)

PlacesText(t, startX, startY, text) ==
    LET letters == {k \in DOMAIN text : text[k] \notin {Newline, Return}}
        Place(k) == PlaceOf(text, k, startX, startY, t.w)
        result == drawText(t, startX, startY, text)
    IN  /\ result.t = [t EXCEPT !.at = [c \in DOMAIN t.at |->
                IF \E k \in letters : Place(k) = c THEN text[CHOOSE k \in letters : Place(k) = c] ELSE t.at[c]]]
        /\ result.fits <=> EndRow(text, startX, startY, t.w) < t.h

\* A text as a picture, laid on an empty view, is the text written into it, if no line is too
\* long and a carriage return is only at the end of one.
BlitsAsWritten(t, text) ==
    LET picture == strToTexture(text)
    IN  /\ picture.w <= t.w
        /\ \A k \in DOMAIN text : text[k] = Return => k = Len(text) \/ text[k + 1] = Newline
        => blit_texture(t, picture, 0, 0) = drawText(t, 0, 0, text).t

TextDrawsRight ==
    \A t \in Views, text \in Texts :
        /\ \A x \in -1..t.w + 1, y \in -1..1 : PlacesText(t, x, y, text)
        /\ text # <<>> => BlitsAsWritten(t, text)
        /\ text # <<>> => \A x, y \in -2..2 : Clips(t, strToTexture(text), x, y)

\* What a session draws with: drawText writes each letter once, in reading order, inside the
\* view, and answers whether the row the text ends on is inside; the overlay of the cube world,
\* which goes through strToTexture and blit_texture, shows the same; and a picture that hangs
\* over an edge is cut.
TextIsPlaced == phase = "render" => TextDrawsRight

-----------------------------------------------------------------------------
(* Polygons.                                                               *)

Points == [x : {-1, 1, 2, 4}, y : {-1, 1, 2, 4}]
Side == 3

\* Corners in front of the plane are kept in their order, and the polygon follows the plane
\* from where an edge leaves it to where one comes back.
WellClipped(inside) ==
    LET p == ClippedPolygon(inside)
        corners == {j \in 0..2 : inside[j]}
        Joined(a, b) == Len(a) = Len(b) \/ Range(a) \cap Range(b) # {}
    IN  /\ Len(p) \in {0, 3, 4} /\ (p = <<>> <=> corners = {})
        /\ {v[1] : v \in {u \in Range(p) : Len(u) = 1}} = corners
        /\ \A k \in 1..Len(p) : Joined(p[k], p[(k % Len(p)) + 1]) /\ (Len(p[k]) = 1 => p[k][1] \in corners)
        /\ \A k, l \in 1..Len(p) : p[k] = p[l] => k = l

Blank == [w |-> Side, h |-> Side, depth |-> [c \in Cells(Side, Side) |-> 9], colour |-> [c \in Cells(Side, Side) |-> "none"]]
Samples == {<<[x |-> -1, y |-> -1], [x |-> -1, y |-> 4], [x |-> 4, y |-> 4], [x |-> 4, y |-> -1]>>,
            <<[x |-> 2, y |-> -1], [x |-> 1, y |-> 4], [x |-> 4, y |-> 2]>>,
            <<[x |-> -1, y |-> 2], [x |-> 2, y |-> 4], [x |-> 4, y |-> 1], [x |-> 1, y |-> -1]>>}

PolygonsDrawRight ==
    /\ \A inside \in [0..2 -> BOOLEAN] : WellClipped(inside)
    /\ \A a, b, c, d \in Points : Convex(<<a, b, c, d>>) => Seamless(<<a, b, c, d>>, Side, Side)
    /\ \A q, r \in Samples, z \in 0..2 :
          LET near == [corners |-> q, z |-> 1, colour |-> "near"]
              far == [corners |-> r, z |-> z, colour |-> "far"]
          IN  /\ NearestIsSeen(Blank, <<near, far, near>>)
              /\ DrawDepth(Blank, <<far, near>>) = [draw(Blank, <<near, far>>) EXCEPT !.colour = Blank.colour]

\* What a session draws with: what clipping leaves of a triangle is a polygon, a polygon is
\* drawn without a seam between its triangles and without a pixel lost at its box, and the
\* nearer one is seen in whatever order two are drawn, with the depth that a pass for the
\* shadows finds.
PolygonsAreWhole == phase = "render" => PolygonsDrawRight
=============================================================================
