------------------------------ MODULE Textures ------------------------------
(***************************************************************************)
(* Texture2D.hpp and TextureUtil.hpp: pictures of characters, views into   *)
(* them, and the three ways worlds and dialogues write text: drawText,     *)
(* which wraps at the right edge, drawBox, and blit_texture of a picture   *)
(* made by strToTexture, which clips.  A picture is its sides and its      *)
(* cells; (0, 0) is the upper left corner.                                 *)
(***************************************************************************)
EXTENDS Integers, Sequences, SequencesExt, FiniteSetsExt

CONSTANTS Newline, Return, Space    \* the characters that are not like others

ASSUME CharactersDiffer == Newline # Return

Cells(w, h) == (0..w - 1) \X (0..h - 1)
Filled(w, h, value) == [w |-> w, h |-> h, at |-> [c \in Cells(w, h) |-> value]]

\* subView() asserts that the view is inside; at() and operator[] do not look.
SubViewFits(t, x, y, w, h) == x + w <= t.w /\ y + h <= t.h
SubViewCells(x, y, w, h) == (x..x + w - 1) \X (y..y + h - 1)

-----------------------------------------------------------------------------
(* drawText                                                                *)

BugMustWrap(t, cx) == cx > t.w
MustWrap(t, cx) == cx >= t.w

\* One character: cx and cy are where it would go.  Once the view is full the rest is not read.
PutChar(s, ch) ==
    IF s.full \/ ch = Return THEN s
    ELSE IF ch = Newline THEN [s EXCEPT !.cx = 0, !.cy = @ + 1]
    ELSE LET cx == IF MustWrap(s.t, s.cx) THEN 0 ELSE s.cx
             cy == IF MustWrap(s.t, s.cx) THEN s.cy + 1 ELSE s.cy
         IN  IF cy >= s.t.h THEN [s EXCEPT !.cx = cx, !.cy = cy, !.full = TRUE]
             ELSE [s EXCEPT !.cx = cx + 1, !.cy = cy,
                            !.t.at = IF <<cx, cy>> \in DOMAIN @ THEN [@ EXCEPT ![<<cx, cy>>] = ch] ELSE @]

drawText(t, startX, startY, text) ==
    LET After[k \in 0..Len(text)] ==
            IF k = 0 THEN [t |-> t, cx |-> startX, cy |-> startY, full |-> FALSE]
            ELSE PutChar(After[k - 1], text[k])
        end == After[Len(text)]
    IN  [t |-> end.t, fits |-> ~end.full /\ end.cy < t.h]

\* A horizontal line, as std::string(w - 2, '-') between two corners.
Edge(w, corner, dash) == <<corner>> \o [k \in 1..w - 2 |-> dash] \o <<corner>>

drawBox(t, x, y, w, h, corner, dash, bar) ==
    IF w <= 2 \/ h <= 2 THEN t
    ELSE LET top == drawText(t, x, y, Edge(w, corner, dash)).t
             bottom == drawText(top, x, y + h - 1, Edge(w, corner, dash)).t
             Sides(u, row) == drawText(drawText(u, x, row, <<bar>>).t, x + w - 1, row, <<bar>>).t
         IN  FoldLeft(Sides, bottom, [k \in 1..h - 2 |-> y + k])

-----------------------------------------------------------------------------
(* strToTexture and blit_texture                                           *)

Chopped(line) == IF line # <<>> /\ Last(line) = Return THEN Front(line) ELSE line

\* The lines of a text, the last one empty after a newline at the end.
TakeChar(lines, ch) ==
    IF ch = Newline THEN Append(lines, <<>>) ELSE [lines EXCEPT ![Len(lines)] = Append(@, ch)]
Split(text) ==
    LET After[k \in 0..Len(text)] == IF k = 0 THEN <<<<>>>> ELSE TakeChar(After[k - 1], text[k])
    IN  After[Len(text)]
Lines(text) ==
    LET all == Split(text)
    IN  [n \in 1..(IF all[Len(all)] = <<>> THEN Len(all) - 1 ELSE Len(all)) |-> Chopped(all[n])]

\* The sides are at least 1.  An empty text has no lines, but line 0 is read: undefined, so the
\* operator is only applied to texts that are not empty.
strToTexture(text) ==
    LET lines == Lines(text)
        w == Max({1} \cup {Len(lines[n]) : n \in DOMAIN lines})
    IN  [w |-> w, h |-> Len(lines),
         at |-> [c \in Cells(w, Len(lines)) |->
                    IF c[1] < Len(lines[c[2] + 1]) THEN lines[c[2] + 1][c[1] + 1] ELSE Space]]

AtLeast(a, b) == IF a > b THEN a ELSE b
AtMost(a, b) == IF a < b THEN a ELSE b

\* The rows and columns of src that lie inside dst when src is laid at (posX, posY).
Overlap(dst, src, posX, posY) ==
    (AtLeast(0, -posX)..AtMost(src.w, dst.w - posX) - 1)
        \X (AtLeast(0, -posY)..AtMost(src.h, dst.h - posY) - 1)

\* Each cell of the overlap is copied; none is where src misses dst.
blit_texture(dst, src, posX, posY) ==
    LET target == {<<posX + c[1], posY + c[2]>> : c \in Overlap(dst, src, posX, posY)}
    IN  [dst EXCEPT !.at = [c \in DOMAIN dst.at \cup target |->
            IF c \in target THEN src.at[<<c[1] - posX, c[2] - posY>>] ELSE dst.at[c]]]

\* Laid anywhere, it shows where it is inside the view, and nothing else changes.
Clips(t, picture, x, y) ==
    blit_texture(t, picture, x, y) =
        [t EXCEPT !.at = [c \in DOMAIN t.at |->
            IF <<c[1] - x, c[2] - y>> \in DOMAIN picture.at THEN picture.at[<<c[1] - x, c[2] - y>>] ELSE t.at[c]]]
=============================================================================
