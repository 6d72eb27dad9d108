----------------------------- MODULE Rasterizer -----------------------------
(***************************************************************************)
(* GraphicsDevice.hpp: how a pass turns triangles into pixels.  A triangle *)
(* is clipped against the near plane, what is left is fanned into          *)
(* triangles, and each of those colours the pixels inside it that are      *)
(* nearer than what is there.  Screen coordinates are exact, in halves of  *)
(* a pixel; rounding, perspective and interpolation are left out, and a    *)
(* triangle has one depth and one colour.                                  *)
(***************************************************************************)
EXTENDS Integers, Sequences, SequencesExt, FiniteSetsExt

-----------------------------------------------------------------------------
(* Clipping (Sutherland-Hodgman, one plane).  Corners are 0, 1 and 2; a    *)
(* corner of the result is <<j>> or the point <<i, j>> where the edge from *)
(* i to j meets the plane.                                                 *)

Following(j) == (j + 1) % 3

Crosses(inside, j) == inside[j] # inside[Following(j)]

Kept(inside, j) ==
    (IF inside[j] THEN <<<<j>>>> ELSE <<>>)
        \o (IF Crosses(inside, j) THEN <<<<j, Following(j)>>>> ELSE <<>>)

ClippedPolygon(inside) == Kept(inside, 0) \o Kept(inside, 1) \o Kept(inside, 2)

\* clipEdge(): the parameter of the crossing is Numerator / Denominator.
Numerator(wIn, plane) == wIn - plane
Denominator(wIn, wOut) == wIn - wOut

\* The triangles of a polygon, in the order they are drawn.
Fan(p) ==
    CASE Len(p) = 3 -> <<<<p[1], p[2], p[3]>>>>
      [] Len(p) = 4 -> <<<<p[1], p[2], p[3]>>, <<p[1], p[3], p[4]>>>>
      [] OTHER -> <<>>

-----------------------------------------------------------------------------
(* rasterizeTriangle()                                                     *)

edgeFunction(a, b, c) == (c.x - a.x) * (b.y - a.y) - (c.y - a.y) * (b.x - a.x)

\* (int) of a coordinate: towards zero.
Truncated(v) == IF v >= 0 THEN v \div 2 ELSE -((-v) \div 2)
Pixel(x, y) == [x |-> 2 * x, y |-> 2 * y]

\* The pixels the two loops visit: the triangle's box, cut to the target.
Box(t, w, h) ==
    LET xs == {t[1].x, t[2].x, t[3].x}
        ys == {t[1].y, t[2].y, t[3].y}
    IN  (Max({0, Truncated(Min(xs))})..Min({w - 1, Truncated(Max(xs)) + 1}))
            \X (Max({0, Truncated(Min(ys))})..Min({h - 1, Truncated(Max(ys)) + 1}))

BugCovers(t, p) ==
    /\ edgeFunction(t[2], t[3], p) > 0
    /\ edgeFunction(t[3], t[1], p) > 0
    /\ edgeFunction(t[1], t[2], p) > 0
\* A pixel on an edge belongs to the triangles on both sides of it.
Covers(t, p) ==
    /\ edgeFunction(t[2], t[3], p) >= 0
    /\ edgeFunction(t[3], t[1], p) >= 0
    /\ edgeFunction(t[1], t[2], p) >= 0

\* Triangles that face away, or have no area, are not drawn.
FrontFacing(t) == edgeFunction(t[1], t[2], t[3]) > 0
Fragments(t, w, h) ==
    IF FrontFacing(t) THEN {c \in Box(t, w, h) : Covers(t, Pixel(c[1], c[2]))} ELSE {}

IsNearer(z, old) == z < old

\* A target is the depth and the colour of each pixel.
DrawTriangle(target, t, z, colour) ==
    LET seen == {c \in Fragments(t, target.w, target.h) : IsNearer(z, target.depth[c])}
    IN  [target EXCEPT !.depth = [c \in DOMAIN @ |-> IF c \in seen THEN z ELSE @[c]],
                       !.colour = [c \in DOMAIN @ |-> IF c \in seen THEN colour ELSE @[c]]]

\* What is drawn of a polygon: its fan.
Drawn(p, w, h) == UNION {Fragments(t, w, h) : t \in Range(Fan(p))}

\* What a quadrilateral should cover: the pixels inside it, its corners in the order that faces
\* the viewer.
TurnsRight(a, b, c) == edgeFunction(a, b, c) > 0
Convex(q) == \A k \in 1..4 : TurnsRight(q[k], q[(k % 4) + 1], q[((k + 1) % 4) + 1])
InsideOf(q, p) == \A k \in 1..4 : edgeFunction(q[k], q[(k % 4) + 1], p) >= 0
Seamless(q, w, h) == Drawn(q, w, h) = {c \in (0..w - 1) \X (0..h - 1) : InsideOf(q, Pixel(c[1], c[2]))}

-----------------------------------------------------------------------------
(* draw(): the polygons that clipping leaves of a mesh, one after the      *)
(* other, each with its corners, its depth z and its colour.               *)

DrawPolygon(target, polygon) ==
    LET Triangle(u, k) == DrawTriangle(u, Fan(polygon.corners)[k], polygon.z, polygon.colour)
    IN  CASE Len(polygon.corners) = 3 -> Triangle(target, 1)
          [] Len(polygon.corners) = 4 -> Triangle(Triangle(target, 1), 2)
          [] OTHER -> target

draw(target, mesh) ==
    LET After[k \in 0..Len(mesh)] == IF k = 0 THEN target ELSE DrawPolygon(After[k - 1], mesh[k])
    IN  After[Len(mesh)]

\* The other draw(), without a fragment shader, writes the depth alone.
DrawDepth(target, mesh) == [target EXCEPT !.depth = draw(target, mesh).depth]

\* What should be seen at a pixel: of the polygons that are there, nearer than the target was,
\* the nearest, and of several as near the first.
Candidates(target, mesh, c) ==
    {k \in DOMAIN mesh : c \in Drawn(mesh[k].corners, target.w, target.h) /\ IsNearer(mesh[k].z, target.depth[c])}
IsInFront(mesh, k, candidates) ==
    k \in candidates /\ \A j \in candidates : mesh[k].z < mesh[j].z \/ (mesh[k].z = mesh[j].z /\ k <= j)
NearestIsSeen(target, mesh) ==
    LET result == draw(target, mesh)
        Shows(c, z, colour) == result.depth[c] = z /\ result.colour[c] = colour
    IN  \A c \in DOMAIN target.depth :
            IF Candidates(target, mesh, c) = {} THEN Shows(c, target.depth[c], target.colour[c])
            ELSE \E k \in DOMAIN mesh : IsInFront(mesh, k, Candidates(target, mesh, c)) /\ Shows(c, mesh[k].z, mesh[k].colour)
=============================================================================
