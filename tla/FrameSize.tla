----------------------------- MODULE FrameSize ------------------------------
(***************************************************************************)
(* The sizes a picture has on its way: what a client announces, what the   *)
(* engine makes of it (Engine.hpp), how long a frame can become            *)
(* (NetworkUtil.hpp, EncryptedStream.hpp) and where its characters go in   *)
(* the client's terminal (TerminalBuffer.hpp).                             *)
(***************************************************************************)
EXTENDS Integers

MaxUnsigned16 == 65535      \* uint16_t
Unsigned16 == 0..MaxUnsigned16
MaxSize == 254              \* the largest side of a picture

\* client.cpp and emulator_client.cpp refuse an empty window and cut one above 256.
Announced(n) == IF n > 256 THEN 256 ELSE n

BugClamped(n, default) == IF n > MaxSize THEN MaxSize ELSE n
\* What the engine makes of an announced side, which is a uint16_t of a client it does not trust.
Clamped(n, default) == IF n < 1 THEN default ELSE IF n > MaxSize THEN MaxSize ELSE n
BufferWidth(w) == Clamped(w, 80)
BufferHeight(h) == Clamped(h, 24)

\* The sides the world's session is initialised with: the buffer's after a login, and what the
\* client announced where nobody logs in.
SessionWidth(w, auth) == IF auth THEN BufferWidth(w) ELSE w
SessionHeight(h, auth) == IF auth THEN BufferHeight(h) ELSE h

\* zlib's bound for the compressed length of n bytes.
compressBound(n) == n + n \div 4096 + n \div 16384 + n \div 33554432 + 13

\* What wrap_outgoing() seals at its longest: a length, the two sides and the picture.  Its own
\* length is a uint16_t.
PayloadBound(w, h) == 6 + compressBound(w * h)

-----------------------------------------------------------------------------
(* TerminalBuffer: the cursor's home sequence, then the rows, a newline    *)
(* between each two.  Indices count from 0.                                *)

HomeLength == 3
RequiredSize(w, h) == HomeLength + w * h + h - 1
NewlineAt(w, y) == HomeLength + y * (w + 1) + w
CellAt(w, x, y) == HomeLength + y * (w + 1) + x
=============================================================================
