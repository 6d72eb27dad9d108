------------------------------ MODULE GameWorld ------------------------------
(***************************************************************************)
(* The contract between the engine's loop and the world it runs            *)
(* (IsGameWorld, HasKickFds, IsConnectionSession of Engine.hpp), which no  *)
(* type states: when players come and go, what a list of kicks may name    *)
(* and what has become of it when the frame is drawn.  Engine keeps the    *)
(* loop's side of it and assumes the world's, a world the reverse.         *)
(***************************************************************************)
EXTENDS Naturals, Sequences

CONSTANTS
    Fds           \* the descriptors, by which a world knows its players

VARIABLES
    phase,        \* "gather", "play", "ban" or "draw": the part of the frame
    known,        \* the players the world was told of and not told to drop
    may,          \* those who may still come or go in this frame
    asked         \* the list of kicks, as far as it is not served

worldVars == <<phase, known, may, asked>>

Init ==
    /\ phase = "gather"
    /\ known = {}
    /\ may = Fds
    /\ asked = <<>>

\* init() of a session, and onDisconnect(): each descriptor once in a frame.
Enter(fd) ==
    /\ phase = "gather" /\ fd \in may \ known
    /\ known' = known \cup {fd}
    /\ may' = may \ {fd}
    /\ UNCHANGED <<phase, asked>>

Leave(fd) ==
    /\ phase = "gather" /\ fd \in may \cap known
    /\ known' = known \ {fd}
    /\ may' = may \ {fd}
    /\ UNCHANGED <<phase, asked>>

\* The loop has served others, or polled: fewer are left who may come or go.
Settle ==
    /\ phase = "gather"
    /\ may' \subseteq may
    /\ UNCHANGED <<phase, known, asked>>

\* update() and globalUpdate(): nobody comes or goes until the frame is over.
Play ==
    /\ phase = "gather" /\ phase' = "play"
    /\ may' \subseteq may
    /\ UNCHANGED <<known, asked>>

\* getKickFds(): only players the world knows are named, one of them as often as it likes.
Ask ==
    /\ phase = "play" /\ phase' = "ban"
    /\ asked' \in Seq(known)
    /\ UNCHANGED <<known, may>>

\* banSession(), in the order of the list: whoever it names is gone.
Ban ==
    /\ phase = "ban" /\ asked # <<>>
    /\ known' = known \ {Head(asked)}
    /\ asked' = Tail(asked)
    /\ may' \subseteq may
    /\ UNCHANGED phase

\* render() and the end of the frame, once the whole list is served.
Draw ==
    /\ phase = "ban" /\ asked = <<>>
    /\ phase' = "draw"
    /\ UNCHANGED <<known, may, asked>>

NextFrame ==
    /\ phase = "draw" /\ phase' = "gather"
    /\ may' = Fds
    /\ UNCHANGED <<known, asked>>

Next ==
    \/ \E fd \in Fds : Enter(fd) \/ Leave(fd)
    \/ Settle \/ Play \/ Ask \/ Ban \/ Draw \/ NextFrame

Spec == Init /\ [][Next]_worldVars
=============================================================================
