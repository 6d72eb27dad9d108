----------------------------- MODULE ChatProofs -----------------------------
(***************************************************************************)
(* The chat room, for any clients, names and sizes of the log and of the   *)
(* screens: at the end of a frame every screen shows the log and the line  *)
(* as they are, it is filled, and only players whom somebody named in the  *)
(* frame are banned.  The invariant says which of the two flags, of the    *)
(* world or of the session, stands for a screen that is not as it should.  *)
(***************************************************************************)
EXTENDS ChatRoom, SequenceTheorems, FiniteSetTheorems, TLAPS

-----------------------------------------------------------------------------
(* The invariant.                                                          *)

Entries == 0..Marks - 1

Types ==
    /\ pc \in {"receive", "update", "global", "kick", "render", "worldPost", "endFrame"}
    /\ todo \subseteq Fds
    /\ players \in [Fds -> Names \cup {Free}]
    /\ inputLine \in [Fds -> Lines]
    /\ chatLog \in Seq(Entries) /\ chatLog # <<>>
    /\ frameChanged \in BOOLEAN
    /\ kickFds \in Seq(Fds) /\ banned \in Seq(Fds)
    /\ scrollOffset \in [Fds -> Nat]
    /\ dirty \in [Fds -> BOOLEAN]
    /\ DOMAIN drawn = Fds
    /\ named \subseteq Stems

\* The screen shows what there is, at an offset that is inside the log.
Current(fd) ==
    /\ drawn[fd].rows = Shown(scrollOffset[fd])
    /\ drawn[fd].line = inputLine[fd]
    /\ scrollOffset[fd] <= maxScroll

\* Or else a flag says that it does not, until the screen has been drawn.
ScreenInv ==
    \A fd \in Players :
        CASE pc = "receive" /\ todo = Fds -> Current(fd)
          [] pc \in {"worldPost", "endFrame"} -> Current(fd)
          [] pc = "render" -> Current(fd) \/ dirty[fd]
          [] OTHER -> Current(fd) \/ dirty[fd] \/ frameChanged

\* Who is to be banned bears a name of this frame, or has been banned already.
KickInv ==
    /\ pc \notin {"update", "global"} => kickFds = <<>>
    /\ pc # "kick" => banned = <<>>
    /\ \A k \in 1..Len(kickFds) : players[kickFds[k]] \in named \X {0}
    /\ \A k \in 1..Len(banned) : players[banned[k]] \in {Free} \cup (named \X {0})

\* How long the log is: who has yet to join or leave, to speak or to be banned is not counted in.
LogInv ==
    LET fds == Cardinality(Fds)
    IN  /\ pc = "receive" => Len(chatLog) + Cardinality(todo) <= MaxLog + 2 * fds
        /\ pc = "update" => Len(chatLog) + Cardinality(todo) <= MaxLog + 3 * fds
        /\ pc = "global" => Len(chatLog) <= MaxLog
        /\ pc = "kick" => Len(chatLog) + Cardinality(Players) <= MaxLog + fds
        /\ pc \in {"render", "worldPost", "endFrame"} => Len(chatLog) <= MaxLog + fds

IInv == Types /\ ScreenInv /\ KickInv /\ LogInv

LEMMA InitInv == Init => IInv
<1> SUFFICES ASSUME Init PROVE IInv
  OBVIOUS
<1>1. Players = {}
  BY DEF Init, Players
<1>2. Types
  BY RoomAssumption DEF Init, Types, Lines, Nothing, Entries
<1>3. ScreenInv
  BY <1>1 DEF ScreenInv
<1>4. KickInv
  BY DEF Init, KickInv
<1>5. LogInv
  <2>1. Cardinality(Fds) \in Nat
    BY FdsAssumption, FS_CardinalityType
  <2> QED
    BY <2>1, RoomAssumption DEF Init, LogInv
<1> QED
  BY <1>2, <1>3, <1>4, <1>5 DEF IInv

-----------------------------------------------------------------------------
(* Types.                                                                  *)

LEMMA MaxOfTwo ==
    ASSUME NEW n \in Int
    PROVE  Max({0, n}) = IF n > 0 THEN n ELSE 0
<1> DEFINE m == IF n > 0 THEN n ELSE 0
<1>1. m \in {0, n} /\ \A y \in {0, n} : m >= y
  OBVIOUS
<1>2. \A x \in {0, n} : (\A y \in {0, n} : x >= y) => x = m
  OBVIOUS
<1> HIDE DEF m
<1>3. (CHOOSE x \in {0, n} : \A y \in {0, n} : x >= y) = m
  BY <1>1, <1>2
<1> QED
  BY <1>3 DEF Max, m

LEMMA MaxScrollIs ==
    ASSUME Types
    PROVE  maxScroll = IF Len(chatLog) > Rows THEN Len(chatLog) - Rows ELSE 0
<1>1. Len(chatLog) \in Nat /\ Rows \in Nat /\ Len(chatLog) - Rows \in Int
  BY RoomAssumption DEF Types
<1>2. maxScroll = IF Len(chatLog) - Rows > 0 THEN Len(chatLog) - Rows ELSE 0
  BY <1>1, MaxOfTwo DEF maxScroll
<1> QED
  BY <1>1, <1>2

LEMMA SayTypes ==
    ASSUME Types, Say
    PROVE  chatLog' \in Seq(Entries) /\ chatLog' # <<>> /\ frameChanged' = TRUE
<1>1. Last(chatLog) \in Nat
  BY RoomAssumption DEF Types, Last, Entries
<1>2. (Last(chatLog) + 1) % Marks \in Entries
  BY <1>1, RoomAssumption DEF Entries
<1>3. \A v \in Entries : Append(chatLog, v) \in Seq(Entries) /\ Append(chatLog, v) # <<>>
  <2> SUFFICES ASSUME NEW v \in Entries PROVE Append(chatLog, v) \in Seq(Entries) /\ Append(chatLog, v) # <<>>
    OBVIOUS
  <2>1. chatLog \in Seq(Entries)
    BY DEF Types
  <2> QED
    BY <2>1, AppendProperties
<1> QED
  BY <1>2, <1>3 DEF Say

LEMMA TrimTypes ==
    ASSUME Types
    PROVE  Trimmed(chatLog) \in Seq(Entries) /\ Trimmed(chatLog) # <<>>
<1>1. CASE Len(chatLog) > MaxLog
  <2>1. Len(chatLog) - MaxLog + 1 \in 1..Len(chatLog)
    BY <1>1, RoomAssumption DEF Types
  <2>2. SubSeq(chatLog, Len(chatLog) - MaxLog + 1, Len(chatLog)) \in Seq(Entries)
    BY <2>1 DEF Types
  <2>3. Len(SubSeq(chatLog, Len(chatLog) - MaxLog + 1, Len(chatLog))) = MaxLog
    BY <2>1, RoomAssumption DEF Types
  <2> QED
    BY <1>1, <2>2, <2>3, RoomAssumption DEF Trimmed
<1>2. CASE ~(Len(chatLog) > MaxLog)
  BY <1>2 DEF Types, Trimmed
<1> QED
  BY <1>1, <1>2

LEMMA NextTypes == Types /\ [Next]_vars => Types'
<1> SUFFICES ASSUME Types, [Next]_vars PROVE Types'
  OBVIOUS
<1> USE DEF Types, room, session
<1>1. CASE UNCHANGED vars
  BY <1>1 DEF vars
<1>2. ASSUME NEW fd \in Fds, Join(fd) PROVE Types'
  BY <1>2, SayTypes DEF Join, addPlayer
<1>3. ASSUME NEW fd \in Fds, Disconnect(fd) PROVE Types'
  <2>1. Say
    BY <1>3 DEF Disconnect, removePlayer
  <2>2. players' \in [Fds -> Names \cup {Free}] /\ inputLine' \in [Fds -> Lines]
    BY <1>3 DEF Disconnect, removePlayer, Lines
  <2>3. scrollOffset' \in [Fds -> Nat] /\ dirty' \in [Fds -> BOOLEAN] /\ DOMAIN drawn' = Fds
    BY <1>3 DEF Disconnect, Erase
  <2> QED
    BY <1>3, <2>1, <2>2, <2>3, SayTypes DEF Disconnect
<1>4. ASSUME NEW fd \in Fds, Update(fd) PROVE Types'
  <2>1. PICK line \in Lines, enter \in BOOLEAN, up \in BOOLEAN, down \in BOOLEAN :
            /\ inputLine' = [inputLine EXCEPT ![fd] = IF enter THEN Nothing ELSE line]
            /\ IF enter THEN Dispatch(line) ELSE UNCHANGED <<chatLog, frameChanged, kickFds, named>>
            /\ Scroll(fd, up, down)
            /\ dirty' = [dirty EXCEPT ![fd] = @ \/ inputLine'[fd] # inputLine[fd]
                                                \/ up \/ scrollOffset[fd] # scrollOffset'[fd]]
    BY <1>4 DEF Update
  <2>2. inputLine' \in [Fds -> Lines]
    BY <2>1 DEF Lines
  <2>3. scrollOffset' \in [Fds -> Nat]
    <3>1. scrollOffset[fd] + (IF up THEN 1 ELSE 0) \in Nat
      OBVIOUS
    <3> QED
      BY <2>1, <3>1 DEF Scroll
  <2>4. dirty' \in [Fds -> BOOLEAN]
    BY <2>1
  <2>5. chatLog' \in Seq(Entries) /\ chatLog' # <<>> /\ frameChanged' \in BOOLEAN /\ kickFds' \in Seq(Fds) /\ named' \subseteq Stems
    <3>1. CASE UNCHANGED <<chatLog, frameChanged, kickFds, named>>
      BY <3>1
    <3>2. CASE Say /\ UNCHANGED <<kickFds, named>>
      BY <3>2, SayTypes
    <3>3. ASSUME NEW stem \in Stems, BanLine(stem)
          PROVE  chatLog' \in Seq(Entries) /\ chatLog' # <<>> /\ frameChanged' \in BOOLEAN /\ kickFds' \in Seq(Fds) /\ named' \subseteq Stems
      <4>1. kickFds' \in Seq(Fds)
        <5>1. CASE UNCHANGED kickFds
          BY <5>1
        <5>2. ASSUME NEW target \in Fds, kickFds' = Append(kickFds, target)
              PROVE  kickFds' \in Seq(Fds)
          BY <5>2
        <5> QED
          BY <3>3, <5>1, <5>2 DEF BanLine, Targets, Players
      <4> QED
        BY <3>3, <4>1, SayTypes DEF BanLine
    <3> QED
      BY <2>1, <3>1, <3>2, <3>3 DEF Dispatch
  <2> QED
    BY <1>4, <2>2, <2>3, <2>4, <2>5 DEF Update
<1>5. CASE Received
  BY <1>5 DEF Received, Players
<1>6. CASE getKickFds
  <2>1. <<>> \in Seq(Fds)
    OBVIOUS
  <2> QED
    BY <1>6, <2>1 DEF getKickFds, LeftToKick
<1>7. CASE postUpdate \/ EndFrame
  <2>1. dirty' \in [Fds -> BOOLEAN]
    BY <1>7 DEF postUpdate, EndFrame
  <2> QED
    BY <1>7, <2>1 DEF postUpdate, EndFrame
<1>8. CASE WorldPostUpdate
  BY <1>8 DEF WorldPostUpdate
<1>9. CASE globalUpdate
  BY <1>9, TrimTypes DEF globalUpdate
<1>10. CASE banSession
  <2>1. Tail(banned) \in Seq(Fds) /\ Head(banned) \in Fds
    BY <1>10 DEF banSession
  <2>2. CASE Head(banned) \in Players
    <3>1. Say
      BY <1>10, <2>2 DEF banSession, removePlayer
    <3>2. players' \in [Fds -> Names \cup {Free}] /\ inputLine' \in [Fds -> Lines]
      BY <1>10, <2>2 DEF banSession, removePlayer, Lines
    <3>3. scrollOffset' \in [Fds -> Nat] /\ dirty' \in [Fds -> BOOLEAN] /\ DOMAIN drawn' = Fds
      <4>1. Erase(Head(banned))
        BY <1>10, <2>2 DEF banSession
      <4> QED
        BY <2>1, <4>1 DEF Erase
    <3> QED
      BY <1>10, <2>1, <3>1, <3>2, <3>3, SayTypes DEF banSession
  <2>3. CASE Head(banned) \notin Players
    BY <1>10, <2>1, <2>3 DEF banSession
  <2> QED
    BY <2>2, <2>3
<1>11. CASE Render
  <2>1. maxScroll \in Nat
    BY MaxScrollIs, RoomAssumption
  <2>2. scrollOffset' \in [Fds -> Nat] /\ DOMAIN drawn' = Fds
    BY <1>11, <2>1 DEF Render, Clamped
  <2> QED
    BY <1>11, <2>2 DEF Render
<1> QED
  BY <1>1, <1>2, <1>3, <1>4, <1>5, <1>6, <1>7, <1>8, <1>9, <1>10, <1>11 DEF Next

-----------------------------------------------------------------------------
(* What each step does to a screen.                                        *)

\* The screen of fd and what it shows stay as they are, or the world's flag is set.
Kept(fd) ==
    \/ frameChanged'
    \/ /\ UNCHANGED <<chatLog, frameChanged>>
       /\ dirty'[fd] \/ (Current(fd)' = Current(fd) /\ (dirty[fd] => dirty'[fd]))

LEMMA CurrentIsKept ==
    ASSUME NEW fd, UNCHANGED <<chatLog, inputLine[fd], scrollOffset[fd], drawn[fd]>>
    PROVE  Current(fd)' = Current(fd)
BY DEF Current, Shown, maxScroll

\* Before the screens are drawn.
LEMMA ScreensWait ==
    ASSUME ScreenInv, pc \in {"receive", "update", "global", "kick"}, pc' \in {"receive", "update", "global", "kick"},
           pc' = "receive" => todo' # Fds,
           \A fd \in Fds : players'[fd] # Free => frameChanged' \/ (players[fd] # Free /\ Kept(fd))
    PROVE  ScreenInv'
<1> SUFFICES ASSUME NEW fd \in Fds, players'[fd] # Free
             PROVE  (Current(fd) \/ dirty[fd] \/ frameChanged)'
  BY DEF ScreenInv, Players
<1>1. CASE frameChanged'
  BY <1>1
<1>2. CASE players[fd] # Free /\ Kept(fd)
  <2>1. Current(fd) \/ dirty[fd] \/ frameChanged
    BY <1>2 DEF ScreenInv, Players
  <2> QED
    BY <1>2, <2>1 DEF Kept
<1> QED
  BY <1>1, <1>2

LEMMA NextScreens == IInv /\ Types' /\ [Next]_vars => ScreenInv'
<1> SUFFICES ASSUME IInv, Types', [Next]_vars PROVE ScreenInv'
  OBVIOUS
<1> USE DEF IInv, room, session
<1>1. CASE UNCHANGED vars
  BY <1>1 DEF vars, ScreenInv, Players, Current, Shown, maxScroll
<1>2. ASSUME NEW fd \in Fds, Join(fd) \/ Disconnect(fd) PROVE ScreenInv'
  <2>1. frameChanged' /\ pc = "receive" /\ pc' = "receive" /\ todo' # Fds
    BY <1>2 DEF Join, Disconnect, addPlayer, removePlayer, Say
  <2> QED
    BY <2>1, ScreensWait
<1>3. ASSUME NEW fd \in Fds, Update(fd) PROVE ScreenInv'
  <2>1. pc = "update" /\ pc' = "update" /\ players' = players
    BY <1>3 DEF Update
  <2>2. frameChanged' \/ UNCHANGED <<chatLog, frameChanged>>
    BY <1>3 DEF Update, Dispatch, BanLine, Say
  <2>3. ASSUME NEW g \in Fds, UNCHANGED <<chatLog, frameChanged>>
        PROVE  dirty'[g] \/ (Current(g)' = Current(g) /\ (dirty[g] => dirty'[g]))
    <3>1. CASE g = fd
      <4>1. dirty'[fd] \/ (UNCHANGED <<inputLine[fd], scrollOffset[fd], drawn[fd]>> /\ (dirty[fd] => dirty'[fd]))
        BY <1>3 DEF Update, Types
      <4> QED
        BY <2>3, <3>1, <4>1, CurrentIsKept
    <3>2. CASE g # fd
      <4>1. UNCHANGED <<inputLine[g], scrollOffset[g], drawn[g], dirty[g]>>
        BY <1>3, <3>2 DEF Update, Scroll, Types
      <4> QED
        BY <2>3, <4>1, CurrentIsKept
    <3> QED
      BY <3>1, <3>2
  <2> QED
    BY <2>1, <2>2, <2>3, ScreensWait DEF Kept
<1>4. CASE Received \/ getKickFds
  <2>1. UNCHANGED <<players, chatLog, frameChanged, dirty, inputLine, scrollOffset, drawn>>
    BY <1>4 DEF Received, getKickFds
  <2>2. \A g \in Fds : Current(g)' = Current(g)
    BY <2>1, CurrentIsKept
  <2> QED
    BY <1>4, <2>1, <2>2, ScreensWait DEF Kept, Received, getKickFds
<1>5. CASE globalUpdate
  <2>1. UNCHANGED <<players, dirty, inputLine, scrollOffset, drawn>> /\ pc = "update" /\ pc' = "global"
    BY <1>5 DEF globalUpdate
  <2>2. frameChanged' \/ UNCHANGED <<chatLog, frameChanged>>
    BY <1>5 DEF globalUpdate, Trimmed, Types
  <2> QED
    BY <2>1, <2>2, CurrentIsKept, ScreensWait DEF Kept
<1>6. CASE banSession
  <2>1. pc = "kick" /\ pc' = "kick"
    BY <1>6 DEF banSession
  <2>2. frameChanged' \/ UNCHANGED <<players, chatLog, frameChanged, dirty, inputLine, scrollOffset, drawn>>
    BY <1>6 DEF banSession, removePlayer, Say
  <2> QED
    BY <2>1, <2>2, CurrentIsKept, ScreensWait DEF Kept
<1>7. CASE postUpdate
  <2>1. /\ UNCHANGED <<players, chatLog, inputLine, scrollOffset, drawn>> /\ pc = "kick" /\ pc' = "render"
        /\ \A fd \in Fds : dirty'[fd] <=> dirty[fd] \/ (fd \in Players /\ frameChanged)
    BY <1>7 DEF postUpdate
  <2>2. \A fd \in Fds : Current(fd)' = Current(fd)
    BY <2>1, CurrentIsKept
  <2> QED
    BY <2>1, <2>2 DEF ScreenInv, Players
<1>8. CASE Render
  <2>1. UNCHANGED <<players, chatLog, inputLine>> /\ pc = "render" /\ pc' = "worldPost"
    BY <1>8 DEF Render
  <2>2. ASSUME NEW fd \in Players PROVE Current(fd)'
    <3>1. CASE dirty[fd]
      <4>1. /\ scrollOffset'[fd] = Clamped(fd)
            /\ drawn'[fd] = [rows |-> Shown(Clamped(fd)), scrolled |-> scrollOffset[fd], line |-> inputLine[fd]]
        BY <1>8, <2>2, <3>1 DEF Render, Players
      <4>2. Clamped(fd) <= maxScroll
        <5>1. maxScroll \in Nat /\ scrollOffset[fd] \in Nat
          BY <2>2, MaxScrollIs, RoomAssumption DEF Types, Players
        <5> QED
          BY <5>1 DEF Clamped
      <4>3. maxScroll' = maxScroll /\ Shown(scrollOffset[fd])' = Shown(Clamped(fd))
        BY <2>1, <4>1 DEF Shown, maxScroll
      <4>4. drawn'[fd].rows = Shown(Clamped(fd)) /\ drawn'[fd].line = inputLine'[fd]
        BY <2>1, <4>1
      <4> QED
        BY <4>1, <4>2, <4>3, <4>4 DEF Current
    <3>2. CASE ~dirty[fd]
      <4>1. Current(fd)
        BY <2>1, <2>2, <3>2 DEF ScreenInv
      <4>2. UNCHANGED <<chatLog, inputLine[fd], scrollOffset[fd], drawn[fd]>>
        BY <1>8, <2>1, <2>2, <3>2 DEF Render, Players
      <4> QED
        BY <4>1, <4>2, CurrentIsKept
    <3> QED
      BY <3>1, <3>2
  <2> QED
    BY <2>1, <2>2 DEF ScreenInv, Players
<1>9. CASE WorldPostUpdate \/ EndFrame
  <2>1. UNCHANGED <<players, chatLog, inputLine, scrollOffset, drawn>>
        /\ pc \in {"worldPost", "endFrame"} /\ pc' \in {"endFrame", "receive"} /\ (pc' = "receive" => todo' = Fds)
    BY <1>9 DEF WorldPostUpdate, EndFrame
  <2>2. \A fd \in Fds : Current(fd)' = Current(fd)
    BY <2>1, CurrentIsKept
  <2> QED
    BY <2>1, <2>2 DEF ScreenInv, Players
<1> QED
  BY <1>1, <1>2, <1>3, <1>4, <1>5, <1>6, <1>7, <1>8, <1>9 DEF Next

-----------------------------------------------------------------------------
(* Who is banned.                                                          *)

LEMMA NextKicks == IInv /\ Types' /\ [Next]_vars => KickInv'
<1> SUFFICES ASSUME IInv, Types', [Next]_vars PROVE KickInv'
  OBVIOUS
<1> USE DEF IInv, Types, room, session
<1>1. CASE UNCHANGED <<pc, players, kickFds, banned, named>>
  BY <1>1 DEF KickInv
<1>2. ASSUME pc = "receive" \/ pc = "endFrame", UNCHANGED <<kickFds, banned>>, pc' \in {"receive", "update"}
      PROVE  KickInv'
  BY <1>2 DEF KickInv
<1>3. ASSUME NEW fd \in Fds, Update(fd) PROVE KickInv'
  <2>1. pc = "update" /\ pc' = "update" /\ UNCHANGED <<players, banned>> /\ banned = <<>>
    BY <1>3 DEF Update, KickInv
  <2>2. CASE UNCHANGED <<kickFds, named>>
    BY <2>1, <2>2 DEF KickInv
  <2>3. ASSUME NEW stem \in Stems, named' = named \cup {stem}, UNCHANGED kickFds
        PROVE  KickInv'
    BY <2>1, <2>3 DEF KickInv
  <2>4. ASSUME NEW stem \in Stems, named' = named \cup {stem},
               NEW target \in Targets(stem), kickFds' = Append(kickFds, target)
        PROVE  KickInv'
    <3>1. target \in Fds /\ players[target] = <<stem, 0>>
      BY <2>4 DEF Targets, Players
    <3>2. /\ Len(kickFds') = Len(kickFds) + 1 /\ kickFds'[Len(kickFds) + 1] = target
          /\ \A k \in 1..Len(kickFds) : kickFds'[k] = kickFds[k]
      BY <2>4, <3>1, AppendProperties
    <3>3. \A k \in 1..Len(kickFds') : players'[kickFds'[k]] \in named' \X {0}
      <4> SUFFICES ASSUME NEW k \in 1..Len(kickFds') PROVE players'[kickFds'[k]] \in named' \X {0}
        OBVIOUS
      <4>1. CASE k = Len(kickFds) + 1
        <5>1. players'[kickFds'[k]] = <<stem, 0>>
          BY <2>1, <3>1, <3>2, <4>1
        <5>2. stem \in named'
          BY <2>4
        <5> QED
          BY <5>1, <5>2
      <4>2. CASE k \in 1..Len(kickFds)
        <5>1. players[kickFds[k]] \in named \X {0}
          BY <4>2 DEF KickInv
        <5> QED
          BY <2>1, <2>4, <3>2, <4>2, <5>1
      <4> QED
        BY <3>2, <4>1, <4>2
    <3> QED
      BY <2>1, <3>3 DEF KickInv
  <2> QED
    BY <1>3, <2>2, <2>3, <2>4 DEF Update, Dispatch, BanLine
<1>4. CASE globalUpdate
  BY <1>4 DEF globalUpdate, KickInv
<1>5. CASE getKickFds
  BY <1>5 DEF getKickFds, LeftToKick, KickInv
<1>6. CASE banSession
  <2>1. /\ pc = "kick" /\ pc' = "kick" /\ banned # <<>> /\ banned' = Tail(banned)
        /\ UNCHANGED <<kickFds, named>> /\ kickFds = <<>>
    BY <1>6 DEF banSession, KickInv
  <2>2. \A g \in Fds : players'[g] \in {players[g], Free}
    BY <1>6, <2>1 DEF banSession, removePlayer
  <2>3. \A k \in 1..Len(Tail(banned)) : k + 1 \in 1..Len(banned) /\ Tail(banned)[k] = banned[k + 1] /\ banned[k + 1] \in Fds
    BY <2>1
  <2>4. \A k \in 1..Len(banned') : players'[banned'[k]] \in {Free} \cup (named' \X {0})
    BY <2>1, <2>2, <2>3 DEF KickInv
  <2> QED
    BY <2>1, <2>4 DEF KickInv
<1>7. CASE postUpdate
  BY <1>7 DEF postUpdate, KickInv
<1>8. CASE Render \/ WorldPostUpdate
  BY <1>8 DEF Render, WorldPostUpdate, KickInv
<1>9. CASE EndFrame
  BY <1>2, <1>9 DEF EndFrame
<1>10. ASSUME NEW fd \in Fds, Join(fd) \/ Disconnect(fd) PROVE KickInv'
  BY <1>2, <1>10 DEF Join, Disconnect
<1>11. CASE Received
  BY <1>2, <1>11 DEF Received
<1> QED
  BY <1>1, <1>3, <1>4, <1>5, <1>6, <1>7, <1>8, <1>9, <1>10, <1>11 DEF Next, vars

-----------------------------------------------------------------------------
(* How long the log is.                                                    *)

LEMMA CountFacts ==
    ASSUME NEW S, S \subseteq Fds
    PROVE  /\ Cardinality(Fds) \in Nat /\ Cardinality(S) \in Nat /\ Cardinality(S) <= Cardinality(Fds)
           /\ \A fd \in S : Cardinality(S \ {fd}) = Cardinality(S) - 1
<1>1. IsFiniteSet(S) /\ Cardinality(S) <= Cardinality(Fds)
  BY FdsAssumption, FS_Subset
<1>2. Cardinality(Fds) \in Nat /\ Cardinality(S) \in Nat
  BY <1>1, FdsAssumption, FS_CardinalityType
<1>3. ASSUME NEW fd \in S PROVE Cardinality(S \ {fd}) = Cardinality(S) - 1
  BY <1>1, FS_RemoveElement
<1> QED
  BY <1>1, <1>2, <1>3

LEMMA SayLength ==
    ASSUME Types, Say
    PROVE  Len(chatLog') = Len(chatLog) + 1
BY DEF Say, Types

LEMMA NextLog == IInv /\ Types' /\ [Next]_vars => LogInv'
<1> SUFFICES ASSUME IInv, Types', [Next]_vars PROVE LogInv'
  OBVIOUS
<1> DEFINE fds == Cardinality(Fds)
<1> USE DEF IInv, room, session
<1>1. Len(chatLog) \in Nat /\ MaxLog \in Nat /\ Players \subseteq Fds /\ todo \subseteq Fds /\ Types
  BY RoomAssumption DEF Types, Players
<1>2. /\ fds \in Nat
      /\ Cardinality(todo) \in Nat /\ Cardinality(todo) <= fds
      /\ Cardinality(Players) \in Nat /\ Cardinality(Players) <= fds
      /\ \A fd \in todo : Cardinality(todo \ {fd}) = Cardinality(todo) - 1
      /\ \A fd \in Players : Cardinality(Players \ {fd}) = Cardinality(Players) - 1
  BY <1>1, CountFacts
<1>3. CASE UNCHANGED <<pc, todo, players, chatLog>>
  BY <1>3 DEF LogInv, Players
<1>4. ASSUME NEW fd \in Fds, Join(fd) \/ Disconnect(fd) PROVE LogInv'
  <2>1. pc = "receive" /\ pc' = "receive" /\ fd \in todo /\ todo' = todo \ {fd} /\ Say
    BY <1>4 DEF Join, Disconnect, addPlayer, removePlayer
  <2>2. Cardinality(todo') = Cardinality(todo) - 1 /\ Len(chatLog') = Len(chatLog) + 1
    BY <1>1, <1>2, <2>1, SayLength
  <2> QED
    BY <1>1, <1>2, <2>1, <2>2 DEF LogInv
<1>5. ASSUME NEW fd \in Fds, Update(fd) PROVE LogInv'
  <2>1. pc = "update" /\ pc' = "update" /\ fd \in todo /\ todo' = todo \ {fd}
    BY <1>5 DEF Update
  <2>2. Say \/ chatLog' = chatLog
    BY <1>5 DEF Update, Dispatch, BanLine
  <2>3. Cardinality(todo') = Cardinality(todo) - 1 /\ Len(chatLog') \in {Len(chatLog), Len(chatLog) + 1}
    BY <1>1, <1>2, <2>1, <2>2, SayLength
  <2> QED
    BY <1>1, <1>2, <2>1, <2>3 DEF LogInv
<1>6. CASE Received
  BY <1>1, <1>2, <1>6 DEF Received, LogInv
<1>7. CASE globalUpdate
  <2>1. Len(Trimmed(chatLog)) <= MaxLog
    <3>1. CASE Len(chatLog) > MaxLog
      <4>1. Len(chatLog) - MaxLog + 1 \in 1..Len(chatLog)
        BY <1>1, <3>1, RoomAssumption
      <4>2. Len(SubSeq(chatLog, Len(chatLog) - MaxLog + 1, Len(chatLog))) = MaxLog
        BY <1>1, <4>1 DEF Types
      <4> QED
        BY <1>1, <3>1, <4>2 DEF Trimmed
    <3>2. CASE ~(Len(chatLog) > MaxLog)
      BY <1>1, <3>2 DEF Trimmed
    <3> QED
      BY <3>1, <3>2
  <2> QED
    BY <1>7, <2>1 DEF globalUpdate, LogInv
<1>8. CASE getKickFds
  BY <1>1, <1>2, <1>8 DEF getKickFds, LogInv, Players
<1>9. CASE banSession
  <2>1. pc = "kick" /\ pc' = "kick" /\ banned # <<>>
    BY <1>9 DEF banSession
  <2>2. CASE Head(banned) \in Players
    <3>1. Say /\ players' = [players EXCEPT ![Head(banned)] = Free]
      BY <1>9, <2>2 DEF banSession, removePlayer
    <3>2. Players' = Players \ {Head(banned)}
      BY <1>1, <2>2, <3>1 DEF Players, Types
    <3>3. Cardinality(Players') = Cardinality(Players) - 1 /\ Len(chatLog') = Len(chatLog) + 1
      BY <1>1, <1>2, <2>2, <3>1, <3>2, SayLength
    <3> QED
      BY <1>1, <1>2, <2>1, <3>3 DEF LogInv
  <2>3. CASE Head(banned) \notin Players
    BY <1>9, <2>1, <2>3 DEF banSession, LogInv, Players
  <2> QED
    BY <2>2, <2>3
<1>10. CASE postUpdate
  BY <1>1, <1>2, <1>10 DEF postUpdate, LogInv
<1>11. CASE Render \/ WorldPostUpdate
  BY <1>11 DEF Render, WorldPostUpdate, LogInv
<1>12. CASE EndFrame
  BY <1>1, <1>2, <1>12 DEF EndFrame, LogInv
<1> QED
  BY <1>3, <1>4, <1>5, <1>6, <1>7, <1>8, <1>9, <1>10, <1>11, <1>12 DEF Next, vars

LEMMA InvHolds == Spec => []IInv
<1>1. IInv /\ [Next]_vars => IInv'
  BY NextTypes, NextScreens, NextKicks, NextLog DEF IInv
<1> QED
  BY <1>1, InitInv, PTL DEF Spec

-----------------------------------------------------------------------------
(* The theorems.                                                           *)

\* The state always has the type that the module gives it; in particular the log, trimmed only
\* in the middle of the frame, never grows beyond what one frame can add to it.
THEOREM TypeCorrect == Spec => []TypeOK
<1>1. ASSUME IInv PROVE TypeOK
  <2>1. Players \subseteq Fds /\ todo \subseteq Fds
    BY <1>1 DEF IInv, Types, Players
  <2>2. /\ Cardinality(Fds) \in Nat
        /\ Cardinality(todo) \in Nat /\ Cardinality(Players) \in Nat
    BY <2>1, CountFacts
  <2>3. Len(chatLog) <= LogBound
    BY <1>1, <2>2, RoomAssumption DEF IInv, LogInv, Types, LogBound
  <2> QED
    BY <1>1, <2>3 DEF IInv, Types, TypeOK, Entries
<1> QED
  BY <1>1, InvHolds, PTL

\* At the end of a frame every screen shows the log at its offset and its line as they are: the
\* two flags, cleared at different hooks, never lose a change.
THEOREM ScreensCorrect == Spec => []EveryoneIsUpToDate
<1>1. IInv => EveryoneIsUpToDate
  BY DEF IInv, ScreenInv, Current, EveryoneIsUpToDate
<1> QED
  BY <1>1, InvHolds, PTL

LEMMA ShownIsFull ==
    ASSUME Types, NEW offset \in Nat, offset <= maxScroll
    PROVE  Len(Shown(offset)) = IF Len(chatLog) < Rows THEN Len(chatLog) ELSE Rows
<1>1. /\ chatLog \in Seq(Entries) /\ Len(chatLog) \in Nat /\ Rows \in Nat \ {0}
      /\ maxScroll = IF Len(chatLog) > Rows THEN Len(chatLog) - Rows ELSE 0
  BY MaxScrollIs, RoomAssumption DEF Types
<1> DEFINE first == Max({0, Len(chatLog) - offset - Rows})
<1>2. first = IF Len(chatLog) - offset - Rows > 0 THEN Len(chatLog) - offset - Rows ELSE 0
  <2>1. Len(chatLog) - offset - Rows \in Int
    BY <1>1
  <2> QED
    BY <2>1, MaxOfTwo
<1> HIDE DEF first
<1>3. Len(chatLog) > Rows => first = Len(chatLog) - offset - Rows
  BY <1>1, <1>2
<1>4. ~(Len(chatLog) > Rows) => offset = 0 /\ first = 0
  BY <1>1, <1>2
<1>5. first \in Nat /\ first + 1 \in 1..Len(chatLog) + 1 /\ Len(chatLog) - offset \in first..Len(chatLog)
  BY <1>1, <1>3, <1>4
<1>6. Len(SubSeq(chatLog, first + 1, Len(chatLog) - offset)) = Len(chatLog) - offset - first
  BY <1>1, <1>5
<1>7. Shown(offset) = SubSeq(chatLog, first + 1, Len(chatLog) - offset)
  BY DEF Shown, first
<1> QED
  BY <1>1, <1>3, <1>4, <1>6, <1>7

\* Scrolling never leaves the log: a screen is filled as far as there are entries, also after
\* the log was trimmed under a session that stands at its top.
THEOREM ScreensFilled == Spec => []ScreensAreFull
<1>1. IInv => ScreensAreFull
  BY ShownIsFull DEF IInv, ScreenInv, Current, ScreensAreFull, Types, Players
<1> QED
  BY <1>1, InvHolds, PTL

\* Whoever is removed by a ban bears a name that somebody banned in the same frame, though names
\* and descriptors come and go between frames and the list is moved from, not copied.
THEOREM BansCorrect == Spec => OnlyNamedAreBanned
<1>1. ASSUME IInv, [Next]_vars
      PROVE  [BannedIsNamed]_vars
  <2> SUFFICES ASSUME NEW fd \in Fds, pc = "kick", players[fd] # Free, players'[fd] = Free, Next
               PROVE  players[fd] \in named \X {0}
    BY <1>1 DEF BannedIsNamed
  <2>1. banSession
    BY DEF Next, Join, Disconnect, Update, Received, globalUpdate, getKickFds, postUpdate, Render, WorldPostUpdate,
           EndFrame, room
  <2>2. banned # <<>> /\ fd = Head(banned)
    BY <1>1, <2>1 DEF banSession, removePlayer, IInv, Types, room
  <2>3. 1 \in 1..Len(banned) /\ Head(banned) = banned[1]
    BY <1>1, <2>2 DEF IInv, Types
  <2> QED
    BY <1>1, <2>2, <2>3 DEF IInv, KickInv
<1> QED
  BY <1>1, InvHolds, PTL DEF Spec, OnlyNamedAreBanned

-----------------------------------------------------------------------------
(* The contract with the engine.                                           *)

\* A list of bans, when the engine asks for it, names players only.
LEMMA ListNamesPlayers ==
    ASSUME IInv
    PROVE  kickFds \in Seq(Players)
<1>1. kickFds \in Seq(Fds) /\ named \subseteq Stems
  BY DEF IInv, Types
<1>2. ASSUME NEW k \in 1..Len(kickFds) PROVE kickFds[k] \in Players
  <2>1. players[kickFds[k]] \in named \X {0} /\ kickFds[k] \in Fds
    BY <1>1, <1>2 DEF IInv, KickInv
  <2>2. players[kickFds[k]] \in Stems \X {0, 1}
    BY <1>1, <2>1
  <2> QED
    BY <2>1, <2>2, FreeAssumption DEF Players
<1>3. kickFds = [k \in 1..Len(kickFds) |-> kickFds[k]] /\ Len(kickFds) \in Nat
  BY <1>1
<1> QED
  BY <1>2, <1>3

LEMMA ContractStep == IInv /\ [Next]_vars => [Contract!Next]_Contract!worldVars
<1> SUFFICES ASSUME IInv, [Next]_vars PROVE Contract!Next \/ UNCHANGED Contract!worldVars
  OBVIOUS
<1> USE DEF room, session, WorldPhase
<1>0. players \in [Fds -> Names \cup {Free}] /\ Free \notin Names
  BY FreeAssumption DEF IInv, Types, Names
<1>1. CASE UNCHANGED vars
  BY <1>1 DEF vars, Contract!worldVars, Players
<1>2. ASSUME NEW fd \in Fds, Join(fd) PROVE Contract!Next
  <2>1. pc = "receive" /\ pc' = "receive" /\ fd \in todo /\ fd \notin Players /\ todo' = todo \ {fd} /\ banned' = banned
    BY <1>2 DEF Join
  <2>2. PICK name \in Names : players' = [players EXCEPT ![fd] = name]
    BY <1>2 DEF Join, addPlayer
  <2>3. Players' = Players \cup {fd}
    BY <1>0, <2>2 DEF Players
  <2>4. Contract!Enter(fd)
    BY <2>1, <2>3 DEF Contract!Enter
  <2> QED
    BY <2>4 DEF Contract!Next
<1>3. ASSUME NEW fd \in Fds, Disconnect(fd) PROVE Contract!Next
  <2>1. pc = "receive" /\ pc' = "receive" /\ fd \in todo /\ fd \in Players /\ todo' = todo \ {fd} /\ banned' = banned
    BY <1>3 DEF Disconnect
  <2>2. Players' = Players \ {fd}
    BY <1>0, <1>3 DEF Disconnect, removePlayer, Players
  <2>3. Contract!Leave(fd)
    BY <2>1, <2>2 DEF Contract!Leave
  <2> QED
    BY <2>3 DEF Contract!Next
<1>4. CASE Received
  BY <1>4 DEF Received, Players, Contract!Play, Contract!Next
<1>5. CASE globalUpdate \/ (\E fd \in Fds : Update(fd))
  BY <1>5 DEF globalUpdate, Update, Players, Contract!worldVars
<1>6. CASE getKickFds
  BY <1>6, ListNamesPlayers DEF getKickFds, Players, Contract!Ask, Contract!Next
<1>7. CASE banSession
  <2>1. pc = "kick" /\ pc' = "kick" /\ banned # <<>> /\ banned' = Tail(banned)
    BY <1>7 DEF banSession
  <2>2. Players' = Players \ {Head(banned)}
    BY <1>0, <1>7 DEF banSession, removePlayer, Players
  <2> QED
    BY <2>1, <2>2 DEF Contract!Ban, Contract!Next
<1>8. CASE postUpdate
  BY <1>8 DEF postUpdate, Players, Contract!Draw, Contract!Next
<1>9. CASE Render \/ WorldPostUpdate
  BY <1>9 DEF Render, WorldPostUpdate, Players, Contract!worldVars
<1>10. CASE EndFrame
  BY <1>10 DEF EndFrame, Players, Contract!NextFrame, Contract!Next
<1> QED
  BY <1>1, <1>2, <1>3, <1>4, <1>5, <1>6, <1>7, <1>8, <1>9, <1>10 DEF Next

\* The room keeps its side of the contract that the engine's loop keeps on the other: what it
\* asks to be banned is there when it asks, and was asked for in that frame.
THEOREM EngineContract == Spec => KeepsEngineContract
<1>1. Init => Contract!Init
  BY DEF Init, Contract!Init, WorldPhase, Players
<1> QED
  BY <1>1, ContractStep, InvHolds, PTL DEF Spec, KeepsEngineContract, Contract!Spec
=============================================================================
