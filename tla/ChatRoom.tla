------------------------------ MODULE ChatRoom ------------------------------
(***************************************************************************)
(* ChatWorld and ChatSession of ChatApp.hpp, called by the engine's loop   *)
(* in its order of hooks: sessions come and go while the loop receives and *)
(* logs in, then update() of each, globalUpdate(), the bans, postUpdate(), *)
(* render() and the end of the frame.  What is drawn depends on a flag of  *)
(* the world and one of each session that live for a frame.                *)
(***************************************************************************)
EXTENDS Integers, Sequences, SequencesExt, FiniteSets, FiniteSetsExt

CONSTANTS
    Fds,        \* descriptors of the clients
    Stems,      \* letters of the names: each occurs as it is and with a blank inside
    Free,       \* no player under this descriptor
    MaxLog,     \* entries globalUpdate() leaves in the log (100 in the code)
    Rows,       \* displayLines: rows of the log on a screen
    Marks       \* bound: entries are told apart by their number modulo Marks

ASSUME RoomAssumption == MaxLog \in Nat \ {0} /\ Rows \in Nat \ {0} /\ Marks \in Nat \ {0}
ASSUME FdsAssumption == IsFiniteSet(Fds)
ASSUME FreeAssumption == Free \notin Stems \X {0, 1}

VARIABLES
    pc,             \* the phase of the engine's loop
    todo,           \* the descriptors this phase may still serve
    players,        \* m_players: the names; a session is there exactly while its player is
    inputLine,      \* PlayerState::inputLine
    chatLog,        \* m_chatLog
    frameChanged,   \* m_frameChanged
    kickFds,        \* m_kickFds
    banned,         \* the list getKickFds() handed to the engine, as far as it is not served
    scrollOffset,   \* m_scrollOffset
    dirty,          \* m_dirty
    drawn,          \* the screen the client was sent last
    named           \* history: the names of this frame's /ban lines

room == <<players, inputLine, chatLog, frameChanged>>
session == <<scrollOffset, dirty, drawn>>
vars == <<pc, todo, room, kickFds, banned, session, named>>

Names == Stems \X {0, 1}

\* A line: nothing, a carriage return, a text, or "/ban " and a name, which loses its blanks.
Nothing == <<>>
Return == <<"return">>
Text == <<"text">>
Ban(stem) == <<"ban", stem>>
Lines == {Nothing, Return, Text} \cup {Ban(stem) : stem \in Stems}
IsBlank(line) == line \in {Nothing, Return}

Players == {fd \in Fds : players[fd] # Free}

\* A frame adds at most a join or a leave, a line and a ban's leave for each descriptor.
LogBound == MaxLog + 3 * Cardinality(Fds)
Blank == [rows |-> <<>>, scrolled |-> 0, line |-> Nothing]

TypeOK ==
    /\ pc \in {"receive", "update", "global", "kick", "render", "worldPost", "endFrame"}
    /\ todo \subseteq Fds
    /\ players \in [Fds -> Names \cup {Free}]
    /\ inputLine \in [Fds -> Lines]
    /\ chatLog \in Seq(0..Marks - 1) /\ Len(chatLog) <= LogBound
    /\ frameChanged \in BOOLEAN
    /\ kickFds \in Seq(Fds) /\ banned \in Seq(Fds)
    /\ scrollOffset \in [Fds -> Nat]
    /\ dirty \in [Fds -> BOOLEAN]
    /\ named \subseteq Stems

Init ==
    /\ pc = "receive"
    /\ todo = Fds
    /\ players = [fd \in Fds |-> Free]
    /\ inputLine = [fd \in Fds |-> Nothing]
    /\ chatLog = <<0>>
    /\ frameChanged = TRUE
    /\ kickFds = <<>> /\ banned = <<>>
    /\ scrollOffset = [fd \in Fds |-> 0]
    /\ dirty = [fd \in Fds |-> TRUE]
    /\ drawn = [fd \in Fds |-> Blank]
    /\ named = {}

\* m_chatLog.push_back(...) and markChanged().
Say ==
    /\ chatLog' = Append(chatLog, (Last(chatLog) + 1) % Marks)
    /\ frameChanged' = TRUE

-----------------------------------------------------------------------------
(* The engine's receive and login loops: no descriptor is served twice.    *)

BugaddPlayer(fd, name) ==
    /\ players' = [players EXCEPT ![fd] = name]
    /\ chatLog' = Append(chatLog, (Last(chatLog) + 1) % Marks)
    /\ UNCHANGED <<inputLine, frameChanged>>
addPlayer(fd, name) ==
    /\ players' = [players EXCEPT ![fd] = name]
    /\ Say
    /\ UNCHANGED inputLine

removePlayer(fd) ==
    /\ players' = [players EXCEPT ![fd] = Free]
    /\ inputLine' = [inputLine EXCEPT ![fd] = Nothing]
    /\ Say

\* The engine erases the session: its fields are those of a new one until there is one.
Erase(fd) ==
    /\ scrollOffset' = [scrollOffset EXCEPT ![fd] = 0]
    /\ dirty' = [dirty EXCEPT ![fd] = TRUE]
    /\ drawn' = [drawn EXCEPT ![fd] = Blank]

\* A new session, with its init().
Join(fd) ==
    /\ pc = "receive" /\ fd \in todo /\ fd \notin Players
    /\ todo' = todo \ {fd}
    /\ \E name \in Names : addPlayer(fd, name)
    /\ UNCHANGED <<pc, kickFds, banned, session, named>>

Disconnect(fd) ==
    /\ pc = "receive" /\ fd \in todo /\ fd \in Players
    /\ todo' = todo \ {fd}
    /\ removePlayer(fd) /\ Erase(fd)
    /\ UNCHANGED <<pc, kickFds, banned, named>>

Received ==
    /\ pc = "receive"
    /\ pc' = "update"
    /\ todo' = Players
    /\ UNCHANGED <<room, kickFds, banned, session, named>>

-----------------------------------------------------------------------------
(* ChatSession::update() and ChatWorld::processPlayerInput().              *)

BugTargets(stem) == Players
Targets(stem) == {fd \in Players : players[fd] = <<stem, 0>>}

\* The line an Enter takes: any one player of that name is put on the list, if there is one.
BanLine(stem) ==
    /\ Say
    /\ named' = named \cup {stem}
    /\ IF Targets(stem) = {}
       THEN UNCHANGED kickFds
       ELSE \E fd \in Targets(stem) : kickFds' = Append(kickFds, fd)

Dispatch(line) ==
    \/ IsBlank(line) /\ UNCHANGED <<chatLog, frameChanged, kickFds, named>>
    \/ line = Text /\ Say /\ UNCHANGED <<kickFds, named>>
    \/ \E stem \in Stems : line = Ban(stem) /\ BanLine(stem)

Scroll(fd, up, down) ==
    LET raised == scrollOffset[fd] + (IF up THEN 1 ELSE 0)
    IN  scrollOffset' = [scrollOffset EXCEPT ![fd] = IF down /\ raised > 0 THEN raised - 1 ELSE raised]

\* The frame's characters make any line of the one before; Enter, Up and Down may go down.
Update(fd) ==
    /\ pc = "update" /\ fd \in todo
    /\ todo' = todo \ {fd}
    /\ \E line \in Lines, enter, up, down \in BOOLEAN :
        /\ inputLine' = [inputLine EXCEPT ![fd] = IF enter THEN Nothing ELSE line]
        /\ IF enter THEN Dispatch(line) ELSE UNCHANGED <<chatLog, frameChanged, kickFds, named>>
        /\ Scroll(fd, up, down)
        /\ dirty' = [dirty EXCEPT ![fd] = @ \/ inputLine'[fd] # inputLine[fd]
                                            \/ up \/ scrollOffset[fd] # scrollOffset'[fd]]
    /\ UNCHANGED <<pc, players, banned, drawn>>

-----------------------------------------------------------------------------
BugTrimmed(log) == log
Trimmed(log) == IF Len(log) > MaxLog THEN SubSeq(log, Len(log) - MaxLog + 1, Len(log)) ELSE log

globalUpdate ==
    /\ pc = "update" /\ todo = {}
    /\ pc' = "global"
    /\ chatLog' = Trimmed(chatLog)
    /\ frameChanged' = (frameChanged \/ Len(chatLog) > MaxLog)
    /\ UNCHANGED <<todo, players, inputLine, kickFds, banned, session, named>>

BugLeftToKick == kickFds
\* What the moved-from list is once it is cleared.
LeftToKick == <<>>

getKickFds ==
    /\ pc = "global"
    /\ pc' = "kick"
    /\ banned' = kickFds
    /\ kickFds' = LeftToKick
    /\ UNCHANGED <<todo, room, session, named>>

\* banSession(): a descriptor that is on the list again has no session any more.
banSession ==
    /\ pc = "kick" /\ banned # <<>>
    /\ banned' = Tail(banned)
    /\ IF Head(banned) \in Players
       THEN removePlayer(Head(banned)) /\ Erase(Head(banned))
       ELSE UNCHANGED <<room, session>>
    /\ UNCHANGED <<pc, todo, kickFds, named>>

\* ChatSession::postUpdate() of every session.
postUpdate ==
    /\ pc = "kick" /\ banned = <<>>
    /\ pc' = "render"
    /\ dirty' = [fd \in Fds |-> dirty[fd] \/ (fd \in Players /\ frameChanged)]
    /\ UNCHANGED <<todo, room, kickFds, banned, scrollOffset, drawn, named>>

BugmaxScroll == Len(chatLog)
maxScroll == Max({0, Len(chatLog) - Rows})
Clamped(fd) == IF scrollOffset[fd] > maxScroll THEN maxScroll ELSE scrollOffset[fd]
Shown(offset) ==
    SubSeq(chatLog, Max({0, Len(chatLog) - offset - Rows}) + 1, Len(chatLog) - offset)

\* Every dirty session draws itself and is sent, in parallel: each touches only its own state
\* and reads a world that nobody writes.  The header shows the offset before it is clamped.
Render ==
    /\ pc = "render"
    /\ pc' = "worldPost"
    /\ LET redrawn == {fd \in Players : dirty[fd]}
       IN  /\ scrollOffset' = [fd \in Fds |-> IF fd \in redrawn THEN Clamped(fd) ELSE scrollOffset[fd]]
           /\ drawn' = [fd \in Fds |->
                IF fd \in redrawn
                THEN [rows |-> Shown(Clamped(fd)), scrolled |-> scrollOffset[fd], line |-> inputLine[fd]]
                ELSE drawn[fd]]
    /\ UNCHANGED <<todo, room, kickFds, banned, dirty, named>>

\* ChatWorld::postUpdate().
WorldPostUpdate ==
    /\ pc = "worldPost"
    /\ pc' = "endFrame"
    /\ frameChanged' = FALSE
    /\ UNCHANGED <<todo, players, inputLine, chatLog, kickFds, banned, session, named>>

\* ChatSession::endFrame() of every session.
EndFrame ==
    /\ pc = "endFrame"
    /\ pc' = "receive"
    /\ todo' = Fds
    /\ dirty' = [fd \in Fds |-> dirty[fd] /\ fd \notin Players]
    /\ named' = {}
    /\ UNCHANGED <<room, kickFds, banned, scrollOffset, drawn>>

Next ==
    \/ \E fd \in Fds : Join(fd) \/ Disconnect(fd) \/ Update(fd)
    \/ Received \/ globalUpdate \/ getKickFds \/ banSession
    \/ postUpdate \/ Render \/ WorldPostUpdate \/ EndFrame

Spec == Init /\ [][Next]_vars

-----------------------------------------------------------------------------
\* At the end of a frame every session's screen shows the log at its offset and its line as
\* they are, whoever joined, left, was banned, spoke or scrolled and at whichever hook.
EveryoneIsUpToDate ==
    pc = "receive" /\ todo = Fds =>
        \A fd \in Players :
            /\ drawn[fd].rows = Shown(scrollOffset[fd])
            /\ drawn[fd].line = inputLine[fd]

\* Scrolling never leaves the log: a screen is filled as far as there are entries, also after
\* the log was trimmed under a session that stands at its top.
ScreensAreFull ==
    pc = "receive" /\ todo = Fds =>
        \A fd \in Players :
            Len(drawn[fd].rows) = IF Len(chatLog) < Rows THEN Len(chatLog) ELSE Rows

BannedIsNamed ==
    \A fd \in Fds : pc = "kick" /\ players[fd] # Free /\ players'[fd] = Free
                       => players[fd] \in named \X {0}

\* Whoever is removed by a ban bears a name that somebody banned in the same frame.
OnlyNamedAreBanned == [][BannedIsNamed]_vars

\* The room as the engine sees it.
WorldPhase ==
    CASE pc = "receive" -> "gather" [] pc \in {"update", "global"} -> "play" [] pc = "kick" -> "ban"
      [] OTHER -> "draw"

Contract == INSTANCE GameWorld WITH
    phase <- WorldPhase, known <- Players,
    may <- IF pc = "receive" THEN todo ELSE {}, asked <- banned

\* The room keeps its side of the contract with the engine: a list of bans, collected while
\* the sessions are updated, names only players who are still there when the engine asks for it,
\* though not each of them once, and none of an earlier frame.
KeepsEngineContract == Contract!Spec
=============================================================================
