---------------------------- MODULE EngineProofs ----------------------------
(***************************************************************************)
(* The safety of the main loop, for every number of clients and           *)
(* descriptors and every configuration.  The inductive invariant IInv says *)
(* how the poll set, the four stage maps and the kernel's descriptor table *)
(* hang together at every step of the loop.                                *)
(***************************************************************************)
EXTENDS Engine, TLAPS

USE DEF Message

NoEntry(fd) ==
    /\ handshakes[fd] = None
    /\ pendingStreams[fd] = None
    /\ authenticating[fd] = None
    /\ sessions[fd] = None

\* A descriptor has one entry if it is a client's, made for that client, and else none.
OneEntry(fd) ==
    IF owner[fd] \in Conns
    THEN \/ /\ handshakes[fd] = owner[fd] /\ pendingStreams[fd] = None
            /\ authenticating[fd] = None /\ sessions[fd] = None
         \/ /\ handshakes[fd] = None /\ pendingStreams[fd] = owner[fd]
            /\ authenticating[fd] = None /\ sessions[fd] = None
         \/ /\ handshakes[fd] = None /\ pendingStreams[fd] = None
            /\ authenticating[fd] = owner[fd] /\ sessions[fd] = None
         \/ /\ handshakes[fd] = None /\ pendingStreams[fd] = None
            /\ authenticating[fd] = None /\ sessions[fd] = owner[fd]
    ELSE NoEntry(fd)

StageInv == \A fd \in Fds : OneEntry(fd)

\* The slots are the listener and each client's descriptor once.
PollInv ==
    /\ Len(pollFds) >= 1
    /\ pollFds[1].fd = Listener
    /\ \A k \in 2..Len(pollFds) : pollFds[k].fd \in Fds /\ owner[pollFds[k].fd] \in Conns
    /\ \A fd \in Fds : owner[fd] \in Conns => \E k \in 2..Len(pollFds) : pollFds[k].fd = fd
    /\ \A j, k \in 1..Len(pollFds) : pollFds[j].fd = pollFds[k].fd => j = k

\* What is ahead of the receive loop's index.
ServeInv ==
    /\ i >= 2
    /\ pc \notin {"accept", "recv"} => unserved = {}
    /\ pc \in {"accept", "recv"} =>
          \A fd \in Fds : fd \in unserved <=>
             \E k \in 2..Len(pollFds) :
                pollFds[k].fd = fd /\ pollFds[k].in /\ (pc = "recv" => k >= i)

\* What the later phases were handed by the earlier ones.
PhaseInv ==
    /\ pc = "accept" /\ pollFds[1].in => queue # <<>>
    /\ PointersAreLive
    /\ pc = "kick" => \A k \in 1..Len(kicks) :
          /\ handshakes[kicks[k]] = None
          /\ pendingStreams[kicks[k]] = None
          /\ authenticating[kicks[k]] = None

IInv ==
    /\ TypeOK
    /\ StageInv
    /\ PollInv
    /\ WorldMatchesSessions
    /\ ServeInv
    /\ PhaseInv

-----------------------------------------------------------------------------
(* What swap-removal and close do.                                         *)

\* Swap-removal shortens the list by one and moves its last element to the hole.
LEMMA SwapRemoveFacts ==
    ASSUME NEW S, NEW s \in Seq(S), NEW k \in 1..Len(s)
    PROVE  /\ SwapRemove(s, k) \in Seq(S)
           /\ Len(SwapRemove(s, k)) = Len(s) - 1
           /\ \A j \in 1..(Len(s) - 1) :
                 SwapRemove(s, k)[j] = IF j = k THEN s[Len(s)] ELSE s[j]
BY DEF SwapRemove

\* Taking a client's slot out of the list when its descriptor is closed keeps the list exact.
LEMMA DropKeepsPollInv ==
    ASSUME TypeOK, PollInv, NEW k \in 2..Len(pollFds),
           pollFds' = SwapRemove(pollFds, k),
           owner' = [owner EXCEPT ![pollFds[k].fd] = None]
    PROVE  PollInv' /\ pollFds' \in Seq(Slot)
<1> DEFINE n == Len(pollFds)
<1>1. /\ pollFds' \in Seq(Slot)
      /\ Len(pollFds') = n - 1
      /\ \A j \in 1..(n - 1) : pollFds'[j] = IF j = k THEN pollFds[n] ELSE pollFds[j]
  <2>1. pollFds \in Seq(Slot) /\ k \in 1..Len(pollFds)
    BY DEF TypeOK
  <2>2. /\ SwapRemove(pollFds, k) \in Seq(Slot)
        /\ Len(SwapRemove(pollFds, k)) = Len(pollFds) - 1
        /\ \A j \in 1..(Len(pollFds) - 1) :
              SwapRemove(pollFds, k)[j] = IF j = k THEN pollFds[Len(pollFds)] ELSE pollFds[j]
    BY <2>1, SwapRemoveFacts
  <2> QED BY <2>2
<1>2. n \in Nat /\ n >= 2 /\ pollFds[k].fd \in Fds /\ owner \in [Fds -> Conns \cup {None, StoreFile}]
  BY DEF TypeOK, PollInv
<1>3. Len(pollFds') >= 1 /\ pollFds'[1].fd = Listener
  BY <1>1, <1>2 DEF PollInv
<1>4. ASSUME NEW j \in 2..Len(pollFds')
      PROVE  pollFds'[j].fd \in Fds /\ owner'[pollFds'[j].fd] \in Conns
  BY <1>1, <1>2, <1>4 DEF PollInv
<1>5. ASSUME NEW fd \in Fds, owner'[fd] \in Conns
      PROVE  \E j \in 2..Len(pollFds') : pollFds'[j].fd = fd
  <2>1. fd # pollFds[k].fd /\ owner[fd] \in Conns
    BY <1>2, <1>5, OwnerAssumption
  <2>2. PICK m \in 2..n : pollFds[m].fd = fd
    BY <2>1 DEF PollInv
  <2>3. CASE m = n
    BY <1>1, <1>2, <2>1, <2>2, <2>3
  <2>4. CASE m # n
    BY <1>1, <1>2, <2>1, <2>2, <2>4
  <2> QED BY <2>3, <2>4
<1>6. ASSUME NEW a \in 1..Len(pollFds'), NEW b \in 1..Len(pollFds'), pollFds'[a].fd = pollFds'[b].fd
      PROVE  a = b
  BY <1>1, <1>2, <1>6 DEF PollInv
<1> QED
  BY <1>1, <1>3, <1>4, <1>5, <1>6 DEF PollInv


-----------------------------------------------------------------------------
(* Steps of the receive loop: what each of them has in common.             *)

\* close() keeps the types of everything it touches.
LEMMA CloseFdType ==
    ASSUME TypeOK, NEW fd \in Fds, CloseFd(fd)
    PROVE  /\ conn' \in [Conns -> {"idle", "queued", "open", "shut"}]
           /\ queue' \in Seq(Conns)
           /\ owner' \in [Fds -> Conns \cup {None, StoreFile}]
           /\ rx' \in [Conns -> 0..MaxQueued]
           /\ tx' \in [Conns -> 0..FrameCap]
BY BoundAssumption DEF TypeOK, CloseFd

\* The slot being served is an open client's, and poll reported it.
LEMMA ServingFacts ==
    ASSUME IInv, NEW fd \in Fds, Serving(fd)
    PROVE  /\ i \in 2..Len(pollFds)
           /\ pollFds[i].fd = fd
           /\ owner[fd] \in Conns
           /\ pc = "recv" /\ pc' = "recv"
           /\ kicks' = kicks /\ banned' = banned /\ left' = left /\ dirty' = dirty
           /\ fd \in unserved /\ unserved' = unserved \ {fd}
<1>1. i \in 2..Len(pollFds) /\ pollFds[i].fd = fd /\ pollFds[i].in /\ pc = "recv"
  BY DEF IInv, TypeOK, ServeInv, Serving
<1>2. owner[fd] \in Conns
  BY <1>1 DEF IInv, PollInv
<1>3. fd \in unserved
  BY <1>1 DEF IInv, ServeInv
<1> QED BY <1>1, <1>2, <1>3 DEF Serving

\* Serving a slot and stepping to the next leaves exactly the others ahead.
LEMMA AdvanceKeepsServeInv ==
    ASSUME IInv, NEW fd \in Fds, Serving(fd), Advance
    PROVE  ServeInv' /\ i' \in Nat \ {0}
<1>1. i \in 2..Len(pollFds) /\ pollFds[i].fd = fd /\ pc = "recv" /\ pc' = "recv"
  BY ServingFacts
<1>2. i' = i + 1 /\ pollFds' = pollFds /\ unserved' = unserved \ {fd}
  BY ServingFacts DEF Advance
<1>3. Len(pollFds) \in Nat /\ i \in Nat
  BY DEF IInv, TypeOK
<1>4. \A g \in Fds : g \in unserved <=>
        \E k \in 2..Len(pollFds) : pollFds[k].fd = g /\ pollFds[k].in /\ k >= i
  BY <1>1 DEF IInv, ServeInv
<1>5. \A j, k \in 1..Len(pollFds) : pollFds[j].fd = pollFds[k].fd => j = k
  BY DEF IInv, PollInv
<1>6. ASSUME NEW g \in Fds
      PROVE  g \in unserved' <=>
               \E k \in 2..Len(pollFds') : pollFds'[k].fd = g /\ pollFds'[k].in /\ k >= i'
  <2>1. ASSUME g \in unserved'
        PROVE  \E k \in 2..Len(pollFds') : pollFds'[k].fd = g /\ pollFds'[k].in /\ k >= i'
    <3>1. PICK k \in 2..Len(pollFds) : pollFds[k].fd = g /\ pollFds[k].in /\ k >= i
      BY <1>2, <1>4, <2>1
    <3>2. k # i
      BY <1>1, <1>2, <2>1, <3>1
    <3> QED BY <1>2, <1>3, <3>1, <3>2
  <2>2. ASSUME NEW k \in 2..Len(pollFds'), pollFds'[k].fd = g, pollFds'[k].in, k >= i'
        PROVE  g \in unserved'
    <3>1. k >= i /\ k # i
      BY <1>2, <1>3, <2>2
    <3>2. g # fd
      BY <1>1, <1>2, <1>3, <1>5, <2>2, <3>1
    <3> QED BY <1>2, <1>4, <2>2, <3>1, <3>2
  <2> QED BY <2>1, <2>2
<1> QED BY <1>1, <1>2, <1>3, <1>6 DEF ServeInv

\* So does serving a slot and removing it, with the index kept where it is.
LEMMA DropKeepsServeInv ==
    ASSUME IInv, NEW fd \in Fds, Serving(fd), Drop(fd)
    PROVE  ServeInv' /\ i' \in Nat \ {0}
<1> DEFINE n == Len(pollFds)
<1>1. i \in 2..n /\ pollFds[i].fd = fd /\ pc = "recv" /\ pc' = "recv"
  BY ServingFacts
<1>2. i' = i /\ pollFds' = SwapRemove(pollFds, i) /\ unserved' = unserved \ {fd}
  BY ServingFacts DEF Drop
<1>3. n \in Nat /\ i \in Nat /\ pollFds \in Seq(Slot)
  BY DEF IInv, TypeOK
<1>4. /\ Len(pollFds') = n - 1
      /\ \A j \in 1..(n - 1) : pollFds'[j] = IF j = i THEN pollFds[n] ELSE pollFds[j]
  <2>1. i \in 1..Len(pollFds)
    BY <1>1, <1>3
  <2>2. /\ Len(SwapRemove(pollFds, i)) = Len(pollFds) - 1
        /\ \A j \in 1..(Len(pollFds) - 1) :
              SwapRemove(pollFds, i)[j] = IF j = i THEN pollFds[Len(pollFds)] ELSE pollFds[j]
    BY <1>3, <2>1, SwapRemoveFacts
  <2> QED BY <1>2, <2>2
<1>5. \A g \in Fds : g \in unserved <=>
        \E k \in 2..n : pollFds[k].fd = g /\ pollFds[k].in /\ k >= i
  BY <1>1 DEF IInv, ServeInv
<1>6. \A j, k \in 1..n : pollFds[j].fd = pollFds[k].fd => j = k
  BY DEF IInv, PollInv
<1>7. ASSUME NEW g \in Fds
      PROVE  g \in unserved' <=>
               \E k \in 2..Len(pollFds') : pollFds'[k].fd = g /\ pollFds'[k].in /\ k >= i'
  <2>1. ASSUME g \in unserved'
        PROVE  \E k \in 2..Len(pollFds') : pollFds'[k].fd = g /\ pollFds'[k].in /\ k >= i'
    <3>1. PICK k \in 2..n : pollFds[k].fd = g /\ pollFds[k].in /\ k >= i
      BY <1>2, <1>5, <2>1
    <3>2. k # i
      BY <1>1, <1>2, <2>1, <3>1
    <3>3. CASE k = n
      BY <1>1, <1>2, <1>3, <1>4, <3>1, <3>2, <3>3
    <3>4. CASE k # n
      BY <1>1, <1>2, <1>3, <1>4, <3>1, <3>2, <3>4
    <3> QED BY <3>3, <3>4
  <2>2. ASSUME NEW k \in 2..Len(pollFds'), pollFds'[k].fd = g, pollFds'[k].in, k >= i'
        PROVE  g \in unserved'
    <3> DEFINE m == IF k = i THEN n ELSE k
    <3>1. m \in 2..n /\ m >= i /\ m # i /\ pollFds[m] = pollFds'[k]
      BY <1>1, <1>2, <1>3, <1>4, <2>2
    <3>2. g # fd
      BY <1>1, <1>3, <1>6, <2>2, <3>1
    <3> QED BY <1>2, <1>5, <2>2, <3>1, <3>2
  <2> QED BY <2>1, <2>2
<1> QED BY <1>1, <1>2, <1>3, <1>7 DEF ServeInv, IInv

\* A receive step that removes its client, with every trace of it in the maps.
LEMMA DropStep ==
    ASSUME IInv, NEW fd \in Fds, Serving(fd), Drop(fd),
           handshakes' = Erase(handshakes, fd),
           pendingStreams' = Erase(pendingStreams, fd),
           authenticating' = Erase(authenticating, fd),
           sessions' = Erase(sessions, fd),
           players' = Erase(players, fd),
           got' \in [Fds -> 0..(Message - 1)]
    PROVE  IInv'
<1>1. i \in 2..Len(pollFds) /\ pollFds[i].fd = fd /\ pc = "recv" /\ pc' = "recv"
      /\ kicks' = kicks /\ banned' = banned /\ left' = left /\ dirty' = dirty /\ unserved' = unserved \ {fd}
  BY ServingFacts
<1>2. CloseFd(fd) /\ pollFds' = SwapRemove(pollFds, i)
  BY DEF Drop
<1>3. PollInv' /\ pollFds' \in Seq(Slot)
  BY <1>1, <1>2, DropKeepsPollInv DEF IInv, CloseFd
<1>4. ServeInv' /\ i' \in Nat \ {0}
  BY DropKeepsServeInv
<1>5. /\ conn' \in [Conns -> {"idle", "queued", "open", "shut"}] /\ queue' \in Seq(Conns)
      /\ owner' \in [Fds -> Conns \cup {None, StoreFile}]
      /\ rx' \in [Conns -> 0..MaxQueued] /\ tx' \in [Conns -> 0..FrameCap]
  BY <1>2, CloseFdType DEF IInv
<1>6. TypeOK'
  BY <1>1, <1>3, <1>4, <1>5 DEF IInv, TypeOK, Erase, Entry
<1>7. StageInv'
  BY <1>2, <1>5, OwnerAssumption DEF IInv, TypeOK, StageInv, OneEntry, NoEntry, CloseFd, Erase
<1>8. WorldMatchesSessions'
  BY DEF IInv, WorldMatchesSessions, Erase
<1>9. PhaseInv'
  BY <1>1 DEF PhaseInv, PointersAreLive
<1> QED BY <1>3, <1>4, <1>6, <1>7, <1>8, <1>9 DEF IInv

\* A receive step that keeps its client.
LEMMA KeepStep ==
    ASSUME IInv, NEW fd \in Fds, Serving(fd), Advance,
           UNCHANGED <<conn, queue, tx, owner>>,
           rx' \in [Conns -> 0..MaxQueued],
           got' \in [Fds -> 0..(Message - 1)],
           handshakes' \in [Fds -> Entry],
           pendingStreams' \in [Fds -> Entry],
           authenticating' \in [Fds -> Entry],
           sessions' \in [Fds -> Entry],
           players' = sessions',
           StageInv'
    PROVE  IInv'
<1>1. pc = "recv" /\ pc' = "recv"
      /\ kicks' = kicks /\ banned' = banned /\ left' = left /\ dirty' = dirty /\ unserved' = unserved \ {fd}
  BY ServingFacts
<1>2. ServeInv' /\ i' \in Nat \ {0} /\ pollFds' = pollFds
  BY AdvanceKeepsServeInv DEF Advance
<1>3. TypeOK'
  BY <1>1, <1>2 DEF IInv, TypeOK
<1>4. PollInv'
  BY <1>2 DEF IInv, PollInv
<1>5. WorldMatchesSessions' /\ PhaseInv'
  BY <1>1 DEF WorldMatchesSessions, PhaseInv, PointersAreLive
<1> QED BY <1>2, <1>3, <1>4, <1>5 DEF IInv

\* A map without an entry for fd is what erasing fd leaves.
LEMMA EraseAbsent ==
    ASSUME NEW m \in [Fds -> Entry], NEW fd \in Fds, m[fd] = None
    PROVE  m = Erase(m, fd)
BY DEF Erase

\* Every handler of the receive loop keeps the inductive invariant, whatever poll reported.
LEMMA RecvStep ==
    ASSUME IInv, NEW fd \in Fds, RecvFd(fd)
    PROVE  IInv'
<1> DEFINE c == owner[fd]
<1>1. Serving(fd)
  BY DEF RecvFd, RecvKey, CloseHandshake, RecvSize, AwaitSize, CloseBeforeSize, RecvInput, Disconnect
<1>2. c \in Conns /\ c # None /\ OneEntry(fd)
  BY <1>1, ServingFacts, OwnerAssumption DEF IInv, StageInv
<1>3. /\ handshakes \in [Fds -> Entry] /\ pendingStreams \in [Fds -> Entry]
      /\ authenticating \in [Fds -> Entry] /\ sessions \in [Fds -> Entry]
      /\ players = sessions /\ got \in [Fds -> 0..(Message - 1)]
      /\ rx \in [Conns -> 0..MaxQueued] /\ MaxQueued \in Nat
      /\ owner \in [Fds -> Conns \cup {None, StoreFile}] /\ StageInv
  BY BoundAssumption DEF IInv, TypeOK, WorldMatchesSessions
<1>4. CASE RecvKey(fd)
  <2>1. handshakes[fd] = c /\ pendingStreams[fd] = None /\ authenticating[fd] = None /\ sessions[fd] = None
    BY <1>2, <1>4 DEF OneEntry, RecvKey
  <2>2. rx' \in [Conns -> 0..MaxQueued]
    BY <1>2, <1>3, <1>4 DEF RecvKey, KeyPieces
  <2>3. got' \in [Fds -> 0..(Message - 1)]
    BY <1>2, <1>3, <1>4 DEF RecvKey, KeyPieces
  <2>4. /\ handshakes' \in [Fds -> Entry] /\ pendingStreams' \in [Fds -> Entry]
        /\ UNCHANGED <<conn, queue, tx, owner, authenticating, sessions, players>> /\ Advance
    BY <1>3, <1>4 DEF RecvKey, Put, Erase, Entry
  <2>5. StageInv'
    BY <1>2, <1>3, <1>4, <2>1, <2>4 DEF RecvKey, StageInv, OneEntry, NoEntry, Put, Erase
  <2> QED BY <1>1, <1>3, <2>2, <2>3, <2>4, <2>5, KeepStep
<1>5. CASE CloseHandshake(fd)
  <2>1. pendingStreams[fd] = None /\ authenticating[fd] = None /\ sessions[fd] = None
    BY <1>2, <1>5 DEF OneEntry, CloseHandshake
  <2>2. got' \in [Fds -> 0..(Message - 1)]
    BY <1>3, <1>5 DEF CloseHandshake
  <2> QED BY <1>1, <1>3, <1>5, <2>1, <2>2, EraseAbsent, DropStep DEF CloseHandshake
<1>6. CASE RecvSize(fd)
  <2>1. handshakes[fd] = None /\ pendingStreams[fd] = c /\ authenticating[fd] = None /\ sessions[fd] = None
    BY <1>2, <1>6 DEF OneEntry, RecvSize
  <2>2. rx' \in [Conns -> 0..MaxQueued] /\ got' = got /\ Advance /\ UNCHANGED <<conn, queue, tx, owner, handshakes>>
    BY <1>2, <1>3, <1>6 DEF RecvSize, SizeReady
  <2>3. /\ pendingStreams' \in [Fds -> Entry] /\ authenticating' \in [Fds -> Entry]
        /\ sessions' \in [Fds -> Entry] /\ players' = sessions'
    BY <1>2, <1>3, <1>6, <2>1 DEF RecvSize, TakeStream, OpenToGuests, Join, Put, Erase, Entry
  <2>4. StageInv'
    BY <1>2, <1>3, <1>6, <2>1, <2>2
    DEF RecvSize, TakeStream, OpenToGuests, Join, StageInv, OneEntry, NoEntry, Put, Erase
  <2> QED BY <1>1, <1>3, <2>2, <2>3, <2>4, KeepStep
<1>7. CASE AwaitSize(fd)
  <2>1. Advance /\ UNCHANGED <<clientVars, owner, stageVars>>
    BY <1>7 DEF AwaitSize
  <2>2. StageInv'
    BY <1>3, <2>1 DEF StageInv, OneEntry, NoEntry, stageVars
  <2> QED BY <1>1, <1>3, <2>1, <2>2, KeepStep DEF clientVars, stageVars
<1>8. CASE CloseBeforeSize(fd)
  <2>1. handshakes[fd] = None /\ authenticating[fd] = None /\ sessions[fd] = None
    BY <1>8 DEF CloseBeforeSize, Fresh
  <2> QED BY <1>1, <1>3, <1>8, <2>1, EraseAbsent, DropStep DEF CloseBeforeSize
<1>9. CASE RecvInput(fd)
  <2>1. Advance /\ UNCHANGED <<conn, queue, tx, owner, stageVars>>
    BY <1>9 DEF RecvInput
  <2>2. rx' \in [Conns -> 0..MaxQueued]
    BY <1>2, <1>3, <1>9 DEF RecvInput
  <2>3. StageInv'
    BY <1>3, <2>1 DEF StageInv, OneEntry, NoEntry, stageVars
  <2> QED BY <1>1, <1>3, <2>1, <2>2, <2>3, KeepStep DEF stageVars
<1>10. CASE Disconnect(fd)
  <2>1. handshakes[fd] = None /\ pendingStreams[fd] = None
    BY <1>2, <1>10 DEF OneEntry, Disconnect, HasSession
  <2>2. Drop(fd) /\ UNCHANGED <<handshakes, got, pendingStreams>>
    BY <1>10 DEF Disconnect
  <2>3. CASE sessions[fd] # None
    <3>1. authenticating[fd] = None
      BY <1>2, <2>3 DEF OneEntry
    <3> QED BY <1>1, <1>3, <1>10, <2>1, <2>2, <2>3, <3>1, EraseAbsent, DropStep DEF Disconnect, Leave
  <2>4. CASE sessions[fd] = None
    BY <1>1, <1>3, <1>10, <2>1, <2>2, <2>4, EraseAbsent, DropStep DEF Disconnect
  <2> QED BY <2>3, <2>4
<1> QED BY <1>4, <1>5, <1>6, <1>7, <1>8, <1>9, <1>10 DEF RecvFd

-----------------------------------------------------------------------------
(* The other phases, and the world outside the engine.                     *)

\* run() starts with empty maps and a poll set that holds the listener alone.
LEMMA InitIInv == Init => IInv
<1> SUFFICES ASSUME Init PROVE IInv
  OBVIOUS
<1>1. pollFds \in Seq(Slot) /\ Len(pollFds) = 1 /\ pollFds[1] = [fd |-> Listener, in |-> FALSE]
  BY DEF Init, Slot
<1>2. TypeOK
  BY <1>1, BoundAssumption DEF Init, TypeOK, Entry, Phases
<1>3. StageInv
  BY OwnerAssumption DEF Init, StageInv, OneEntry, NoEntry
<1>4. PollInv
  BY <1>1, OwnerAssumption DEF Init, PollInv
<1>5. WorldMatchesSessions /\ ServeInv /\ PhaseInv
  BY <1>1 DEF Init, WorldMatchesSessions, ServeInv, PhaseInv, PointersAreLive
<1> QED BY <1>2, <1>3, <1>4, <1>5 DEF IInv

\* A step that leaves the descriptor table, the maps and the slots' descriptors alone.
LEMMA QuietStep ==
    ASSUME IInv, TypeOK', UNCHANGED <<owner, stageVars>>,
           Len(pollFds') = Len(pollFds),
           \A k \in 1..Len(pollFds) : pollFds'[k].fd = pollFds[k].fd,
           ServeInv', PhaseInv'
    PROVE  IInv'
<1>1. StageInv'
  BY DEF IInv, StageInv, OneEntry, NoEntry, stageVars
<1>2. PollInv'
  <2>1. Len(pollFds) \in Nat /\ owner' = owner /\ PollInv
    BY DEF IInv, TypeOK
  <2>2. Len(pollFds) >= 1 /\ pollFds'[1].fd = Listener
    BY <2>1 DEF PollInv
  <2>3. \A k \in 2..Len(pollFds) : pollFds'[k].fd = pollFds[k].fd
    BY <2>1
  <2>4. \A k \in 2..Len(pollFds') : pollFds'[k].fd \in Fds /\ owner'[pollFds'[k].fd] \in Conns
    BY <2>1, <2>3 DEF PollInv
  <2>5. \A fd \in Fds : owner'[fd] \in Conns => \E k \in 2..Len(pollFds') : pollFds'[k].fd = fd
    BY <2>1, <2>3 DEF PollInv
  <2>6. \A j, k \in 1..Len(pollFds') : pollFds'[j].fd = pollFds'[k].fd => j = k
    BY <2>1 DEF PollInv
  <2> QED BY <2>2, <2>4, <2>5, <2>6 DEF PollInv
<1>3. WorldMatchesSessions'
  BY DEF IInv, WorldMatchesSessions, stageVars
<1> QED BY <1>1, <1>2, <1>3 DEF IInv

\* What clients do to the kernel's buffers and accept queue never breaks the engine's invariant.
LEMMA ClientStep ==
    ASSUME IInv, NEW c \in Conns, Client(c)
    PROVE  IInv'
<1>1. UNCHANGED <<owner, engineVars>>
  BY DEF Client, Connect, SendPiece, ReadFrame, Shut
<1>2. TypeOK'
  <2>1. TypeOK /\ MaxQueued \in Nat /\ FrameCap \in Nat
    BY BoundAssumption DEF IInv
  <2>2. conn' \in [Conns -> {"idle", "queued", "open", "shut"}] /\ queue' \in Seq(Conns)
    <3>1. CASE Connect(c)
      BY <2>1, <3>1 DEF Connect, TypeOK
    <3>2. CASE Shut(c)
      BY <2>1, <3>2 DEF Shut, TypeOK
    <3>3. CASE SendPiece(c) \/ ReadFrame(c)
      BY <2>1, <3>3 DEF SendPiece, ReadFrame, TypeOK
    <3> QED BY <3>1, <3>2, <3>3 DEF Client
  <2>3. rx' \in [Conns -> 0..MaxQueued]
    BY <2>1 DEF Client, Connect, SendPiece, ReadFrame, Shut, TypeOK
  <2>4. tx' \in [Conns -> 0..FrameCap]
    BY <2>1 DEF Client, Connect, SendPiece, ReadFrame, Shut, TypeOK
  <2> QED BY <1>1, <2>1, <2>2, <2>3, <2>4 DEF TypeOK, engineVars, stageVars
<1>3. queue # <<>> => queue' # <<>>
  BY DEF Client, Connect, SendPiece, ReadFrame, Shut, IInv, TypeOK
<1>4. ServeInv' /\ PhaseInv'
  BY <1>1, <1>3 DEF IInv, ServeInv, PhaseInv, PointersAreLive, Keys, engineVars, stageVars
<1> QED BY <1>1, <1>2, <1>4, QuietStep DEF engineVars

\* The worker that saves users.txt takes only free descriptors, which have no entry, and
\* gives them back.
LEMMA StoreStep ==
    ASSUME IInv, Store
    PROVE  IInv'
<1>1. PICK fd \in Fds : OpenStore(fd) \/ CloseStore(fd)
  BY DEF Store
<1>2. UNCHANGED <<clientVars, engineVars>>
  BY <1>1 DEF OpenStore, CloseStore
<1>3. owner[fd] \notin Conns /\ owner'[fd] \notin Conns /\ \A g \in Fds \ {fd} : owner'[g] = owner[g]
  BY <1>1, OwnerAssumption DEF OpenStore, CloseStore, IInv, TypeOK
<1>4. TypeOK'
  BY <1>1, <1>2 DEF OpenStore, CloseStore, IInv, TypeOK, clientVars, engineVars, stageVars
<1>5. StageInv'
  BY <1>2, <1>3 DEF IInv, StageInv, OneEntry, NoEntry, engineVars, stageVars
<1>6. PollInv'
  <2>1. pollFds' = pollFds /\ \A g \in Fds : owner'[g] \in Conns <=> owner[g] \in Conns
    BY <1>2, <1>3 DEF engineVars
  <2>2. PollInv
    BY DEF IInv
  <2> QED BY <2>1, <2>2 DEF PollInv
<1>7. WorldMatchesSessions' /\ ServeInv' /\ PhaseInv'
  BY <1>2 DEF IInv, WorldMatchesSessions, ServeInv, PhaseInv, PointersAreLive, Keys,
     clientVars, engineVars, stageVars
<1> QED BY <1>4, <1>5, <1>6, <1>7 DEF IInv

\* poll() marks the slots, and the marked slots are the descriptors still to be served.
LEMMA PollStep ==
    ASSUME IInv, Poll
    PROVE  IInv'
<1>1. /\ pollFds' = [k \in DOMAIN pollFds |-> [pollFds[k] EXCEPT !.in = Reported(pollFds[k])]]
      /\ pc' = "accept" /\ UNCHANGED <<clientVars, owner, i, stageVars, kicks, banned, left, dirty>>
  BY DEF Poll
<1>2. pollFds \in Seq(Slot) /\ Len(pollFds) \in Nat /\ Len(pollFds) >= 1
  BY DEF IInv, TypeOK, PollInv
<1>3. ASSUME NEW k \in 1..Len(pollFds)
      PROVE  /\ pollFds[k] \in Slot
             /\ pollFds'[k] = [pollFds[k] EXCEPT !.in = Reported(pollFds[k])]
             /\ pollFds'[k] \in Slot
             /\ pollFds'[k].fd = pollFds[k].fd
             /\ pollFds'[k].in = Reported(pollFds[k])
  <2>1. pollFds[k] \in Slot /\ pollFds'[k] = [pollFds[k] EXCEPT !.in = Reported(pollFds[k])]
    BY <1>1, <1>2
  <2>2. Reported(pollFds[k]) \in BOOLEAN
    BY DEF Reported, Readable
  <2> QED BY <2>1, <2>2 DEF Slot
<1>4. pollFds' \in Seq(Slot) /\ Len(pollFds') = Len(pollFds)
  <2>1. pollFds' = [k \in 1..Len(pollFds) |-> [pollFds[k] EXCEPT !.in = Reported(pollFds[k])]]
    BY <1>1, <1>2
  <2>2. \A k \in 1..Len(pollFds) : [pollFds[k] EXCEPT !.in = Reported(pollFds[k])] \in Slot
    BY <1>3
  <2> QED BY <1>2, <2>1, <2>2
<1>5. TypeOK'
  BY <1>1, <1>4 DEF Poll, IInv, TypeOK, Phases, clientVars, stageVars
<1>6. ServeInv'
  <2>1. unserved' = {fd \in Fds : \E k \in 2..Len(pollFds) : pollFds[k].fd = fd /\ Readable(fd)}
    BY DEF Poll
  <2>2. ASSUME NEW k \in 2..Len(pollFds)
        PROVE  pollFds'[k].fd = pollFds[k].fd /\ pollFds'[k].in = Readable(pollFds[k].fd)
    <3>1. pollFds[k].fd # Listener
      BY ListenerAssumption DEF IInv, PollInv
    <3>2. k \in 1..Len(pollFds)
      BY <1>2
    <3> QED BY <1>3, <3>1, <3>2 DEF Reported
  <2>3. i' >= 2
    BY <1>1 DEF IInv, ServeInv
  <2> QED BY <1>1, <1>4, <2>1, <2>2, <2>3 DEF ServeInv
<1>7. PhaseInv'
  <2>1. pollFds'[1].in = (queue # <<>>) /\ queue' = queue
    BY <1>1, <1>2, <1>3 DEF Reported, IInv, PollInv, clientVars
  <2> QED BY <1>1, <2>1 DEF PhaseInv, PointersAreLive
<1> QED BY <1>1, <1>3, <1>4, <1>5, <1>6, <1>7, QuietStep

\* accept() gives a free descriptor, which has no entry and no slot, to the head of the queue.
LEMMA AcceptStep ==
    ASSUME IInv, NEW fd \in Fds, Accept(fd)
    PROVE  IInv'
<1> DEFINE c == Head(queue)
           n == Len(pollFds)
<1>1. /\ pc = "accept" /\ pollFds[1].in /\ owner[fd] = None
      /\ owner' = [owner EXCEPT ![fd] = c] /\ queue' = Tail(queue)
      /\ conn' = [conn EXCEPT ![c] = IF @ = "queued" THEN "open" ELSE @]
      /\ pollFds' = Append(pollFds, [fd |-> fd, in |-> FALSE])
      /\ pc' = "recv" /\ i' = 2
      /\ UNCHANGED <<rx, tx, authenticating, sessions, players, kicks, banned, left, dirty, unserved>>
  BY DEF Accept
<1>2. c \in Conns /\ queue' \in Seq(Conns)
  BY <1>1 DEF IInv, PhaseInv, TypeOK
<1>3. /\ pollFds \in Seq(Slot) /\ n \in Nat /\ n >= 1 /\ pollFds' \in Seq(Slot)
      /\ Len(pollFds') = n + 1 /\ pollFds'[n + 1] = [fd |-> fd, in |-> FALSE]
      /\ \A k \in 1..n : pollFds'[k] = pollFds[k]
  BY <1>1 DEF IInv, TypeOK, PollInv, Slot
<1>4. NoEntry(fd)
  BY <1>1, OwnerAssumption DEF IInv, StageInv, OneEntry
<1>5. /\ handshakes' \in [Fds -> Entry] /\ pendingStreams' \in [Fds -> Entry]
      /\ got' \in [Fds -> 0..(Message - 1)]
  <2>1. TypeOK
    BY DEF IInv
  <2>2. \/ /\ handshakes' = [handshakes EXCEPT ![fd] = c] /\ got' = [got EXCEPT ![fd] = 0]
           /\ pendingStreams' = pendingStreams
        \/ /\ pendingStreams' = [pendingStreams EXCEPT ![fd] = c]
           /\ handshakes' = handshakes /\ got' = got
    BY DEF Accept, Put
  <2>3. handshakes' \in [Fds -> Entry]
    BY <1>2, <2>1, <2>2 DEF TypeOK, Entry
  <2>4. pendingStreams' \in [Fds -> Entry]
    BY <1>2, <2>1, <2>2 DEF TypeOK, Entry
  <2>5. got' \in [Fds -> 0..(Message - 1)]
    <3>1. got \in [Fds -> 0..(Message - 1)]
      BY <2>1 DEF TypeOK
    <3>2. [got EXCEPT ![fd] = 0] \in [Fds -> 0..(Message - 1)]
      BY <3>1
    <3>3. got' = [got EXCEPT ![fd] = 0] \/ got' = got
      BY <2>2
    <3> QED BY <3>1, <3>2, <3>3
  <2> QED BY <2>3, <2>4, <2>5
<1>6. /\ owner' \in [Fds -> Conns \cup {None, StoreFile}]
      /\ conn' \in [Conns -> {"idle", "queued", "open", "shut"}]
  BY <1>1, <1>2 DEF IInv, TypeOK
<1>7. TypeOK'
  BY <1>1, <1>2, <1>3, <1>5, <1>6 DEF IInv, TypeOK, Phases
<1>8. StageInv'
  <2>1. OneEntry(fd)'
    BY <1>1, <1>2, <1>4, OwnerAssumption DEF Accept, IInv, TypeOK, OneEntry, NoEntry, Put
  <2>2. ASSUME NEW g \in Fds, g # fd
        PROVE  OneEntry(g)'
    BY <1>1, <2>2 DEF Accept, IInv, TypeOK, StageInv, OneEntry, NoEntry, Put
  <2> QED BY <2>1, <2>2 DEF StageInv
<1>9. PollInv'
  <2>1. \A k \in 1..n : pollFds[k].fd # fd
    BY <1>1, <1>3, OwnerAssumption, ListenerAssumption DEF IInv, PollInv
  <2>2. Len(pollFds') >= 1 /\ pollFds'[1].fd = Listener
    BY <1>3 DEF IInv, PollInv
  <2>3. ASSUME NEW k \in 2..Len(pollFds')
        PROVE  pollFds'[k].fd \in Fds /\ owner'[pollFds'[k].fd] \in Conns
    <3>1. CASE k = n + 1
      BY <1>1, <1>2, <1>3, <3>1 DEF IInv, TypeOK
    <3>2. CASE k # n + 1
      BY <1>1, <1>3, <2>1, <3>2 DEF IInv, TypeOK, PollInv
    <3> QED BY <3>1, <3>2
  <2>4. ASSUME NEW g \in Fds, owner'[g] \in Conns
        PROVE  \E k \in 2..Len(pollFds') : pollFds'[k].fd = g
    <3>1. CASE g = fd
      BY <1>3, <3>1
    <3>2. CASE g # fd
      <4>1. owner[g] \in Conns
        BY <1>1, <2>4, <3>2 DEF IInv, TypeOK
      <4>2. PICK k \in 2..n : pollFds[k].fd = g
        BY <4>1 DEF IInv, PollInv
      <4> QED BY <1>3, <4>2
    <3> QED BY <3>1, <3>2
  <2>5. ASSUME NEW j \in 1..Len(pollFds'), NEW k \in 1..Len(pollFds'), pollFds'[j].fd = pollFds'[k].fd
        PROVE  j = k
    BY <1>3, <2>1, <2>5 DEF IInv, PollInv
  <2> QED BY <2>2, <2>3, <2>4, <2>5 DEF PollInv
<1>10. WorldMatchesSessions'
  BY <1>1 DEF IInv, WorldMatchesSessions
<1>11. ServeInv'
  <2>1. \A g \in Fds : g \in unserved <=> \E k \in 2..n : pollFds[k].fd = g /\ pollFds[k].in
    BY <1>1 DEF IInv, ServeInv
  <2>2. ASSUME NEW g \in Fds
        PROVE  g \in unserved' <=>
                 \E k \in 2..Len(pollFds') : pollFds'[k].fd = g /\ pollFds'[k].in /\ k >= i'
    <3>1. ASSUME g \in unserved'
          PROVE  \E k \in 2..Len(pollFds') : pollFds'[k].fd = g /\ pollFds'[k].in /\ k >= i'
      <4>1. PICK k \in 2..n : pollFds[k].fd = g /\ pollFds[k].in
        BY <1>1, <2>1, <3>1
      <4> QED BY <1>1, <1>3, <4>1
    <3>2. ASSUME NEW k \in 2..Len(pollFds'), pollFds'[k].fd = g, pollFds'[k].in
          PROVE  g \in unserved'
      BY <1>1, <1>3, <2>1, <3>2
    <3> QED BY <3>1, <3>2
  <2> QED BY <1>1, <2>2 DEF ServeInv
<1>12. PhaseInv'
  BY <1>1 DEF PhaseInv, PointersAreLive
<1> QED BY <1>7, <1>8, <1>9, <1>10, <1>11, <1>12 DEF IInv

\* A frame is only sent to a descriptor the engine has an entry for.
LEMMA SendFrameType ==
    ASSUME TypeOK, NEW c \in Conns, SendFrame(c)
    PROVE  tx' \in [Conns -> 0..FrameCap]
BY BoundAssumption DEF TypeOK, SendFrame, CanSend

\* The auth loop moves an entry from one map to the next, or leaves it, and never loses it.
LEMMA AuthStepKeeps ==
    ASSUME IInv, NEW fd \in Fds, AuthStep(fd)
    PROVE  IInv'
<1> DEFINE c == authenticating[fd]
<1>1. /\ pc = "auth" /\ fd \in left /\ left' = left \ {fd} /\ dirty' = dirty \ {fd}
      /\ UNCHANGED <<conn, queue, rx, owner, pc, i, pollFds, handshakes, got, pendingStreams, kicks, banned, unserved>>
      /\ \/ Join(fd, c) /\ authenticating' = Erase(authenticating, fd)
         \/ UNCHANGED <<sessions, players, authenticating>>
  BY DEF AuthStep
<1>2. c # None /\ left \subseteq Keys(authenticating)
  BY <1>1 DEF IInv, PhaseInv, PointersAreLive, Keys
<1>3. c \in Conns /\ owner[fd] = c /\ handshakes[fd] = None /\ pendingStreams[fd] = None /\ sessions[fd] = None
  BY <1>2 DEF IInv, StageInv, OneEntry, NoEntry
<1>4. tx' \in [Conns -> 0..FrameCap]
  <2>1. CASE fd \in dirty
    BY <1>3, <2>1, SendFrameType DEF AuthStep, IInv
  <2>2. CASE fd \notin dirty
    BY <2>2 DEF AuthStep, IInv, TypeOK
  <2> QED BY <2>1, <2>2
<1>5. /\ sessions' \in [Fds -> Entry] /\ authenticating' \in [Fds -> Entry] /\ players' = sessions'
      /\ \A g \in Fds \ {fd} : sessions'[g] = sessions[g] /\ authenticating'[g] = authenticating[g]
  BY <1>1, <1>3 DEF IInv, TypeOK, WorldMatchesSessions, Join, Put, Erase, Entry
<1>6. TypeOK'
  BY <1>1, <1>4, <1>5 DEF IInv, TypeOK
<1>7. StageInv'
  <2>1. OneEntry(fd)'
    BY <1>1, <1>2, <1>3 DEF IInv, TypeOK, OneEntry, NoEntry, Join, Put, Erase
  <2>2. ASSUME NEW g \in Fds, g # fd
        PROVE  OneEntry(g)'
    BY <1>1, <1>5, <2>2 DEF IInv, StageInv, OneEntry, NoEntry
  <2> QED BY <2>1, <2>2 DEF StageInv
<1>8. PollInv' /\ ServeInv'
  BY <1>1 DEF IInv, PollInv, ServeInv
<1>9. PhaseInv'
  BY <1>1, <1>2, <1>5 DEF IInv, TypeOK, PhaseInv, PointersAreLive, Keys
<1> QED BY <1>5, <1>6, <1>7, <1>8, <1>9 DEF IInv, WorldMatchesSessions

\* banSession on a client the world named; a second ban of it finds nothing to remove.
LEMMA BanStep ==
    ASSUME IInv, BanSession
    PROVE  IInv'
<1>0. PICK fd \in Fds : fd = Head(kicks)
  BY DEF IInv, TypeOK, BanSession
<1> DEFINE Slots == {k \in DOMAIN pollFds : pollFds[k].fd = fd}
<1>1. /\ pc = "kick" /\ pc' \in {"kick", "astray"} /\ kicks # <<>> /\ kicks' = Tail(kicks)
      /\ banned' = banned \cup {fd}
      /\ handshakes' = Erase(handshakes, fd) /\ got' = [got EXCEPT ![fd] = 0]
      /\ CloseFd(fd)
      /\ pollFds' = IF Slots = {} THEN pollFds
                    ELSE SwapRemove(pollFds, CHOOSE k \in Slots : \A m \in Slots : k <= m)
      /\ UNCHANGED <<i, pendingStreams, left, dirty, unserved>>
      /\ \/ sessions[fd] # None /\ Leave(fd) /\ UNCHANGED authenticating
         \/ sessions[fd] = None /\ authenticating' = Erase(authenticating, fd)
            /\ UNCHANGED <<players, sessions>>
  BY <1>0 DEF BanSession
<1>2. /\ kicks \in Seq(Fds) /\ fd \in Fds /\ kicks' \in Seq(Fds)
      /\ Len(kicks') = Len(kicks) - 1
      /\ \A k \in 1..Len(kicks') : kicks'[k] = kicks[k + 1]
      /\ Len(kicks) \in Nat /\ Len(kicks) >= 1 /\ kicks[1] = fd
  BY <1>0, <1>1 DEF IInv, TypeOK
<1>3. handshakes[fd] = None /\ pendingStreams[fd] = None /\ authenticating[fd] = None
  BY <1>1, <1>2 DEF IInv, PhaseInv
<1>4. /\ handshakes \in [Fds -> Entry] /\ pendingStreams \in [Fds -> Entry]
      /\ authenticating \in [Fds -> Entry] /\ sessions \in [Fds -> Entry]
      /\ players = sessions /\ got \in [Fds -> 0..(Message - 1)]
      /\ owner \in [Fds -> Conns \cup {None, StoreFile}]
      /\ pollFds \in Seq(Slot) /\ Len(pollFds) \in Nat
  BY DEF IInv, TypeOK, WorldMatchesSessions
<1>5. /\ handshakes' = handshakes /\ authenticating' = authenticating /\ pendingStreams' = pendingStreams
      /\ sessions' = Erase(sessions, fd) /\ players' = sessions'
  BY <1>1, <1>2, <1>3, <1>4, EraseAbsent DEF Leave
<1>6. /\ conn' \in [Conns -> {"idle", "queued", "open", "shut"}] /\ queue' \in Seq(Conns)
      /\ owner' \in [Fds -> Conns \cup {None, StoreFile}]
      /\ rx' \in [Conns -> 0..MaxQueued] /\ tx' \in [Conns -> 0..FrameCap]
  BY <1>1, <1>2, CloseFdType DEF IInv
<1>7. owner' = [owner EXCEPT ![fd] = None]
  BY <1>1 DEF CloseFd
<1>8. PollInv' /\ pollFds' \in Seq(Slot)
  <2>1. CASE owner[fd] \in Conns
    <3>1. PICK k \in 2..Len(pollFds) : pollFds[k].fd = fd
      BY <1>2, <2>1 DEF IInv, PollInv
    <3>2. \A m \in 1..Len(pollFds) : pollFds[m].fd = fd => m = k
      BY <1>4, <3>1 DEF IInv, PollInv
    <3>3. Slots = {k}
      BY <1>4, <3>1, <3>2
    <3>4. (CHOOSE m \in Slots : \A l \in Slots : m <= l) = k
      BY <3>1, <3>3
    <3>5. pollFds' = SwapRemove(pollFds, k) /\ owner' = [owner EXCEPT ![pollFds[k].fd] = None]
      BY <1>1, <1>7, <3>1, <3>3, <3>4
    <3> QED BY <3>1, <3>5, DropKeepsPollInv DEF IInv
  <2>2. CASE owner[fd] \notin Conns
    <3>1. \A k \in 1..Len(pollFds) : pollFds[k].fd # fd
      BY <1>2, <1>4, <2>2, ListenerAssumption DEF IInv, PollInv
    <3>2. Slots = {}
      BY <1>4, <3>1
    <3>3. pollFds' = pollFds
      BY <1>1, <3>2
    <3>4. \A g \in Fds : owner'[g] \in Conns <=> owner[g] \in Conns
      BY <1>2, <1>4, <1>7, <2>2, OwnerAssumption
    <3>5. PollInv
      BY DEF IInv
    <3> QED BY <1>4, <3>3, <3>4, <3>5 DEF PollInv
  <2> QED BY <2>1, <2>2
<1>9. TypeOK'
  <2>1. sessions' \in [Fds -> Entry] /\ got' \in [Fds -> 0..(Message - 1)]
    BY <1>1, <1>2, <1>4, <1>5 DEF Erase, Entry
  <2> QED BY <1>1, <1>2, <1>4, <1>5, <1>6, <1>8, <2>1 DEF IInv, TypeOK, Phases
<1>10. StageInv'
  <2>1. OneEntry(fd)'
    BY <1>2, <1>3, <1>4, <1>5, <1>7, OwnerAssumption DEF OneEntry, NoEntry, Erase
  <2>2. ASSUME NEW g \in Fds, g # fd
        PROVE  OneEntry(g)'
    BY <1>4, <1>5, <1>7, <2>2 DEF IInv, StageInv, OneEntry, NoEntry, Erase
  <2> QED BY <2>1, <2>2 DEF StageInv
<1>11. ServeInv'
  BY <1>1 DEF IInv, ServeInv
<1>12. PhaseInv'
  BY <1>1, <1>2, <1>5 DEF IInv, PhaseInv, PointersAreLive
<1> QED BY <1>5, <1>8, <1>9, <1>10, <1>11, <1>12 DEF IInv, WorldMatchesSessions

\* The steps that only move the loop from one phase to the next, and the render workers.
LEMMA PhaseStep ==
    ASSUME IInv,
           \/ PollFails \/ AcceptNothing \/ SkipSlot \/ RecvDone \/ AuthDone \/ GameUpdate
           \/ StartRender \/ EndFrame \/ (\E fd \in Fds : RenderStep(fd))
    PROVE  IInv'
<1>1. UNCHANGED <<conn, queue, rx, owner, pollFds, stageVars>>
  BY DEF PollFails, AcceptNothing, SkipSlot, RecvDone, AuthDone, GameUpdate, StartRender, EndFrame,
     RenderStep, Advance, clientVars
<1>2. TypeOK /\ Len(pollFds) \in Nat
  BY DEF IInv, TypeOK
<1> SUFFICES TypeOK' /\ ServeInv' /\ PhaseInv'
  BY <1>1, QuietStep
<1>3. CASE PollFails \/ AuthDone \/ EndFrame
  <2>1. /\ pc \notin {"accept", "recv"} /\ pc' \in {"stopped", "update", "poll"}
        /\ UNCHANGED <<clientVars, owner, i, pollFds, stageVars, kicks, banned, left, dirty, unserved>>
    BY <1>3 DEF PollFails, AuthDone, EndFrame
  <2>2. TypeOK'
    BY <1>2, <2>1 DEF TypeOK, Phases, clientVars, stageVars
  <2>3. ServeInv' /\ PhaseInv'
    BY <2>1 DEF IInv, ServeInv, PhaseInv, PointersAreLive
  <2> QED BY <2>2, <2>3
<1>4. CASE AcceptNothing
  <2>1. /\ pc = "accept" /\ pc' = "recv" /\ i' = 2
        /\ UNCHANGED <<clientVars, owner, pollFds, stageVars, kicks, banned, left, dirty, unserved>>
    BY <1>4 DEF AcceptNothing
  <2>2. TypeOK'
    BY <1>2, <2>1 DEF TypeOK, Phases, clientVars, stageVars
  <2>3. ServeInv' /\ PhaseInv'
    BY <1>2, <2>1 DEF IInv, ServeInv, PhaseInv, PointersAreLive
  <2> QED BY <2>2, <2>3
<1>5. CASE SkipSlot
  <2>1. TypeOK'
    BY <1>2, <1>5 DEF SkipSlot, Advance, TypeOK, clientVars, stageVars
  <2>2. pc = "recv" /\ pc' = "recv" /\ i' = i + 1 /\ i \in Nat /\ ~pollFds[i].in
        /\ unserved' = unserved /\ pollFds' = pollFds
    BY <1>2, <1>5 DEF SkipSlot, Advance, TypeOK
  <2>3. ServeInv'
    BY <1>2, <2>2 DEF IInv, ServeInv
  <2>4. PhaseInv'
    BY <2>2 DEF PhaseInv, PointersAreLive
  <2> QED BY <2>1, <2>3, <2>4
<1>6. CASE RecvDone
  <2>1. TypeOK'
    BY <1>1, <1>2, <1>6 DEF RecvDone, TypeOK, Phases, Keys, clientVars, stageVars
  <2>2. unserved' = {}
    BY <1>2, <1>6 DEF RecvDone, IInv, TypeOK, ServeInv
  <2>3. ServeInv' /\ PhaseInv'
    BY <1>1, <1>6, <2>2 DEF RecvDone, ServeInv, PhaseInv, PointersAreLive, Keys, stageVars
  <2> QED BY <2>1, <2>3
<1>7. CASE GameUpdate
  <2>1. PICK ks \in KickLists : kicks' = ks
    BY <1>7 DEF GameUpdate
  <2>2. PICK n \in 0..MaxKicks : ks \in [1..n -> Keys(players)]
    BY <2>1 DEF KickLists
  <2>3. kicks' \in Seq(Keys(players)) /\ Len(kicks') = n
    BY <2>1, <2>2, BoundAssumption
  <2>4. kicks' \in Seq(Fds) /\ \A k \in 1..Len(kicks') : kicks'[k] \in Keys(players)
    BY <2>1, <2>2, <2>3 DEF Keys
  <2>5. TypeOK'
    BY <1>1, <1>2, <1>7, <2>4 DEF GameUpdate, TypeOK, Phases, clientVars, stageVars
  <2>6. \A fd \in Keys(players) : handshakes[fd] = None /\ pendingStreams[fd] = None
                                  /\ authenticating[fd] = None
    BY DEF IInv, WorldMatchesSessions, StageInv, OneEntry, NoEntry, Keys
  <2>7. ServeInv' /\ PhaseInv'
    BY <1>1, <1>7, <2>4, <2>6 DEF GameUpdate, IInv, ServeInv, PhaseInv, PointersAreLive, stageVars
  <2> QED BY <2>5, <2>7
<1>8. CASE StartRender
  BY <1>1, <1>2, <1>8 DEF StartRender, IInv, TypeOK, Phases, ServeInv, PhaseInv, PointersAreLive,
     Keys, clientVars, stageVars
<1>9. CASE \E fd \in Fds : RenderStep(fd)
  <2>1. PICK fd \in Fds : RenderStep(fd)
    BY <1>9
  <2>2. owner[fd] \in Conns
    BY <2>1 DEF RenderStep, IInv, PhaseInv, PointersAreLive, Keys, StageInv, OneEntry, NoEntry
  <2>3. tx' \in [Conns -> 0..FrameCap]
    BY <1>2, <2>1, <2>2, SendFrameType DEF RenderStep
  <2>4. TypeOK'
    BY <1>1, <1>2, <2>1, <2>3 DEF RenderStep, TypeOK, stageVars
  <2>5. ServeInv' /\ PhaseInv'
    BY <1>1, <2>1 DEF RenderStep, IInv, ServeInv, PhaseInv, PointersAreLive, Keys, stageVars
  <2> QED BY <2>4, <2>5
<1> QED BY <1>3, <1>4, <1>5, <1>6, <1>7, <1>8, <1>9

\* Every step of the engine and of the world around it keeps the inductive invariant.
LEMMA NextKeepsIInv ==
    ASSUME IInv, [Next]_vars
    PROVE  IInv'
<1>1. CASE UNCHANGED vars
  BY <1>1 DEF IInv, TypeOK, StageInv, OneEntry, NoEntry, PollInv, WorldMatchesSessions, ServeInv,
     PhaseInv, PointersAreLive, Keys, vars, clientVars, stageVars
<1>2. CASE Loop
  BY <1>2, PollStep, AcceptStep, RecvStep, AuthStepKeeps, BanStep, PhaseStep DEF Loop
<1>3. CASE PollFails
  BY <1>3, PhaseStep
<1>4. CASE Stopped
  BY <1>1, <1>4 DEF Stopped
<1>5. CASE Store
  BY <1>5, StoreStep
<1>6. CASE \E c \in Conns : Client(c)
  BY <1>6, ClientStep
<1> QED BY <1>1, <1>2, <1>3, <1>4, <1>5, <1>6 DEF Next

\* The inductive invariant holds in every reachable state of run(): the descriptor table, the
\* four maps, the poll list, the loop's index and the pointers of later phases stay consistent.
THEOREM Invariance == Spec => []IInv
<1>1. Init => IInv
  BY InitIInv
<1>2. IInv /\ [Next]_vars => IInv'
  BY NextKeepsIInv
<1> QED BY <1>1, <1>2, PTL DEF Spec

\* Type correctness: nothing in the loop leaves the values the module declares.
THEOREM TypeCorrect == Spec => []TypeOK
<1>1. IInv => TypeOK
  BY DEF IInv
<1> QED BY <1>1, Invariance, PTL

\* The poll set is the listener and every open client socket once, and its client
\* sockets are the keys of the four maps (m_pollFds against m_handshakes,
\* m_pendingStreams, m_authenticatingSessions and m_sessions).
THEOREM PollSetCorrect == Spec => []PollSetIsStages
<1>1. ASSUME IInv
      PROVE  PollSetIsStages
  <2>1. Len(pollFds) \in Nat /\ pollFds \in Seq(Slot) /\ Len(pollFds) >= 1
    BY <1>1 DEF IInv, TypeOK, PollInv
  <2>2. pollFds # <<>> /\ FdAt(1) = Listener
    BY <1>1, <2>1 DEF IInv, PollInv, FdAt
  <2>3. {FdAt(k) : k \in 2..Len(pollFds)} = Clients
    BY <1>1, <2>1 DEF IInv, PollInv, FdAt, Clients
  <2>4. \A j, k \in 1..Len(pollFds) : FdAt(j) = FdAt(k) => j = k
    BY <1>1 DEF IInv, PollInv, FdAt
  <2>5. Staged = Clients
    BY <1>1, OwnerAssumption DEF IInv, StageInv, OneEntry, NoEntry, Staged, Clients, Keys
  <2> QED BY <2>2, <2>3, <2>4, <2>5 DEF PollSetIsStages
<1> QED BY <1>1, Invariance, PTL

\* A map entry belongs to the connection its descriptor refers to, and to one map.
THEOREM StagesOwned == Spec => []StageIsOwned
<1>1. ASSUME IInv
      PROVE  StageIsOwned
  BY <1>1, OwnerAssumption DEF IInv, StageInv, OneEntry, NoEntry, StageIsOwned
<1> QED BY <1>1, Invariance, PTL

\* The world's players are the active sessions.
THEOREM WorldCorrect == Spec => []WorldMatchesSessions
<1>1. IInv => WorldMatchesSessions
  BY DEF IInv
<1> QED BY <1>1, Invariance, PTL

\* The receive loop serves every reported descriptor exactly once.
THEOREM EachServedOnce == Spec => []ServedExactlyOnce
<1>1. ASSUME IInv
      PROVE  ServedExactlyOnce
  <2>1. unserved \subseteq Fds /\ \A k \in 2..Len(pollFds) : FdAt(k) \in Fds
    BY <1>1 DEF IInv, TypeOK, PollInv, FdAt
  <2>2. CASE pc \in {"accept", "recv"}
    BY <1>1, <2>1, <2>2 DEF IInv, ServeInv, ServedExactlyOnce, FdAt
  <2>3. CASE pc \notin {"accept", "recv"}
    BY <1>1, <2>3 DEF IInv, ServeInv, ServedExactlyOnce
  <2> QED BY <2>2, <2>3
<1> QED BY <1>1, Invariance, PTL

-----------------------------------------------------------------------------
(* The order of the stages.                                                *)

\* Without authentication nobody is ever in the login stage.
GuestInv == ~Auth => \A fd \in Fds : authenticating[fd] = None

\* How one step can change the three maps behind the handshake.
LEMMA MapSteps ==
    ASSUME IInv, GuestInv, [Next]_vars, NEW fd \in Fds
    PROVE  /\ \/ authenticating'[fd] \in {None, authenticating[fd]}
              \/ Auth /\ authenticating'[fd] = pendingStreams[fd]
           /\ \/ pendingStreams'[fd] \in {None, pendingStreams[fd]}
              \/ pendingStreams'[fd] = handshakes[fd]
              \/ ~Encryption
           /\ \/ sessions'[fd] \in {None, sessions[fd]}
              \/ sessions'[fd] = IF Auth THEN authenticating[fd] ELSE pendingStreams[fd]
<1>1. /\ handshakes \in [Fds -> Entry] /\ pendingStreams \in [Fds -> Entry]
      /\ authenticating \in [Fds -> Entry] /\ sessions \in [Fds -> Entry]
  BY DEF IInv, TypeOK
<1>2. CASE UNCHANGED <<pendingStreams, authenticating, sessions>>
  BY <1>2
<1>3. CASE \E g \in Fds : Accept(g)
  BY <1>1, <1>3 DEF Accept, Put
<1>4. CASE \E g \in Fds : RecvKey(g) \/ CloseHandshake(g)
  BY <1>1, <1>4 DEF RecvKey, CloseHandshake, Put
<1>5. CASE \E g \in Fds : RecvSize(g)
  BY <1>1, <1>5 DEF RecvSize, TakeStream, OpenToGuests, Join, Put, Erase
<1>6. CASE \E g \in Fds : AwaitSize(g) \/ CloseBeforeSize(g) \/ RecvInput(g)
  BY <1>1, <1>6 DEF AwaitSize, CloseBeforeSize, RecvInput, Erase, stageVars
<1>7. CASE \E g \in Fds : Disconnect(g)
  BY <1>1, <1>7 DEF Disconnect, Leave, Erase
<1>8. CASE \E g \in Fds : AuthStep(g)
  <2>1. PICK g \in Fds : AuthStep(g)
    BY <1>8
  <2>2. authenticating[g] # None
    BY <2>1 DEF AuthStep, IInv, PhaseInv, PointersAreLive, Keys
  <2>3. Auth
    BY <2>2 DEF GuestInv
  <2> QED BY <1>1, <2>1, <2>3 DEF AuthStep, Join, Put, Erase
<1>9. CASE BanSession
  <2>1. PICK g \in Fds : g = Head(kicks)
    BY <1>9 DEF IInv, TypeOK, BanSession
  <2> QED BY <1>1, <1>9, <2>1 DEF BanSession, Leave, Erase
<1>10. CASE \/ Poll \/ AcceptNothing \/ SkipSlot \/ RecvDone \/ AuthDone \/ GameUpdate \/ StartRender
            \/ EndFrame \/ PollFails \/ Stopped \/ Store \/ UNCHANGED vars
            \/ (\E g \in Fds : RenderStep(g)) \/ (\E c \in Conns : Client(c))
  BY <1>2, <1>10 DEF Poll, AcceptNothing, SkipSlot, RecvDone, AuthDone, GameUpdate, StartRender,
     EndFrame, PollFails, Stopped, Store, OpenStore, CloseStore, RenderStep, Client, Connect,
     SendPiece, ReadFrame, Shut, vars, stageVars, engineVars
<1> QED
  BY <1>3, <1>4, <1>5, <1>6, <1>7, <1>8, <1>9, <1>10 DEF Next, Loop, RecvFd

\* A connection reaches a stage only from the stage before it: the key exchange, the
\* window size and the login are never skipped, whatever the interleaving.
THEOREM StageOrder == Spec => StagesInOrder
<1>1. Init => GuestInv
  BY DEF Init, GuestInv
<1>2. ASSUME IInv, GuestInv, [Next]_vars
      PROVE  GuestInv' /\ StepInOrder
  <2>1. GuestInv'
    BY <1>2, MapSteps DEF GuestInv
  <2>2. StepInOrder
    BY <1>2, MapSteps DEF StepInOrder
  <2> QED BY <2>1, <2>2
<1> QED BY <1>1, <1>2, Invariance, PTL DEF Spec, StagesInOrder

-----------------------------------------------------------------------------
(* users.txt under the engine's close().                                   *)

\* The clients that are still to be kicked are in a session, or were banned before in this frame.
KickInv ==
    /\ pc \notin {"kick", "astray"} => kicks = <<>> /\ banned = {}
    /\ pc = "kick" => \A k \in 1..Len(kicks) : sessions[kicks[k]] # None \/ kicks[k] \in banned

LEMMA BanKeepsKickInv ==
    ASSUME IInv, KickInv, BanSession
    PROVE  KickInv'
<1>1. /\ kicks \in Seq(Fds) /\ kicks # <<>> /\ pc = "kick" /\ kicks' = Tail(kicks)
      /\ pc' \in {"kick", "astray"} /\ banned' = banned \cup {Head(kicks)}
  BY DEF IInv, TypeOK, BanSession
<1>2. /\ Len(kicks) >= 1 /\ Len(kicks') = Len(kicks) - 1 /\ Head(kicks) \in Fds
      /\ \A k \in 1..(Len(kicks) - 1) : kicks'[k] = kicks[k + 1]
  BY <1>1
<1>3. ASSUME NEW k \in 1..Len(kicks'), kicks'[k] \notin banned'
      PROVE  sessions'[kicks'[k]] # None
  <2>1. k + 1 \in 1..Len(kicks) /\ kicks'[k] = kicks[k + 1] /\ kicks[k + 1] \in Fds
    BY <1>1, <1>2
  <2>2. kicks[k + 1] # Head(kicks) /\ sessions[kicks[k + 1]] # None
    BY <1>1, <1>3, <2>1 DEF KickInv
  <2>3. sessions' = IF sessions[Head(kicks)] # None THEN [sessions EXCEPT ![Head(kicks)] = None] ELSE sessions
    BY DEF BanSession, Leave, Erase
  <2>4. sessions \in [Fds -> Entry]
    BY DEF IInv, TypeOK
  <2> QED BY <1>2, <2>1, <2>2, <2>3, <2>4
<1> QED BY <1>1, <1>3 DEF KickInv

LEMMA KickStep == IInv /\ KickInv /\ [Next]_vars => KickInv'
<1> SUFFICES ASSUME IInv, KickInv, [Next]_vars PROVE KickInv'
  OBVIOUS
<1>1. CASE UNCHANGED <<pc, kicks, banned, sessions>>
  BY <1>1 DEF KickInv
<1>2. CASE pc \notin {"kick", "astray"} /\ pc' \notin {"kick", "astray"} /\ UNCHANGED <<kicks, banned>>
  BY <1>2 DEF KickInv
<1>3. CASE BanSession
  BY <1>3, BanKeepsKickInv
<1>4. CASE GameUpdate
  <2>1. kicks' \in KickLists /\ pc' = "kick" /\ sessions' = sessions /\ players = sessions
    BY <1>4 DEF GameUpdate, stageVars, IInv, WorldMatchesSessions
  <2>2. PICK n \in 0..MaxKicks : kicks' \in [1..n -> Keys(players)]
    BY <2>1 DEF KickLists
  <2>3. Len(kicks') = n
    BY <2>2, BoundAssumption
  <2>4. \A k \in 1..n : sessions'[kicks'[k]] # None
    BY <2>1, <2>2 DEF Keys
  <2> QED BY <2>1, <2>3, <2>4 DEF KickInv
<1>5. CASE StartRender
  BY <1>5 DEF StartRender, KickInv
<1>6. CASE \/ Poll \/ AcceptNothing \/ SkipSlot \/ RecvDone \/ AuthDone \/ EndFrame \/ PollFails
           \/ (\E fd \in Fds : Accept(fd) \/ AuthStep(fd) \/ RenderStep(fd))
  BY <1>2, <1>6 DEF Poll, AcceptNothing, SkipSlot, RecvDone, AuthDone, EndFrame, PollFails, Accept,
     AuthStep, RenderStep
<1>7. CASE \E fd \in Fds : RecvFd(fd)
  <2>1. PICK fd \in Fds : Serving(fd)
    BY <1>7 DEF RecvFd, RecvKey, CloseHandshake, RecvSize, AwaitSize, CloseBeforeSize, RecvInput, Disconnect
  <2> QED BY <1>2, <2>1 DEF Serving
<1>8. CASE Store \/ Stopped \/ (\E c \in Conns : Client(c)) \/ UNCHANGED vars
  BY <1>1, <1>8 DEF Store, Stopped, OpenStore, CloseStore, Client, Connect, SendPiece, ReadFrame, Shut,
     vars, engineVars, stageVars
<1> QED BY <1>3, <1>4, <1>5, <1>6, <1>7, <1>8 DEF Next, Loop

\* Whose descriptor a step takes away: nobody's, a client's, or the file's by its own close.
LEMMA OwnerStep ==
    ASSUME IInv, KickInv, [Next]_vars,
           NEW fd \in Fds, owner[fd] = StoreFile, owner'[fd] # StoreFile
    PROVE  CloseStore(fd) \/ (pc = "kick" /\ fd \in banned)
<1>0. owner \in [Fds -> Conns \cup {None, StoreFile}] /\ None # StoreFile /\ StoreFile \notin Conns
  BY OwnerAssumption DEF IInv, TypeOK
<1>1. SUFFICES ASSUME ~CloseStore(fd), pc # "kick" \/ fd \notin banned PROVE FALSE
  OBVIOUS
<1>2. CASE owner' = owner
  BY <1>2
<1>3. ASSUME NEW g \in Fds, owner[g] \in Conns, CloseFd(g) PROVE FALSE
  <2>1. owner' = [owner EXCEPT ![g] = None] /\ g # fd
    BY <1>0, <1>3 DEF CloseFd
  <2> QED BY <1>0, <2>1
<1>4. ASSUME NEW g \in Fds, Serving(g) PROVE owner[g] \in Conns
  <2>1. i \in 2..Len(pollFds) /\ pollFds[i].fd = g
    <3>1. i >= 2 /\ i \in Nat /\ i <= Len(pollFds) /\ Len(pollFds) \in Nat
      BY <1>4 DEF IInv, ServeInv, TypeOK, Serving
    <3> QED BY <1>4, <3>1 DEF Serving
  <2> QED BY <2>1 DEF IInv, PollInv
<1>5. CASE \E g \in Fds : CloseHandshake(g) \/ CloseBeforeSize(g) \/ Disconnect(g)
  <2>1. PICK g \in Fds : Serving(g) /\ CloseFd(g)
    BY <1>5 DEF CloseHandshake, CloseBeforeSize, Disconnect, Drop
  <2> QED BY <2>1, <1>3, <1>4
<1>6. CASE BanSession
  <2>1. kicks \in Seq(Fds) /\ kicks # <<>> /\ CloseFd(Head(kicks))
    BY <1>6 DEF IInv, TypeOK, BanSession
  <2>2. Head(kicks) = kicks[1] /\ 1 \in 1..Len(kicks) /\ kicks[1] \in Fds
    BY <2>1
  <2>3. kicks[1] = fd /\ pc = "kick"
    BY <1>0, <1>6, <2>1, <2>2 DEF BanSession, CloseFd
  <2>4. sessions[kicks[1]] # None
    BY <1>1, <2>2, <2>3 DEF KickInv
  <2>5. owner[kicks[1]] \in Conns
    BY <2>2, <2>4 DEF IInv, StageInv, OneEntry, NoEntry
  <2> QED BY <2>1, <2>2, <2>5, <1>3
<1>7. CASE \E g \in Fds : Accept(g) \/ OpenStore(g) \/ CloseStore(g)
  <2>1. PICK g \in Fds : Accept(g) \/ OpenStore(g) \/ CloseStore(g)
    BY <1>7
  <2>2. g # fd
    BY <1>0, <1>1, <2>1 DEF Accept, OpenStore
  <2>3. owner'[fd] = owner[fd]
    BY <1>0, <2>1, <2>2 DEF Accept, OpenStore, CloseStore
  <2> QED BY <2>3
<1>8. CASE \/ Poll \/ AcceptNothing \/ SkipSlot \/ RecvDone \/ AuthDone \/ GameUpdate \/ StartRender
           \/ EndFrame \/ PollFails \/ Stopped \/ UNCHANGED vars
           \/ (\E g \in Fds : AuthStep(g) \/ RenderStep(g)) \/ (\E c \in Conns : Client(c))
  BY <1>2, <1>8 DEF Poll, AcceptNothing, SkipSlot, RecvDone, AuthDone, GameUpdate, StartRender,
     EndFrame, PollFails, Stopped, AuthStep, RenderStep, Client, Connect, SendPiece, ReadFrame, Shut, vars
<1>9. CASE \E g \in Fds : RecvKey(g) \/ RecvSize(g) \/ AwaitSize(g) \/ RecvInput(g)
  BY <1>2, <1>9 DEF RecvKey, RecvSize, AwaitSize, RecvInput
<1> QED BY <1>5, <1>6, <1>7, <1>8, <1>9 DEF Next, Loop, RecvFd, Store

\* Whatever a world asks to be kicked, the engine closes users.txt under the worker that saves
\* to it only by a second ban of one client in one frame; else it goes by the worker's own close.
THEOREM StoreFileCorrect == Spec => StoreFileGuarded
<1> DEFINE Kept == \A fd \in Fds : owner[fd] = StoreFile /\ owner'[fd] # StoreFile =>
                      CloseStore(fd) \/ (pc = "kick" /\ fd \in banned)
<1>1. Init => KickInv
  BY DEF Init, KickInv
<1>2. IInv /\ KickInv /\ [Next]_vars => KickInv'
  BY KickStep
<1>3. IInv /\ KickInv /\ [Next]_vars => Kept
  BY OwnerStep
<1>4. Kept => [Kept]_vars
  OBVIOUS
<1> QED BY <1>1, <1>2, <1>3, <1>4, Invariance, PTL DEF Spec, StoreFileGuarded

-----------------------------------------------------------------------------
(* The contract with the world.                                            *)

LEMMA ServedMayMove ==
    ASSUME IInv, NEW fd \in Fds, Serving(fd)
    PROVE  /\ fd \in unserved /\ unserved' = unserved \ {fd}
           /\ pc = "recv" /\ UNCHANGED <<pc, kicks>>
<1>1. i \in 2..Len(pollFds) /\ pollFds[i].in /\ pollFds[i].fd = fd /\ pc = "recv"
  <2>1. i >= 2 /\ i \in Nat /\ i <= Len(pollFds) /\ Len(pollFds) \in Nat
    BY DEF IInv, ServeInv, TypeOK, Serving
  <2> QED BY <2>1 DEF Serving
<1> QED BY <1>1 DEF IInv, ServeInv, TypeOK, Serving

LEMMA SettleStep ==
    ASSUME pc \in {"poll", "accept", "recv", "auth"}, pc' \in {"accept", "recv", "auth"} \/ (pc = "poll" /\ pc' = "stopped"),
           UNCHANGED <<players, kicks>>,
           pc \in {"poll", "stopped"} \/ unserved' \cup Keys(authenticating)' \subseteq unserved \cup Keys(authenticating),
           unserved' \subseteq Fds
    PROVE  World!Settle
<1>1. WorldPhase = "gather" /\ WorldPhase' = "gather"
  BY DEF WorldPhase
<1>2. MayMove' \subseteq MayMove
  BY DEF MayMove, Keys
<1>3. Keys(players)' = Keys(players)
  BY DEF Keys
<1> QED BY <1>1, <1>2, <1>3 DEF World!Settle

LEMMA JoinStep ==
    ASSUME TypeOK, NEW fd \in Fds, NEW c, c # None, Join(fd, c), players[fd] = None, UNCHANGED kicks,
           pc \in {"recv", "auth"}, pc' = pc, fd \in MayMove, MayMove' = MayMove \ {fd}
    PROVE  World!Enter(fd)
<1>1. WorldPhase = "gather" /\ WorldPhase' = "gather"
  BY DEF WorldPhase
<1>2. Keys(players)' = Keys(players) \cup {fd} /\ fd \notin Keys(players)
  BY DEF Keys, Join, Put, TypeOK
<1> QED BY <1>1, <1>2 DEF World!Enter

LEMMA LeaveKeys ==
    ASSUME TypeOK, NEW fd \in Fds, Leave(fd)
    PROVE  Keys(players)' = Keys(players) \ {fd}
BY DEF Keys, Leave, Erase, TypeOK

\* What the receive loop does for one descriptor.
LEMMA RecvKeepsContract ==
    ASSUME IInv, KickInv, NEW fd \in Fds, RecvFd(fd)
    PROVE  World!Settle \/ World!Enter(fd) \/ World!Leave(fd)
<1>1. Serving(fd)
  BY DEF RecvFd, RecvKey, CloseHandshake, RecvSize, AwaitSize, CloseBeforeSize, RecvInput, Disconnect
<1>2. /\ fd \in unserved /\ unserved' = unserved \ {fd} /\ unserved \subseteq Fds
      /\ pc = "recv" /\ UNCHANGED <<pc, kicks>>
  BY <1>1, ServedMayMove DEF IInv, TypeOK
<1>3. CASE UNCHANGED <<players, authenticating>>
  BY <1>2, <1>3, SettleStep DEF Keys
<1>4. CASE RecvSize(fd)
  <2>1. pendingStreams[fd] # None /\ authenticating[fd] = None /\ players[fd] = None
    BY <1>4 DEF RecvSize, Fresh, IInv, WorldMatchesSessions
  <2>2. CASE OpenToGuests
    <3>1. Join(fd, pendingStreams[fd]) /\ UNCHANGED authenticating
      BY <1>4, <2>2 DEF RecvSize
    <3>2. fd \in MayMove /\ MayMove' = MayMove \ {fd}
      BY <1>2, <2>1, <3>1 DEF MayMove, Keys
    <3> QED BY <1>2, <2>1, <3>1, <3>2, JoinStep DEF IInv
  <2>3. CASE ~OpenToGuests
    <3>1. authenticating' = Put(authenticating, fd, pendingStreams[fd]) /\ UNCHANGED players
      BY <1>4, <2>3 DEF RecvSize
    <3>2. Keys(authenticating)' \subseteq Keys(authenticating) \cup {fd}
      BY <3>1 DEF Keys, Put, IInv, TypeOK
    <3> QED BY <1>2, <3>1, <3>2, SettleStep
  <2> QED BY <2>2, <2>3
<1>5. CASE Disconnect(fd)
  <2>1. CASE sessions[fd] # None
    <3>1. Leave(fd) /\ UNCHANGED authenticating
      BY <1>5, <2>1 DEF Disconnect
    <3>2. authenticating[fd] = None /\ fd \in Keys(players)
      BY <2>1 DEF IInv, StageInv, OneEntry, NoEntry, WorldMatchesSessions, Keys
    <3>3. fd \in MayMove /\ MayMove' = MayMove \ {fd}
      BY <1>2, <3>1, <3>2 DEF MayMove, Keys
    <3>4. WorldPhase = "gather" /\ WorldPhase' = "gather"
      BY <1>2 DEF WorldPhase
    <3>5. Keys(players)' = Keys(players) \ {fd}
      BY <3>1, LeaveKeys DEF IInv
    <3> QED BY <1>2, <3>2, <3>3, <3>4, <3>5 DEF World!Leave
  <2>2. CASE sessions[fd] = None
    <3>1. authenticating' = Erase(authenticating, fd) /\ UNCHANGED players
      BY <1>5, <2>2 DEF Disconnect
    <3>2. Keys(authenticating)' \subseteq Keys(authenticating)
      BY <3>1 DEF Keys, Erase, IInv, TypeOK
    <3> QED BY <1>2, <3>1, <3>2, SettleStep
  <2> QED BY <2>1, <2>2
<1> QED
  BY <1>3, <1>4, <1>5 DEF RecvFd, RecvKey, CloseHandshake, AwaitSize, CloseBeforeSize, RecvInput, stageVars

LEMMA BanKeepsContract ==
    ASSUME IInv, BanSession
    PROVE  World!Ban
<1>1. PICK fd \in Fds : fd = Head(kicks)
  BY DEF IInv, TypeOK, BanSession
<1>2. pc = "kick" /\ pc' \in {"kick", "astray"} /\ kicks # <<>> /\ kicks' = Tail(kicks) /\ unserved' = unserved
  BY DEF BanSession
<1>3. WorldPhase = "ban" /\ WorldPhase' = "ban"
  BY <1>2 DEF WorldPhase
<1>4. Keys(players)' = Keys(players) \ {fd} /\ Keys(authenticating)' \subseteq Keys(authenticating)
  <2>1. CASE sessions[fd] # None
    <3>1. Leave(fd) /\ UNCHANGED authenticating
      BY <1>1, <2>1 DEF BanSession
    <3> QED BY <3>1, LeaveKeys DEF IInv, Keys
  <2>2. CASE sessions[fd] = None
    <3>1. authenticating' = Erase(authenticating, fd) /\ UNCHANGED players
      BY <1>1, <2>2 DEF BanSession
    <3>2. fd \notin Keys(players)
      BY <2>2 DEF IInv, WorldMatchesSessions, Keys
    <3>3. Keys(players)' = Keys(players)
      BY <3>1 DEF Keys
    <3> QED BY <3>1, <3>2, <3>3 DEF Keys, Erase, IInv, TypeOK
  <2> QED BY <2>1, <2>2
<1>5. MayMove' \subseteq MayMove
  BY <1>2, <1>4 DEF MayMove
<1> QED BY <1>1, <1>2, <1>3, <1>4, <1>5 DEF World!Ban

LEMMA AskKeepsContract ==
    ASSUME IInv, GameUpdate
    PROVE  World!Ask
<1>1. kicks' \in KickLists
  BY DEF GameUpdate
<1>2. PICK n \in 0..MaxKicks : kicks' \in [1..n -> Keys(players)]
  BY <1>1 DEF KickLists
<1>3. kicks' \in Seq(Keys(players))
  BY <1>2, BoundAssumption
<1>4. WorldPhase = "play" /\ WorldPhase' = "ban"
  BY DEF GameUpdate, WorldPhase
<1>5. Keys(players)' = Keys(players) /\ MayMove' = MayMove
  BY DEF GameUpdate, stageVars, Keys, MayMove
<1> QED BY <1>3, <1>4, <1>5 DEF World!Ask

LEMMA ContractStep == IInv /\ KickInv /\ [Next]_vars => [World!Next]_World!worldVars
<1> SUFFICES ASSUME IInv, KickInv, [Next]_vars PROVE World!Next \/ UNCHANGED World!worldVars
  OBVIOUS
<1>1. CASE UNCHANGED <<pc, players, kicks, unserved, authenticating>>
  BY <1>1 DEF World!worldVars, WorldPhase, Keys, MayMove
<1>2. CASE \/ Poll \/ PollFails \/ AcceptNothing \/ SkipSlot \/ RecvDone \/ (\E fd \in Fds : Accept(fd))
  <2>1. /\ pc \in {"poll", "accept", "recv", "auth"}
        /\ pc' \in {"accept", "recv", "auth"} \/ (pc = "poll" /\ pc' = "stopped")
        /\ UNCHANGED <<players, kicks, authenticating>>
        /\ pc = "poll" \/ unserved' = unserved
        /\ unserved' \subseteq Fds
    BY <1>2 DEF Poll, PollFails, AcceptNothing, SkipSlot, RecvDone, Accept, stageVars, IInv, TypeOK
  <2>2. World!Settle
    BY <2>1, SettleStep DEF Keys
  <2> QED BY <2>2 DEF World!Next
<1>3. ASSUME NEW fd \in Fds, RecvFd(fd)
      PROVE  World!Next
  BY <1>3, RecvKeepsContract DEF World!Next
<1>4. ASSUME NEW fd \in Fds, AuthStep(fd)
      PROVE  World!Next \/ UNCHANGED World!worldVars
  <2>1. pc = "auth" /\ fd \in Keys(authenticating) /\ unserved = {} /\ UNCHANGED <<pc, kicks, unserved>>
    BY <1>4 DEF AuthStep, IInv, PhaseInv, PointersAreLive, ServeInv
  <2>2. CASE Join(fd, authenticating[fd]) /\ authenticating' = Erase(authenticating, fd)
    <3>1. authenticating[fd] # None /\ players[fd] = None
      BY <2>1 DEF Keys, IInv, StageInv, OneEntry, NoEntry, WorldMatchesSessions
    <3>2. fd \in MayMove /\ MayMove' = MayMove \ {fd}
      BY <2>1, <2>2 DEF MayMove, Keys, Erase, IInv, TypeOK
    <3>3. World!Enter(fd)
      BY <2>1, <2>2, <3>1, <3>2, JoinStep DEF IInv
    <3> QED BY <3>3 DEF World!Next
  <2>3. CASE UNCHANGED <<sessions, players, authenticating>>
    BY <1>1, <2>1, <2>3
  <2> QED BY <1>4, <2>2, <2>3 DEF AuthStep
<1>5. CASE AuthDone
  <2>1. WorldPhase = "gather" /\ WorldPhase' = "play"
    BY <1>5 DEF AuthDone, WorldPhase
  <2>2. Keys(players)' = Keys(players) /\ MayMove' = MayMove /\ kicks' = kicks
    BY <1>5 DEF AuthDone, stageVars, Keys, MayMove
  <2> QED BY <2>1, <2>2 DEF World!Next, World!Play
<1>6. CASE GameUpdate
  BY <1>6, AskKeepsContract DEF World!Next
<1>7. CASE BanSession
  BY <1>7, BanKeepsContract DEF World!Next
<1>8. CASE StartRender
  <2>1. WorldPhase = "ban" /\ WorldPhase' = "draw" /\ kicks = <<>> /\ kicks' = kicks
    BY <1>8 DEF StartRender, WorldPhase
  <2>2. Keys(players)' = Keys(players) /\ MayMove' = MayMove
    BY <1>8 DEF StartRender, stageVars, Keys, MayMove
  <2> QED BY <2>1, <2>2 DEF World!Next, World!Draw
<1>9. CASE EndFrame
  <2>1. WorldPhase = "draw" /\ WorldPhase' = "gather" /\ kicks' = kicks
    BY <1>9 DEF EndFrame, WorldPhase
  <2>2. Keys(players)' = Keys(players) /\ MayMove' = Fds
    BY <1>9 DEF EndFrame, stageVars, Keys, MayMove
  <2> QED BY <2>1, <2>2 DEF World!Next, World!NextFrame
<1>10. CASE \/ (\E fd \in Fds : RenderStep(fd)) \/ Store \/ Stopped \/ (\E c \in Conns : Client(c)) \/ UNCHANGED vars
  BY <1>1, <1>10 DEF RenderStep, Store, Stopped, OpenStore, CloseStore, Client, Connect, SendPiece, ReadFrame,
     Shut, vars, engineVars, stageVars
<1> QED BY <1>2, <1>3, <1>4, <1>5, <1>6, <1>7, <1>8, <1>9, <1>10 DEF Next, Loop

\* The loop keeps its side of the contract with the world, for any clients, descriptors and
\* configuration: who comes and goes, and when, what is banned, and that all of it is.
THEOREM WorldContract == Spec => KeepsWorldContract
<1>1. Init => World!Init /\ KickInv
  <2> SUFFICES ASSUME Init PROVE World!Init /\ KickInv
    OBVIOUS
  <2>1. Keys(players) = {} /\ WorldPhase = "gather" /\ MayMove = Fds /\ kicks = <<>> /\ banned = {} /\ pc = "poll"
    BY DEF Init, Keys, WorldPhase, MayMove
  <2> QED BY <2>1 DEF World!Init, KickInv
<1>2. IInv /\ KickInv /\ [Next]_vars => KickInv'
  BY KickStep
<1>3. IInv /\ KickInv /\ [Next]_vars => [World!Next]_World!worldVars
  BY ContractStep
<1> QED BY <1>1, <1>2, <1>3, Invariance, PTL DEF Spec, KeepsWorldContract, World!Spec
=============================================================================
