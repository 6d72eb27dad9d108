# AsciiStreamEngine in TLA+

Models of the server engine, its login and account store, its input decoder, its encrypted
transport, its two clients, its two example worlds and the drawing they do, with the TLC
configurations that check them and TLAPS proofs of the results that matter most. Paths are those of the repository; `Engine.hpp`, `InputDevice.hpp`
and so on are under `core/include/astream/`.

## 1. The system

AsciiStreamEngine streams ASCII frames rendered on a server to terminal clients. One thread
runs `Engine::run()`: poll, accept, receive, log in, update the world, ban, render, sleep.
Logins hash passwords in `std::async` workers; rendering runs in parallel workers that are
joined within the frame.

| Component | State | Operations | Talks to | Hard behaviour | What makes it correct |
|---|---|---|---|---|---|
| Engine loop (`Engine.hpp`) | `m_pollFds`, `m_handshakes`, `m_pendingStreams`, `m_authenticatingSessions`, `m_sessions`, `m_world` | the phases of a frame, `banSession` | sockets, dialogues, world, transport | a list shrunk by swap-removal while it is walked, descriptors reused at once, torn messages, blocking sends, double kicks | the list and the maps name exactly the open sockets; a connection is in one stage, which it reaches in order; world and sessions agree; the loop comes round; closed clients are reaped |
| Login dialogue (`auth_internal/AuthContext.hpp`) | `m_state`, name, password, the line, a future | `update` per frame | store (worker), input | the worker reads members through `this`; a dialogue may die under it | members are stable while the worker runs; every login is answered; a session proved its password |
| Account store (`auth_internal/UserStore.hpp`) | `m_users`, `users.txt`, mutex | `authenticate`, `registerUser`, `banUser`, save, load | workers, main thread, disk | check, hash outside the lock, check again; truncate-and-write saves; crashes | each request acts as if in one step; saves do not interleave; a restart invents nothing |
| Input (`InputDevice.hpp`, `util/TextInputLine.hpp`, `util/StringUtil.hpp`) | keys of two frames, parser state, 8 characters, the line | `pressKey`, `getKeyDown`, `nextFrame`, `update`, `trim` | engine, dialogue, world | escape sequences cut by frames, full buffers, edges of keys | what a frame shows depends on the stream and not on how it is cut |
| Transport (`net_internal/EncryptedStream.hpp`, `NetworkUtil.hpp`) | mode, keys, two counters | seal, unseal, peek-and-take a frame | both ends | torn frames, counters in step, a stale `errno`, sends that block on each other | an ordered channel in each direction, or none |
| Network client (`client/NetworkStreamClient.cpp`, `client.cpp`) | socket, stream | connect, send, receive a frame | engine | blocking reads and writes, keyboard before socket | as the transport; it should not starve the socket |
| Terminal (`client/TerminalController.cpp`, `TerminalBuffer.hpp`) | terminal mode, last screen | poll, read, draw | client | end of stdin; the size a frame brings | each character has its place |
| Emulator (`client/emulator_client.cpp`) | last screen, script, `script_finished`, `should_exit` | script thread, socket loop, drain, join | engine | two threads on one socket; a timeout or the end of the script racing a frame | the last frame is read; it ends |
| Chat world (`examples/chat/ChatApp.hpp`) | players, log, kick list, dirty flags | input, `/ban`, update, render | engine | lost dirty flags, double kicks | every change is drawn for everybody |
| Cube world (`examples/cube_multiplayer/`) | registry of entities, bodies, triggers, the queue of deferred destruction | join, leave, input, shot, reset, render | engine, EnTT, Jolt | two hits on one body, a reset and a departure in one frame | every body has its entity and every session its player; the world follows the keys of the frame |
| Graphics (`graphics/`), `TextureUtil`, `MeshUtil` | buffers | clip, rasterise, `drawText`, `blit` | worlds, dialogue | sizes a client announces; edges | nothing outside the buffer, no seams, letters in their places |
| `Config.hpp`, concepts, `Debug.hpp`, tools | none | none | | limits that no code reads | |

Components interact through method calls on the main thread, with three exceptions that
the models keep: the kernel (sockets, descriptor numbers) between clients and engine, the
mutex and the future between workers and main thread, and the file between two lives of the
process. `max_players`, `max_auth_attempts` and the rate limit of `Config.hpp` are read by no
code, so no model has them.

## 2. Modules

| Module | Models | Checked by |
|---|---|---|
| `Engine` | the main loop over kernel, clients and `users.txt`'s descriptor | `engine_secure`, `engine_open`, `engine_torn`, `engine_kicked`, `EngineProofs` |
| `MCEngine` | symmetry sets for `Engine` | |
| `GameWorld` | abstract: the contract between the loop and the world it runs | refined by `Engine` and by `ChatRoom` |
| `UserStore` | the store's operations, its workers, its file | with `AuthContext` |
| `AuthContext` | dialogues, bans and restarts, composed with `UserStore` | with `MCAuthContext`, `AccountProofs` |
| `MCAuthContext` | the symmetry of passwords for `AuthContext` | `account_store` |
| `AccountBook` | abstract: requests that act in one step on a book of accounts | refined by `AuthContext` |
| `InputDevice` | the decoder, and the meaning of a byte stream independent of frames | with `SessionInput` |
| `SessionInput` | one client's bytes through decoder, line, dialogue and session, frame by frame | `session_input`, `session_input_escape`, `SessionProofs` |
| `SecureChannel` | one encrypted connection: seal, blocking sends, network, peek-and-take | `secure_channel`, `secure_channel_torn`, `SecureChannelProofs` |
| `Channel` | abstract: two ordered channels | refined by `SecureChannel` |
| `ChatRoom` | the chat world and its sessions under the engine's hooks | `chat_room`, `ChatProofs` |
| `MCChatRoom` | symmetry set for `ChatRoom` | |
| `ClientLoop` | the terminal client between keyboard, signals and a bounded connection: its state and its actions | with `Emulator` |
| `Emulator` | extends `ClientLoop` by the test client and its script thread; has the specification of both | `client_loop`, `ClientProofs` |
| `Script` | operators: the language of the emulator's scripts | with `MCEmulator`, `ClientProofs` |
| `MCEmulator` | all short scripts, and what is meant by them | `client_loop`, `ClientProofs` |
| `FrameSize` | operators: sizes from announcement to terminal buffer | with `EcsWorld`, `WorldProofs` |
| `Textures` | operators: `subView`, `drawText`, `drawBox`, `strToTexture`, `blit_texture` | with `MCEcsWorld`, `WorldProofs` |
| `Rasterizer` | operators: clipping, fans, coverage, depth | with `MCEcsWorld`, `WorldProofs` |
| `EcsWorld` | the cube world and its sessions under the engine's hooks | `ecs_world`, `EcsProofs`, `WorldProofs` |
| `MCEcsWorld` | sizes and symmetry, references for text and polygons over all small inputs | `ecs_world`, `WorldProofs` |
| `EngineProofs`, `AccountProofs`, `SecureChannelProofs`, `ChatProofs`, `ClientProofs`, `SessionProofs`, `EcsProofs`, `WorldProofs` | theorems | |

`BugX` in a module is a plausible fault of the definition `X` that follows it. No
specification uses one; putting `BugX` in the place of `X` makes TLC report the property
paired with it in `PROJECT.json`, so that each property is known to notice something.

### Engine

The four maps are functions on descriptors whose value is the connection the entry was made
for, so a stale entry shows. `owner` is the kernel's descriptor table: `accept` and a worker
that opens `users.txt` both take any free number, and `close` closes whatever the number
refers to. Every handler of the receive loop is one action on the slot under the index `i`:
`RecvKey`/`CloseHandshake` (lines 369-439), `RecvSize`/`AwaitSize`/`CloseBeforeSize` (440-545),
`RecvInput`/`Disconnect` (546-612); each ends with `Advance` or with `Drop`, which is the
`close`, the swap-removal and `--i`. The other phases are `Poll`, `Accept`/`AcceptNothing`,
`AuthStep` per dialogue, `GameUpdate`, `BanSession` per kick, `RenderStep` per worker,
`EndFrame`. Everything a client or a store worker does interleaves with all of them.
Bytes are counted in pieces, a message (key, window size, frame) being two, so that it can be
torn. `send` blocks while the peer's buffer is full. A world may kick any clients it knows,
one of them twice if it likes, as the chat world does when two players ban a third. The second
`BanSession` closes whatever the number refers to by then. If that is `users.txt` in a worker's
hands, the worker goes on with a number that is not its own; the model ends there (the phase
`astray`), and says nothing of what such a process does. The sizes themselves, delta time and pixels are left out.

The engine treats a login as a choice (succeed or not) after its worker is done;
`AuthContext` and `UserStore` say which. Only one worker at a time can have `users.txt` open
since saves are inside the mutex. `FrameRejected` lets an encrypted frame be refused
whenever bytes are there; `SecureChannel` says when it really is.

### GameWorld

The concepts of `Engine.hpp` say which functions a world has, not what it may rely on.
`GameWorld` says it: a descriptor comes or goes at most once in a frame and before the world
plays; a list of kicks names players the world knows, and is served to its end before anything is
drawn; whoever it names is gone. `Engine` implements it and assumes of its world only what the
contract lets a world do (`GameUpdate` takes any list of players); `ChatRoom` implements it and assumes
of its loop what the contract lets a loop do. A player may be named twice,
by the room and to the loop. In the mapping `known`
is the engine's `players` and the room's, `may` everybody before `poll` and after it those who are
reported and not served or are logging in, and `asked` the rest of the list. The cube world names
nobody; its players join and leave in any order while the loop receives, which includes the contract's.

### UserStore, AuthContext, AccountBook

A `lock_guard` block without a save is one step. Hashing and verifying, outside the mutex,
are steps between. `saveToFile` holds the mutex over several steps (open and truncate, one per
record, close), so that `Restart` can come between any two. `DiskFails` lets the open fail.
`Tearing` lets the crash cut the last record short inside its status, which takes a file
longer than the stream's buffer; loading it follows lines 133-164, which take any status but
`Banned` for an active account. A dialogue that dies or goes back to its menu forgets what
the models do not need (`Forget`). A hash is the password it
verifies. Names are trimmed; the ones outside `LegalNames` contain a colon. `Restart` is
possible at any time and includes the exception of a failed hash, which nobody catches.

`AccountBook` is what a caller may assume: a request takes effect at one instant between
submission and answer. The mapping puts that instant at `Lookup` for a login (the answer is
fixed by the copy it takes, although it is given later) and at `Insert` for a registration.

### InputDevice, SessionInput

A byte is its class. The reference for the decoder is `StartsToken`/`EndsToken`: it reads the
whole stream (`carry` of earlier frames and this `frame`) and says where tokens end, so that
the properties compare the decoder, which runs byte by byte and is reset every frame, with
a meaning that knows no frames. `SessionInput` composes it with the line, with the dialogue as
far as it reads the keyboard, and with a world that takes lines. A login that succeeds is
updated once more, as a session, in the same frame (`promoted`). The dialogue's screen is
drawn after its update if it is dirty; `screen` is the field and the line it shows.

### SecureChannel, Channel

A frame on the wire is the direction and the counter its nonce was made of; opening it
succeeds exactly under the receiver's own. Keys are exchanged already; one frame is three
pieces (two header bytes, the rest) that arrive one by one. Of its length the model keeps what
`recv_encrypted_frame` and its callers tell apart (`Sizes`): nothing inside, whose answer 0 ends
the pass as if there were no frame; too little for a window size; enough; and beyond
`max_receive_frame_size`, which the emulator's `raw` can send. The engine's side is the loop
around `recv_encrypted_frame`, one action per return path, while it waits for the window size
(`Waiting`: one frame a pass, and a short one is the end) and after, when a short one is as good as
any, so that `SizesOf` has none. The client's side reads
whole frames and blocks.

Both ends send with blocking calls: what finds no room among the `Cap` pieces of its direction waits
(`Write`), the engine in "sending", where its only thread does nothing else. A client that
sends from its loop does not read meanwhile; one with a thread of its own (`threaded`, the
emulator) does. It may read no more though it is there ("deaf": the end of stdin, or `main()`
waiting for its thread). A `send` whose receiver is gone fails, which the engine ignores and which
may kill the client. The engine draws for a client once it has its size; with a login it would
draw for the dialogue, which is the same to the transport.

The network may damage what is behind a header, drop, repeat or reflect a frame that no piece of
has arrived, and cut the end of what a dead sender wrote. A damaged header is left out: it
would be a frame of another length, and the next ones out of place. `wrap_outgoing` takes a
length of 16 bits; payloads beyond are left out. `errno` is state of the thread, since
`IsWouldBlock()` reads it.

### ChatRoom

One action per hook, in the order `Engine::run()` calls them: `Join` and `Disconnect` while it
receives and logs in (each descriptor at most once in a frame), `Update` of each session in any
order, `globalUpdate`, `getKickFds`, `banSession` per entry, `postUpdate`, `Render`,
`WorldPostUpdate`, `EndFrame`. `Render` is one step for all sessions: the workers read a
world nobody writes and write their own session. A log entry is its number modulo `Marks`, a
line is empty, a carriage return, a text or a ban. A name is a stem, with or without a blank
inside: `/ban` drops blanks (`ChatApp.hpp:66-69`), so the player whose name has one cannot be
banned, and banning him hits the player who has the name without. Any player may ban.

### ClientLoop

Each step of the client is the return of a call: `recv`, `send`, `poll`. `encrypted` is the
server's choice and changes what a handshake and a packet consist of; `Pieces` is what the
server writes and `PacketPieces` what the client reads. A signal sets the flag and, if the
client was blocked already (the scheduler decides), makes the call answer `EINTR`. The
keyboard is asked before the socket, a file at its end is readable for ever, a pipe only
hangs up. `send` blocks on both sides. A server that closes without having read everything
resets the connection; a later `send` fails or raises `SIGPIPE`, which ends the client with
the terminal raw (`BrokenPipe`). The server is `Engine` as one client sees it: it answers the
handshake, takes input, sends frames and may close at any point.

### Emulator, Script

`program` chooses one of the two clients; both use the handshake, `recv` and `send` of
`ClientLoop`. The emulator's `main()` goes round `check`, `poll`, `read`, `after`
(`emulator_client.cpp:369-446`), and its script thread round `next` and `send` (333-364). What
the script says is only how much it sends; waiting is time that passes. The poll of 50 ms
and the one of 0 ms are `PollTimeout` when nothing is there. `Drains` is the branch that is
taken once the script is done (413-435): `poll` and `read` again, with `draining` set, until
nothing is there. `ShouldExit` holds from the moment `main()` has left its loop; `Join` waits
for the thread. The emulator handles no signal and no `SIGPIPE`: both end it where it stands.
`Script` reads a line into a command; characters are codes, `strtol` is what it does to two
characters.

### EcsWorld, Textures, Rasterizer, FrameSize

One frame is a sequence of phases: the engine receives (sessions come and go), `update` of
each session writes triggers, `globalUpdate` processes players one by one, destroys what was
hit one by one, and resets in two steps (what is there goes; new cubes come). Identifiers of
both libraries carry versions, so a new one is none that anybody still holds (`Fresh`).
Asking a library for something undefined sets `undefined`: destroying an entity or a body
twice, or dereferencing the `nullptr` that a full physics system answers. Where bodies are is
left out; a ray meets any body or none, which includes all the code can compute.

`FrameSize` follows a side of the window from the `uint16_t` a client announces through the
engine's clamps (`Engine.hpp:507-517`), the sides the session hears of (unclamped where nobody
logs in, 532) and the 16-bit length of the sealed frame, to its place in the terminal's buffer.
`Textures` has a picture as a size and a function on its cells; `drawText` goes from character to
character with the pointer of the code. `Rasterizer` works in halves of a pixel, exactly; a
triangle has one depth and one colour, and a mesh is drawn polygon by polygon. Both are recursive
functions of the position, so that they can be proved about. The reference for `drawText` gives each
letter its place by counting rows, with no pointer; the one for a mesh asks at each pixel which of
the polygons there is nearest.

## 3. What is checked

| Run | Instance | Result |
|---|---|---|
| `engine_secure` | encryption and authentication, 3 connections over 2 descriptors, backlog 2, 3 pieces queued, 1 frame buffered, 2 kicks a frame | `PollSetIsStages`, `StageIsOwned`, `WorldMatchesSessions`, `ServedExactlyOnce`, `StoreFileGuarded`, `StagesInOrder`, and the refinement of `GameWorld` (`KeepsWorldContract`) hold |
| `engine_open` | neither, 2 connections over 2 descriptors, clients kicked twice, with fairness | `LoopComesRound`, `ClosedIsReaped`, `SizeIsServed` hold |
| `engine_torn` | as `engine_open` | **violated**: `EveryClosedIsReaped` |
| `engine_kicked` | authentication without encryption, 2 connections over 2 descriptors, 2 kicks a frame | **violated**: `StoreFileKept` |
| `account_store` | 2 dialogues, 2 names, 2 passwords, failing opens, restarts, torn records, with fairness | `SessionsAreAuthentic`, `FileIsWhole`, `CredentialsStable`, `RestartInventsNothing`, `EveryLoginIsAnswered`, and the refinement of `AccountBook` hold |
| `session_input` | 5 byte classes, 3 bytes a frame, 2 characters kept, lines of 2 | `KeysAreDecoded`, `TextIsDecoded`, `NamesAreVisible`, `ScreenIsCurrent` hold |
| `session_input_escape` | the same | **violated**: `EscapedIsTyped` |
| `chat_room` | 2 players, 2 names, a log of 3, 1 row | `EveryoneIsUpToDate`, `ScreensAreFull`, `OnlyNamedAreBanned`, and the refinement of `GameWorld` (`KeepsEngineContract`) hold |
| `client_loop` | both clients, both modes, 2 frames, 2 keys, 1 message up, 2 pieces down, with fairness; all texts of 3 characters | `StreamInStep`, `FramesAreDrawn`, `SignalIsObeyed`, `EmulatorEnds` hold, with the exceptions they name; `ScriptIsTyped` holds |
| `ecs_world` | 2 players, 2 cubes, a full physics system, windows empty, at the limit, too low and too large; texts of 4 characters in views up to 3 by 2; quadrilaterals over 3 by 3 pixels | `ObjectsAreOwned`, `WorldFollowsKeys`, `DrawnInside` (with its exceptions), `TextIsPlaced`, `PolygonsAreWhole` hold |
| `secure_channel` | 3 frames up, 2 down, 1 fault, 4 pieces buffered each way, with fairness | `RefusedForCause`, `EverythingArrives` (with its exceptions), and the refinement of `Channel` hold |
| `secure_channel_torn` | the same without faults | **violated**: `TornIsKept` |

The type invariant of every module is proved; the runs of the account store, of the session's
input and of the chat world check theirs too. The four violations are disagreements between the code and its own comments:

- `engine_torn`: a plaintext client that sends part of its window size and closes is never
  found out. The peeked bytes stay in the buffer, so `recv` never answers 0 and `poll`
  never sleeps again (`Engine.hpp:466-479`). `ClosedIsReaped` is what does hold.
- `engine_kicked`: two players who send `/ban` for a third in one frame put his descriptor on the
  kick list twice (`ChatApp.hpp:79`). The second `banSession` finds no session and closes the
  number all the same (`Engine.hpp:144`); a registration that opened `users.txt` between the two
  has it closed under its stream. `StoreFileGuarded` is what does hold: nothing but such a second
  ban takes the file from the worker.
- `session_input_escape`: the character after a lone ESC sets its key but is not typed
  (`InputDevice.hpp:175-178`).
- `secure_channel_torn`: with one byte of a header in the buffer, `recv_encrypted_frame` reads
  an `errno` its `recv` did not set, and may disconnect an honest client
  (`NetworkUtil.hpp:100-105`).

Exceptions that properties name are hazards TLC finds when they are taken away:

- `ScreenIsCurrent`: a refused option's line is cleared but not redrawn when the Enter brought
  no character;
- `RestartInventsNothing`: a crash inside the status of a record brings a banned account back
  as active (`UserStore.hpp:153-157`);
- `FramesAreDrawn`: at the end of a file on stdin the terminal client never reads the socket
  again; client and server may block on each other in `send`; a timeout or a signal comes first;
- `EverythingArrives` (`Stuck`): the same two, and a client that reads no more because `main()`
  waits for its thread: what is still to come down stays there, and once that fills the buffers the
  engine is in `send` and takes nothing from below either. Each part of `Stuck` is needed. A thread
  of its own that sends, as the emulator's, does not block with the engine as long as the other
  one reads;
- `SignalIsObeyed`: a signal between the check and `poll` waits for the next event;
- `EmulatorEnds`: `main()` joins a thread that is blocked in `send`, to a server that is blocked
  in `send` since `main()` no longer reads (`emulator_client.cpp:448-452`);
- `DrawnInside`: a window announced below 20 by 5 has no room for the last text
  (`EcsSampleApp.hpp:612`), where `subView` only asserts; and without a login the world
  hears of sides above 254, which the engine's buffer does not have. The repository's own
  clients announce up to 256.

**Bounds.** Two descriptors and a third connection are the least with which a number is
reused while another slot is open, so that swap-removal moves a live slot and a stale entry
would meet a new owner. `MaxQueued` of three pieces is one message and a half: complete, torn
and empty buffers all occur. `FrameCap` 1 makes a second frame block. Two kicks make a
repeated one. Two dialogues and two names give every race of two registrations, of login and
ban, of save and save; both names are legal (the proofs have all). The 8 characters and the 64 of a line become 2, so that the limits are
met within a frame and across frames; three bytes a frame hold a whole escape sequence, and
all cuts of longer ones occur. These frames and a fault give replay, reflection and
a gap. A log of 3 is shorter than what two players write in a frame, so that trimming happens
and does not always happen (trimming redraws every screen and would hide a lost mark); one row
leaves room to scroll. One message up and two pieces down, less than a plaintext frame, let
both ends block in the middle of what they send. Two keys are a script that is blocked once and
sends again. Two cubes and a ground in a system of three bodies leave no body to spare for a
reset that forgets one; two players are the least that hit one cube twice. The texts and views
are the least in which a line wraps, a row ends exactly full, a newline follows either, and
a picture hangs over each edge; four coordinates inside and outside of three pixels give
edges through pixels and between them, and corners on every side. Three frames up are a window size and two of input, or an empty frame
before them; two down and room for four pieces let `send` stop in the middle of a frame, in
both directions at once. The proofs below do not have these bounds.

**Fairness.** The loop thread, a worker that saves and a worker that closes its file are never
starved (weak fairness). A login's steps are strongly fair: each waits for a mutex that
others take again and again, and `std::mutex` under the system's scheduler lets everybody in
eventually; `Verifying` is enabled in every frame but not while the main thread saves a ban.
`ReadFrame` is weakly fair: **clients keep reading**. The code does not ensure this; without
it the blocking `send` of one client's frame stops the server. So
`LoopComesRound` says that the loop does not wait for itself, and nothing of such clients. In
`SecureChannel` this is not assumed: what was written arrives, a `send` goes on when there is
room, the engine polls when its thread is not in `send`, and the client reads unless it
stopped reading or is in `send`, which it may do for ever. In `Emulator`, the client's calls
return when they can, and so do both threads of the emulator; the server's loop takes input
and sends what it has begun, and its kernel answers with the reset; nothing makes a timeout
come; a user types two keys, so that nobody types for ever (which would starve the socket as
the end of a file does). Nobody is obliged to type, connect, close, ban or fail. A server whose `poll` fails stops (`PollFails`), and the liveness
properties say so.

**Symmetry** is used in safety runs, and of liveness runs only in `account_store`, where it
permutes the passwords: no fairness condition and no temporal property names a password (the
dialogues, which fairness does name, are not permuted). Deadlock is checked everywhere; the `Stopped` and
`Quiet` actions are the ends a behaviour may legitimately reach.

## 4. What is proved

All assume only the modules' named assumptions on constants (distinct owners, boolean flags,
natural bounds; the value that stands for no account is not one; a process has finitely many
descriptors; a newline is not a carriage return; the cubes are fewer than the bodies Jolt is set up for, which are 30 and 1024).

**`EngineProofs`**, for any clients, descriptors and configuration, kicks repeated or not:
`TypeCorrect`, `PollSetCorrect`, `StagesOwned`, `WorldCorrect`, `EachServedOnce`,
`StageOrder`, `StoreFileCorrect` and `WorldContract`. The properties are not inductive by themselves: that a swap-removal keeps the
list exact needs that slots are distinct and that each stage entry belongs to the descriptor's
present owner; that a ban does not orphan an entry needs that only sessions are kicked; that
render and auth workers point at live entries needs what each phase was handed. `IInv` joins

- `StageInv`: a client's descriptor has exactly one entry, made for it, and no other has any;
- `PollInv`: the listener first, then each client's descriptor once;
- `ServeInv`: the reported descriptors ahead of the index are those not yet served;
- `WorldMatchesSessions`, and `PhaseInv` for what a phase hands to the next.

`SwapRemoveFacts`, `DropKeepsPollInv` and `DropKeepsServeInv` carry the argument: removing the
slot under the index moves the last slot, which has not been looked at, under it, and the
index stays. The steps then fall into few shapes (`DropStep`, `KeepStep`, `QuietStep`, ...), one
lemma each, and `NextKeepsIInv` has one case per action.

`StoreFileCorrect` is `StoreFileGuarded` without a hypothesis. `banSession` closes a number without
asking whether it is still a session's; `KickInv` says that whoever is on the list has a session
or was banned in this frame already, since a ban takes one session away and no other. That nobody but
a session has a session's number is `StageInv`, so a first ban closes the session's own.

`WorldContract` is that the loop implements `GameWorld`, for any configuration. A step of the receive
loop or of a login is `Enter`, `Leave` or `Settle` (`RecvKeepsContract`), the end of the logins `Play`, the
world's update `Ask`, a ban `Ban` (`BanKeepsContract`), which also ends a login whose player the world
does not know, and everything clients and workers do a stutter. That nobody comes or goes twice in a
frame is `ServeInv` (who was served is not served again) with `StageInv` (who logs in has no session yet,
and who has one is logging in nowhere).

**`AccountProofs`**, for any number of dialogues, names and passwords, with a disk that fails and
records that a crash tears: `TypeCorrect`, `SessionsCorrect`, `FileCorrect`, `CredentialsCorrect`,
`RestartCorrect`, and `Refinement`, that store and dialogues implement `AccountBook`. `IInv` joins

- `LockInv`: the mutex is held for exactly as long as its owner saves;
- `FileInv`: which records of the file are written, and that each record's account is in memory
  with the same password (so that a restart never brings back a password that was not set);
- `WorkInv`: where each worker stands and what its earlier steps have found out.

What a worker knows (`Knows`) speaks of accounts that others change meanwhile; it survives since
accounts only come and keep their passwords (`Growing`, `KnowledgeLasts`), which a ban respects. In
the refinement a login takes effect in `Lookup`, though the answer comes later and may be for an
account that is banned by then, a registration in `Insert`, a ban in `Ban`; every other step
is a refusal, a submission, a collection or a stutter.

**`SecureChannelProofs`**, for any number of frames and faults and any size of the buffers: `TypeCorrect`,
`RefusedCorrect`, and `Refinement`, that the transport implements `Channel`. Its `IInv` joins `Counted` (each
counter is the length of a history, and what was delivered is a prefix of what was sealed),
`AllGenuine` (a frame on the wire is damaged or was sealed with that content under that
counter, whatever was repeated or reflected) and `InStep` (as long as nothing failed, the
wire continues where the receiver stands). An accepted frame has the receiver's direction and
counter, so by `AllGenuine` its payload is the next one sealed: `Deliver` of `Channel`.
For `RefusedCorrect`, `InStep` says that the frame whose header is too large is the sender's own
next one, and `Cause` that what a client was given up for stays to be seen: nothing is taken from
it after that (`GoneStays`), and what was sealed stays sealed (`SentGrows`).

**`ChatProofs`**, for any clients, names, length of the log and height of a screen:
`TypeCorrect`, `ScreensCorrect`, `ScreensFilled`, `BansCorrect`. `ScreenInv` says for each phase of the frame which of
the two flags, the world's or the session's, stands for a screen that is not `Current`: either of
them until the bans are over, the session's when the screens are drawn, none afterwards, when both
are cleared. `KickInv` follows the list of the banned from the lines that fill it, through the
move, to the last of them, whose player may have gone by an earlier entry. `LogInv` bounds the log
between two trimmings: in each phase of a frame a descriptor adds one line at the most, and
only while it is still to come. `EngineContract` is that the room implements `GameWorld`: by `KickInv` whoever is
on the list when the engine asks bears a name that was banned in this frame, so is there
(`ListNamesPlayers`), and the list is used up before the next one is made.

**`ClientProofs`**, for any number of frames and keys and any size of the sockets' buffers:
`TypeCorrect` and `StreamCorrect`, that neither client ever takes the middle of a packet for the
beginning of one. `StreamInStep` speaks of the next piece only; its `StreamInv` says of all that
is under way that it is one run (`Run`): it begins with the piece the client expects, each
piece is followed by the next in the mode announced, and while the server lives the run ends
where it goes on to write. Reading takes the first piece (`RunIsTaken`), a frame appends a whole
packet (`PacketFits`), and a server that dies cuts the run anywhere (`RunIsCut`), after which
nobody writes behind it. `StreamNext` has one case for each kind of call: those that read, those
that do not, `main()`'s steps between them, the script's thread, and the other end's.

Of the script's language: `EveryTextIsRead`, that `parse_type_string()` comes to the end of every
text without looking behind it, whatever escapes are cut off there; `TypedAsWritten`, that a text of
any length, each of whose characters is written as itself, by name or by number, is what
it makes of the line; and `CommandIsRead`, that `parse_script()` takes a line apart where its
author meant it. The reader goes from the front; what holds of it is proved from the
position nearest to the end at which it would not. The writer of `MCEmulator` goes forward, and
`WrittenTo` says where in his line each character begins (`OneMoreIsWritten`), which gives `TypedRight`, for
all texts, from the other two. `SentAsWritten` is the same for bytes in hexadecimal: `Clean` drops
space wherever it is (`CleanDropsSpace`) and keeps a byte's two digits together
(`OneMoreByteIsClean`). `ScriptCorrect` is what the run checks.

**`SessionProofs`**, for lines and frames of any length and any room for characters: all that
`session_input` checks. `NamesCorrect` and `ScreensCorrect` follow from `FrameInv`, which adds to the two
properties that nothing is shown while a password is verified. `KeysCorrect` and `TextCorrect` compare the decoder with
the tokens of the whole stream: `TokenInv` says that the device's bytes are the stream's, and that
the decoder's state `Standing` in the stream says where the last token began; `OneMoreByte`
carries it over a byte, whose token ends as `After` and `Completed` say, and `Cut` over the end of
a frame, which forgets the keys but not the state. The lengths of the tokens of a stream are
unique (`NoOverlap`) and those of a prefix are those of the stream (`PrefixStarts`). The
library's induction takes an operator and cannot be used; in its place `LeastNat` gives the
least position at which something fails, and `Recursion` that a function defined from one
position to the next exists.

**`EcsProofs`**, for any clients, windows, cubes and bodies: `TypeCorrect`, `ObjectsCorrect` and
`KeysCorrect`. `FreshIsNew` and what follows it say that there are always identifiers nobody holds, and
that a world made of them has one object for each. Its `IInv` joins

- `OwnedInv`: bodies, entities and sessions belong to each other, one to one, and nothing undefined
  was asked for;
- `HitInv`: whatever a ray has hit stood there when the frame began; as much of it as still stands
  is in the queue of deferred destruction, and what was not hit still stands;
- `PhaseInv` for what a phase hands to the next, and `KeyInv`: how far the keys of the frame have
  come, from the sessions' triggers through the reset that is asked for to the new cubes.

A body may be hit by several rays and is then queued once for each; `DestroyNext` asks whether
the entity is still valid, and `HitInv` shows that this is enough, since the new identifiers of a reset are
none that anybody still holds.

**`WorldProofs`**, for every window a client may announce: `DrawingIsInside`, that the cube
world draws inside the engine's buffer but for the sizes the property names (`SizesInv`: what a
session was given is a window that a client announced, and only sessions update and draw);
`FrameFits`, that 6 bytes, the picture and zlib's worst case fit the 16 bits of a frame's length;
`CellsAreApart`, that rows of the terminal's buffer neither overlap nor leave it; and
`CrossingIsOnEdge`, that clipping cuts an edge inside it and never divides by zero.

And for all corners and sizes, where the run has four coordinates and three pixels:
`BoxLosesNothing`, that the box which `rasterizeTriangle()` searches holds every pixel its triangle
covers (a point is the average of the corners, weighted with the areas of the triangles it
makes with the edges, `WeightedCorners`, so it is on no side of all three); `FanIsSeamless`, that the
two triangles of a convex quadrilateral cover exactly the pixels inside it (an edge that a
triangle does not have makes an area with the point that is a weighted sum of those with
the corners, `WeightedAreas`, so its sign is theirs); `ClippedIsPolygon`, that whichever corners are
behind the near plane, clipping leaves nothing, a triangle or a quadrilateral of the corners in front and
the cuts, in order; `NearestSeen`, that a mesh of any number of polygons shows at each pixel the nearest
that is there, of several as near the first; `OrderDoesNotMatter`, that a mesh drawn in any other
order leaves the same depths, and shows the same unless two polygons of one depth look
different; and `BlitIsClipped`, that `blit_texture` cuts a picture at the view's edges. A mesh is drawn
by a recursive function of the number of its polygons, and what holds of it is carried from one to
the next. `PolygonsWhole` is what the run checks.

Of text: `TextInPlace`, that `drawText` puts each letter of any text, in a view of any size and from any
position, where the reference counts its row and its column, cuts what is outside, writes nothing
else and answers whether the row it ends on is inside. What is carried from character to
character (`IsWritten`): the pointer stands where `Row` and `Column` say, which may be behind a full row
that is not wrapped yet; the letters taken so far have cells before it in reading order
(`Precedes`), so none is written over; and once the view is full, whatever follows belongs below it.
`OverlayAsWritten`, that `strToTexture` and `blit_texture` show what `drawText` would on an empty view as
wide as the longest line, if a carriage return only ends a line: `drawText` has laid the lines split off so
far, and only the last one grows (`IsLaid`). `TextPlaced` is what the run checks. The assumption is
that a newline is not a carriage return.

**Only model-checked**: liveness, since the prover does not treat fairness and ENABLED
(`LoopComesRound`, `ClosedIsReaped`, `SizeIsServed`, `EveryLoginIsAnswered`, `FramesAreDrawn`, `EmulatorEnds`,
`SignalIsObeyed`, `EverythingArrives`). Every invariant, every action property and every refinement of a
passing run is stated by a theorem. The library's induction theorems take an operator; where a proof
needs induction it takes the least number at which the claim would fail (`LeastNat`), and where it
needs a recursive function it first shows that there is one (`Recursion`).

## 5. Not modelled

Physics, perspective, interpolation and shaders are floating-point and sequential; so are
meshes (`MeshUtil`, `Transform`), and rounding of coordinates is left out of `Rasterizer`.
Compression, hashing and the cipher are taken at their word. Windows' branches are left out
(there the sockets do not block, and a partial `send` would put an encrypted stream out of
step). In `Engine` a frame to a client is atomic. The terminal's modes, the layout of screens,
options of programs, logging, the rendering sample, tools and build files have no state of
interest. `max_players`, `max_auth_attempts` and the rate limit are read by no code. Durability
of a registration or a ban when `users.txt` cannot be opened, the last input of a client
that leaves, and the terminal after `SIGPIPE` are promised by nothing and stated by no property.

## 6. Plan

Done, in this order: `Engine` and its proofs (the core), `UserStore`/`AuthContext` with
`AccountBook` and `AccountProofs`, `InputDevice`/`SessionInput`, `SecureChannel` with `Channel` and
its proofs, `ChatRoom` with `ChatProofs`, `ClientLoop` and `Emulator` with `Script` and
`ClientProofs`, `EcsWorld` with `FrameSize`, `Textures`, `Rasterizer` and `WorldProofs`.

`SessionProofs` and `EcsProofs` came after that, with `StoreFileCorrect` of the engine, the log's
bound, the script's language, and polygons and pictures of every size; then `GameWorld`, which composes
loop and world through what each promises the other, and `drawText`, the mesh and the reader and
writer of scripts as recursive functions, with the proofs that use them.

What is left: liveness beyond the runs' instances, which needs a prover for fairness; rounding in
`Rasterizer`, which needs a model of floating-point numbers; and the hazards of `PROJECT.json` that no
property covers, each with its reason.
