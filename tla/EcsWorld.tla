------------------------------ MODULE EcsWorld ------------------------------
(***************************************************************************)
(* The cube world (EcsSampleApp.hpp) under the engine's hooks: an EnTT     *)
(* registry of entities, Jolt's bodies, the entity of each player, cubes   *)
(* that are destroyed at the end of the frame they are hit in, and a reset *)
(* that replaces them all.  One frame is: joins and disconnects, update()  *)
(* of each session, globalUpdate(), render() of each session.              *)
(***************************************************************************)
EXTENDS Integers, Sequences, SequencesExt, FiniteSets, FiniteSetsExt, Functions, FrameSize, Textures

CONSTANTS
    Players,    \* the clients, by their descriptors
    Cubes,      \* how many cubes create_entitys() makes
    MaxBodies,  \* cMaxBodies
    Windows     \* the window sizes clients announce, <<w, h>>

ASSUME CubesAssumption == Cubes \in Nat /\ MaxBodies \in Nat /\ Cubes < MaxBodies
ASSUME WindowsAssumption == Windows \subseteq Unsigned16 \X Unsigned16

VARIABLES
    phase,                  \* where the frame is
    entities,               \* the registry: the components of each valid entity
    bodies,                 \* the bodies of the physics system
    player_entities,        \* client -> entity
    deferred_destroy_queue,
    m_resetRequested,
    window,                 \* the engine's sessions: what each client announced
    todo,                   \* the clients still to update or draw, the players still to process
    undefined,              \* a library was asked for something it does not define
    standing, hit, asked    \* history: the cubes before the frame, those hit in it, was r pressed in it?

world == <<entities, bodies, player_entities, deferred_destroy_queue, m_resetRequested>>
history == <<standing, hit, asked>>
vars == <<phase, world, window, todo, undefined, history>>

NoBody == 0
Entity == [type : {"Ground", "NormalPhysics", "SpecialOrbit", "Player"}, body : Nat, space : BOOLEAN, r : BOOLEAN]
Sessions == DOMAIN window
OfType(types) == {e \in DOMAIN entities : entities[e].type \in types}

\* Ids of both libraries carry a version, so that a new one is none that anybody still holds.
Fresh(n, held) == CHOOSE ids \in [1..n -> (1..n + Cardinality(held)) \ held] : IsInjective(ids)
HeldEntities == DOMAIN entities \cup Range(player_entities) \cup Range(deferred_destroy_queue) \cup standing \cup hit

Make(type, body) == [type |-> type, body |-> body, space |-> FALSE, r |-> FALSE]
\* A new entity, and new entities beside those there are.
One(e, made) == [x \in {e} |-> made]
Beside(made, others) == [e \in DOMAIN made \cup DOMAIN others |-> IF e \in DOMAIN made THEN made[e] ELSE others[e]]
\* What create_entitys() makes: a body and an entity per cube, and one entity without a body.
Created(ids, bodyIds) ==
    [e \in Range(ids) |-> IF e = ids[Cubes + 1] THEN Make("SpecialOrbit", NoBody)
                          ELSE Make("NormalPhysics", bodyIds[CHOOSE k \in 1..Cubes : ids[k] = e])]

\* setupFloor() and create_entitys().
Init ==
    /\ phase = "receive"
    /\ entities = Beside(One(1, Make("Ground", 1)),
                         Created([k \in 1..Cubes + 1 |-> k + 1], [k \in 1..Cubes |-> k + 1]))
    /\ bodies = 1..Cubes + 1
    /\ player_entities = <<>>
    /\ deferred_destroy_queue = <<>>
    /\ m_resetRequested = FALSE
    /\ window = <<>>
    /\ todo = {}
    /\ undefined = FALSE
    /\ standing = OfType({"NormalPhysics"}) /\ hit = {} /\ asked = FALSE

-----------------------------------------------------------------------------
(* The engine receives: sessions come and go.                              *)

onPlayerConnect(p, e) == player_entities' = [q \in DOMAIN player_entities \cup {p} |-> IF q = p THEN e ELSE player_entities[q]]

\* init(): the session's buffers, and an entity in the world.
Join(p) ==
    LET e == Fresh(1, HeldEntities)[1]
    IN  /\ phase = "receive"
        /\ p \notin Sessions
        /\ \E size \in Windows : window' = [q \in Sessions \cup {p} |-> IF q = p THEN size ELSE window[q]]
        /\ entities' = Beside(One(e, Make("Player", NoBody)), entities)
        /\ onPlayerConnect(p, e)
        /\ UNCHANGED <<phase, bodies, deferred_destroy_queue, m_resetRequested, todo, undefined, history>>

\* onDisconnect(): destroy() is only defined for a valid entity.
Disconnect(p) ==
    LET known == p \in DOMAIN player_entities
        e == player_entities[p]
    IN  /\ phase = "receive"
        /\ p \in Sessions
        /\ window' = Restrict(window, Sessions \ {p})
        /\ entities' = IF known THEN Restrict(entities, DOMAIN entities \ {e}) ELSE entities
        /\ player_entities' = Restrict(player_entities, DOMAIN player_entities \ {p})
        /\ undefined' = (undefined \/ (known /\ e \notin DOMAIN entities))
        /\ UNCHANGED <<phase, bodies, deferred_destroy_queue, m_resetRequested, todo, history>>

Received ==
    /\ phase = "receive"
    /\ phase' = "update"
    /\ todo' = Sessions
    /\ UNCHANGED <<world, window, undefined, history>>

-----------------------------------------------------------------------------
(* update() of each session                                                *)

BugTrigger(old, pressed) == old \/ pressed
\* An action is triggered in the frame its key goes down, and in no other.
Trigger(old, pressed) == pressed

Update(p) ==
    /\ phase = "update" /\ p \in todo
    /\ todo' = todo \ {p}
    /\ \E space, r \in BOOLEAN :
          /\ IF p \in DOMAIN player_entities /\ player_entities[p] \in DOMAIN entities
             THEN entities' = [entities EXCEPT ![player_entities[p]].space = Trigger(@, space),
                                               ![player_entities[p]].r = Trigger(@, r)]
             ELSE UNCHANGED entities
          /\ asked' = (asked \/ r)
    /\ UNCHANGED <<phase, bodies, player_entities, deferred_destroy_queue, m_resetRequested, window, undefined, standing, hit>>

Updated ==
    /\ phase = "update" /\ todo = {}
    /\ phase' = "players"
    /\ todo' = OfType({"Player"})
    /\ UNCHANGED <<world, window, undefined, history>>

-----------------------------------------------------------------------------
(* globalUpdate().  Bodies move; no body appears or disappears.            *)

\* The entity whose body the ray met, if it is a cube; entt::null otherwise.
Target(b) == {e \in OfType({"NormalPhysics"}) : entities[e].body = b}

\* The view visits the players in the order of its pool.  A ray may meet any body, or none.
Process(e) ==
    /\ phase = "players" /\ e \in todo
    /\ todo' = todo \ {e}
    /\ IF entities[e].space
       THEN \E b \in bodies \cup {NoBody} :
                /\ deferred_destroy_queue' = deferred_destroy_queue \o SetToSeq(Target(b))
                /\ hit' = hit \cup Target(b)
       ELSE UNCHANGED <<deferred_destroy_queue, hit>>
    /\ m_resetRequested' = (m_resetRequested \/ entities[e].r)
    /\ UNCHANGED <<phase, entities, bodies, player_entities, window, undefined, standing, asked>>

Processed ==
    /\ phase = "players" /\ todo = {}
    /\ phase' = "destroy"
    /\ UNCHANGED <<world, window, todo, undefined, history>>

BugValid(e) == TRUE
Valid(e) == e \in DOMAIN entities

\* The body leaves the physics system and the entity the registry.
Destroyed(es) ==
    LET theirs == {entities[e].body : e \in es \cap DOMAIN entities} \ {NoBody}
    IN  /\ entities' = Restrict(entities, DOMAIN entities \ es)
        /\ bodies' = bodies \ theirs
        /\ undefined' = (undefined \/ ~(es \subseteq DOMAIN entities /\ theirs \subseteq bodies))

\* The deferred destruction: one entity may be in the queue twice.
DestroyNext ==
    /\ phase = "destroy" /\ deferred_destroy_queue # <<>>
    /\ IF Valid(Head(deferred_destroy_queue)) THEN Destroyed({Head(deferred_destroy_queue)})
       ELSE UNCHANGED <<entities, bodies, undefined>>
    /\ deferred_destroy_queue' = Tail(deferred_destroy_queue)
    /\ UNCHANGED <<phase, player_entities, m_resetRequested, window, todo, history>>

StartRender == phase' = "render" /\ todo' = Sessions

DestroyedAll ==
    /\ phase = "destroy" /\ deferred_destroy_queue = <<>>
    /\ IF m_resetRequested THEN phase' = "reset" /\ UNCHANGED todo ELSE StartRender
    /\ UNCHANGED <<world, window, undefined, history>>

Replaced == {"NormalPhysics", "SpecialOrbit"}

\* resetWorld(): what is left of the cubes goes ...
ResetDestroy ==
    /\ phase = "reset"
    /\ phase' = "create"
    /\ Destroyed(OfType(Replaced))
    /\ UNCHANGED <<player_entities, deferred_destroy_queue, m_resetRequested, window, todo, history>>

\* ... and create_entitys() makes them again.  CreateBody() answers nullptr when the system is
\* full, and the code dereferences it.
Create ==
    LET ids == Fresh(Cubes + 1, HeldEntities)
        bodyIds == Fresh(Cubes, bodies)
    IN  /\ phase = "create"
        /\ entities' = Beside(Created(ids, bodyIds), entities)
        /\ bodies' = bodies \cup Range(bodyIds)
        /\ undefined' = (undefined \/ Cardinality(bodies) + Cubes > MaxBodies)
        /\ m_resetRequested' = FALSE
        /\ StartRender
        /\ UNCHANGED <<player_entities, deferred_destroy_queue, window, history>>

-----------------------------------------------------------------------------
(* render() of each session                                                *)

\* The engine's buffer for the client.
Buffer(size) == [w |-> BufferWidth(size[1]), h |-> BufferHeight(size[2])]
\* The compute pass writes every pixel of the session's size, with or without a login before it.
PassFits(size, auth) ==
    LET w == SessionWidth(size[1], auth)
        h == SessionHeight(size[2], auth)
    IN  w = 0 \/ h = 0 \/ (w <= Buffer(size).w /\ h <= Buffer(size).h)
\* The last text goes into a view of 20 by 2 at (0, 3); the other is clipped.
TextViewFits(size) == SubViewFits(Buffer(size), 0, 3, 20, 2)

\* The workers draw from a world that nobody writes.
Render(p) ==
    /\ phase = "render" /\ p \in todo
    /\ todo' = todo \ {p}
    /\ UNCHANGED <<phase, world, window, undefined, history>>

EndFrame ==
    /\ phase = "render" /\ todo = {}
    /\ phase' = "receive"
    /\ standing' = OfType({"NormalPhysics"}) /\ hit' = {} /\ asked' = FALSE
    /\ UNCHANGED <<world, window, todo, undefined>>

Next ==
    \/ \E p \in Players : Join(p) \/ Disconnect(p) \/ Update(p) \/ Render(p)
    \/ Received \/ Updated
    \/ \E e \in todo : Process(e)
    \/ Processed \/ DestroyNext \/ DestroyedAll \/ ResetDestroy \/ Create \/ EndFrame

Spec == Init /\ [][Next]_vars

-----------------------------------------------------------------------------
(* Properties.                                                             *)

TypeOK ==
    /\ phase \in {"receive", "update", "players", "destroy", "reset", "create", "render"}
    /\ DOMAIN entities \subseteq Nat /\ Range(entities) \subseteq Entity
    /\ bodies \subseteq Nat \ {NoBody}
    /\ Sessions \subseteq Players /\ Range(window) \subseteq Windows
    /\ player_entities \in [Sessions -> Nat]
    /\ deferred_destroy_queue \in Seq(Nat)
    /\ {m_resetRequested, undefined, asked} \subseteq BOOLEAN

\* The registry and the physics system agree at every step of the frame, whatever is hit twice,
\* reset in the same frame or gone with its session: every body belongs to one entity, every
\* cube and the ground have one, there are never more than the system holds, and nothing is
\* destroyed twice.  The players in the registry are those of the sessions, one each.
EachBodyHasItsEntity ==
    LET solid == OfType({"Ground", "NormalPhysics"})
    IN  /\ {entities[e].body : e \in solid} = bodies
        /\ \A e, f \in solid : entities[e].body = entities[f].body => e = f
        /\ \A e \in DOMAIN entities \ solid : entities[e].body = NoBody
        /\ Cardinality(OfType({"Ground"})) = 1
        /\ Cardinality(bodies) <= MaxBodies
EachSessionHasItsPlayer ==
    /\ DOMAIN player_entities = Sessions
    /\ Range(player_entities) = OfType({"Player"})
    /\ \A p, q \in Sessions : player_entities[p] = player_entities[q] => p = q
ObjectsAreOwned == EachBodyHasItsEntity /\ EachSessionHasItsPlayer /\ ~undefined

\* What is drawn follows the keys of this frame and of no other: when somebody pressed r all
\* cubes are new, otherwise those are gone that a player hit, and no others; nothing is left to
\* destroy, and no reset to do, in a later frame.
WorldFollowsKeys ==
    phase = "render" =>
        LET cubes == OfType({"NormalPhysics"})
        IN  /\ IF asked THEN cubes \cap standing = {} /\ Cardinality(cubes) = Cubes
                ELSE cubes = standing \ hit
            /\ Cardinality(OfType({"SpecialOrbit"})) = 1
            /\ deferred_destroy_queue = <<>> /\ ~m_resetRequested

\* Drawing stays inside the buffer the engine has made for the client, whatever it announced,
\* except that a window announced narrower than 20 or lower than 5 has no room for the last
\* text, and that without a login the world hears of sides above 254 that the buffer has not.
DrawnInside ==
    phase = "render" => \A p \in todo :
        LET w == window[p][1]
            h == window[p][2]
        IN  /\ TextViewFits(window[p]) \/ w \in 1..19 \/ h \in 1..4
            /\ PassFits(window[p], TRUE)
            /\ PassFits(window[p], FALSE) \/ w > MaxSize \/ h > MaxSize
=============================================================================
