----------------------------- MODULE EcsProofs ------------------------------
(***************************************************************************)
(* The cube world, for any clients, windows, number of cubes and capacity  *)
(* of the physics system: registry, bodies and sessions agree at every     *)
(* step of the frame, and what is drawn follows the keys of that frame.    *)
(***************************************************************************)
EXTENDS EcsWorld, FiniteSetTheorems, TLAPS

(* Identifiers.                                                            *)

LEMMA IntervalIsFinite ==
    ASSUME NEW n \in Nat
    PROVE  IsFiniteSet(1..n) /\ Cardinality(1..n) = n
<1>1. IsFiniteSet(1..n)
  BY FS_Interval
<1>2. Cardinality(1..n) = IF 1 > n THEN 0 ELSE n - 1 + 1
  BY FS_Interval
<1> QED
  BY <1>1, <1>2

\* There are identifiers that nobody holds, however many are asked for, and Fresh() finds them.
LEMMA FreshIsNew ==
    ASSUME NEW n \in Nat, NEW held, IsFiniteSet(held)
    PROVE  /\ Fresh(n, held) \in [1..n -> Nat \ {0}]
           /\ IsInjective(Fresh(n, held))
           /\ \A k \in 1..n : Fresh(n, held)[k] \notin held
<1> DEFINE c == Cardinality(held)
           S == (1..n + c) \ held
           m == n + c
<1>1. c \in Nat /\ m \in Nat
  BY FS_CardinalityType
<1> HIDE DEF m
<1>2. IsFiniteSet(1..m) /\ Cardinality(1..m) = m
  BY <1>1, IntervalIsFinite
<1>3. IsFiniteSet((1..m) \ held) /\ Cardinality((1..m) \ held) = m - Cardinality((1..m) \cap held)
  BY <1>2, FS_Difference
<1> USE DEF m
<1>4. Cardinality((1..n + c) \cap held) <= c /\ Cardinality((1..n + c) \cap held) \in Nat
  BY FS_Intersection, FS_CardinalityType
<1>5. Cardinality(S) \in Nat /\ n <= Cardinality(S)
  <2>1. Cardinality(S) \in Nat
    BY <1>3, FS_CardinalityType
  <2> QED
    BY <1>1, <1>3, <1>4, <2>1
<1>6. PICK f \in Bijection(1..Cardinality(S), S) : TRUE
  BY <1>3, FS_CardinalityType DEF ExistsBijection
<1>7. f \in [1..Cardinality(S) -> S] /\ IsInjective(f)
  BY <1>6 DEF Bijection, Injection
<1> DEFINE g == [k \in 1..n |-> f[k]]
<1>8. g \in [1..n -> S] /\ IsInjective(g)
  <2>1. \A k \in 1..n : k \in 1..Cardinality(S)
    BY <1>5
  <2> HIDE DEF S
  <2>2. g \in [1..n -> S]
    BY <1>7, <2>1
  <2>3. \A a, b \in 1..n : g[a] = g[b] => a = b
    BY <1>7, <2>1 DEF IsInjective
  <2> QED
    BY <2>2, <2>3 DEF IsInjective
<1>9. \E ids \in [1..n -> S] : IsInjective(ids)
  BY <1>8
<1>10. Fresh(n, held) \in [1..n -> S] /\ IsInjective(Fresh(n, held))
  BY <1>9, Zenon DEF Fresh
<1>11. S \subseteq Nat \ {0} /\ \A e \in S : e \notin held
  BY <1>1
<1> QED
  BY <1>10, <1>11

\* A finite set as a sequence has each of its elements, and only those.
LEMMA SequenceOfSet ==
    ASSUME NEW S, IsFiniteSet(S)
    PROVE  SetToSeq(S) \in Seq(S) /\ Range(SetToSeq(S)) = S
<1> DEFINE n == Cardinality(S)
<1>1. n \in Nat /\ ExistsBijection(1..n, S)
  BY FS_CardinalityType
<1>2. \E f \in [1..n -> S] : IsInjective(f)
  BY <1>1 DEF ExistsBijection, Bijection, Injection
<1>3. SetToSeq(S) \in [1..n -> S] /\ IsInjective(SetToSeq(S))
  BY <1>2, Zenon DEF SetToSeq
<1>4. SetToSeq(S) \in Injection(1..n, S)
  BY <1>3 DEF Injection
<1>5. Cardinality(1..n) = n
  BY <1>1, IntervalIsFinite
<1>6. SetToSeq(S) \in Surjection(1..n, S)
  BY <1>4, <1>5, FS_Injection
<1>7. Range(SetToSeq(S)) = S
  BY <1>3, <1>6 DEF Surjection, Range
<1>8. SetToSeq(S) \in Seq(S)
  BY <1>1, <1>3
<1> QED
  BY <1>7, <1>8

\* The elements of a queue that is joined with another, and of what is left of it.
LEMMA RangeOfConcat ==
    ASSUME NEW S, NEW s \in Seq(S), NEW t \in Seq(S)
    PROVE  s \o t \in Seq(S) /\ Range(s \o t) = Range(s) \cup Range(t)
<1>1. s \o t \in Seq(S) /\ DOMAIN (s \o t) = 1..Len(s) + Len(t)
  OBVIOUS
<1>2. ASSUME NEW k \in 1..Len(s) PROVE (s \o t)[k] = s[k] /\ k \in DOMAIN (s \o t)
  BY <1>2
<1>3. ASSUME NEW k \in 1..Len(t)
      PROVE  (s \o t)[Len(s) + k] = t[k] /\ Len(s) + k \in DOMAIN (s \o t)
  BY <1>3
<1>4. ASSUME NEW k \in DOMAIN (s \o t)
      PROVE  (s \o t)[k] \in Range(s) \cup Range(t)
  <2>1. CASE k <= Len(s)
    BY <1>1, <1>2, <1>4, <2>1 DEF Range
  <2>2. CASE k > Len(s)
    <3>1. k - Len(s) \in 1..Len(t) /\ k = Len(s) + (k - Len(s))
      BY <1>1, <1>4, <2>2
    <3> QED
      BY <1>3, <3>1 DEF Range
  <2> QED
    BY <1>1, <2>1, <2>2
<1>5. Range(s) \cup Range(t) \subseteq Range(s \o t)
  <2>1. ASSUME NEW k \in 1..Len(s) PROVE s[k] \in Range(s \o t)
    BY <1>2 DEF Range
  <2>2. ASSUME NEW k \in 1..Len(t) PROVE t[k] \in Range(s \o t)
    BY <1>3 DEF Range
  <2>3. DOMAIN s = 1..Len(s) /\ DOMAIN t = 1..Len(t)
    OBVIOUS
  <2> QED
    BY <2>1, <2>2, <2>3, Zenon DEF Range
<1>6. Range(s \o t) \subseteq Range(s) \cup Range(t)
  BY <1>4 DEF Range
<1> QED
  BY <1>1, <1>5, <1>6

LEMMA RangeOfTail ==
    ASSUME NEW S, NEW s \in Seq(S), s # <<>>
    PROVE  /\ Head(s) \in S /\ Tail(s) \in Seq(S)
           /\ Head(s) \in Range(s)
           /\ Range(Tail(s)) \subseteq Range(s)
           /\ Range(s) \ {Head(s)} \subseteq Range(Tail(s))
<1>1. Head(s) \in S /\ Tail(s) \in Seq(S) /\ Len(s) \in Nat \ {0} /\ Head(s) = s[1]
  OBVIOUS
<1>2. Head(s) \in Range(s)
  BY <1>1 DEF Range
<1>3. ASSUME NEW k \in DOMAIN Tail(s) PROVE Tail(s)[k] \in Range(s)
  <2>1. k + 1 \in DOMAIN s /\ Tail(s)[k] = s[k + 1]
    BY <1>1, <1>3
  <2> QED
    BY <2>1 DEF Range
<1>4. ASSUME NEW k \in DOMAIN s, s[k] # Head(s) PROVE s[k] \in Range(Tail(s))
  <2>1. k - 1 \in DOMAIN Tail(s) /\ Tail(s)[k - 1] = s[k]
    BY <1>1, <1>4
  <2> QED
    BY <2>1 DEF Range
<1> QED
  BY <1>1, <1>2, <1>3, <1>4 DEF Range

-----------------------------------------------------------------------------
(* The invariant.                                                          *)

Solid == OfType({"Ground", "NormalPhysics"})
Standing == OfType({"NormalPhysics"})
PlayersOf == OfType({"Player"})

Types ==
    /\ entities \in [DOMAIN entities -> Entity]
    /\ DOMAIN entities \subseteq Nat /\ IsFiniteSet(DOMAIN entities)
    /\ bodies \subseteq Nat \ {NoBody} /\ IsFiniteSet(bodies)
    /\ window \in [Sessions -> Windows] /\ Sessions \subseteq Players
    /\ player_entities \in [Sessions -> Nat]
    /\ deferred_destroy_queue \in Seq(Nat)
    /\ m_resetRequested \in BOOLEAN /\ asked \in BOOLEAN
    /\ standing \subseteq Nat /\ IsFiniteSet(standing)

\* Bodies and the entities that have one, by the entity.
BodyInv ==
    /\ \A e \in Solid : entities[e].body \in bodies
    /\ \A b \in bodies : \E e \in Solid : entities[e].body = b
    /\ \A e, f \in Solid : entities[e].body = entities[f].body => e = f
    /\ \A e \in DOMAIN entities \ Solid : entities[e].body = NoBody
    /\ \E g \in DOMAIN entities : OfType({"Ground"}) = {g}
    /\ Cardinality(bodies) <= Cubes + 1

\* Who is still to update, to be processed or to draw; there is one orbit but for the moment
\* of the reset in which there is none of what is replaced.
PhaseInv ==
    /\ phase \in {"receive", "update", "players", "destroy", "reset", "create", "render"}
    /\ phase \in {"update", "render"} => todo \subseteq Sessions
    /\ phase = "players" => todo \subseteq PlayersOf
    /\ IF phase = "create" THEN OfType(Replaced) = {} ELSE \E o \in DOMAIN entities : OfType({"SpecialOrbit"}) = {o}

\* What has been hit, and how much of it is destroyed.
HitInv ==
    /\ hit \subseteq standing
    /\ phase \in {"receive", "update"} => hit = {}
    /\ phase \in {"receive", "update", "players"} => Standing = standing
    /\ phase \notin {"players", "destroy"} => deferred_destroy_queue = <<>>
    /\ phase = "players" => Range(deferred_destroy_queue) = hit
    /\ phase = "destroy" =>
          /\ Range(deferred_destroy_queue) \subseteq hit
          /\ standing \cap DOMAIN entities = Standing
          /\ standing \ hit \subseteq Standing
          /\ Standing \subseteq standing
          /\ Standing \cap hit \subseteq Range(deferred_destroy_queue)

\* How far the keys of this frame have come: with the players, in the request, in the world.
KeyInv ==
    /\ phase \in {"receive", "update", "render"} => ~m_resetRequested
    /\ phase = "receive" => ~asked
    /\ phase = "update" => (asked <=> \E p \in Sessions \ todo : entities[player_entities[p]].r)
    /\ phase = "players" => (asked <=> m_resetRequested \/ \E e \in todo : entities[e].r)
    /\ phase = "destroy" => (asked <=> m_resetRequested)
    /\ phase \in {"reset", "create"} => asked
    /\ phase = "render" =>
          IF asked THEN Standing \cap standing = {} /\ Cardinality(Standing) = Cubes
          ELSE Standing = standing \ hit

OwnedInv == BodyInv /\ EachSessionHasItsPlayer /\ undefined = FALSE
IInv == Types /\ OwnedInv /\ PhaseInv /\ HitInv /\ KeyInv

-----------------------------------------------------------------------------
(* What the invariant says.                                                *)

LEMMA TypesSay ==
    ASSUME IInv
    PROVE  TypeOK
<1>1. DOMAIN entities \subseteq Nat /\ Range(entities) \subseteq Entity
  BY DEF IInv, Types, Range
<1>2. Sessions \subseteq Players /\ Range(window) \subseteq Windows
  BY DEF IInv, Types, Range, Sessions
<1>3. {m_resetRequested, undefined, asked} \subseteq BOOLEAN
  BY DEF IInv, Types, OwnedInv
<1> QED
  BY <1>1, <1>2, <1>3 DEF TypeOK, IInv, Types, PhaseInv

LEMMA BodiesSay ==
    ASSUME IInv
    PROVE  EachBodyHasItsEntity
<1>1. {entities[e].body : e \in Solid} = bodies
  BY DEF IInv, OwnedInv, BodyInv
<1>2. Cardinality(OfType({"Ground"})) = 1
  BY FS_Singleton DEF IInv, OwnedInv, BodyInv
<1>3. Cardinality(bodies) <= MaxBodies
  <2>1. Cardinality(bodies) \in Nat
    BY FS_CardinalityType DEF IInv, Types
  <2> QED
    BY <2>1, CubesAssumption DEF IInv, OwnedInv, BodyInv
<1> QED
  BY <1>1, <1>2, <1>3 DEF EachBodyHasItsEntity, IInv, OwnedInv, BodyInv, Solid

LEMMA KeysSay ==
    ASSUME IInv
    PROVE  WorldFollowsKeys
<1> SUFFICES ASSUME phase = "render" PROVE WorldFollowsKeys
  BY DEF WorldFollowsKeys
<1>1. Cardinality(OfType({"SpecialOrbit"})) = 1
  BY FS_Singleton DEF IInv, PhaseInv
<1>2. deferred_destroy_queue = <<>> /\ ~m_resetRequested
  BY DEF IInv, HitInv, KeyInv
<1> QED
  BY <1>1, <1>2 DEF WorldFollowsKeys, IInv, KeyInv, Standing

-----------------------------------------------------------------------------
(* The world as it is made.                                                *)

\* What create_entitys() makes of identifiers that are all different.
CreatedWell(ids, bodyIds) ==
    LET made == Created(ids, bodyIds)
        cubes == {e \in Range(ids) : made[e].type = "NormalPhysics"}
    IN  /\ made \in [Range(ids) -> Entity]
        /\ IsFiniteSet(Range(ids)) /\ IsFiniteSet(Range(bodyIds))
        /\ Cardinality(Range(bodyIds)) = Cubes
        /\ {e \in Range(ids) : made[e].type = "SpecialOrbit"} = {ids[Cubes + 1]}
        /\ made[ids[Cubes + 1]].body = NoBody
        /\ \A e \in Range(ids) : made[e].type \in Replaced
        /\ \A e \in cubes : made[e].body \in Range(bodyIds)
        /\ \A e, f \in cubes : made[e].body = made[f].body => e = f
        /\ \A b \in Range(bodyIds) : \E e \in cubes : made[e].body = b
        /\ Cardinality(cubes) = Cubes

LEMMA CreatedFacts ==
    ASSUME NEW ids \in [1..Cubes + 1 -> Nat], IsInjective(ids),
           NEW bodyIds \in [1..Cubes -> Nat \ {NoBody}], IsInjective(bodyIds)
    PROVE  CreatedWell(ids, bodyIds)
<1> DEFINE made == Created(ids, bodyIds)
           cubes == {e \in Range(ids) : made[e].type = "NormalPhysics"}
           last == ids[Cubes + 1]
<1>1. Cubes \in Nat /\ DOMAIN ids = 1..Cubes + 1 /\ DOMAIN bodyIds = 1..Cubes
  BY CubesAssumption
<1>2. Range(ids) = {ids[k] : k \in 1..Cubes + 1} /\ Range(bodyIds) = {bodyIds[k] : k \in 1..Cubes}
  BY <1>1 DEF Range
<1>3. last \in Range(ids) /\ made[last] = Make("SpecialOrbit", NoBody)
  BY <1>1, <1>2 DEF Created
<1>4. ASSUME NEW k \in 1..Cubes
      PROVE  /\ ids[k] \in Range(ids) /\ ids[k] # last
             /\ made[ids[k]].type = "NormalPhysics" /\ made[ids[k]].body = bodyIds[k]
             /\ made[ids[k]] \in Entity
  <2>1. k \in 1..Cubes + 1 /\ Cubes + 1 \in 1..Cubes + 1 /\ k # Cubes + 1
    BY <1>1, <1>4
  <2>2. ids[k] \in Range(ids) /\ ids[k] # last
    BY <1>1, <1>2, <2>1 DEF IsInjective
  <2>3. \A j \in 1..Cubes : ids[j] = ids[k] => j = k
    BY <1>1, <2>1 DEF IsInjective
  <2>4. (CHOOSE j \in 1..Cubes : ids[j] = ids[k]) = k
    BY <1>4, <2>3, Zenon
  <2>5. made[ids[k]] = Make("NormalPhysics", bodyIds[k])
    BY <2>2, <2>4 DEF Created
  <2>6. bodyIds[k] \in Nat
    BY <1>4
  <2>7. \A b \in Nat : LET m == Make("NormalPhysics", b)
                     IN  m \in Entity /\ m.type = "NormalPhysics" /\ m.body = b
    BY DEF Make, Entity
  <2> QED
    BY <2>2, <2>5, <2>6, <2>7, Zenon
<1>5. ASSUME NEW e \in Range(ids), e # last
      PROVE  \E k \in 1..Cubes : e = ids[k]
  BY <1>1, <1>2, <1>5
<1> DEFINE n == Cubes
<1> HIDE DEF made, last
<1>6. cubes = {ids[k] : k \in 1..Cubes}
  <2>1. made[last].type # "NormalPhysics"
    BY <1>3 DEF Make
  <2>2. \A k \in 1..Cubes : made[ids[k]].type = "NormalPhysics"
    BY <1>4
  <2> QED
    BY <1>4, <1>5, <2>1, <2>2
<1>7. \A e \in Range(ids) : made[e] \in Entity /\ made[e].type \in Replaced
  <2>1. ASSUME NEW k \in 1..Cubes PROVE made[ids[k]] \in Entity /\ made[ids[k]].type \in Replaced
    BY <1>4, <2>1 DEF Replaced
  <2>2. made[last] \in Entity /\ made[last].type \in Replaced
    BY <1>3 DEF Make, Entity, Replaced, NoBody
  <2> QED
    BY <1>5, <2>1, <2>2
<1>8. made \in [Range(ids) -> Entity]
  BY <1>7 DEF Created, made
<1>9. {e \in Range(ids) : made[e].type = "SpecialOrbit"} = {last} /\ made[last].body = NoBody
  <2>1. made[last].type = "SpecialOrbit" /\ made[last].body = NoBody
    BY <1>3 DEF Make
  <2>2. \A k \in 1..Cubes : made[ids[k]].type # "SpecialOrbit"
    BY <1>4
  <2> QED
    BY <1>3, <1>5, <2>1, <2>2
<1>10. \A k \in 1..Cubes : made[ids[k]].body = bodyIds[k] /\ ids[k] \in cubes
  BY <1>4, <1>6
<1>11. \A e \in cubes : made[e].body \in Range(bodyIds)
  BY <1>2, <1>6, <1>10
<1>12. \A e, f \in cubes : made[e].body = made[f].body => e = f
  BY <1>1, <1>6, <1>10 DEF IsInjective
<1>13. \A b \in Range(bodyIds) : \E e \in cubes : made[e].body = b
  BY <1>2, <1>10
<1>14. IsFiniteSet(1..Cubes) /\ Cardinality(1..Cubes) = Cubes /\ IsFiniteSet(1..Cubes + 1)
  BY <1>1, IntervalIsFinite
<1>15. IsFiniteSet(Range(ids))
  <2>1. ids \in Surjection(1..Cubes + 1, Range(ids))
    BY <1>1 DEF Surjection, Range
  <2> QED
    BY <1>14, <2>1, FS_Surjection
<1>16. IsFiniteSet(Range(bodyIds)) /\ Cardinality(Range(bodyIds)) = Cubes
  <2>1. bodyIds \in Surjection(1..Cubes, Range(bodyIds)) /\ bodyIds \in Injection(1..Cubes, Range(bodyIds))
    BY <1>1 DEF Surjection, Injection, Range
  <2> QED
    BY <1>14, <2>1, FS_Surjection
<1>17. Cardinality(cubes) = Cubes
  <2> DEFINE g == [k \in 1..Cubes |-> ids[k]]
  <2>1. g \in [1..Cubes -> cubes] /\ \A k \in 1..Cubes : g[k] = ids[k]
    BY <1>10
  <2>2. g \in Surjection(1..Cubes, cubes)
    BY <1>6, <2>1 DEF Surjection
  <2>3. \A j, k \in 1..Cubes : ids[j] = ids[k] => j = k
    BY <1>1 DEF IsInjective
  <2>4. g \in Injection(1..Cubes, cubes)
    BY <2>1, <2>3 DEF Injection, IsInjective
  <2> QED
    BY <1>14, <2>2, <2>4, FS_Surjection
<1> QED
  BY <1>7, <1>8, <1>9, <1>11, <1>12, <1>13, <1>15, <1>16, <1>17 DEF made, last, CreatedWell

LEMMA InitIInv == Init => IInv
<1> SUFFICES ASSUME Init PROVE IInv
  OBVIOUS
<1> DEFINE ids == [k \in 1..Cubes + 1 |-> k + 1]
           bodyIds == [k \in 1..Cubes |-> k + 1]
           made == Created(ids, bodyIds)
           cubes == {e \in Range(ids) : made[e].type = "NormalPhysics"}
           ground == Make("Ground", 1)
<1>1. Cubes \in Nat
  BY CubesAssumption
<1>2. ids \in [1..Cubes + 1 -> Nat] /\ IsInjective(ids) /\ bodyIds \in [1..Cubes -> Nat \ {NoBody}] /\ IsInjective(bodyIds)
  BY <1>1 DEF IsInjective, NoBody
<1> HIDE DEF made
<1>3. /\ made \in [Range(ids) -> Entity]
      /\ IsFiniteSet(Range(ids)) /\ IsFiniteSet(Range(bodyIds))
      /\ Cardinality(Range(bodyIds)) = Cubes
      /\ {e \in Range(ids) : made[e].type = "SpecialOrbit"} = {ids[Cubes + 1]}
      /\ made[ids[Cubes + 1]].body = NoBody
      /\ \A e \in Range(ids) : made[e].type \in Replaced
      /\ \A e \in cubes : made[e].body \in Range(bodyIds)
      /\ \A e, f \in cubes : made[e].body = made[f].body => e = f
      /\ \A b \in Range(bodyIds) : \E e \in cubes : made[e].body = b
  <2> HIDE DEF ids, bodyIds
  <2>1. CreatedWell(ids, bodyIds)
    BY <1>2, CreatedFacts, Zenon
  <2> QED
    BY <2>1, Zenon DEF made, CreatedWell
<1>4. Range(ids) = 2..Cubes + 2 /\ Range(bodyIds) = 2..Cubes + 1
  <2>1. \A n \in 2..Cubes + 2 : n = ids[n - 1] /\ n - 1 \in 1..Cubes + 1
    BY <1>1
  <2>2. \A n \in 2..Cubes + 1 : n = bodyIds[n - 1] /\ n - 1 \in 1..Cubes
    BY <1>1
  <2> QED
    BY <1>1, <2>1, <2>2 DEF Range
<1> HIDE DEF ids, bodyIds
<1>5. ground \in Entity /\ ground.type = "Ground" /\ ground.body = 1
  BY DEF Make, Entity
<1> HIDE DEF ground
<1>6. /\ DOMAIN entities = {1} \cup Range(ids)
      /\ entities[1] = ground
      /\ \A e \in Range(ids) : entities[e] = made[e]
  <2>1. entities = Beside(One(1, ground), made)
    BY DEF Init, ids, bodyIds, made, ground
  <2>2. entities = [e \in {1} \cup Range(ids) |-> IF e \in {1} THEN ground ELSE made[e]]
    BY <1>3, <2>1 DEF Beside, One
  <2> QED
    BY <1>1, <1>4, <2>2
<1>7. 1 \notin Range(ids) /\ Range(ids) \subseteq Nat /\ 1 \notin Range(bodyIds)
  BY <1>1, <1>4
<1>8. OfType({"Ground"}) = {1} /\ OfType({"Player"}) = {} /\ OfType({"NormalPhysics"}) = cubes
      /\ OfType({"SpecialOrbit"}) = {ids[Cubes + 1]} /\ Solid = {1} \cup cubes
  BY <1>3, <1>5, <1>6, <1>7 DEF OfType, Replaced, Solid
<1>9. bodies = {1} \cup Range(bodyIds)
  BY <1>1, <1>4 DEF Init
<1>10. IsFiniteSet(bodies) /\ Cardinality(bodies) <= Cubes + 1 /\ IsFiniteSet(DOMAIN entities)
  <2>1. bodies = Range(bodyIds) \cup {1} /\ DOMAIN entities = Range(ids) \cup {1}
    BY <1>6, <1>9
  <2>2. IsFiniteSet(Range(bodyIds) \cup {1}) /\ Cardinality(Range(bodyIds) \cup {1}) = Cubes + 1
    BY <1>3, <1>7, FS_AddElement
  <2>3. IsFiniteSet(Range(ids) \cup {1})
    BY <1>3, FS_AddElement
  <2> QED
    BY <1>1, <2>1, <2>2, <2>3
<1>11. Types
  <2>1. entities \in [DOMAIN entities -> Entity] /\ DOMAIN entities \subseteq Nat
    <3>1. \A e \in DOMAIN entities : entities[e] \in Entity
      BY <1>3, <1>5, <1>6, Zenon
    <3>2. entities = [e \in DOMAIN entities |-> entities[e]]
      BY <1>6 DEF Init, Beside
    <3> QED
      BY <1>6, <1>7, <3>1, <3>2
  <2>2. bodies \subseteq Nat \ {NoBody}
    BY <1>1, <1>4, <1>9 DEF NoBody
  <2>3. standing \subseteq Nat /\ IsFiniteSet(standing)
    <3>1. standing = cubes /\ cubes \subseteq DOMAIN entities
      BY <1>6, <1>8 DEF Init
    <3> QED
      BY <1>10, <2>1, <3>1, FS_Subset
  <2>4. window \in [Sessions -> Windows] /\ Sessions \subseteq Players /\ player_entities \in [Sessions -> Nat]
    BY DEF Init, Sessions
  <2>5. deferred_destroy_queue = <<>> /\ m_resetRequested = FALSE /\ asked = FALSE
    BY DEF Init
  <2>6. deferred_destroy_queue \in Seq(Nat)
    BY <2>5
  <2> QED
    BY <1>10, <2>1, <2>2, <2>3, <2>4, <2>5, <2>6, Zenon DEF Types
<1>12. BodyInv
  <2>1. \A e \in cubes : entities[e] = made[e] /\ e # 1
    BY <1>6, <1>7
  <2>2. \A e \in Range(bodyIds) : e # 1
    BY <1>7
  <2>3. \A e \in DOMAIN entities \ Solid : e \in Range(ids) /\ made[e].type = "SpecialOrbit" /\ entities[e].body = made[e].body
    BY <1>3, <1>6, <1>8 DEF Replaced
  <2>4. \A e \in DOMAIN entities \ Solid : entities[e].body = NoBody
    BY <1>3, <2>3
  <2>5. \A e \in Solid : entities[e].body \in bodies
    BY <1>3, <1>5, <1>6, <1>8, <1>9, <2>1
  <2>6. \A b \in bodies : \E e \in Solid : entities[e].body = b
    <3>1. \A b \in Range(bodyIds) : \E e \in cubes : entities[e].body = b
      BY <1>3, <2>1
    <3> QED
      BY <1>5, <1>6, <1>8, <1>9, <3>1
  <2>7. \A e, f \in Solid : entities[e].body = entities[f].body => e = f
    BY <1>3, <1>5, <1>6, <1>8, <1>9, <2>1, <2>2
  <2> QED
    BY <1>6, <1>8, <1>10, <2>4, <2>5, <2>6, <2>7 DEF BodyInv
<1>13. EachSessionHasItsPlayer /\ undefined = FALSE
  BY <1>8 DEF Init, EachSessionHasItsPlayer, Sessions, Range
<1>14. PhaseInv
  <2>1. ids[Cubes + 1] \in DOMAIN entities
    BY <1>6, <1>8 DEF OfType
  <2> QED
    BY <1>8, <2>1 DEF Init, PhaseInv
<1>15. HitInv /\ KeyInv
  BY DEF Init, HitInv, KeyInv, Standing
<1> QED
  BY <1>11, <1>12, <1>13, <1>14, <1>15 DEF IInv, OwnedInv

-----------------------------------------------------------------------------
(* The steps that leave the world as it is.                                *)

\* What joins, or the start of a phase, cannot disturb when nothing in the world changes.
LEMMA WorldKept ==
    ASSUME IInv, UNCHANGED <<world, window, undefined>>
    PROVE  /\ OwnedInv'
           /\ Sessions' = Sessions /\ Standing' = Standing /\ PlayersOf' = PlayersOf
           /\ \A types : OfType(types)' = OfType(types)
           /\ UNCHANGED <<standing, asked>> => Types'
<1> USE DEF world
<1>1. entities' = entities /\ bodies' = bodies /\ player_entities' = player_entities /\ window' = window
  OBVIOUS
<1>2. \A types : OfType(types)' = OfType(types)
  BY <1>1 DEF OfType
<1>3. Sessions' = Sessions /\ Standing' = Standing /\ PlayersOf' = PlayersOf /\ Solid' = Solid
  BY <1>1 DEF Sessions, Standing, PlayersOf, Solid, OfType
<1>4. BodyInv'
  BY <1>1, <1>2, <1>3 DEF IInv, OwnedInv, BodyInv
<1>5. EachSessionHasItsPlayer'
  BY <1>1, <1>2, <1>3 DEF IInv, OwnedInv, EachSessionHasItsPlayer
<1>6. UNCHANGED <<standing, asked>> => Types'
  BY <1>1, <1>3 DEF IInv, Types
<1> QED
  BY <1>2, <1>3, <1>4, <1>5, <1>6 DEF IInv, OwnedInv

\* The players of the world are those of the sessions.
LEMMA PlayerOfSession ==
    ASSUME IInv
    PROVE  /\ \A p \in Sessions : player_entities[p] \in PlayersOf /\ player_entities[p] \in DOMAIN entities
           /\ \A e \in PlayersOf : \E p \in Sessions : e = player_entities[p]
BY DEF IInv, OwnedInv, EachSessionHasItsPlayer, Range, PlayersOf, OfType

LEMMA QuietSteps ==
    ASSUME IInv, Received \/ Updated \/ Processed \/ DestroyedAll \/ (\E p \in Players : Render(p)) \/ EndFrame
    PROVE  IInv'
<1>1. UNCHANGED <<world, window, undefined>>
  BY DEF Received, Updated, Processed, DestroyedAll, Render, EndFrame
<1>2. /\ OwnedInv'
      /\ Sessions' = Sessions /\ Standing' = Standing /\ PlayersOf' = PlayersOf
      /\ \A types : OfType(types)' = OfType(types)
      /\ UNCHANGED <<standing, asked>> => Types'
  BY <1>1, WorldKept
<1>3. /\ entities' = entities /\ player_entities' = player_entities /\ deferred_destroy_queue' = deferred_destroy_queue
      /\ m_resetRequested' = m_resetRequested
  BY <1>1 DEF world
<1>4. Standing \subseteq DOMAIN entities /\ IsFiniteSet(Standing) /\ Standing \subseteq Nat
  <2>1. Standing \subseteq DOMAIN entities
    BY DEF Standing, OfType
  <2> QED
    BY <2>1, FS_Subset DEF IInv, Types
<1>5. CASE Received
  <2>1. UNCHANGED <<standing, asked, hit>> /\ phase' = "update" /\ phase = "receive" /\ todo' = Sessions
    BY <1>5 DEF Received, history
  <2>2. PhaseInv'
    BY <1>2, <1>3, <2>1 DEF IInv, PhaseInv
  <2>3. HitInv' /\ KeyInv'
    BY <1>2, <1>3, <2>1 DEF IInv, HitInv, KeyInv
  <2> QED
    BY <1>2, <2>1, <2>2, <2>3 DEF IInv
<1>6. CASE Updated
  <2>1. UNCHANGED <<standing, asked, hit>> /\ phase' = "players" /\ phase = "update" /\ todo = {} /\ todo' = PlayersOf
    BY <1>6 DEF Updated, history, PlayersOf
  <2>2. PhaseInv'
    BY <1>2, <1>3, <2>1 DEF IInv, PhaseInv
  <2>3. HitInv'
    BY <1>2, <1>3, <2>1 DEF IInv, HitInv, Range
  <2>4. asked <=> \E e \in PlayersOf : entities[e].r
    BY <2>1, PlayerOfSession DEF IInv, KeyInv
  <2>5. KeyInv'
    BY <1>2, <1>3, <2>1, <2>4 DEF IInv, KeyInv
  <2> QED
    BY <1>2, <2>1, <2>2, <2>3, <2>5 DEF IInv
<1>7. CASE Processed
  <2>1. UNCHANGED <<standing, asked, hit>> /\ phase' = "destroy" /\ phase = "players" /\ todo = {}
    BY <1>7 DEF Processed, history
  <2>2. PhaseInv'
    BY <1>2, <1>3, <2>1 DEF IInv, PhaseInv
  <2>3. HitInv' /\ KeyInv'
    BY <1>2, <1>3, <1>4, <2>1 DEF IInv, HitInv, KeyInv
  <2> QED
    BY <1>2, <2>1, <2>2, <2>3 DEF IInv
<1>8. CASE DestroyedAll
  <2>1. UNCHANGED <<standing, asked, hit>> /\ phase = "destroy" /\ deferred_destroy_queue = <<>>
    BY <1>8 DEF DestroyedAll, history
  <2>2. IF m_resetRequested THEN phase' = "reset" ELSE phase' = "render" /\ todo' = Sessions
    BY <1>8 DEF DestroyedAll, StartRender
  <2>3. m_resetRequested \in BOOLEAN /\ Range(deferred_destroy_queue) = {}
    BY <2>1 DEF IInv, Types, Range
  <2>4. PhaseInv'
    BY <1>2, <1>3, <2>1, <2>2, <2>3 DEF IInv, PhaseInv
  <2>5. HitInv'
    BY <1>2, <1>3, <2>1, <2>2, <2>3 DEF IInv, HitInv
  <2>6. asked <=> m_resetRequested
    BY <2>1 DEF IInv, KeyInv
  <2>7. Standing = standing \ hit
    BY <2>1, <2>3 DEF IInv, HitInv
  <2>8. KeyInv'
    BY <1>2, <1>3, <2>1, <2>2, <2>3, <2>6, <2>7 DEF KeyInv
  <2> QED
    BY <1>2, <2>1, <2>4, <2>5, <2>8 DEF IInv
<1>9. ASSUME NEW p \in Players, Render(p) PROVE IInv'
  <2>1. UNCHANGED <<standing, asked, hit>> /\ phase = "render" /\ phase' = "render" /\ todo' \subseteq todo
    BY <1>9 DEF Render, history
  <2>2. PhaseInv'
    BY <1>2, <1>3, <2>1 DEF IInv, PhaseInv
  <2>3. HitInv' /\ KeyInv'
    BY <1>2, <1>3, <2>1 DEF IInv, HitInv, KeyInv
  <2> QED
    BY <1>2, <2>1, <2>2, <2>3 DEF IInv
<1>10. CASE EndFrame
  <2>1. /\ phase = "render" /\ phase' = "receive"
        /\ standing' = Standing /\ hit' = {} /\ asked' = FALSE
    BY <1>10 DEF EndFrame, Standing
  <2>2. PhaseInv'
    BY <1>2, <1>3, <2>1 DEF IInv, PhaseInv
  <2>3. HitInv' /\ KeyInv'
    BY <1>2, <1>3, <2>1 DEF IInv, HitInv, KeyInv
  <2>4. Types'
    BY <1>1, <1>2, <1>3, <1>4, <2>1 DEF IInv, Types, world
  <2> QED
    BY <1>2, <2>2, <2>3, <2>4 DEF IInv
<1> QED
  BY <1>5, <1>6, <1>7, <1>8, <1>9, <1>10

-----------------------------------------------------------------------------
(* The steps that change players only.                                     *)

LEMMA HeldIsFinite ==
    ASSUME IInv
    PROVE  IsFiniteSet(HeldEntities)
<1>1. Range(player_entities) \subseteq DOMAIN entities
  BY DEF IInv, OwnedInv, EachSessionHasItsPlayer, OfType
<1>2. IsFiniteSet(Range(deferred_destroy_queue))
  <2>1. IsFiniteSet(1..Len(deferred_destroy_queue)) /\ DOMAIN deferred_destroy_queue = 1..Len(deferred_destroy_queue)
    BY IntervalIsFinite DEF IInv, Types
  <2>2. deferred_destroy_queue \in Surjection(1..Len(deferred_destroy_queue), Range(deferred_destroy_queue))
    BY <2>1 DEF Surjection, Range, IInv, Types
  <2> QED
    BY <2>1, <2>2, FS_Surjection
<1>3. hit \subseteq standing
  BY DEF IInv, HitInv
<1>4. HeldEntities = (DOMAIN entities \cup Range(deferred_destroy_queue)) \cup standing
  BY <1>1, <1>3 DEF HeldEntities
<1>5. IsFiniteSet(DOMAIN entities \cup Range(deferred_destroy_queue))
  BY <1>2, FS_Union DEF IInv, Types
<1> QED
  BY <1>4, <1>5, FS_Union DEF IInv, Types

\* Players come, go and press keys: bodies and what has one stay as they are.
LEMMA PlayersChange ==
    ASSUME IInv, UNCHANGED bodies,
           \A e \in DOMAIN entities' \cap DOMAIN entities :
               entities'[e].type = entities[e].type /\ entities'[e].body = entities[e].body,
           \A e \in DOMAIN entities' \ DOMAIN entities :
               entities'[e].type = "Player" /\ entities'[e].body = NoBody,
           \A e \in DOMAIN entities \ DOMAIN entities' : entities[e].type = "Player"
    PROVE  /\ BodyInv'
           /\ Standing' = Standing
           /\ OfType({"SpecialOrbit"})' = OfType({"SpecialOrbit"})
           /\ \A o \in OfType({"SpecialOrbit"}) : o \in DOMAIN entities'
<1>1. \A types : "Player" \notin types => OfType(types)' = OfType(types)
  BY DEF OfType
<1>2. Standing' = Standing /\ Solid' = Solid /\ OfType({"Ground"})' = OfType({"Ground"})
  BY <1>1 DEF Standing, Solid
<1>3. OfType({"SpecialOrbit"})' = OfType({"SpecialOrbit"})
  BY <1>1
<1>4. \A e \in Solid : entities'[e].body = entities[e].body /\ e \in DOMAIN entities'
  <2>1. \A e \in Solid' : e \in DOMAIN entities'
    BY DEF Solid, OfType
  <2>2. \A e \in Solid : e \in DOMAIN entities
    BY DEF Solid, OfType
  <2> QED
    BY <1>2, <2>1, <2>2
<1>5. \A e \in DOMAIN entities' \ Solid' : entities'[e].body = NoBody
  BY <1>2 DEF IInv, OwnedInv, BodyInv
<1>6. \A e \in Solid' : entities'[e].body \in bodies'
  BY <1>2, <1>4 DEF IInv, OwnedInv, BodyInv
<1>7. \A b \in bodies' : \E e \in Solid' : entities'[e].body = b
  BY <1>2, <1>4 DEF IInv, OwnedInv, BodyInv
<1>8. \A e, f \in Solid' : entities'[e].body = entities'[f].body => e = f
  BY <1>2, <1>4 DEF IInv, OwnedInv, BodyInv
<1>9. \E g \in DOMAIN entities' : OfType({"Ground"})' = {g}
  <2>1. PICK g \in DOMAIN entities : OfType({"Ground"}) = {g}
    BY DEF IInv, OwnedInv, BodyInv
  <2>2. g \in Solid
    BY <2>1 DEF OfType, Solid
  <2> QED
    BY <1>2, <1>4, <2>1, <2>2
<1>10. Cardinality(bodies') <= Cubes + 1
  BY DEF IInv, OwnedInv, BodyInv
<1>11. BodyInv'
  BY <1>5, <1>6, <1>7, <1>8, <1>9, <1>10 DEF BodyInv
<1>12. \A o \in OfType({"SpecialOrbit"})' : o \in DOMAIN entities'
  BY DEF OfType
<1> QED
  BY <1>2, <1>3, <1>11, <1>12

LEMMA JoinKeepsIInv ==
    ASSUME IInv, NEW p \in Players, Join(p)
    PROVE  IInv'
<1> DEFINE e == Fresh(1, HeldEntities)[1]
           made == Make("Player", NoBody)
<1>1. Fresh(1, HeldEntities) \in [1..1 -> Nat \ {0}] /\ \A k \in 1..1 : Fresh(1, HeldEntities)[k] \notin HeldEntities
  BY HeldIsFinite, FreshIsNew
<1>2. e \in Nat /\ e \notin HeldEntities
  BY <1>1
<1>3. /\ phase = "receive" /\ p \notin Sessions
      /\ entities' = Beside(One(e, made), entities)
      /\ player_entities' = [q \in DOMAIN player_entities \cup {p} |-> IF q = p THEN e ELSE player_entities[q]]
      /\ UNCHANGED <<phase, bodies, deferred_destroy_queue, m_resetRequested, todo, undefined, standing, hit, asked>>
  BY DEF Join, onPlayerConnect, history
<1>4. PICK size \in Windows : window' = [q \in Sessions \cup {p} |-> IF q = p THEN size ELSE window[q]]
  BY DEF Join
<1>5. made \in Entity /\ made.type = "Player" /\ made.body = NoBody
  BY DEF Make, Entity, NoBody
<1> HIDE DEF e, made
<1>6. e \notin DOMAIN entities /\ e \notin Range(player_entities)
  BY <1>2 DEF HeldEntities
<1>7. entities' = [x \in {e} \cup DOMAIN entities |-> IF x \in {e} THEN made ELSE entities[x]]
  BY <1>3 DEF Beside, One
<1>8. DOMAIN entities' = {e} \cup DOMAIN entities /\ entities'[e] = made /\ \A x \in DOMAIN entities : entities'[x] = entities[x]
  BY <1>6, <1>7
<1>9. /\ BodyInv' /\ Standing' = Standing /\ OfType({"SpecialOrbit"})' = OfType({"SpecialOrbit"})
      /\ \A o \in OfType({"SpecialOrbit"}) : o \in DOMAIN entities'
  BY <1>3, <1>5, <1>8, PlayersChange
<1>10. Sessions' = Sessions \cup {p} /\ DOMAIN player_entities = Sessions
  BY <1>4 DEF Sessions, IInv, Types
<1>11. EachSessionHasItsPlayer'
  <2>1. DOMAIN player_entities' = Sessions'
    BY <1>3, <1>10
  <2>2. \A q \in Sessions : player_entities'[q] = player_entities[q]
    BY <1>3, <1>10
  <2>3. player_entities'[p] = e
    BY <1>3
  <2>4. OfType({"Player"})' = OfType({"Player"}) \cup {e}
    BY <1>5, <1>6, <1>8 DEF OfType
  <2>5. Range(player_entities') = Range(player_entities) \cup {e}
    BY <1>10, <2>1, <2>2, <2>3 DEF Range
  <2>6. \A q, r \in Sessions' : player_entities'[q] = player_entities'[r] => q = r
    <3>1. \A q \in Sessions : player_entities[q] # e
      BY <1>6, <1>10 DEF Range
    <3>2. \A q, r \in Sessions : player_entities[q] = player_entities[r] => q = r
      BY DEF IInv, OwnedInv, EachSessionHasItsPlayer
    <3> QED
      BY <1>10, <2>2, <2>3, <3>1, <3>2
  <2> QED
    BY <2>1, <2>4, <2>5, <2>6 DEF EachSessionHasItsPlayer, IInv, OwnedInv
<1>12. Types'
  <2>1. entities' \in [DOMAIN entities' -> Entity]
    BY <1>5, <1>7, <1>8 DEF IInv, Types
  <2>2. DOMAIN entities' = DOMAIN entities \cup {e} /\ IsFiniteSet(DOMAIN entities \cup {e}) /\ DOMAIN entities' \subseteq Nat
    BY <1>2, <1>8, FS_AddElement DEF IInv, Types
  <2>3. window' \in [Sessions' -> Windows] /\ Sessions' \subseteq Players
    BY <1>4, <1>10 DEF IInv, Types
  <2>4. player_entities' \in [Sessions' -> Nat]
    BY <1>2, <1>3, <1>10 DEF IInv, Types
  <2> QED
    BY <1>3, <2>1, <2>2, <2>3, <2>4 DEF IInv, Types
<1>13. PhaseInv'
  BY <1>3, <1>9 DEF IInv, PhaseInv
<1>14. HitInv' /\ KeyInv'
  BY <1>3, <1>9 DEF IInv, HitInv, KeyInv
<1> QED
  BY <1>3, <1>9, <1>11, <1>12, <1>13, <1>14 DEF IInv, OwnedInv

LEMMA DisconnectKeepsIInv ==
    ASSUME IInv, NEW p \in Players, Disconnect(p)
    PROVE  IInv'
<1> DEFINE e == player_entities[p]
<1>1. /\ phase = "receive" /\ p \in Sessions
      /\ window' = Restrict(window, Sessions \ {p})
      /\ player_entities' = Restrict(player_entities, DOMAIN player_entities \ {p})
      /\ UNCHANGED <<phase, bodies, deferred_destroy_queue, m_resetRequested, todo, standing, hit, asked>>
  BY DEF Disconnect, history
<1>2. DOMAIN player_entities = Sessions /\ e \in PlayersOf /\ e \in DOMAIN entities
  BY <1>1, PlayerOfSession DEF IInv, Types
<1>3. entities' = Restrict(entities, DOMAIN entities \ {e}) /\ undefined' = undefined
  <2>1. undefined = FALSE
    BY DEF IInv, OwnedInv
  <2> QED
    BY <1>1, <1>2, <2>1 DEF Disconnect
<1>4. e \in Nat /\ entities[e].type = "Player"
  BY <1>2 DEF PlayersOf, OfType, IInv, Types
<1> HIDE DEF e
<1>5. DOMAIN entities' = DOMAIN entities \ {e} /\ \A x \in DOMAIN entities' : entities'[x] = entities[x]
  BY <1>3 DEF Restrict
<1>6. /\ BodyInv' /\ Standing' = Standing /\ OfType({"SpecialOrbit"})' = OfType({"SpecialOrbit"})
      /\ \A o \in OfType({"SpecialOrbit"}) : o \in DOMAIN entities'
  BY <1>1, <1>4, <1>5, PlayersChange
<1>7. Sessions' = Sessions \ {p} /\ DOMAIN player_entities' = Sessions' /\ \A q \in Sessions' : player_entities'[q] = player_entities[q]
  BY <1>1, <1>2 DEF Sessions, Restrict
<1>8. EachSessionHasItsPlayer'
  <2>1. \A q, r \in Sessions : player_entities[q] = player_entities[r] => q = r
    BY DEF IInv, OwnedInv, EachSessionHasItsPlayer
  <2>2. \A q \in Sessions' : player_entities[q] # e
    BY <1>1, <1>7, <2>1 DEF e
  <2>3. OfType({"Player"})' = OfType({"Player"}) \ {e}
    BY <1>5 DEF OfType
  <2>4. Range(player_entities) = {player_entities[q] : q \in Sessions}
    BY <1>2 DEF Range
  <2>5. Range(player_entities') = {player_entities[q] : q \in Sessions'}
    BY <1>7 DEF Range
  <2>6. Range(player_entities') = Range(player_entities) \ {e}
    BY <1>7, <2>2, <2>4, <2>5 DEF e
  <2> QED
    BY <1>7, <2>1, <2>3, <2>6 DEF EachSessionHasItsPlayer, IInv, OwnedInv
<1>9. Types'
  <2>1. entities' \in [DOMAIN entities' -> Entity] /\ DOMAIN entities' \subseteq Nat
    BY <1>3, <1>5 DEF IInv, Types, Restrict
  <2>2. IsFiniteSet(DOMAIN entities')
    BY <1>5, FS_Subset DEF IInv, Types
  <2>3. window' \in [Sessions' -> Windows] /\ Sessions' \subseteq Players
    BY <1>1, <1>7 DEF IInv, Types, Restrict
  <2>4. player_entities' \in [Sessions' -> Nat]
    BY <1>1, <1>2, <1>7 DEF IInv, Types, Restrict
  <2> QED
    BY <1>1, <2>1, <2>2, <2>3, <2>4 DEF IInv, Types
<1>10. PhaseInv'
  BY <1>1, <1>6 DEF IInv, PhaseInv
<1>11. HitInv' /\ KeyInv'
  BY <1>1, <1>6 DEF IInv, HitInv, KeyInv
<1> QED
  BY <1>3, <1>6, <1>8, <1>9, <1>10, <1>11 DEF IInv, OwnedInv

LEMMA UpdateKeepsIInv ==
    ASSUME IInv, NEW p \in Players, Update(p)
    PROVE  IInv'
<1> DEFINE e == player_entities[p]
<1>1. /\ phase = "update" /\ p \in todo /\ todo' = todo \ {p} /\ todo \subseteq Sessions
      /\ UNCHANGED <<phase, bodies, player_entities, deferred_destroy_queue, m_resetRequested, window, undefined, standing, hit>>
  BY DEF Update, IInv, PhaseInv
<1>2. /\ DOMAIN player_entities = Sessions /\ e \in PlayersOf /\ e \in DOMAIN entities
      /\ \A q \in Sessions : player_entities[q] \in DOMAIN entities
  BY <1>1, PlayerOfSession DEF IInv, Types
<1>3. PICK space \in BOOLEAN, r \in BOOLEAN :
          /\ entities' = [entities EXCEPT ![player_entities[p]].space = space, ![player_entities[p]].r = r]
          /\ asked' = (asked \/ r)
  BY <1>1, <1>2 DEF Update, Trigger
<1> HIDE DEF e
<1>4. entities' = [entities EXCEPT ![e].space = space, ![e].r = r]
  BY <1>3 DEF e
<1>5. entities \in [DOMAIN entities -> Entity]
  BY DEF IInv, Types
<1>6. /\ DOMAIN entities' = DOMAIN entities
      /\ \A x \in DOMAIN entities : x # e => entities'[x] = entities[x]
      /\ entities'[e] = [entities[e] EXCEPT !.space = space, !.r = r]
  BY <1>2, <1>4, <1>5
<1>7. /\ entities'[e].type = entities[e].type /\ entities'[e].body = entities[e].body
      /\ entities'[e].r = r /\ entities'[e] \in Entity
  BY <1>2, <1>5, <1>6 DEF Entity
<1>8. /\ BodyInv' /\ Standing' = Standing /\ OfType({"SpecialOrbit"})' = OfType({"SpecialOrbit"})
      /\ \A o \in OfType({"SpecialOrbit"}) : o \in DOMAIN entities'
  BY <1>1, <1>6, <1>7, PlayersChange
<1>9. Sessions' = Sessions
  BY <1>1 DEF Sessions
<1>10. EachSessionHasItsPlayer'
  <2>1. OfType({"Player"})' = OfType({"Player"})
    BY <1>6, <1>7 DEF OfType
  <2> QED
    BY <1>1, <1>9, <2>1 DEF EachSessionHasItsPlayer, IInv, OwnedInv
<1>11. Types'
  <2>1. entities' \in [DOMAIN entities' -> Entity]
    <3>1. \A x \in DOMAIN entities' : entities'[x] \in Entity
      BY <1>5, <1>6, <1>7
    <3>2. entities' = [x \in DOMAIN entities' |-> entities'[x]]
      BY <1>4
    <3> QED
      BY <3>1, <3>2
  <2>2. asked' \in BOOLEAN
    BY <1>3 DEF IInv, Types
  <2> QED
    BY <1>1, <1>6, <1>9, <2>1, <2>2 DEF IInv, Types
<1>12. PhaseInv'
  BY <1>1, <1>8, <1>9 DEF IInv, PhaseInv
<1>13. HitInv'
  BY <1>1, <1>6, <1>8 DEF IInv, HitInv
<1>14. KeyInv'
  <2>1. \A q \in Sessions : q # p => entities'[player_entities[q]] = entities[player_entities[q]]
    <3>1. \A q \in Sessions : q # p => player_entities[q] # e
      BY <1>1 DEF IInv, OwnedInv, EachSessionHasItsPlayer, e
    <3> QED
      BY <1>2, <1>6, <3>1
  <2>2. Sessions' \ todo' = (Sessions \ todo) \cup {p} /\ p \notin Sessions \ todo
    BY <1>1, <1>9
  <2>3. asked <=> \E q \in Sessions \ todo : entities[player_entities[q]].r
    BY <1>1 DEF IInv, KeyInv
  <2>4. asked' <=> \E q \in Sessions' \ todo' : entities'[player_entities'[q]].r
    <3>1. entities'[player_entities[p]].r = r
      BY <1>7 DEF e
    <3>2. \A q \in Sessions \ todo : entities'[player_entities[q]] = entities[player_entities[q]]
      BY <2>1, <2>2
    <3> QED
      BY <1>1, <1>3, <2>2, <2>3, <3>1, <3>2
  <2> QED
    BY <1>1, <2>4 DEF IInv, KeyInv
<1> QED
  BY <1>1, <1>8, <1>10, <1>11, <1>12, <1>13, <1>14 DEF IInv, OwnedInv

-----------------------------------------------------------------------------
(* The steps that shoot, destroy and create.                               *)

LEMMA ProcessKeepsIInv ==
    ASSUME IInv, NEW e \in todo, Process(e)
    PROVE  IInv'
<1>1. /\ phase = "players" /\ todo' = todo \ {e} /\ e \in PlayersOf
      /\ m_resetRequested' = (m_resetRequested \/ entities[e].r)
      /\ UNCHANGED <<phase, entities, bodies, player_entities, window, undefined, standing, asked>>
  BY DEF Process, IInv, PhaseInv
<1>2. e \in DOMAIN entities /\ entities[e] \in Entity /\ entities[e].r \in BOOLEAN
  <2>1. e \in DOMAIN entities /\ entities[e] \in Entity
    BY <1>1 DEF PlayersOf, OfType, IInv, Types
  <2> QED
    BY <2>1 DEF Entity
<1>3. /\ deferred_destroy_queue' \in Seq(Nat)
      /\ hit' \subseteq standing
      /\ Range(deferred_destroy_queue') = hit'
  <2>1. deferred_destroy_queue \in Seq(Nat) /\ hit \subseteq standing /\ Range(deferred_destroy_queue) = hit /\ Standing = standing
    BY <1>1 DEF IInv, Types, HitInv
  <2>2. CASE ~entities[e].space
    BY <2>1, <2>2 DEF Process
  <2>3. CASE entities[e].space
    <3>1. PICK b \in bodies \cup {NoBody} :
              /\ deferred_destroy_queue' = deferred_destroy_queue \o SetToSeq(Target(b))
              /\ hit' = hit \cup Target(b)
      BY <2>3 DEF Process
    <3>2. Target(b) \subseteq Standing /\ Target(b) \subseteq DOMAIN entities
      BY DEF Target, Standing, OfType
    <3>3. IsFiniteSet(Target(b)) /\ Target(b) \subseteq Nat
      BY <3>2, FS_Subset DEF IInv, Types
    <3>4. SetToSeq(Target(b)) \in Seq(Nat) /\ Range(SetToSeq(Target(b))) = Target(b)
      <4>1. SetToSeq(Target(b)) \in Seq(Target(b)) /\ Range(SetToSeq(Target(b))) = Target(b)
        BY <3>3, SequenceOfSet
      <4> QED
        BY <3>3, <4>1
    <3>5. /\ deferred_destroy_queue \o SetToSeq(Target(b)) \in Seq(Nat)
          /\ Range(deferred_destroy_queue \o SetToSeq(Target(b))) = Range(deferred_destroy_queue) \cup Target(b)
      BY <2>1, <3>4, RangeOfConcat
    <3> QED
      BY <2>1, <3>1, <3>2, <3>5
  <2> QED
    BY <2>2, <2>3
<1>4. Types'
  BY <1>1, <1>2, <1>3 DEF IInv, Types, Sessions
<1>5. \A types : OfType(types)' = OfType(types)
  BY <1>1 DEF OfType
<1>6. BodyInv' /\ EachSessionHasItsPlayer'
  <2>1. Solid' = Solid /\ Sessions' = Sessions
    BY <1>1, <1>5 DEF Solid, Sessions
  <2>2. BodyInv'
    BY <1>1, <1>5, <2>1 DEF IInv, OwnedInv, BodyInv
  <2> QED
    BY <1>1, <1>5, <2>1, <2>2 DEF IInv, OwnedInv, EachSessionHasItsPlayer
<1>7. PhaseInv'
  BY <1>1, <1>5 DEF IInv, PhaseInv, PlayersOf
<1>8. HitInv'
  BY <1>1, <1>3, <1>5 DEF IInv, HitInv, Standing
<1>9. KeyInv'
  <2>1. asked <=> m_resetRequested \/ \E x \in todo : entities[x].r
    BY <1>1 DEF IInv, KeyInv
  <2>2. (\E x \in todo : entities[x].r) <=> entities[e].r \/ \E x \in todo' : entities[x].r
    BY <1>1
  <2> QED
    BY <1>1, <2>1, <2>2 DEF IInv, KeyInv
<1> QED
  BY <1>1, <1>4, <1>6, <1>7, <1>8, <1>9 DEF IInv, OwnedInv

\* Entities that are valid and replaceable go with their bodies; the ground and the players stay.
LEMMA DestroyedFacts ==
    ASSUME IInv, NEW es, es \subseteq OfType(Replaced), Destroyed(es),
           UNCHANGED <<player_entities, window>>
    PROVE  /\ DOMAIN entities' = DOMAIN entities \ es
           /\ \A x \in DOMAIN entities' : entities'[x] = entities[x]
           /\ \A types : OfType(types)' = OfType(types) \ es
           /\ entities' \in [DOMAIN entities' -> Entity] /\ IsFiniteSet(DOMAIN entities')
           /\ bodies' \subseteq bodies /\ IsFiniteSet(bodies')
           /\ OwnedInv'
<1> DEFINE theirs == {entities[e].body : e \in es \cap DOMAIN entities} \ {NoBody}
<1>1. es \subseteq DOMAIN entities /\ \A e \in es : entities[e].type \in Replaced
  BY DEF OfType
<1>2. /\ entities' = Restrict(entities, DOMAIN entities \ es) /\ bodies' = bodies \ theirs
      /\ undefined' = (undefined \/ ~(es \subseteq DOMAIN entities /\ theirs \subseteq bodies))
  BY DEF Destroyed
<1>3. DOMAIN entities' = DOMAIN entities \ es /\ \A x \in DOMAIN entities' : entities'[x] = entities[x]
  BY <1>2 DEF Restrict
<1>4. \A types : OfType(types)' = OfType(types) \ es
  BY <1>3 DEF OfType
<1>5. theirs = {entities[e].body : e \in es \cap Solid}
  <2>1. \A e \in es \ Solid : entities[e].body = NoBody
    BY <1>1 DEF IInv, OwnedInv, BodyInv
  <2>2. \A e \in Solid : entities[e].body # NoBody /\ e \in DOMAIN entities
    BY DEF IInv, OwnedInv, BodyInv, Types, Solid, OfType
  <2> QED
    BY <1>1, <2>1, <2>2
<1>6. theirs \subseteq bodies
  BY <1>5 DEF IInv, OwnedInv, BodyInv
<1> HIDE DEF theirs
<1>7. undefined' = FALSE
  BY <1>1, <1>2, <1>6 DEF IInv, OwnedInv
<1>8. Solid' = Solid \ es /\ OfType({"Ground"})' = OfType({"Ground"}) /\ OfType({"Player"})' = OfType({"Player"})
  BY <1>1, <1>4 DEF Solid, OfType, Replaced
<1>9. bodies' \subseteq bodies /\ IsFiniteSet(bodies') /\ Cardinality(bodies') <= Cubes + 1
  <2>1. bodies' \subseteq bodies
    BY <1>2
  <2>2. IsFiniteSet(bodies') /\ Cardinality(bodies') <= Cardinality(bodies)
    BY <2>1, FS_Subset DEF IInv, Types
  <2>3. Cardinality(bodies') \in Nat /\ Cardinality(bodies) \in Nat
    BY <2>2, FS_CardinalityType DEF IInv, Types
  <2> QED
    BY <2>1, <2>2, <2>3, CubesAssumption DEF IInv, OwnedInv, BodyInv
<1>10. entities' \in [DOMAIN entities' -> Entity] /\ IsFiniteSet(DOMAIN entities')
  <2>1. entities' \in [DOMAIN entities' -> Entity]
    BY <1>2, <1>3 DEF IInv, Types, Restrict
  <2> QED
    BY <1>3, <2>1, FS_Subset DEF IInv, Types
<1>11. BodyInv'
  <2>1. \A e \in Solid' : e \in Solid /\ e \notin es /\ e \in DOMAIN entities' /\ entities'[e].body = entities[e].body
    BY <1>3, <1>8 DEF Solid, OfType
  <2>2. \A e, f \in Solid : entities[e].body = entities[f].body => e = f
    BY DEF IInv, OwnedInv, BodyInv
  <2>3. \A e \in Solid' : entities'[e].body \in bodies'
    <3>1. \A e \in Solid' : entities[e].body \in bodies
      BY <2>1 DEF IInv, OwnedInv, BodyInv
    <3>2. \A e \in Solid' : entities[e].body \notin theirs
      BY <1>5, <2>1, <2>2
    <3> QED
      BY <1>2, <2>1, <3>1, <3>2 DEF theirs
  <2>4. \A b \in bodies' : \E e \in Solid' : entities'[e].body = b
    <3> SUFFICES ASSUME NEW b \in bodies' PROVE \E e \in Solid' : entities'[e].body = b
      OBVIOUS
    <3>1. PICK e \in Solid : entities[e].body = b
      BY <1>9 DEF IInv, OwnedInv, BodyInv
    <3>2. e \notin es
      BY <1>2, <1>5, <3>1
    <3> QED
      BY <1>8, <2>1, <3>1, <3>2
  <2>5. \A e, f \in Solid' : entities'[e].body = entities'[f].body => e = f
    BY <2>1, <2>2
  <2>6. \A e \in DOMAIN entities' \ Solid' : entities'[e].body = NoBody
    BY <1>3, <1>8 DEF IInv, OwnedInv, BodyInv
  <2>7. \E g \in DOMAIN entities' : OfType({"Ground"})' = {g}
    <3>1. PICK g \in DOMAIN entities : OfType({"Ground"}) = {g}
      BY DEF IInv, OwnedInv, BodyInv
    <3>2. g \in OfType({"Ground"})'
      BY <1>8, <3>1
    <3>3. g \in DOMAIN entities'
      BY <3>2 DEF OfType
    <3> QED
      BY <1>8, <3>1, <3>3
  <2> QED
    BY <1>9, <2>3, <2>4, <2>5, <2>6, <2>7 DEF BodyInv
<1>12. EachSessionHasItsPlayer'
  BY <1>8 DEF IInv, OwnedInv, EachSessionHasItsPlayer, Sessions
<1> QED
  BY <1>3, <1>4, <1>7, <1>9, <1>10, <1>11, <1>12 DEF OwnedInv

LEMMA DestroyNextKeepsIInv ==
    ASSUME IInv, DestroyNext
    PROVE  IInv'
<1> DEFINE h == Head(deferred_destroy_queue)
<1>1. /\ phase = "destroy" /\ deferred_destroy_queue # <<>>
      /\ deferred_destroy_queue' = Tail(deferred_destroy_queue)
      /\ UNCHANGED <<phase, player_entities, m_resetRequested, window, todo, standing, hit, asked>>
  BY DEF DestroyNext, history
<1>2. IF h \in DOMAIN entities THEN Destroyed({h}) ELSE UNCHANGED <<entities, bodies, undefined>>
  BY DEF DestroyNext, Valid
<1>3. /\ h \in Nat /\ Tail(deferred_destroy_queue) \in Seq(Nat) /\ h \in Range(deferred_destroy_queue)
      /\ Range(Tail(deferred_destroy_queue)) \subseteq Range(deferred_destroy_queue)
      /\ Range(deferred_destroy_queue) \ {h} \subseteq Range(Tail(deferred_destroy_queue))
  BY <1>1, RangeOfTail DEF IInv, Types
<1>4. /\ Range(deferred_destroy_queue) \subseteq hit /\ hit \subseteq standing
      /\ standing \cap DOMAIN entities = Standing /\ standing \ hit \subseteq Standing
      /\ Standing \subseteq standing /\ Standing \cap hit \subseteq Range(deferred_destroy_queue)
  BY <1>1 DEF IInv, HitInv
<1> HIDE DEF h
<1>5. CASE h \in DOMAIN entities
  <2>1. h \in Standing
    BY <1>3, <1>4, <1>5
  <2>2. {h} \subseteq OfType(Replaced) /\ h \notin OfType({"SpecialOrbit"})
    BY <2>1 DEF Standing, OfType, Replaced
  <2>3. /\ DOMAIN entities' = DOMAIN entities \ {h}
        /\ \A x \in DOMAIN entities' : entities'[x] = entities[x]
        /\ \A types : OfType(types)' = OfType(types) \ {h}
        /\ entities' \in [DOMAIN entities' -> Entity] /\ IsFiniteSet(DOMAIN entities')
        /\ bodies' \subseteq bodies /\ IsFiniteSet(bodies')
        /\ OwnedInv'
    BY <1>1, <1>2, <1>5, <2>2, DestroyedFacts
  <2>4. Types'
    BY <1>1, <1>3, <2>3 DEF IInv, Types, Sessions
  <2>5. Standing' = Standing \ {h} /\ OfType({"SpecialOrbit"})' = OfType({"SpecialOrbit"})
    BY <2>2, <2>3 DEF Standing
  <2>6. PhaseInv'
    <3>1. PICK o \in DOMAIN entities : OfType({"SpecialOrbit"}) = {o}
      BY <1>1 DEF IInv, PhaseInv
    <3>2. o # h
      BY <2>2, <3>1
    <3> QED
      BY <1>1, <2>3, <2>5, <3>1, <3>2 DEF PhaseInv
  <2>7. HitInv'
    BY <1>1, <1>3, <1>4, <2>3, <2>5 DEF HitInv
  <2>8. KeyInv'
    BY <1>1 DEF IInv, KeyInv
  <2> QED
    BY <2>3, <2>4, <2>6, <2>7, <2>8 DEF IInv
<1>6. CASE h \notin DOMAIN entities
  <2>1. UNCHANGED <<entities, bodies, undefined>>
    BY <1>2, <1>6
  <2>2. \A types : OfType(types)' = OfType(types)
    BY <2>1 DEF OfType
  <2>3. Standing' = Standing /\ Solid' = Solid /\ Sessions' = Sessions /\ h \notin Standing
    BY <1>1, <1>4, <1>6, <2>2 DEF Standing, Solid, Sessions, OfType
  <2>4. BodyInv' /\ EachSessionHasItsPlayer' /\ undefined' = FALSE
    <3>1. BodyInv'
      BY <2>1, <2>2, <2>3 DEF IInv, OwnedInv, BodyInv
    <3> QED
      BY <1>1, <2>1, <2>2, <2>3, <3>1 DEF IInv, OwnedInv, EachSessionHasItsPlayer
  <2>5. Types'
    BY <1>1, <1>3, <2>1, <2>3 DEF IInv, Types
  <2>6. PhaseInv'
    BY <1>1, <2>1, <2>2 DEF IInv, PhaseInv
  <2>7. HitInv'
    BY <1>1, <1>3, <1>4, <2>1, <2>3 DEF HitInv
  <2>8. KeyInv'
    BY <1>1 DEF IInv, KeyInv
  <2> QED
    BY <2>4, <2>5, <2>6, <2>7, <2>8 DEF IInv, OwnedInv
<1> QED
  BY <1>5, <1>6

LEMMA ResetDestroyKeepsIInv ==
    ASSUME IInv, ResetDestroy
    PROVE  IInv'
<1>1. /\ phase = "reset" /\ phase' = "create" /\ Destroyed(OfType(Replaced))
      /\ UNCHANGED <<player_entities, deferred_destroy_queue, m_resetRequested, window, todo, standing, hit, asked>>
  BY DEF ResetDestroy, history
<1>2. /\ DOMAIN entities' = DOMAIN entities \ OfType(Replaced)
      /\ \A types : OfType(types)' = OfType(types) \ OfType(Replaced)
      /\ entities' \in [DOMAIN entities' -> Entity] /\ IsFiniteSet(DOMAIN entities')
      /\ bodies' \subseteq bodies /\ IsFiniteSet(bodies')
      /\ OwnedInv'
  BY <1>1, DestroyedFacts
<1>3. Types'
  BY <1>1, <1>2 DEF IInv, Types, Sessions
<1>4. PhaseInv'
  BY <1>1, <1>2 DEF IInv, PhaseInv
<1>5. HitInv' /\ KeyInv'
  BY <1>1 DEF IInv, HitInv, KeyInv
<1> QED
  BY <1>2, <1>3, <1>4, <1>5 DEF IInv

LEMMA CreateKeepsIInv ==
    ASSUME IInv, Create
    PROVE  IInv'
<1> DEFINE ids == Fresh(Cubes + 1, HeldEntities)
           bodyIds == Fresh(Cubes, bodies)
           made == Created(ids, bodyIds)
           cubes == {e \in Range(ids) : made[e].type = "NormalPhysics"}
<1>1. Cubes \in Nat /\ Cubes + 1 \in Nat /\ IsFiniteSet(bodies)
  BY CubesAssumption DEF IInv, Types
<1>2. /\ ids \in [1..Cubes + 1 -> Nat \ {0}] /\ IsInjective(ids)
      /\ \A k \in 1..Cubes + 1 : ids[k] \notin HeldEntities
  BY <1>1, HeldIsFinite, FreshIsNew
<1>3. /\ bodyIds \in [1..Cubes -> Nat \ {0}] /\ IsInjective(bodyIds)
      /\ \A k \in 1..Cubes : bodyIds[k] \notin bodies
  BY <1>1, FreshIsNew
<1>4. /\ phase = "create" /\ phase' = "render" /\ todo' = Sessions
      /\ entities' = Beside(made, entities)
      /\ bodies' = bodies \cup Range(bodyIds)
      /\ undefined' = (undefined \/ Cardinality(bodies) + Cubes > MaxBodies)
      /\ m_resetRequested' = FALSE
      /\ UNCHANGED <<player_entities, deferred_destroy_queue, window, standing, hit, asked>>
  BY DEF Create, StartRender, history
<1> HIDE DEF ids, bodyIds
<1>5. CreatedWell(ids, bodyIds)
  <2>1. ids \in [1..Cubes + 1 -> Nat] /\ bodyIds \in [1..Cubes -> Nat \ {NoBody}]
    BY <1>2, <1>3 DEF NoBody
  <2> QED
    BY <1>2, <1>3, <2>1, CreatedFacts
<1>6. /\ made \in [Range(ids) -> Entity]
      /\ IsFiniteSet(Range(ids)) /\ IsFiniteSet(Range(bodyIds))
      /\ Cardinality(Range(bodyIds)) = Cubes
      /\ {e \in Range(ids) : made[e].type = "SpecialOrbit"} = {ids[Cubes + 1]}
      /\ made[ids[Cubes + 1]].body = NoBody
      /\ \A e \in Range(ids) : made[e].type \in Replaced
      /\ \A e \in cubes : made[e].body \in Range(bodyIds)
      /\ \A e, f \in cubes : made[e].body = made[f].body => e = f
      /\ \A b \in Range(bodyIds) : \E e \in cubes : made[e].body = b
      /\ Cardinality(cubes) = Cubes
  BY <1>5, Zenon DEF CreatedWell
<1> HIDE DEF made
<1>7. Range(ids) \subseteq Nat /\ Range(ids) \cap HeldEntities = {} /\ Range(bodyIds) \subseteq Nat \ {NoBody} /\ Range(bodyIds) \cap bodies = {}
  BY <1>2, <1>3 DEF Range, NoBody
<1>8. Range(ids) \cap DOMAIN entities = {} /\ Range(ids) \cap standing = {}
  BY <1>7 DEF HeldEntities
<1>9. entities' = [e \in Range(ids) \cup DOMAIN entities |-> IF e \in Range(ids) THEN made[e] ELSE entities[e]]
  BY <1>4, <1>6 DEF Beside
<1>10. /\ DOMAIN entities' = Range(ids) \cup DOMAIN entities
       /\ \A e \in Range(ids) : entities'[e] = made[e]
       /\ \A e \in DOMAIN entities : entities'[e] = entities[e]
  BY <1>8, <1>9
<1>11. OfType(Replaced) = {}
  BY <1>4 DEF IInv, PhaseInv
<1>12. /\ OfType({"Ground"})' = OfType({"Ground"}) /\ OfType({"Player"})' = OfType({"Player"})
       /\ OfType({"NormalPhysics"})' = cubes /\ OfType({"SpecialOrbit"})' = {ids[Cubes + 1]}
       /\ Solid' = OfType({"Ground"}) \cup cubes
  BY <1>6, <1>8, <1>10, <1>11 DEF OfType, Solid, Replaced
<1>13. PICK g \in DOMAIN entities : OfType({"Ground"}) = {g} /\ Solid = {g}
  <2>1. PICK g \in DOMAIN entities : OfType({"Ground"}) = {g}
    BY DEF IInv, OwnedInv, BodyInv
  <2>2. Solid = OfType({"Ground"})
    BY <1>11 DEF Solid, OfType, Replaced
  <2> QED
    BY <2>1, <2>2
<1>14. bodies = {entities[g].body}
  BY <1>13 DEF IInv, OwnedInv, BodyInv
<1>15. Cardinality(bodies) = 1 /\ IsFiniteSet(bodies') /\ Cardinality(bodies') = Cubes + 1
  <2>1. Cardinality(bodies) = 1
    BY <1>14, FS_Singleton
  <2>2. bodies' = Range(bodyIds) \cup {entities[g].body} /\ entities[g].body \notin Range(bodyIds)
    BY <1>4, <1>7, <1>14
  <2> QED
    BY <1>6, <2>1, <2>2, FS_AddElement
<1>16. undefined' = FALSE
  <2>1. ~(Cardinality(bodies) + Cubes > MaxBodies)
    BY <1>1, <1>15, CubesAssumption
  <2>2. undefined = FALSE
    BY DEF IInv, OwnedInv
  <2> QED
    BY <1>4, <2>1, <2>2, Zenon
<1>17. BodyInv'
  <2>1. \A e \in cubes : e \in Range(ids) /\ entities'[e].body = made[e].body
    BY <1>10
  <2>2. entities'[g].body = entities[g].body /\ entities[g].body \in bodies /\ g \notin cubes
    BY <1>8, <1>10, <1>13, <1>14
  <2>3. \A e \in Solid' : e = g \/ e \in cubes
    BY <1>12, <1>13
  <2>4. \A e \in Solid' : entities'[e].body \in bodies'
    BY <1>4, <1>6, <2>1, <2>2, <2>3
  <2>5. \A b \in bodies' : \E e \in Solid' : entities'[e].body = b
    <3>1. \A b \in Range(bodyIds) : \E e \in cubes : entities'[e].body = b
      BY <1>6, <2>1
    <3> QED
      BY <1>4, <1>12, <1>13, <1>14, <2>2, <3>1
  <2>6. \A e, f \in Solid' : entities'[e].body = entities'[f].body => e = f
    <3>1. \A e \in cubes : entities'[e].body \in Range(bodyIds)
      BY <1>6, <2>1
    <3>2. entities'[g].body \notin Range(bodyIds)
      BY <1>7, <2>2
    <3>3. \A e, f \in cubes : entities'[e].body = entities'[f].body => e = f
      BY <1>6, <2>1
    <3> QED
      BY <2>3, <3>1, <3>2, <3>3
  <2>7. \A e \in DOMAIN entities' \ Solid' : entities'[e].body = NoBody
    <3>1. \A e \in Range(ids) \ Solid' : made[e].type = "SpecialOrbit"
      BY <1>6, <1>12 DEF Replaced
    <3>2. \A e \in Range(ids) \ Solid' : entities'[e].body = NoBody
      BY <1>6, <1>10, <3>1
    <3>3. \A e \in DOMAIN entities \ Solid' : e \notin Solid
      BY <1>12, <1>13
    <3>4. \A e \in DOMAIN entities \ Solid : entities[e].body = NoBody
      BY DEF IInv, OwnedInv, BodyInv
    <3> QED
      BY <1>10, <3>2, <3>3, <3>4
  <2>8. \E x \in DOMAIN entities' : OfType({"Ground"})' = {x}
    BY <1>10, <1>12, <1>13
  <2> QED
    BY <1>1, <1>15, <2>4, <2>5, <2>6, <2>7, <2>8 DEF BodyInv
<1>18. EachSessionHasItsPlayer'
  BY <1>4, <1>12 DEF IInv, OwnedInv, EachSessionHasItsPlayer, Sessions
<1>19. Types'
  <2>1. entities' \in [DOMAIN entities' -> Entity]
    BY <1>6, <1>9, <1>10 DEF IInv, Types
  <2>2. IsFiniteSet(DOMAIN entities') /\ DOMAIN entities' \subseteq Nat
    <3>1. IsFiniteSet(Range(ids) \cup DOMAIN entities)
      BY <1>6, FS_Union DEF IInv, Types
    <3> QED
      BY <1>7, <1>10, <3>1 DEF IInv, Types
  <2>3. bodies' \subseteq Nat \ {NoBody}
    BY <1>4, <1>7 DEF IInv, Types
  <2> QED
    BY <1>4, <1>15, <2>1, <2>2, <2>3 DEF IInv, Types, Sessions
<1>20. PhaseInv'
  <2>1. ids[Cubes + 1] \in DOMAIN entities'
    BY <1>12 DEF OfType
  <2> QED
    BY <1>4, <1>12, <2>1 DEF PhaseInv, Sessions
<1>21. HitInv'
  BY <1>4 DEF IInv, HitInv
<1>22. KeyInv'
  <2>1. Standing' = cubes /\ cubes \cap standing = {}
    BY <1>8, <1>12 DEF Standing
  <2>2. asked
    BY <1>4 DEF IInv, KeyInv
  <2> QED
    BY <1>4, <1>6, <2>1, <2>2 DEF KeyInv
<1> QED
  BY <1>16, <1>17, <1>18, <1>19, <1>20, <1>21, <1>22 DEF IInv, OwnedInv

-----------------------------------------------------------------------------
(* The theorems.                                                           *)

LEMMA StutterKeepsIInv == IInv /\ UNCHANGED vars => IInv'
<1> SUFFICES ASSUME IInv, UNCHANGED vars PROVE IInv'
  OBVIOUS
<1>1. /\ OwnedInv' /\ Sessions' = Sessions /\ Standing' = Standing /\ PlayersOf' = PlayersOf
      /\ \A types : OfType(types)' = OfType(types)
      /\ Types'
  BY WorldKept DEF vars, history
<1>2. PhaseInv'
  BY <1>1 DEF IInv, PhaseInv, vars, world
<1>3. HitInv' /\ KeyInv'
  BY <1>1 DEF IInv, HitInv, KeyInv, vars, world, history
<1> QED
  BY <1>1, <1>2, <1>3 DEF IInv

LEMMA NextKeepsIInv == IInv /\ [Next]_vars => IInv'
<1> SUFFICES ASSUME IInv, [Next]_vars PROVE IInv'
  OBVIOUS
<1>1. CASE UNCHANGED vars
  BY <1>1, StutterKeepsIInv
<1>2. ASSUME NEW p \in Players, Join(p) \/ Disconnect(p) \/ Update(p) PROVE IInv'
  BY <1>2, JoinKeepsIInv, DisconnectKeepsIInv, UpdateKeepsIInv
<1>3. CASE Received \/ Updated \/ Processed \/ DestroyedAll \/ (\E p \in Players : Render(p)) \/ EndFrame
  BY <1>3, QuietSteps
<1>4. ASSUME NEW e \in todo, Process(e) PROVE IInv'
  BY <1>4, ProcessKeepsIInv
<1>5. CASE DestroyNext \/ ResetDestroy \/ Create
  BY <1>5, DestroyNextKeepsIInv, ResetDestroyKeepsIInv, CreateKeepsIInv
<1> QED
  BY <1>1, <1>2, <1>3, <1>4, <1>5 DEF Next

LEMMA Invariance == Spec => []IInv
BY InitIInv, NextKeepsIInv, PTL DEF Spec

\* The state always has the type that the module gives it.
THEOREM TypeCorrect == Spec => []TypeOK
BY Invariance, TypesSay, PTL

\* Every body has its entity and every session its player, no library is asked for what it does
\* not define, and the physics system never overflows, at every step of the frame.
THEOREM ObjectsCorrect == Spec => []ObjectsAreOwned
<1>1. IInv => ObjectsAreOwned
  BY BodiesSay DEF ObjectsAreOwned, IInv, OwnedInv
<1> QED
  BY <1>1, Invariance, PTL

\* What is drawn follows the keys of this frame and of no other.
THEOREM KeysCorrect == Spec => []WorldFollowsKeys
BY Invariance, KeysSay, PTL
=============================================================================
