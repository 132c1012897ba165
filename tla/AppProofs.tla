----------------------------- MODULE AppProofs -----------------------------
(***************************************************************************)
(* Proofs about App, for every set of maps, retirement time, tick lengths, *)
(* value read through end() and number of joins.                           *)
(*                                                                         *)
(* The invariant.  None of the properties is inductive alone.  That a      *)
(* token steers only its dog needs "the dog's id and session are those of  *)
(* its player" (DogsMatchPlayers), which a retirement preserves only       *)
(* because the registry's two maps mirror each other; that a dog has at    *)
(* most one row needs "a row or a dog belongs to a birth already born"     *)
(* (CareersBegun).  The core of it, Core, is also that of the server,      *)
(* where restarts may bring back dogs without players.                     *)
(***************************************************************************)
EXTENDS App, TLAPS

\* A dog carries the id and the session of the player who joined with it.
DogsMatchPlayers ==
  \A b \in DOMAIN dogs \cap DOMAIN tokens : /\ dogs[b].id = tokens[b].id
                                           /\ dogs[b].sess = tokens[b].sess

\* Every dog has such a player.
NoOrphans == DOMAIN dogs \subseteq DOMAIN tokens

\* Dogs and rows belong to joins that have happened.
CareersBegun ==
  /\ DOMAIN dogs \subseteq born
  /\ \A b \in Births : rows[b] > 0 => b \in born

Core ==
  /\ TypeOK
  /\ RegistryMirrored
  /\ DogsMatchPlayers
  /\ CareersBegun
  /\ OneSessionPerMap

\* What a step keeps besides, each for itself.
Careers ==
  /\ NoOrphans => NoOrphans'
  /\ GhostsOnlyOnRoadlessMaps => GhostsOnlyOnRoadlessMaps'
  /\ NoDogVanishes => NoDogVanishes'
  /\ SavedOnceAndGone => SavedOnceAndGone'

IInv ==
  /\ Core
  /\ NoOrphans
  /\ GhostsOnlyOnRoadlessMaps
  /\ NoDogVanishes
  /\ SavedOnceAndGone

-----------------------------------------------------------------------------
(* Operators.                                                              *)

\* A key allocated as "largest plus one" is a number no present key has.
LEMMA NextKeysFresh ==
  ASSUME NEW keys \in SUBSET Nat, NEW whenEmpty \in SUBSET Nat,
         NEW k \in NextKeys(keys, whenEmpty)
  PROVE  k \in Nat /\ k \notin keys
BY DEF NextKeys

\* emplace: the new key maps to the new value, the others keep theirs.
LEMMA EmplaceNew ==
  ASSUME NEW f, NEW k, NEW v, k \notin DOMAIN f
  PROVE  /\ DOMAIN Emplace(f, k, v) = DOMAIN f \cup {k}
         /\ Emplace(f, k, v)[k] = v
         /\ \A x \in DOMAIN f : Emplace(f, k, v)[x] = f[x]
BY DEF Emplace

\* GetSession finds the map's session or makes one under a fresh number; in
\* either case the sessions there were stay as they were.
LEMMA SessionForMap ==
  ASSUME TypeOK, OneSessionPerMap, NEW m \in Maps, NEW sid \in SessionFor(m)
  PROVE  LET after == Emplace(sessions, sid, m)
         IN  /\ sid \in Nat
             /\ DOMAIN after = DOMAIN sessions \cup {sid}
             /\ after[sid] = m
             /\ \A s \in DOMAIN sessions : after[s] = sessions[s]
             /\ IsInjective(after)
<1> DEFINE found == {s \in DOMAIN sessions : sessions[s] = m}
<1>1. CASE found # {}
  <2>1. sid \in DOMAIN sessions /\ sessions[sid] = m
    BY <1>1 DEF SessionFor
  <2>2. DOMAIN Emplace(sessions, sid, m) = DOMAIN sessions \cup {sid}
    BY DEF Emplace
  <2>3. \A s \in DOMAIN sessions : Emplace(sessions, sid, m)[s] = sessions[s]
    BY DEF Emplace
  <2> QED
    BY <2>1, <2>2, <2>3 DEF TypeOK, OneSessionPerMap, IsInjective
<1>2. CASE found = {}
  <2>1. sid \in NextKeys(DOMAIN sessions, {0})
    BY <1>2 DEF SessionFor
  <2>2. sid \in Nat /\ sid \notin DOMAIN sessions
    BY <2>1, NextKeysFresh DEF TypeOK
  <2> DEFINE after == Emplace(sessions, sid, m)
  <2>3. /\ DOMAIN after = DOMAIN sessions \cup {sid}
        /\ after[sid] = m
        /\ \A s \in DOMAIN sessions : after[s] = sessions[s]
    BY <2>2 DEF Emplace
  <2>4. \A s \in DOMAIN sessions : sessions[s] # m
    BY <1>2
  <2> HIDE DEF after
  <2>5. IsInjective(after)
    BY <2>3, <2>4 DEF OneSessionPerMap, IsInjective
  <2> QED
    BY <2>2, <2>3, <2>5 DEF after
<1> QED BY <1>1, <1>2

\* What moving the dogs leaves alone: which dogs there are, and of each its
\* id, its session and its name.
LEMMA MovingKeepsDogs ==
  ASSUME TypeOK, NEW d \in Deltas, NEW S, NEW stopped
  PROVE  LET ds == MoveAllDogs(d, S, stopped)
         IN  /\ DOMAIN ds = DOMAIN dogs
             /\ \A b \in DOMAIN dogs : /\ ds[b] \in Dog
                                       /\ ds[b].id = dogs[b].id
                                       /\ ds[b].sess = dogs[b].sess
<1> DEFINE ds == MoveAllDogs(d, S, stopped)
<1>1. DOMAIN ds = DOMAIN dogs
  BY DEF MoveAllDogs
<1>2. ASSUME NEW b \in DOMAIN dogs
      PROVE  /\ ds[b] \in Dog
             /\ ds[b].id = dogs[b].id
             /\ ds[b].sess = dogs[b].sess
  <2>1. dogs[b] \in Dog /\ d \in Nat /\ Retirement \in Nat
    BY Assumptions DEF TypeOK
  <2>2. Capped(dogs[b].idle + d, Retirement) \in 0..Retirement
    BY <2>1 DEF Capped, Dog
  <2>3. ds[b] \in {dogs[b], MoveDog(dogs[b], d, b \in stopped)}
    BY DEF MoveAllDogs
  <2>4. /\ MoveDog(dogs[b], d, b \in stopped) \in Dog
        /\ MoveDog(dogs[b], d, b \in stopped).id = dogs[b].id
        /\ MoveDog(dogs[b], d, b \in stopped).sess = dogs[b].sess
    <3>1. CASE ~dogs[b].moving \/ d = 0
      <4>1. MoveDog(dogs[b], d, b \in stopped)
              = [dogs[b] EXCEPT !.idle = Capped(dogs[b].idle + d, Retirement)]
        BY <3>1 DEF MoveDog
      <4> QED BY <4>1, <2>1, <2>2 DEF Dog
    <3>2. CASE ~(~dogs[b].moving \/ d = 0)
      <4> DEFINE goesOn == ~(b \in stopped)
      <4>1. MoveDog(dogs[b], d, b \in stopped)
              = [dogs[b] EXCEPT !.idle = 0, !.moving = goesOn]
        BY <3>2 DEF MoveDog
      <4>2. goesOn \in BOOLEAN
        OBVIOUS
      <4>3. 0 \in 0..Retirement
        BY <2>1
      <4> HIDE DEF goesOn
      <4> QED BY <4>1, <4>2, <4>3, <2>1 DEF Dog
    <3> QED BY <3>1, <3>2
  <2> QED BY <2>1, <2>3, <2>4
<1> QED BY <1>1, <1>2

-----------------------------------------------------------------------------
(* One lemma per action: it keeps IInv.                                    *)

\* The initial state satisfies the inductive invariant.
LEMMA InitIInv ==
  ASSUME Init
  PROVE  IInv
<1>1. /\ DOMAIN sessions = {} /\ DOMAIN dogs = {}
      /\ DOMAIN players = {} /\ DOMAIN tokens = {}
  BY DEF Init
<1>2. /\ rows = [b \in Births |-> 0] /\ joins = 0 /\ born = {}
      /\ saveFailed = FALSE
  BY DEF Init
<1>3. TypeOK
  <2>1. MaxJoins \in Nat
    BY Assumptions
  <2>2. rows \in [Births -> 0..2] /\ joins \in 0..MaxJoins /\ born \subseteq 1..joins
    BY <2>1, <1>2
  <2>3. saveFailed \in BOOLEAN
    BY <1>2
  <2> QED BY <1>1, <2>2, <2>3 DEF TypeOK
<1>4. /\ RegistryMirrored /\ DogsMatchPlayers /\ NoOrphans /\ OneSessionPerMap
      /\ GhostsOnlyOnRoadlessMaps
  BY <1>1 DEF RegistryMirrored, DogsMatchPlayers, NoOrphans, OneSessionPerMap, IsInjective,
              GhostsOnlyOnRoadlessMaps
<1>5. CareersBegun /\ NoDogVanishes /\ SavedOnceAndGone
  BY <1>1, <1>2 DEF CareersBegun, NoDogVanishes, SavedOnceAndGone
<1> QED
  BY <1>3, <1>4, <1>5 DEF IInv, Core

\* A join keeps it: its id, its token and its session number are new, or the
\* session is the one of the map.
LEMMA JoinGameKeeps ==
  ASSUME Core, NEW m \in Maps, NEW fits \in NameFits, JoinGame(m, fits)
  PROVE  Core' /\ Careers
<1> USE DEF Core
<1> DEFINE token == joins + 1
<1>1. PICK sid \in SessionFor(m), id \in NewPlayerIds :
        /\ sessions' = Emplace(sessions, sid, m)
        /\ AddPlayer([id |-> id, sess |-> sid, token |-> joins'])
        /\ IF m \in RoadlessMaps
           THEN UNCHANGED <<dogs, born>>
           ELSE /\ dogs' = Emplace(dogs, joins', NewDog(id, sid, fits))
                /\ born' = born \cup {joins'}
  BY DEF JoinGame
<1>2. /\ joins' = token /\ token \in Births /\ token \notin 1..joins
      /\ joins \in Nat /\ UNCHANGED <<rows, saveFailed>>
  BY Assumptions DEF JoinGame, TypeOK, Births
<1>3. id \in Nat /\ id \notin DOMAIN players
  <2>1. {g + 1 : g \in EndRead} \subseteq Nat
    <3>1. EndRead \subseteq Nat
      BY Assumptions
    <3> QED BY <3>1
  <2> QED BY <2>1, NextKeysFresh DEF NewPlayerIds, TypeOK
<1>4. /\ sid \in Nat
      /\ DOMAIN sessions' = DOMAIN sessions \cup {sid}
      /\ sessions'[sid] = m
      /\ \A s \in DOMAIN sessions : sessions'[s] = sessions[s]
      /\ IsInjective(sessions')
  BY <1>1, SessionForMap
<1> DEFINE p == [id |-> id, sess |-> sid, token |-> token]
           dog == NewDog(id, sid, fits)
<1>5. /\ DOMAIN players' = DOMAIN players \cup {id}
      /\ players'[id] = p
      /\ \A i \in DOMAIN players : players'[i] = players[i]
  BY <1>1, <1>2, <1>3 DEF AddPlayer, Emplace
<1>6. /\ DOMAIN tokens' = DOMAIN tokens \cup {token}
      /\ tokens'[token] = p
      /\ \A t \in DOMAIN tokens : tokens'[t] = tokens[t]
      /\ token \notin DOMAIN tokens
  BY <1>1, <1>2 DEF AddPlayer, Emplace, TypeOK
<1>7. p \in Player /\ p.id = id /\ p.sess = sid /\ p.token = token
  BY <1>2, <1>3, <1>4 DEF Player
<1>8. \/ UNCHANGED <<dogs, born>> /\ m \in RoadlessMaps
      \/ /\ DOMAIN dogs' = DOMAIN dogs \cup {token}
         /\ dogs'[token] = dog
         /\ \A b \in DOMAIN dogs : dogs'[b] = dogs[b]
         /\ born' = born \cup {token}
  BY <1>1, <1>2 DEF Emplace, TypeOK
<1>9. dog \in Dog /\ dog.id = id /\ dog.sess = sid
  BY <1>3, <1>4, Assumptions DEF NewDog, Dog
<1>10. token \notin DOMAIN dogs /\ token \notin born /\ rows[token] = 0
  BY <1>2 DEF TypeOK, CareersBegun
<1> HIDE DEF p, dog
<1>11. 1..joins' = 1..joins \cup {token} /\ joins' \in 0..MaxJoins
  BY <1>2, Assumptions DEF Births
<1> HIDE DEF token
<1>12. TypeOK'
  <2>1. DOMAIN sessions' \subseteq Nat /\ \A s \in DOMAIN sessions' : sessions'[s] \in Maps
    BY <1>4 DEF TypeOK
  <2>2. DOMAIN dogs' \subseteq 1..joins' /\ born' \subseteq 1..joins'
    BY <1>8, <1>11 DEF TypeOK
  <2>3. \A b \in DOMAIN dogs' : dogs'[b] \in Dog /\ dogs'[b].sess \in DOMAIN sessions'
    BY <1>4, <1>8, <1>9 DEF TypeOK
  <2>4. DOMAIN players' \subseteq Nat
    BY <1>3, <1>5 DEF TypeOK
  <2>5. \A i \in DOMAIN players' :
          players'[i] \in Player /\ players'[i].sess \in DOMAIN sessions'
    BY <1>4, <1>5, <1>7 DEF TypeOK
  <2>6. DOMAIN tokens' \subseteq 1..joins' /\ \A t \in DOMAIN tokens' : tokens'[t] \in Player
    BY <1>6, <1>7, <1>11 DEF TypeOK
  <2> QED
    BY <2>1, <2>2, <2>3, <2>4, <2>5, <2>6, <1>2, <1>11 DEF TypeOK
<1>13. RegistryMirrored'
  BY <1>3, <1>5, <1>6, <1>7 DEF RegistryMirrored
<1>14. DogsMatchPlayers' /\ (NoOrphans => NoOrphans')
  <2>1. token \notin DOMAIN dogs
    BY <1>10
  <2> QED
    BY <2>1, <1>6, <1>7, <1>8, <1>9 DEF DogsMatchPlayers, NoOrphans
<1>15. CareersBegun'
  BY <1>2, <1>8 DEF CareersBegun
<1>16. OneSessionPerMap'
  BY <1>4 DEF OneSessionPerMap
<1>17. GhostsOnlyOnRoadlessMaps => GhostsOnlyOnRoadlessMaps'
  BY <1>4, <1>5, <1>7, <1>8 DEF GhostsOnlyOnRoadlessMaps, TypeOK
<1>18. NoDogVanishes => NoDogVanishes'
  BY <1>2, <1>8 DEF NoDogVanishes
<1>19. SavedOnceAndGone => SavedOnceAndGone'
  BY <1>2, <1>8, <1>10 DEF SavedOnceAndGone
<1> QED
  BY <1>12, <1>13, <1>14, <1>15, <1>16, <1>17, <1>18, <1>19 DEF Careers

\* What leaves the game as it is but for the clocks and the speeds of its dogs.
LEMMA SameDogsKeep ==
  ASSUME Core, UNCHANGED <<sessions, players, tokens, rows, joins, born, saveFailed>>,
         DOMAIN dogs' = DOMAIN dogs,
         \A b \in DOMAIN dogs : /\ dogs'[b] \in Dog
                                /\ dogs'[b].id = dogs[b].id
                                /\ dogs'[b].sess = dogs[b].sess
  PROVE  Core' /\ Careers
<1>1. TypeOK'
  BY DEF Core, TypeOK
<1>2. RegistryMirrored' /\ OneSessionPerMap'
  BY DEF Core, RegistryMirrored, OneSessionPerMap
<1>3. DogsMatchPlayers' /\ CareersBegun'
  BY DEF Core, DogsMatchPlayers, CareersBegun
<1>4. Careers
  BY DEF Careers, NoOrphans, GhostsOnlyOnRoadlessMaps, NoDogVanishes, SavedOnceAndGone
<1> QED
  BY <1>1, <1>2, <1>3, <1>4 DEF Core

\* Steering a dog keeps it.
LEMMA MovePlayerKeeps ==
  ASSUME Core, NEW t \in DOMAIN tokens, NEW go \in BOOLEAN, MovePlayer(t, go)
  PROVE  Core' /\ Careers
<1>1. PICK b \in SteeredBy(t) : dogs' = [dogs EXCEPT ![b].moving = go]
  BY DEF MovePlayer
<1>2. b \in DOMAIN dogs
  BY DEF SteeredBy
<1>3. /\ DOMAIN dogs' = DOMAIN dogs
      /\ \A c \in DOMAIN dogs : /\ dogs'[c] \in Dog
                                /\ dogs'[c].id = dogs[c].id
                                /\ dogs'[c].sess = dogs[c].sess
  BY <1>1, <1>2 DEF Core, TypeOK, Dog
<1> QED
  BY <1>3, SameDogsKeep DEF MovePlayer

\* A tick that a session cuts short keeps it.
LEMMA TickThrowsKeeps ==
  ASSUME Core, NEW d \in Deltas, TickThrows(d)
  PROVE  Core' /\ Careers
<1>1. PICK s \in DOMAIN sessions, stopped \in SUBSET Running :
        dogs' = MoveAllDogs(d, {r \in DOMAIN sessions : r <= s}, stopped)
  BY DEF TickThrows
<1>2. /\ DOMAIN dogs' = DOMAIN dogs
      /\ \A c \in DOMAIN dogs : /\ dogs'[c] \in Dog
                                /\ dogs'[c].id = dogs[c].id
                                /\ dogs'[c].sess = dogs[c].sess
  BY <1>1, MovingKeepsDogs DEF Core
<1> QED
  BY <1>2, SameDogsKeep DEF TickThrows

\* The heart of the matter.  The dogs to remove are known by their births, the
\* players to delete by the dogs' ids, and their tokens by the players: because
\* the registry is mirrored and every dog matches its player, all three name
\* the same careers.
LEMMA TickKeeps ==
  ASSUME Core, NoOrphans, NEW d \in Deltas, Tick(d)
  PROVE  Core' /\ Careers
<1> USE DEF Core
<1>1. PICK stopped \in SUBSET Running :
        \E F \in Failures(MoveAllDogs(d, DOMAIN sessions, stopped)) :
          RetireDogs(MoveAllDogs(d, DOMAIN sessions, stopped), F)
  BY DEF Tick
<1> DEFINE ds == MoveAllDogs(d, DOMAIN sessions, stopped)
<1>2. PICK F \in Failures(ds) : RetireDogs(ds, F)
  BY <1>1
<1>3. /\ DOMAIN ds = DOMAIN dogs
      /\ \A b \in DOMAIN dogs : /\ ds[b] \in Dog
                                /\ ds[b].id = dogs[b].id
                                /\ ds[b].sess = dogs[b].sess
  BY MovingKeepsDogs
<1> HIDE DEF ds
<1> DEFINE saved   == SavedDogs(ds, F)
           removed == RemovedDogs(ds, F)
           gone    == {ds[b].id : b \in removed}
<1>4. removed \subseteq saved /\ saved \subseteq DOMAIN dogs
  BY <1>3 DEF SavedDogs, RemovedDogs, Overdue
<1>5. F = {} => saved = removed
  BY DEF SavedDogs, RemovedDogs
<1>6. /\ rows' = [b \in Births |-> IF b \in saved THEN Capped(rows[b] + 1, 2)
                                                  ELSE rows[b]]
      /\ dogs' = Restrict(ds, DOMAIN ds \ removed)
      /\ DeletePlayers(gone)
      /\ saveFailed' = (saveFailed \/ F # {})
  BY <1>2 DEF RetireDogs
<1> HIDE DEF saved, removed
<1>7. UNCHANGED <<sessions, joins, born>>
  BY DEF Tick
<1>8. /\ DOMAIN dogs' = DOMAIN dogs \ removed
      /\ \A b \in DOMAIN dogs' : /\ dogs'[b] \in Dog
                                 /\ dogs'[b].id = dogs[b].id
                                 /\ dogs'[b].sess = dogs[b].sess
  BY <1>3, <1>6 DEF Restrict
<1>9. \A b \in removed : /\ ds[b].id = tokens[b].id
                         /\ b \in DOMAIN tokens
                         /\ ds[b].id \in DOMAIN players
                         /\ players[ds[b].id].token = b
  BY <1>3, <1>4 DEF DogsMatchPlayers, NoOrphans, RegistryMirrored
<1>10. {players[i].token : i \in gone} = removed
  BY <1>9
<1>11. /\ DOMAIN players' = DOMAIN players \ gone
       /\ \A i \in DOMAIN players' : players'[i] = players[i]
  BY <1>6 DEF DeletePlayers, Restrict
<1>12. /\ DOMAIN tokens' = DOMAIN tokens \ removed
       /\ \A t \in DOMAIN tokens' : tokens'[t] = tokens[t]
  BY <1>6, <1>10 DEF DeletePlayers, Restrict
<1>13. \A i \in DOMAIN players : i \in gone <=> players[i].token \in removed
  BY <1>9 DEF RegistryMirrored
<1> HIDE DEF gone
<1>14. /\ rows' \in [Births -> 0..2]
       /\ \A b \in Births : IF b \in saved THEN rows'[b] > 0 ELSE rows'[b] = rows[b]
       /\ \A b \in saved \cap Births : rows[b] = 0 => rows'[b] = 1
  BY <1>6 DEF TypeOK, Capped
<1>15. DOMAIN dogs \subseteq Births
  BY Assumptions DEF TypeOK, Births
<1>16. TypeOK'
  <2>1. DOMAIN dogs' \subseteq 1..joins'
    BY <1>7, <1>8 DEF TypeOK
  <2>2. \A b \in DOMAIN dogs' : dogs'[b] \in Dog /\ dogs'[b].sess \in DOMAIN sessions'
    BY <1>7, <1>8 DEF TypeOK
  <2>3. /\ DOMAIN players' \subseteq Nat
        /\ \A i \in DOMAIN players' :
             players'[i] \in Player /\ players'[i].sess \in DOMAIN sessions'
    BY <1>7, <1>11 DEF TypeOK
  <2>4. DOMAIN tokens' \subseteq 1..joins' /\ \A t \in DOMAIN tokens' : tokens'[t] \in Player
    BY <1>7, <1>12 DEF TypeOK
  <2>5. saveFailed' \in BOOLEAN
    BY <1>6
  <2> QED
    BY <2>1, <2>2, <2>3, <2>4, <2>5, <1>7, <1>14 DEF TypeOK
<1>17. RegistryMirrored'
  BY <1>11, <1>12, <1>13 DEF RegistryMirrored
<1>18. DogsMatchPlayers' /\ NoOrphans'
  BY <1>8, <1>12 DEF DogsMatchPlayers, NoOrphans
<1>19. CareersBegun'
  BY <1>4, <1>7, <1>8, <1>14 DEF CareersBegun
<1>20. OneSessionPerMap'
  BY <1>7 DEF OneSessionPerMap
<1>21. GhostsOnlyOnRoadlessMaps => GhostsOnlyOnRoadlessMaps'
  BY <1>7, <1>8, <1>11, <1>13 DEF GhostsOnlyOnRoadlessMaps
<1>22. NoDogVanishes => NoDogVanishes'
  <2>1. born \subseteq Births
    BY Assumptions DEF TypeOK, Births
  <2> QED
    BY <2>1, <1>4, <1>7, <1>8, <1>14 DEF NoDogVanishes
<1>23. SavedOnceAndGone => SavedOnceAndGone'
  <2>1. SUFFICES ASSUME SavedOnceAndGone, ~saveFailed'
                 PROVE  \A b \in Births : /\ rows'[b] <= 1
                                          /\ rows'[b] = 1 => b \notin DOMAIN dogs'
    BY DEF SavedOnceAndGone
  <2>2. ~saveFailed /\ F = {}
    BY <2>1, <1>6
  <2>3. \A b \in Births : /\ rows[b] <= 1
                          /\ rows[b] = 1 => b \notin DOMAIN dogs
    BY <2>1, <2>2 DEF SavedOnceAndGone
  <2>4. rows \in [Births -> 0..2]
    BY DEF TypeOK
  <2>5. saved = removed
    BY <2>2, <1>5
  <2>6. \A b \in saved : b \in Births /\ rows[b] = 0
    BY <2>3, <2>4, <1>4, <1>15
  <2> QED
    BY <2>3, <2>5, <2>6, <1>4, <1>8, <1>14
<1> QED
  BY <1>16, <1>17, <1>18, <1>19, <1>20, <1>21, <1>22, <1>23 DEF Careers

-----------------------------------------------------------------------------
(* The theorems.                                                           *)

\* Every step keeps the inductive invariant.
LEMMA NextKeepsIInv == IInv /\ [Next]_vars => IInv'
<1> SUFFICES ASSUME IInv, [Next]_vars
             PROVE  IInv'
  OBVIOUS
<1>1. ASSUME NEW m \in Maps, NEW fits \in NameFits, JoinGame(m, fits)
      PROVE  IInv'
  BY <1>1, JoinGameKeeps DEF IInv, Careers
<1>2. ASSUME NEW t \in DOMAIN tokens, NEW go \in BOOLEAN, MovePlayer(t, go)
      PROVE  IInv'
  BY <1>2, MovePlayerKeeps DEF IInv, Careers
<1>3. ASSUME NEW d \in Deltas, Tick(d)
      PROVE  IInv'
  BY <1>3, TickKeeps DEF IInv, Careers
<1>4. ASSUME NEW d \in Deltas, TickThrows(d)
      PROVE  IInv'
  BY <1>4, TickThrowsKeeps DEF IInv, Careers
<1>5. CASE UNCHANGED vars
  BY <1>5 DEF vars, IInv, Core, TypeOK, RegistryMirrored, DogsMatchPlayers, CareersBegun,
              OneSessionPerMap, NoOrphans, GhostsOnlyOnRoadlessMaps, NoDogVanishes,
              SavedOnceAndGone
<1> QED
  BY <1>1, <1>2, <1>3, <1>4, <1>5 DEF Next

\* The inductive invariant holds throughout.
THEOREM Invariance == Spec => []IInv
BY InitIInv, NextKeepsIInv, PTL DEF Spec

\* Ids, session numbers and clocks stay in range, and no dog or player belongs
\* to a session that does not exist.
THEOREM TypeCorrect == Spec => []TypeOK
<1>1. IInv => TypeOK
  BY DEF IInv, Core
<1> QED BY <1>1, Invariance, PTL

\* players_map_ and token_to_player_ never drift apart.
THEOREM RegistryStaysMirrored == Spec => []RegistryMirrored
<1>1. IInv => RegistryMirrored
  BY DEF IInv, Core
<1> QED BY <1>1, Invariance, PTL

\* Two dogs never share an id; hence looking a dog up by its player's id finds
\* that player's dog and no other.
LEMMA IdsTellDogsApart ==
  ASSUME Core, NoOrphans, NEW t \in DOMAIN tokens, NEW b \in DOMAIN dogs,
         dogs[b].id = tokens[t].id
  PROVE  b = t
<1>1. /\ b \in DOMAIN tokens /\ tokens[b].id = tokens[t].id
      /\ tokens[b].token = b /\ tokens[t].token = t
  BY DEF Core, NoOrphans, DogsMatchPlayers, RegistryMirrored
<1>2. tokens[b] = players[tokens[b].id] /\ tokens[t] = players[tokens[t].id]
  BY <1>1 DEF Core, RegistryMirrored
<1> QED BY <1>1, <1>2

\* Hence the dogs a token finds are its own and no other, and every dog's token
\* finds it.
LEMMA TokensFindTheirDogs ==
  ASSUME Core, NoOrphans
  PROVE  TokenSteersOnlyItsDog /\ EveryDogIsSteerable
<1>1. TokenSteersOnlyItsDog
  BY IdsTellDogsApart DEF TokenSteersOnlyItsDog, SteeredBy
<1>2. ASSUME NEW b \in DOMAIN dogs
      PROVE  b \in DOMAIN tokens /\ SteeredBy(b) = {b}
  <2>1. /\ b \in DOMAIN tokens
        /\ dogs[b].sess = tokens[b].sess /\ dogs[b].id = tokens[b].id
    BY DEF Core, NoOrphans, DogsMatchPlayers
  <2>2. {c \in DOMAIN dogs : /\ dogs[c].sess = tokens[b].sess
                             /\ dogs[c].id = tokens[b].id} = {b}
    BY <2>1, IdsTellDogsApart
  <2>3. b <= b
    BY DEF Core, TypeOK
  <2> QED BY <2>1, <2>2, <2>3 DEF SteeredBy
<1> QED
  BY <1>1, <1>2 DEF EveryDogIsSteerable

\* A token steers the dog it was issued with or none, although ids are reused.
THEOREM TokensSteerTheirOwnDogs == Spec => []TokenSteersOnlyItsDog
<1>1. IInv => TokenSteersOnlyItsDog
  BY TokensFindTheirDogs DEF IInv
<1> QED BY <1>1, Invariance, PTL

\* Every dog on a map can be steered by the player it was given to.
THEOREM DogsStaySteerable == Spec => []EveryDogIsSteerable
<1>1. IInv => EveryDogIsSteerable
  BY TokensFindTheirDogs DEF IInv
<1> QED BY <1>1, Invariance, PTL

\* Retirement removes a dog and its player together.
THEOREM GhostsAreOfRoadlessMaps == Spec => []GhostsOnlyOnRoadlessMaps
<1>1. IInv => GhostsOnlyOnRoadlessMaps
  BY DEF IInv
<1> QED BY <1>1, Invariance, PTL

\* There is at most one session per map.
THEOREM SessionsAreUnique == Spec => []OneSessionPerMap
<1>1. IInv => OneSessionPerMap
  BY DEF IInv, Core
<1> QED BY <1>1, Invariance, PTL

\* No dog is lost without a row, whichever INSERTs fail.
THEOREM NoCareerIsLost == Spec => []NoDogVanishes
<1>1. IInv => NoDogVanishes
  BY DEF IInv
<1> QED BY <1>1, Invariance, PTL

\* Without a failed INSERT there is one row per dog, written as it leaves.
THEOREM RowsAreUnique == Spec => []SavedOnceAndGone
<1>1. IInv => SavedOnceAndGone
  BY DEF IInv
<1> QED BY <1>1, Invariance, PTL

\* The clock of a dog that runs through a tick restarts, and a tick of length
\* zero leaves it alone: such a dog is removed only if it was overdue before.
LEMMA OnlyOverdueRunnersLeave ==
  ASSUME IInv, [Next]_vars, NEW b \in DOMAIN dogs \ DOMAIN dogs', dogs[b].moving
  PROVE  dogs[b].idle >= Retirement
<1>1. PICK d \in Deltas : Tick(d)
  <2>1. ASSUME NEW m \in Maps, NEW fits \in NameFits, JoinGame(m, fits)
        PROVE  DOMAIN dogs \subseteq DOMAIN dogs'
    BY <2>1 DEF JoinGame, Emplace
  <2>2. ASSUME NEW t \in DOMAIN tokens, NEW go \in BOOLEAN, MovePlayer(t, go)
        PROVE  DOMAIN dogs' = DOMAIN dogs
    BY <2>2 DEF MovePlayer
  <2>3. ASSUME NEW d \in Deltas, TickThrows(d)
        PROVE  DOMAIN dogs' = DOMAIN dogs
    BY <2>3 DEF TickThrows, MoveAllDogs
  <2> QED
    BY <2>1, <2>2, <2>3 DEF Next, vars
<1>2. PICK stopped \in SUBSET Running :
        \E F \in Failures(MoveAllDogs(d, DOMAIN sessions, stopped)) :
          RetireDogs(MoveAllDogs(d, DOMAIN sessions, stopped), F)
  BY <1>1 DEF Tick
<1> DEFINE ds == MoveAllDogs(d, DOMAIN sessions, stopped)
<1>3. b \in Overdue(ds)
  BY <1>2 DEF RetireDogs, RemovedDogs, Restrict, MoveAllDogs
<1>4. ds[b].idle >= Retirement
  BY <1>3 DEF Overdue
<1>5. /\ dogs[b] \in Dog /\ dogs[b].idle \in 0..Retirement
      /\ dogs[b].sess \in DOMAIN sessions
      /\ Retirement \in Nat \ {0} /\ d \in Nat
  BY Assumptions DEF IInv, Core, TypeOK, Dog
<1>6. ds[b] = MoveDog(dogs[b], d, b \in stopped)
  BY <1>5 DEF MoveAllDogs
<1> HIDE DEF ds
<1>7. CASE d = 0
  <2>1. MoveDog(dogs[b], d, b \in stopped)
          = [dogs[b] EXCEPT !.idle = Capped(dogs[b].idle + d, Retirement)]
    BY <1>7 DEF MoveDog
  <2>2. Capped(dogs[b].idle + d, Retirement) = dogs[b].idle
    BY <1>5, <1>7 DEF Capped
  <2>3. ds[b].idle = dogs[b].idle
    BY <2>1, <2>2, <1>5, <1>6 DEF Dog
  <2> QED BY <2>3, <1>4
<1>8. CASE d # 0
  <2> DEFINE goesOn == ~(b \in stopped)
  <2>1. MoveDog(dogs[b], d, b \in stopped)
          = [dogs[b] EXCEPT !.idle = 0, !.moving = goesOn]
    BY <1>8 DEF MoveDog
  <2> HIDE DEF goesOn
  <2>2. ds[b].idle = 0
    BY <2>1, <1>5, <1>6 DEF Dog
  <2> QED BY <2>2, <1>4, <1>5
<1> QED BY <1>7, <1>8

\* No tick retires a dog that is running, unless a failed INSERT or an
\* interrupted tick had kept it on the map past its time.
THEOREM RunningDogsAreSafe == Spec => RunningDogsStay
<1>1. IInv /\ [Next]_vars
        => [\A b \in DOMAIN dogs \ DOMAIN dogs' :
              dogs[b].moving => dogs[b].idle >= Retirement]_vars
  BY OnlyOverdueRunnersLeave
<1> QED
  BY <1>1, Invariance, PTL DEF Spec, RunningDogsStay

-----------------------------------------------------------------------------
(* The refinement: every step is a step of the hall of fame or a stutter.  *)

Recorded == {b \in Births : rows[b] > 0}

\* A join that gets a dog is its entry into the hall of fame game; a join that
\* does not is no step of it.
LEMMA JoinIsEnter ==
  ASSUME IInv, NEW m \in Maps, NEW fits \in NameFits, JoinGame(m, fits)
  PROVE  \/ UNCHANGED <<DOMAIN dogs, Recorded>>
         \/ /\ joins + 1 \in Births
            /\ joins + 1 \notin DOMAIN dogs \cup Recorded
            /\ DOMAIN dogs' = DOMAIN dogs \cup {joins + 1}
            /\ Recorded' = Recorded
<1>1. PICK sid \in SessionFor(m), id \in NewPlayerIds :
        IF m \in RoadlessMaps
        THEN UNCHANGED <<dogs, born>>
        ELSE /\ dogs' = Emplace(dogs, joins', NewDog(id, sid, fits))
             /\ born' = born \cup {joins'}
  BY DEF JoinGame
<1>2. /\ joins' = joins + 1 /\ joins + 1 \in Births /\ joins + 1 \notin 1..joins
      /\ rows' = rows
  BY Assumptions DEF JoinGame, IInv, Core, TypeOK, Births
<1>3. Recorded' = Recorded
  BY <1>2 DEF Recorded
<1>4. joins + 1 \notin DOMAIN dogs \cup Recorded
  BY <1>2 DEF IInv, Core, TypeOK, CareersBegun, Recorded
<1> QED
  BY <1>1, <1>2, <1>3, <1>4 DEF Emplace

\* A tick is a retirement, half failed or not.
LEMMA TickIsRetire ==
  ASSUME IInv, NEW d \in Deltas, Tick(d)
  PROVE  \E entered, leaving \in SUBSET Births :
           /\ entered \subseteq DOMAIN dogs
           /\ leaving \subseteq DOMAIN dogs \cap (Recorded \cup entered)
           /\ Recorded' = Recorded \cup entered
           /\ DOMAIN dogs' = DOMAIN dogs \ leaving
<1>1. PICK stopped \in SUBSET Running :
        \E F \in Failures(MoveAllDogs(d, DOMAIN sessions, stopped)) :
          RetireDogs(MoveAllDogs(d, DOMAIN sessions, stopped), F)
  BY DEF Tick
<1> DEFINE ds == MoveAllDogs(d, DOMAIN sessions, stopped)
<1>2. PICK F \in Failures(ds) : RetireDogs(ds, F)
  BY <1>1
<1>3. DOMAIN ds = DOMAIN dogs
  BY DEF MoveAllDogs
<1> HIDE DEF ds
<1> DEFINE saved   == SavedDogs(ds, F)
           removed == RemovedDogs(ds, F)
<1>4. removed \subseteq saved /\ saved \subseteq DOMAIN dogs
  BY <1>3 DEF SavedDogs, RemovedDogs, Overdue
<1>5. /\ rows' = [b \in Births |-> IF b \in saved THEN Capped(rows[b] + 1, 2)
                                                  ELSE rows[b]]
      /\ DOMAIN dogs' = DOMAIN dogs \ removed
  BY <1>2, <1>3 DEF RetireDogs, Restrict
<1> HIDE DEF saved, removed
<1>6. DOMAIN dogs \subseteq Births
  BY Assumptions DEF IInv, Core, TypeOK, Births
<1>7. Recorded' = Recorded \cup saved
  BY <1>4, <1>5, <1>6 DEF IInv, Core, TypeOK, Recorded, Capped
<1> QED
  BY <1>4, <1>5, <1>6, <1>7

\* Every step of App is a step of HallOfFame or none.
LEMMA StepsAreCareerSteps ==
  ASSUME IInv, [Next]_vars
  PROVE  [Fame!Next]_(Fame!careers)
<1> USE DEF Fame!Next, Fame!careers, Fame!Enter, Fame!Retire, Recorded
<1>1. ASSUME NEW m \in Maps, NEW fits \in NameFits, JoinGame(m, fits)
      PROVE  [Fame!Next]_(Fame!careers)
  BY <1>1, JoinIsEnter
<1>2. ASSUME NEW t \in DOMAIN tokens, NEW go \in BOOLEAN, MovePlayer(t, go)
      PROVE  UNCHANGED Fame!careers
  BY <1>2 DEF MovePlayer
<1>3. ASSUME NEW d \in Deltas, Tick(d)
      PROVE  Fame!Next
  BY <1>3, TickIsRetire
<1>4. ASSUME NEW d \in Deltas, TickThrows(d)
      PROVE  UNCHANGED Fame!careers
  BY <1>4 DEF TickThrows, MoveAllDogs
<1>5. CASE UNCHANGED vars
  BY <1>5 DEF vars
<1> QED
  BY <1>1, <1>2, <1>3, <1>4, <1>5 DEF Next

\* A dog enters the game once, leaves it only with a row in the table, keeps
\* the row and never comes back.
THEOREM AppImplementsHallOfFame == Spec => CareersEndInTheHall
<1>1. Init => Fame!Init
  BY DEF Init, Fame!Init
<1>2. IInv /\ [Next]_vars => [Fame!Next]_(Fame!careers)
  BY StepsAreCareerSteps
<1> QED
  BY <1>1, <1>2, Invariance, PTL DEF Spec, Fame!Spec, CareersEndInTheHall
=============================================================================
