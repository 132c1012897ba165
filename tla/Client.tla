------------------------------- MODULE Client -------------------------------
(***************************************************************************)
(* The browser's game page (static/js/game.js): its loading, the two polls *)
(* of class GameState, and the scene it builds from their answers.         *)
(*                                                                         *)
(* JavaScript runs one callback at a time, so a callback is one action.    *)
(* What is concurrent are the requests: nothing in GameState holds a poll  *)
(* back while an earlier one is out (updateInProgress and                  *)
(* playersSuncInProgress are true only inside a callback), so that answers *)
(* may arrive in any order, and some never do.                             *)
(*                                                                         *)
(* The server is what its answers show: the dogs of the page's session,    *)
(* their bags and the loot on the ground; the list of players has those of *)
(* all sessions.  Their ids are of one kind, and are given out again after *)
(* a retirement (app.cpp:39), in the same session or in another.           *)
(*                                                                         *)
(* An object of the scene is <<loot id, n>>.  A player's data object is    *)
(* reached from currentState.players[id].data and, if the id is `linked',  *)
(* from players[id].data; when both exist they are one object, so `data'   *)
(* has one per id.  playerData is a string with JSON in it (app.cpp:93),   *)
(* so that the page reads undefined for its 'name'; here it stands for the *)
(* join it tells of.  Positions, rotations and the camera are left out;    *)
(* loot on its way up is gone after any frame, as any time may have passed.*)
(***************************************************************************)
EXTENDS Naturals, Bags, Functions, FiniteSets

CONSTANTS
  Own,         \* the dog of this page
  Ids,         \* the ids that players may have
  Loot,        \* the ids of the loot
  TypeCounts,  \* the numbers of loot types a map may have
  MaxVersion,  \* bound: steps of the server
  MaxPolls,    \* bound: requests of one kind out at a time
  MaxLost      \* bound: loads and requests that never end

ASSUME ClientAssumptions ==
  /\ Own \in Ids /\ IsFiniteSet(Ids) /\ IsFiniteSet(Loot)
  /\ TypeCounts \subseteq Nat
  /\ MaxVersion \in Nat /\ MaxPolls \in Nat \ {0} /\ MaxLost \in Nat

VARIABLES
  world,         \* what an answer given now would show, with its version
  page,          \* "game", or "records" once goToRecords was called
  loads,         \* loads under way: the Actor, and the indices of loot types
  objectsToLoad, \* the counter of loadLootTypes
  ready,         \* those of loadedActor, lootTypesLoaded, gameState that are set
  inflight,      \* requests and answers under way, a bag
  loaded,        \* those of stateLoaded, playersLoaded, started that are set
  desiredState,  \* the last answer of /state
  current,       \* the ids of currentState.players
  data,          \* id -> the bag of its data object: loot id -> object
  players,       \* id -> playerData, by the join it tells of
  linked,        \* the ids with players[id].data set
  lostObjects,   \* loot id -> object on the ground
  disappearing,  \* disappearingLoot: loot id -> object on its way up
  scene,         \* the loot objects in the THREE scene
  spawned,       \* history: all loot there has been
  left,          \* history: ids that have been left by a dog
  reused,        \* history: ids that have been given out again
  listVersion,   \* history: the version of the last list of players
  overtaken,     \* history: an answer came after a younger one of its kind
  seen,          \* history: the ids that lists of players have shown
  unlisted,      \* history: a dog took loot out of view before any list had it
  outrun,        \* history: a dog that a list had dropped was given loot
  lost,          \* history: loads and requests that got lost
  stuck          \* history: one of those was needed to start the game

serverVars == <<world, spawned, left, reused>>
loadVars   == <<loads, objectsToLoad, ready>>
viewVars   == <<desiredState, current, data, players, linked, lostObjects,
                disappearing, scene>>
noteVars   == <<listVersion, overtaken, seen, unlisted, outrun>>
vars == <<serverVars, page, loadVars, inflight, loaded, viewVars, noteVars, lost, stuck>>

-----------------------------------------------------------------------------
(* The server.                                                             *)

Step(w) ==
  /\ page = "game" /\ world.v < MaxVersion
  /\ world' = [w EXCEPT !.v = @ + 1]
  /\ UNCHANGED <<page, loadVars, inflight, loaded, viewVars, noteVars, lost, stuck>>

\* The ids of all players, and of those of the other sessions.
Listed(w) == DOMAIN w.dogs \cup DOMAIN w.others
GivenOut(i) ==
  /\ i \in Ids \ (Listed(world) \cup {Own})
  /\ reused' = reused \cup ({i} \cap left)
  /\ UNCHANGED <<spawned, left>>

Joins(i) ==
  /\ GivenOut(i)
  /\ Step([world EXCEPT !.dogs = [j \in DOMAIN @ \cup {i} |->
             IF j = i THEN [name |-> world.v + 1, bag |-> {}] ELSE @[j]]])

JoinsElsewhere(i) ==
  /\ GivenOut(i)
  /\ Step([world EXCEPT !.others = [j \in DOMAIN @ \cup {i} |->
             IF j = i THEN world.v + 1 ELSE @[j]]])

Retires(i) ==
  /\ i \in DOMAIN world.dogs
  /\ Step([world EXCEPT !.dogs = Restrict(@, DOMAIN @ \ {i})])
  /\ left' = left \cup {i}
  /\ UNCHANGED <<spawned, reused>>

RetiresElsewhere(i) ==
  /\ i \in DOMAIN world.others
  /\ Step([world EXCEPT !.others = Restrict(@, DOMAIN @ \ {i})])
  /\ left' = left \cup {i}
  /\ UNCHANGED <<spawned, reused>>

Spawns(l) ==
  /\ l \in Loot \ spawned
  /\ Step([world EXCEPT !.ground = @ \cup {l}])
  /\ spawned' = spawned \cup {l}
  /\ UNCHANGED <<left, reused>>

IsTaken(l, i) ==
  /\ l \in world.ground /\ i \in DOMAIN world.dogs
  /\ Step([world EXCEPT !.ground = @ \ {l}, !.dogs[i].bag = @ \cup {l}])
  /\ UNCHANGED <<spawned, left, reused>>

Delivers(i) ==
  /\ i \in DOMAIN world.dogs /\ world.dogs[i].bag # {}
  /\ Step([world EXCEPT !.dogs[i].bag = {}])
  /\ UNCHANGED <<spawned, left, reused>>

\* GetGameStateUseCase and GetPlayersListUseCase: both know the token or not.
Asked(kind) == [kind |-> kind, status |-> "asked"]
AnswerNow(kind) ==
  IF Own \in DOMAIN world.dogs
  THEN [kind |-> kind, status |-> "ok", world |-> world]
  ELSE [kind |-> kind, status |-> "unauthorized"]

Answer(kind) ==
  /\ page = "game" /\ BagIn(Asked(kind), inflight)
  /\ inflight' = (inflight (-) SetToBag({Asked(kind)})) (+) SetToBag({AnswerNow(kind)})
  /\ UNCHANGED <<serverVars, page, loadVars, loaded, viewVars, noteVars, lost, stuck>>

-----------------------------------------------------------------------------
(* Loading: gameserverMain starts the loads, render waits for isReady.     *)

Actor == 0

\* Mutant: the counter is compared before it is decremented.
AllLoadedLate(n) == n = 0

\* loadLootTypes: --objectsToLoad == 0, which no map without loot types reaches.
AllLoaded(n) == n - 1 = 0

LoadActor ==
  /\ page = "game" /\ Actor \in loads
  /\ loads' = loads \ {Actor}
  /\ ready' = ready \cup {"loadedActor"}
  /\ UNCHANGED <<serverVars, page, objectsToLoad, inflight, loaded, viewVars,
                 noteVars, lost, stuck>>

LoadLootType ==
  /\ page = "game"
  /\ \E t \in loads \ {Actor} : loads' = loads \ {t}
  /\ objectsToLoad' = objectsToLoad - 1
  /\ ready' = IF AllLoaded(objectsToLoad) THEN ready \cup {"lootTypesLoaded"} ELSE ready
  /\ UNCHANGED <<serverVars, page, inflight, loaded, viewVars, noteVars, lost, stuck>>

\* No load has an error callback; nor is a type other than "obj" ever loaded.
LoadFails ==
  /\ page = "game" /\ lost < MaxLost
  /\ \E x \in loads : loads' = loads \ {x}
  /\ lost' = lost + 1
  /\ stuck' = TRUE
  /\ UNCHANGED <<serverVars, page, objectsToLoad, ready, inflight, loaded,
                 viewVars, noteVars>>

\* The first frame that is ready: the constructor sends the first two requests.
CreateGameState ==
  /\ page = "game" /\ ready = {"loadedActor", "lootTypesLoaded"}
  /\ ready' = ready \cup {"gameState"}
  /\ inflight' = SetToBag({Asked("state"), Asked("players")})
  /\ UNCHANGED <<serverVars, page, loads, objectsToLoad, loaded, viewVars,
                 noteVars, lost, stuck>>

-----------------------------------------------------------------------------
(* The scene.                                                              *)

Bags(d) == UNION {Range(d[i]) : i \in DOMAIN d}

\* desiredState before any answer.
NoAnswer == [v |-> 0, dogs |-> << >>, others |-> << >>, ground |-> {}]

\* What some table leads to, and what is left over.
Tracked == Range(lostObjects) \cup Range(disappearing) \cup Bags(data)
Orphans == scene \ Tracked

\* _createLoot: a clone that was not there before.
CreateLoot(l) ==
  LET taken == {o[2] : o \in {x \in scene \cup Tracked : x[1] = l}}
      n == CHOOSE k \in 1..Cardinality(taken) + 1 : k \notin taken
  IN  <<l, n>>

\* _applyDesiredState with _processLostObjects and _attachLootToPlayers: loot
\* no longer on the ground goes to the dog that has it now, or flies away.
\* entries: the ids in players at that moment.
ApplyDesiredState(w, entries) ==
  LET ids       == DOMAIN w.dogs
      bagOf(i)  == w.dogs[i].bag
      kept(i)   == IF i \in current THEN data[i] ELSE << >>
      abandoned == Restrict(lostObjects, DOMAIN lostObjects \ w.ground)
      missing(i) == bagOf(i) \ DOMAIN kept(i)
      wanted    == UNION {missing(i) : i \in ids}
      created   == (w.ground \ DOMAIN lostObjects) \cup (wanted \ DOMAIN abandoned)
      object(l) == IF l \in DOMAIN abandoned THEN abandoned[l] ELSE CreateLoot(l)
      unloaded(i) == DOMAIN kept(i) \ bagOf(i)
      flying    == DOMAIN abandoned \ wanted
      dropped   == UNION {unloaded(i) : i \in ids}
      rising(l) == IF l \in flying THEN abandoned[l]
                   ELSE IF l \in dropped
                   THEN kept(CHOOSE i \in ids : l \in unloaded(i))[l]
                   ELSE disappearing[l]
  IN  /\ lostObjects' = [l \in w.ground |-> IF l \in DOMAIN lostObjects
                                            THEN lostObjects[l] ELSE CreateLoot(l)]
      /\ data' = [i \in ids \cup linked |->
                    IF i \in ids
                    THEN [l \in bagOf(i) |-> IF l \in DOMAIN kept(i) THEN kept(i)[l]
                                                                    ELSE object(l)]
                    ELSE data[i]]
      /\ disappearing' = [l \in flying \cup dropped \cup DOMAIN disappearing |-> rising(l)]
      /\ scene' = scene \cup {CreateLoot(l) : l \in created}
      /\ linked' = linked \cup ((ids \ current) \cap entries)
      /\ current' = ids
      /\ unlisted' = (unlisted \/ \E i \in current \ (ids \cup seen) : kept(i) # << >>)
      /\ outrun' = (outrun \/ \E i \in (ids \cap seen) \ entries : missing(i) # {})

-----------------------------------------------------------------------------
(* The answers.                                                            *)

Take(a) == inflight' = inflight (-) SetToBag({a})

\* Mutant: one of the two first answers is enough.
MayStartEarly(flags) == flags # {}

\* _startGame, its condition.
MayStart(flags) == flags = {"stateLoaded", "playersLoaded"}

\* done of _updateState: keep the answer; then start the game, or apply it.
StateArrives(a) ==
  /\ page = "game" /\ a.kind = "state" /\ a.status = "ok"
  /\ Take(a)
  /\ desiredState' = a.world
  /\ LET flags == loaded \cup {"stateLoaded"}
     IN  IF "started" \in loaded \/ MayStart(flags)
         THEN /\ ApplyDesiredState(a.world, DOMAIN players)
              /\ loaded' = flags \cup {"started"}
         ELSE /\ loaded' = flags
              /\ UNCHANGED <<current, data, linked, lostObjects, disappearing,
                             scene, unlisted, outrun>>
  /\ overtaken' = (overtaken \/ a.world.v < desiredState.v)
  /\ UNCHANGED <<serverVars, page, loadVars, players, listVersion, seen, lost, stuck>>

Names(w) == [i \in Listed(w) |-> IF i \in DOMAIN w.dogs THEN w.dogs[i].name ELSE w.others[i]]

\* Mutants: the loot of a deleted player stays in the scene; nobody is deleted.
LeaveLoot(ids) == scene
DeleteNobody(listed) == {}

\* _deletePlayer, the objects it leaves in the scene.
WithoutLootOf(ids) == scene \ UNION {Range(data[i]) : i \in ids \cap linked}

Deleted(listed) == DOMAIN players \ listed

\* _updatePlayersList with _addPlayer and _deletePlayer.
UpdatePlayersList(w) ==
  LET names   == Names(w)
      added   == DOMAIN names \ DOMAIN players
      deleted == Deleted(DOMAIN names)
  IN  /\ players' = [i \in (DOMAIN players \ deleted) \cup added |->
                        IF i \in DOMAIN players THEN players[i] ELSE names[i]]
      /\ scene' = WithoutLootOf(deleted)
      /\ linked' = (linked \ deleted) \cup (added \cap current)
      /\ data' = Restrict(data, DOMAIN data \ (deleted \ current))

\* done of _syncPlayers.  The answer that starts the game is the first one: no
\* player is deleted by it and nothing is in the scene.
PlayersArrive(a) ==
  /\ page = "game" /\ a.kind = "players" /\ a.status = "ok"
  /\ Take(a)
  /\ LET flags == loaded \cup {"playersLoaded"}
     IN  IF "started" \notin loaded /\ MayStart(flags)
         THEN /\ players' = Names(a.world)
              /\ ApplyDesiredState(desiredState, DOMAIN players')
              /\ loaded' = flags \cup {"started"}
         ELSE /\ UpdatePlayersList(a.world)
              /\ loaded' = flags
              /\ UNCHANGED <<current, lostObjects, disappearing, unlisted, outrun>>
  /\ listVersion' = a.world.v
  /\ seen' = seen \cup DOMAIN Names(a.world)
  /\ overtaken' = (overtaken \/ a.world.v < listVersion)
  /\ UNCHANGED <<serverVars, page, loadVars, desiredState, lost, stuck>>

\* Mutant: fail of _syncPlayers asks for another status text.
StaysOnPage == page' = page

GoToRecords == page' = "records"

\* fail of _syncPlayers with 'Unauthorized': the page is left.
PlayersRefused(a) ==
  /\ page = "game" /\ a.kind = "players" /\ a.status = "unauthorized"
  /\ Take(a)
  /\ GoToRecords
  /\ UNCHANGED <<serverVars, loadVars, loaded, viewVars, noteVars, lost, stuck>>

\* _updateState has no fail: an answer that is refused or lost is not noticed,
\* and before the game has started nothing asks again.
StateRefused(a) ==
  /\ page = "game" /\ a.kind = "state" /\ a.status = "unauthorized"
  /\ Take(a)
  /\ stuck' = (stuck \/ "started" \notin loaded)
  /\ UNCHANGED <<serverVars, page, loadVars, loaded, viewVars, noteVars, lost>>

IsLost(a) ==
  /\ page = "game" /\ lost < MaxLost
  /\ Take(a)
  /\ lost' = lost + 1
  /\ stuck' = (stuck \/ "started" \notin loaded)
  /\ UNCHANGED <<serverVars, page, loadVars, loaded, viewVars, noteVars>>

-----------------------------------------------------------------------------
(* Frames: tick sends the polls that are due and whose number the bound    *)
(* allows, and _processDisappearingLoot takes away what has risen.         *)

Out(kind) ==
  BagCardinality(Restrict(inflight, {r \in DOMAIN inflight : r.kind = kind}))

Tick(polls, gone) ==
  /\ page = "game" /\ "started" \in loaded
  /\ \A kind \in polls : Out(kind) < MaxPolls
  /\ inflight' = inflight (+) SetToBag({Asked(kind) : kind \in polls})
  /\ scene' = scene \ {disappearing[l] : l \in gone}
  /\ disappearing' = Restrict(disappearing, DOMAIN disappearing \ gone)
  /\ UNCHANGED <<serverVars, page, loadVars, loaded, desiredState, current, data,
                 players, linked, lostObjects, noteVars, lost, stuck>>

\* Nothing to do: the game has not started, or the page is left.
IdleFrame == (page = "records" \/ "started" \notin loaded) /\ UNCHANGED vars

-----------------------------------------------------------------------------
Kinds == {"state", "players"}

\* The dog of the page has just joined; those that are there may carry loot.
Init ==
  /\ spawned \in SUBSET Loot
  /\ \E ids \in SUBSET Ids, ground \in SUBSET spawned :
       /\ Own \in ids
       /\ \E carrier \in [spawned \ ground -> ids \ {Own}], away \in SUBSET (Ids \ ids) :
            world = [v |-> 1, ground |-> ground, others |-> [i \in away |-> 1],
                     dogs |-> [i \in ids |-> [name |-> 1, bag |->
                                 {l \in spawned \ ground : carrier[l] = i}]]]
  /\ page = "game"
  /\ objectsToLoad \in TypeCounts
  /\ loads = {Actor} \cup (1..objectsToLoad)
  /\ ready = {} /\ inflight = EmptyBag /\ loaded = {}
  /\ desiredState = NoAnswer
  /\ current = {} /\ data = << >> /\ players = << >> /\ linked = {}
  /\ lostObjects = << >> /\ disappearing = << >> /\ scene = {}
  /\ left = {} /\ reused = {}
  /\ listVersion = 0 /\ overtaken = FALSE
  /\ seen = {} /\ unlisted = FALSE /\ outrun = FALSE
  /\ lost = 0 /\ stuck = (objectsToLoad = 0)

Next ==
  \/ \E i \in Ids : Joins(i) \/ Retires(i) \/ Delivers(i)
  \/ \E i \in Ids : JoinsElsewhere(i) \/ RetiresElsewhere(i)
  \/ \E l \in Loot : Spawns(l)
  \/ \E l \in Loot, i \in Ids : IsTaken(l, i)
  \/ \E kind \in Kinds : Answer(kind)
  \/ LoadActor \/ LoadLootType \/ LoadFails \/ CreateGameState
  \/ \E a \in DOMAIN inflight :
       \/ StateArrives(a) \/ PlayersArrive(a)
       \/ PlayersRefused(a) \/ StateRefused(a) \/ IsLost(a)
  \/ \E polls \in SUBSET Kinds, gone \in SUBSET DOMAIN disappearing : Tick(polls, gone)
  \/ IdleFrame

Spec == Init /\ [][Next]_vars

Arrives(kind) ==
  \E a \in DOMAIN inflight :
    a.kind = kind /\ (StateArrives(a) \/ PlayersArrive(a) \/ PlayersRefused(a) \/ StateRefused(a))

\* Loads and requests end unless they are among the lost ones, and the browser
\* goes on drawing frames, each kind of poll being due in some of them.
FairSpec ==
  /\ Spec
  /\ WF_vars(LoadActor) /\ WF_vars(LoadLootType) /\ WF_vars(CreateGameState)
  /\ \A kind \in Kinds :
       /\ WF_vars(Answer(kind)) /\ WF_vars(Arrives(kind))
       /\ WF_vars(Tick({kind}, DOMAIN disappearing))

-----------------------------------------------------------------------------
(* Properties.                                                             *)

\* A frame of a started game finds what it dereferences: the last answer has
\* an entry in currentState for each of its dogs, with an object for each loot
\* of its bag.  A TypeError would end the chain of requestAnimationFrame.
FramesFindTheirPlayers ==
  "started" \in loaded =>
    /\ desiredState # NoAnswer
    /\ current = DOMAIN desiredState.dogs
    /\ current \cup linked \subseteq DOMAIN data
    /\ \A i \in current : DOMAIN data[i] = desiredState.dogs[i].bag
    /\ DOMAIN lostObjects = desiredState.ground

\* The scene and the tables of GameState agree, also when a list of players
\* shows a retirement before or after the answer of /state does.  The code has
\* four ways out, which the premise names: an answer that comes after a younger
\* one of its kind; a dog that no list has ever shown leaves the view with its
\* loot; an answer of /state that is older than the last list gives loot to a dog
\* whose entry that list has deleted; and an id is given out again
\* (_applyDesiredState overwrites the data object whose loot it would need).
Untroubled == ~overtaken /\ ~unlisted /\ ~outrun /\ reused = {}
SceneMatchesBooks ==
  Untroubled =>
    /\ Orphans = {}
    /\ Range(lostObjects) \subseteq scene
    /\ Bags(Restrict(data, current \cap DOMAIN players)) \subseteq scene

\* What the page shows of the world.
ViewIsWorld ==
  /\ current = DOMAIN world.dogs
  /\ DOMAIN lostObjects = world.ground
  /\ \A i \in current : DOMAIN data[i] = world.dogs[i].bag
  /\ DOMAIN players = Listed(world)
  /\ \A i \in DOMAIN players \ reused : players[i] = Names(world)[i]

\* When the server comes to rest the page shows its state, whatever was lost,
\* overtaken or answered late; except the playerData of a dog whose id was given
\* out again, for _updatePlayersList only looks at ids it does not know.
ViewSettles == <>[](page = "records" \/ stuck \/ ViewIsWorld)

\* The page of a player who was retired goes to the records: its state polls
\* are refused in silence, the next poll of the players is not.  A start and a
\* retirement are never undone, so that this is the same as to say that they
\* lead to the records.
RetiredPlayerLeaves ==
  <>[]("started" \in loaded /\ Own \notin DOMAIN world.dogs => page = "records")

\* Loading ends: the game starts (and none of the three is undone then), unless
\* a load or one of the first two requests fails, which nothing repeats, or the
\* map has no types of loot.
GameStarts == <>[]("started" \in loaded \/ page = "records" \/ stuck)

=============================================================================
