---------------------------- MODULE ClientProofs ----------------------------
(***************************************************************************)
(* The page (Client), for any dogs, loot and bounds: a frame finds what it *)
(* dereferences in whatever order the answers arrive, and the scene agrees *)
(* with the tables.                                                        *)
(*                                                                         *)
(* FramesFindTheirPlayers speaks of a started game.  FramesInv adds how    *)
(* one gets there: the game starts only with an answer of /state, any      *)
(* answer has a version, and the list of players never takes away the data *)
(* object of a dog in the view or of a linked player.                      *)
(*                                                                         *)
(* SceneMatchesBooks is about the order of answers, and so its invariant   *)
(* says that there is a history of worlds, past, of which each answer is   *)
(* one: what an answer may do to the scene follows from what cannot come   *)
(* back in a later world.                                                  *)
(***************************************************************************)
EXTENDS Client, TLAPS

\* What an answer shows is a world of the server.
Shown(w) == "v" \in DOMAIN w /\ w.v \in Nat \ {0}

\* The inductive invariant.
FramesInv ==
  /\ Shown(world)
  /\ \A a \in DOMAIN inflight : a.status = "ok" => Shown(a.world)
  /\ "started" \in loaded => "stateLoaded" \in loaded
  /\ "stateLoaded" \in loaded => desiredState # NoAnswer
  /\ current \cup linked \subseteq DOMAIN data
  /\ FramesFindTheirPlayers

-----------------------------------------------------------------------------
(* The bag of requests and answers.                                        *)

\* Something is taken out of a bag, or more is put in.
LEMMA TakenOut == ASSUME NEW b, NEW c PROVE DOMAIN (b (-) c) \subseteq DOMAIN b
BY DEF (-)

LEMMA PutIn == ASSUME NEW b, NEW S PROVE DOMAIN (b (+) SetToBag(S)) = DOMAIN b \cup S
BY DEF (+), SetToBag

\* A world that was shown once differs from the page's idea of none.
LEMMA ShownIsAnswer == ASSUME NEW w, Shown(w) PROVE w # NoAnswer
BY DEF Shown, NoAnswer

-----------------------------------------------------------------------------
(* What the steps do to the tables.                                        *)

\* After an answer has been applied, the tables have what it shows.
LEMMA AppliedMatches ==
  ASSUME NEW w, NEW entries, ApplyDesiredState(w, entries),
         linked \subseteq DOMAIN data
  PROVE  /\ current' = DOMAIN w.dogs
         /\ current' \cup linked' \subseteq DOMAIN data'
         /\ \A i \in current' : DOMAIN data'[i] = w.dogs[i].bag
         /\ DOMAIN lostObjects' = w.ground
<1>1. current' = DOMAIN w.dogs /\ DOMAIN lostObjects' = w.ground
      /\ linked' \subseteq linked \cup current'
  BY DEF ApplyDesiredState
<1>2. DOMAIN data' = DOMAIN w.dogs \cup linked
  BY DEF ApplyDesiredState
<1>3. \A i \in DOMAIN w.dogs : DOMAIN data'[i] = w.dogs[i].bag
  BY DEF ApplyDesiredState
<1> QED
  BY <1>1, <1>2, <1>3

\* The list of players only takes what is neither in view nor linked.
LEMMA ListKeepsData ==
  ASSUME NEW w, UpdatePlayersList(w), current \cup linked \subseteq DOMAIN data
  PROVE  /\ current \cup linked' \subseteq DOMAIN data'
         /\ \A i \in current : data'[i] = data[i]
BY DEF UpdatePlayersList, Restrict

-----------------------------------------------------------------------------
LEMMA FramesInit == Init => FramesInv
<1> SUFFICES ASSUME Init PROVE FramesInv
  OBVIOUS
<1>1. Shown(world)
  BY DEF Init, Shown
<1>2. DOMAIN inflight = {} /\ loaded = {} /\ current = {} /\ linked = {}
  BY DEF Init, EmptyBag, SetToBag
<1> QED
  BY <1>1, <1>2 DEF FramesInv, FramesFindTheirPlayers

\* Nothing the page has changes, and what is under way was shown.
LEMMA PageUntouched ==
  ASSUME FramesInv, UNCHANGED <<loaded, desiredState, current, data, linked, lostObjects>>,
         Shown(world'),
         \A a \in DOMAIN inflight' : a \in DOMAIN inflight \/ (a.status = "ok" => Shown(a.world))
  PROVE  FramesInv'
BY DEF FramesInv, FramesFindTheirPlayers

\* The server goes on.
LEMMA StepKeeps ==
  ASSUME FramesInv, NEW w, Step(w), DOMAIN w = DOMAIN world, w.v = world.v
  PROVE  FramesInv'
<1>1. world' = [w EXCEPT !.v = w.v + 1] /\ world.v \in Nat /\ "v" \in DOMAIN w
  BY DEF Step, FramesInv, Shown
<1>2. Shown(world')
  BY <1>1 DEF Shown
<1> QED
  BY <1>2, PageUntouched DEF Step, viewVars

LEMMA ServerKeeps ==
  ASSUME FramesInv, NEW i, NEW l,
         \/ Joins(i) \/ Retires(i) \/ Delivers(i) \/ Spawns(l) \/ IsTaken(l, i)
         \/ JoinsElsewhere(i) \/ RetiresElsewhere(i)
  PROVE  FramesInv'
<1>1. "v" \in DOMAIN world
  BY DEF FramesInv, Shown
<1>2. CASE Joins(i)
  <2> DEFINE w == [world EXCEPT !.dogs = [j \in DOMAIN @ \cup {i} |->
                     IF j = i THEN [name |-> world.v + 1, bag |-> {}] ELSE @[j]]]
  <2>1. Step(w) /\ DOMAIN w = DOMAIN world /\ w.v = world.v
    BY <1>1, <1>2 DEF Joins
  <2> QED
    BY <2>1, StepKeeps
<1>3. CASE Retires(i)
  <2> DEFINE w == [world EXCEPT !.dogs = Restrict(@, DOMAIN @ \ {i})]
  <2>1. Step(w) /\ DOMAIN w = DOMAIN world /\ w.v = world.v
    BY <1>1, <1>3 DEF Retires
  <2> QED
    BY <2>1, StepKeeps
<1>4. CASE Delivers(i)
  <2> DEFINE w == [world EXCEPT !.dogs[i].bag = {}]
  <2>1. Step(w) /\ DOMAIN w = DOMAIN world /\ w.v = world.v
    BY <1>1, <1>4 DEF Delivers
  <2> QED
    BY <2>1, StepKeeps
<1>5. CASE Spawns(l)
  <2> DEFINE w == [world EXCEPT !.ground = @ \cup {l}]
  <2>1. Step(w) /\ DOMAIN w = DOMAIN world /\ w.v = world.v
    BY <1>1, <1>5 DEF Spawns
  <2> QED
    BY <2>1, StepKeeps
<1>6. CASE IsTaken(l, i)
  <2> DEFINE w == [world EXCEPT !.ground = @ \ {l}, !.dogs[i].bag = @ \cup {l}]
  <2>1. Step(w) /\ DOMAIN w = DOMAIN world /\ w.v = world.v
    BY <1>1, <1>6 DEF IsTaken
  <2> QED
    BY <2>1, StepKeeps
<1>7. CASE JoinsElsewhere(i)
  <2> DEFINE w == [world EXCEPT !.others = [j \in DOMAIN @ \cup {i} |->
                     IF j = i THEN world.v + 1 ELSE @[j]]]
  <2>1. Step(w) /\ DOMAIN w = DOMAIN world /\ w.v = world.v
    BY <1>1, <1>7 DEF JoinsElsewhere
  <2> QED
    BY <2>1, StepKeeps
<1>8. CASE RetiresElsewhere(i)
  <2> DEFINE w == [world EXCEPT !.others = Restrict(@, DOMAIN @ \ {i})]
  <2>1. Step(w) /\ DOMAIN w = DOMAIN world /\ w.v = world.v
    BY <1>1, <1>8 DEF RetiresElsewhere
  <2> QED
    BY <2>1, StepKeeps
<1> QED
  BY <1>2, <1>3, <1>4, <1>5, <1>6, <1>7, <1>8

LEMMA AnswerKeeps ==
  ASSUME FramesInv, NEW kind \in Kinds, Answer(kind)
  PROVE  FramesInv'
<1>1. DOMAIN inflight' = DOMAIN (inflight (-) SetToBag({Asked(kind)})) \cup {AnswerNow(kind)}
  BY PutIn DEF Answer
<1>2. \A a \in DOMAIN inflight' : a \in DOMAIN inflight \/ a = AnswerNow(kind)
  BY <1>1, TakenOut
<1>3. AnswerNow(kind).status = "ok" => AnswerNow(kind).world = world
  BY DEF AnswerNow
<1>4. Shown(world) /\ world' = world
  BY DEF FramesInv, Answer, serverVars
<1> QED
  BY <1>2, <1>3, <1>4, PageUntouched DEF Answer, viewVars

LEMMA LoadingKeeps ==
  ASSUME FramesInv, LoadActor \/ LoadLootType \/ LoadFails \/ CreateGameState
  PROVE  FramesInv'
<1>1. UNCHANGED <<world, loaded, desiredState, current, data, linked, lostObjects>>
  BY DEF LoadActor, LoadLootType, LoadFails, CreateGameState, serverVars, viewVars
<1>2. \A a \in DOMAIN inflight' : a \in DOMAIN inflight \/ a.status # "ok"
  <2>1. CASE CreateGameState
    BY <2>1 DEF CreateGameState, SetToBag, Asked
  <2>2. CASE LoadActor \/ LoadLootType \/ LoadFails
    BY <2>2 DEF LoadActor, LoadLootType, LoadFails
  <2> QED
    BY <2>1, <2>2
<1> QED
  BY <1>1, <1>2, PageUntouched DEF FramesInv

LEMMA StateArrivesKeeps ==
  ASSUME FramesInv, NEW a \in DOMAIN inflight, StateArrives(a)
  PROVE  FramesInv'
<1>1. /\ Shown(a.world) /\ desiredState' = a.world /\ a.world # NoAnswer
      /\ world' = world /\ DOMAIN inflight' \subseteq DOMAIN inflight
  BY TakenOut, ShownIsAnswer DEF FramesInv, StateArrives, Take, serverVars
<1>2. CASE "started" \in loaded \/ MayStart(loaded \cup {"stateLoaded"})
  <2>1. /\ ApplyDesiredState(a.world, DOMAIN players)
        /\ loaded' = (loaded \cup {"stateLoaded"}) \cup {"started"}
    BY <1>2 DEF StateArrives
  <2>2. /\ current' = DOMAIN a.world.dogs
        /\ current' \cup linked' \subseteq DOMAIN data'
        /\ \A i \in current' : DOMAIN data'[i] = a.world.dogs[i].bag
        /\ DOMAIN lostObjects' = a.world.ground
    BY <2>1, AppliedMatches DEF FramesInv
  <2> QED
    BY <1>1, <2>1, <2>2 DEF FramesInv, FramesFindTheirPlayers
<1>3. CASE ~("started" \in loaded \/ MayStart(loaded \cup {"stateLoaded"}))
  <2>1. /\ loaded' = loaded \cup {"stateLoaded"}
        /\ UNCHANGED <<current, data, linked, lostObjects>>
    BY <1>3 DEF StateArrives
  <2> QED
    BY <1>1, <1>3, <2>1 DEF FramesInv, FramesFindTheirPlayers
<1> QED
  BY <1>2, <1>3

LEMMA PlayersArriveKeeps ==
  ASSUME FramesInv, NEW a \in DOMAIN inflight, PlayersArrive(a)
  PROVE  FramesInv'
<1>1. /\ desiredState' = desiredState
      /\ world' = world /\ DOMAIN inflight' \subseteq DOMAIN inflight
  BY TakenOut DEF PlayersArrive, Take, serverVars
<1>2. CASE "started" \notin loaded /\ MayStart(loaded \cup {"playersLoaded"})
  <2>1. /\ \E entries : ApplyDesiredState(desiredState, entries)
        /\ loaded' = (loaded \cup {"playersLoaded"}) \cup {"started"}
        /\ "stateLoaded" \in loaded
    BY <1>2 DEF PlayersArrive, MayStart
  <2>2. /\ current' = DOMAIN desiredState.dogs
        /\ current' \cup linked' \subseteq DOMAIN data'
        /\ \A i \in current' : DOMAIN data'[i] = desiredState.dogs[i].bag
        /\ DOMAIN lostObjects' = desiredState.ground
    BY <2>1, AppliedMatches DEF FramesInv
  <2> QED
    BY <1>1, <2>1, <2>2 DEF FramesInv, FramesFindTheirPlayers
<1>3. CASE ~("started" \notin loaded /\ MayStart(loaded \cup {"playersLoaded"}))
  <2>1. /\ UpdatePlayersList(a.world) /\ loaded' = loaded \cup {"playersLoaded"}
        /\ UNCHANGED <<current, lostObjects>>
    BY <1>3 DEF PlayersArrive
  <2>2. current' \cup linked' \subseteq DOMAIN data' /\ \A i \in current : data'[i] = data[i]
    BY <2>1, ListKeepsData DEF FramesInv
  <2> QED
    BY <1>1, <2>1, <2>2 DEF FramesInv, FramesFindTheirPlayers
<1> QED
  BY <1>2, <1>3

LEMMA OtherwiseKeeps ==
  ASSUME FramesInv, NEW a,
         PlayersRefused(a) \/ StateRefused(a) \/ IsLost(a)
  PROVE  FramesInv'
<1>1. UNCHANGED <<world, loaded, desiredState, current, data, linked, lostObjects>>
  BY DEF PlayersRefused, StateRefused, IsLost, serverVars, viewVars
<1>2. DOMAIN inflight' \subseteq DOMAIN inflight
  BY TakenOut DEF PlayersRefused, StateRefused, IsLost, Take
<1> QED
  BY <1>1, <1>2, PageUntouched DEF FramesInv

LEMMA TickKeeps ==
  ASSUME FramesInv, NEW polls, NEW gone, Tick(polls, gone)
  PROVE  FramesInv'
<1>1. UNCHANGED <<world, loaded, desiredState, current, data, linked, lostObjects>>
  BY DEF Tick, serverVars
<1>2. DOMAIN inflight' = DOMAIN inflight \cup {Asked(kind) : kind \in polls}
  BY PutIn DEF Tick
<1>3. \A a \in DOMAIN inflight' : a \in DOMAIN inflight \/ a.status # "ok"
  BY <1>2 DEF Asked
<1> QED
  BY <1>1, <1>3, PageUntouched DEF FramesInv

LEMMA FramesStep == FramesInv /\ [Next]_vars => FramesInv'
<1> SUFFICES ASSUME FramesInv, [Next]_vars PROVE FramesInv'
  OBVIOUS
<1>1. CASE UNCHANGED vars
  <2>1. UNCHANGED <<world, inflight, loaded, desiredState, current, data, linked, lostObjects>>
    BY <1>1 DEF vars, serverVars, viewVars
  <2> QED
    BY <2>1, PageUntouched DEF FramesInv
<1>2. CASE IdleFrame
  BY <1>1, <1>2 DEF IdleFrame
<1>3. ASSUME NEW a \in DOMAIN inflight,
             \/ StateArrives(a) \/ PlayersArrive(a)
             \/ PlayersRefused(a) \/ StateRefused(a) \/ IsLost(a)
      PROVE  FramesInv'
  BY <1>3, StateArrivesKeeps, PlayersArriveKeeps, OtherwiseKeeps
<1>4. ASSUME NEW polls \in SUBSET Kinds, NEW gone \in SUBSET DOMAIN disappearing,
             Tick(polls, gone)
      PROVE  FramesInv'
  BY <1>4, TickKeeps
<1> QED
  BY <1>1, <1>2, <1>3, <1>4, ServerKeeps, AnswerKeeps, LoadingKeeps DEF Next

-----------------------------------------------------------------------------
\* Whatever the answers and their order, a frame of a started game finds an
\* entry for each dog of the last answer and an object for each of its loot.
THEOREM FramesDoNotThrow == Spec => []FramesFindTheirPlayers
<1>1. FramesInv => FramesFindTheirPlayers
  BY DEF FramesInv
<1> QED
  BY <1>1, FramesInit, FramesStep, PTL DEF Spec

-----------------------------------------------------------------------------
(* The scene.                                                              *)

\* The loot of a world, on the ground and in bags.
Items(w) == w.ground \cup UNION {w.dogs[i].bag : i \in DOMAIN w.dogs}

\* An item is in one place, a player in one session.
OnePlace(w) ==
  /\ DOMAIN w.dogs \cap DOMAIN w.others = {}
  /\ \A i \in DOMAIN w.dogs :
       /\ w.dogs[i].bag \cap w.ground = {}
       /\ \A j \in DOMAIN w.dogs \ {i} : w.dogs[i].bag \cap w.dogs[j].bag = {}

\* past has a world for every version up to now.  Loot that left a world does
\* not come back, and what a dog carries stays with it or leaves; as long as no
\* id was given out again, a player that left does not come back either, and none
\* is in another session than before.
Lineage(past) ==
  /\ world.v \in Nat \ {0} /\ past[world.v] = world
  /\ \A k \in 1..world.v :
       past[k].v = k /\ OnePlace(past[k]) /\ Items(past[k]) \subseteq spawned
  /\ \A j, k \in 1..world.v : j <= k =>
       /\ Listed(past[j]) \ Listed(past[k]) \subseteq left
       /\ \A i \in DOMAIN past[j].dogs : \A l \in past[j].dogs[i].bag \cap Items(past[k]) :
            i \in DOMAIN past[k].dogs /\ l \in past[k].dogs[i].bag
       /\ reused = {} => /\ DOMAIN past[j].dogs \cap DOMAIN past[k].others = {}
                         /\ DOMAIN past[j].others \cap DOMAIN past[k].dogs = {}
  /\ \A j, k, m \in 1..world.v : j <= k /\ k <= m =>
       /\ Items(past[j]) \cap Items(past[m]) \subseteq Items(past[k])
       /\ reused = {} => Listed(past[j]) \cap Listed(past[m]) \subseteq Listed(past[k])

\* What the page knows, and what is under way to it, was the world once.
Witnessed(past) ==
  /\ \A a \in DOMAIN inflight : a.status = "ok" =>
       a.world.v \in 1..world.v /\ a.world = past[a.world.v]
  /\ desiredState.v \in 0..world.v /\ listVersion \in 0..world.v
  /\ "stateLoaded" \in loaded => desiredState.v > 0 /\ desiredState = past[desiredState.v]
  /\ \A i \in DOMAIN players : listVersion > 0 /\ i \in Listed(past[listVersion])

\* The tables have their objects under the ids of their loot.
Keyed ==
  /\ \A l \in DOMAIN lostObjects : lostObjects[l][1] = l
  /\ \A l \in DOMAIN disappearing : disappearing[l][1] = l
  /\ \A i \in DOMAIN data : \A l \in DOMAIN data[i] : data[i][l][1] = l

\* A data object is reached from the view or from players; a dog of the view
\* that has an entry in players is linked from there.
Linking ==
  /\ DOMAIN data = current \cup linked
  /\ current \cap DOMAIN players \subseteq linked
  /\ "started" \notin loaded =>
       /\ current = {} /\ linked = {}
       /\ DOMAIN lostObjects = {} /\ DOMAIN disappearing = {}

\* From version k on there is no such loot, no such player.
Gone(past, k, l) == l \in spawned /\ \A j \in 1..world.v : j >= k => l \notin Items(past[j])
Away(past, k, i) == i \in left /\ \A j \in 1..world.v : j >= k => i \notin Listed(past[j])

\* No loot is in two tables.
Apart ==
  /\ DOMAIN lostObjects \cap DOMAIN disappearing = {}
  /\ \A i \in DOMAIN data :
       /\ DOMAIN data[i] \cap DOMAIN lostObjects = {}
       /\ DOMAIN data[i] \cap DOMAIN disappearing = {}
       /\ \A j \in DOMAIN data \ {i} : DOMAIN data[i] \cap DOMAIN data[j] = {}

\* d is the version the page shows.  What is on its way up, or was carried by a
\* dog that is out of view, is gone for good; a bag may lack its objects in the
\* scene only if its dog will never be listed again, and lacks all of them if a
\* list has dropped its dog.
BooksKept(past, d) ==
  /\ Apart
  /\ \A l \in DOMAIN disappearing : Gone(past, d, l)
  /\ \A i \in linked \ current :
       /\ Away(past, d, i)
       /\ \A l \in DOMAIN data[i] : Gone(past, d, l)
  /\ \A i \in current :
       Range(data[i]) \subseteq scene \/ Away(past, listVersion, i)
  /\ \A i \in (current \cap seen) \ DOMAIN players : Range(data[i]) \cap scene = {}
  /\ scene \subseteq Tracked
  /\ Range(lostObjects) \subseteq scene

-----------------------------------------------------------------------------
\* One more world, w.
Goes(w) ==
  /\ world' = w /\ w.v = world.v + 1
  /\ OnePlace(w)
  /\ Items(w) \subseteq spawned' /\ Items(w) \cap spawned \subseteq Items(world)
  /\ Listed(world) \ Listed(w) \subseteq left'
  /\ reused' = {} => Listed(w) \cap left \subseteq Listed(world)
  /\ DOMAIN w.dogs \cap Listed(world) \subseteq DOMAIN world.dogs
  /\ DOMAIN w.others \cap Listed(world) \subseteq DOMAIN world.others
  /\ \A i \in DOMAIN world.dogs : \A l \in world.dogs[i].bag \cap Items(w) :
       i \in DOMAIN w.dogs /\ l \in w.dogs[i].bag
  /\ spawned \subseteq spawned' /\ left \subseteq left' /\ reused \subseteq reused'

\* A step of the server goes on with the lineage.
LEMMA LineageGoesOn ==
  ASSUME NEW past, Lineage(past), NEW w, Goes(w)
  PROVE  \E next : /\ Lineage(next)'
                   /\ \A k \in 1..world.v : next[k] = past[k]
                   /\ next[world.v + 1] = w
<1>0. PICK next : next = [k \in 1..world.v + 1 |-> IF k = world.v + 1 THEN w ELSE past[k]]
  OBVIOUS
<1> DEFINE n == world.v
<1>1. n \in Nat \ {0} /\ world' = w /\ world'.v = n + 1 /\ past[n] = world
  BY DEF Lineage, Goes
<1>2. /\ \A k \in 1..n : next[k] = past[k]
      /\ next[n + 1] = w
      /\ \A k \in 1..n + 1 : k \in 1..n \/ k = n + 1
      /\ n \in 1..n
  BY <1>0, <1>1
<1> HIDE DEF n
<1>3. \A k \in 1..n + 1 :
        next[k].v = k /\ OnePlace(next[k]) /\ Items(next[k]) \subseteq spawned'
  <2> SUFFICES ASSUME NEW k \in 1..n + 1
               PROVE  next[k].v = k /\ OnePlace(next[k]) /\ Items(next[k]) \subseteq spawned'
    OBVIOUS
  <2>1. CASE k \in 1..n
    BY <1>2, <2>1 DEF Lineage, Goes, n
  <2>2. CASE k = n + 1
    BY <1>1, <1>2, <2>2 DEF Goes
  <2> QED
    BY <1>2, <2>1, <2>2
<1>4. \A j, k \in 1..n + 1 : j <= k =>
       /\ Listed(next[j]) \ Listed(next[k]) \subseteq left'
       /\ \A i \in DOMAIN next[j].dogs : \A l \in next[j].dogs[i].bag \cap Items(next[k]) :
            i \in DOMAIN next[k].dogs /\ l \in next[k].dogs[i].bag
       /\ reused' = {} => /\ DOMAIN next[j].dogs \cap DOMAIN next[k].others = {}
                          /\ DOMAIN next[j].others \cap DOMAIN next[k].dogs = {}
  <2> SUFFICES ASSUME NEW j \in 1..n + 1, NEW k \in 1..n + 1, j <= k
               PROVE  /\ Listed(next[j]) \ Listed(next[k]) \subseteq left'
                      /\ \A i \in DOMAIN next[j].dogs : \A l \in next[j].dogs[i].bag \cap Items(next[k]) :
                           i \in DOMAIN next[k].dogs /\ l \in next[k].dogs[i].bag
                      /\ reused' = {} => /\ DOMAIN next[j].dogs \cap DOMAIN next[k].others = {}
                                         /\ DOMAIN next[j].others \cap DOMAIN next[k].dogs = {}
    OBVIOUS
  <2>0. reused' = {} => reused = {}
    BY DEF Goes
  <2>1. CASE k \in 1..n
    <3>1. j \in 1..n
      BY <1>1, <2>1
    <3> QED
      BY <1>2, <2>0, <2>1, <3>1 DEF Lineage, Goes, n
  <2>2. CASE j = n + 1 /\ k = n + 1
    <3>1. next[j] = w /\ next[k] = w
      BY <1>2, <2>2
    <3>2. \A i \in DOMAIN w.dogs : \A l \in w.dogs[i].bag \cap Items(w) : l \in w.dogs[i].bag
      OBVIOUS
    <3>3. DOMAIN w.dogs \cap DOMAIN w.others = {}
      BY DEF Goes, OnePlace
    <3> QED
      BY <3>1, <3>2, <3>3
  <2>3. CASE j \in 1..n /\ k = n + 1
    <3>1. next[j] = past[j] /\ next[k] = w
      BY <1>2, <2>3
    <3>2. j <= n /\ n \in 1..n
      BY <1>1, <2>3
    <3>3. /\ Listed(past[j]) \ Listed(world) \subseteq left
          /\ \A i \in DOMAIN past[j].dogs : \A l \in past[j].dogs[i].bag \cap Items(world) :
               i \in DOMAIN world.dogs /\ l \in world.dogs[i].bag
          /\ reused = {} => /\ DOMAIN past[j].dogs \cap DOMAIN world.others = {}
                            /\ DOMAIN past[j].others \cap DOMAIN world.dogs = {}
      BY <1>1, <2>3, <3>2 DEF Lineage, n
    <3>4. \A i \in DOMAIN past[j].dogs : \A l \in past[j].dogs[i].bag : l \in spawned
      <4>1. Items(past[j]) \subseteq spawned
        BY <2>3 DEF Lineage, n
      <4> QED
        BY <4>1 DEF Items
    <3>5. Listed(past[j]) \ Listed(w) \subseteq left'
      BY <3>3 DEF Goes
    <3>6. \A i \in DOMAIN past[j].dogs : \A l \in past[j].dogs[i].bag \cap Items(w) :
            i \in DOMAIN w.dogs /\ l \in w.dogs[i].bag
      BY <3>3, <3>4 DEF Goes
    <3>7. reused' = {} => /\ DOMAIN past[j].dogs \cap DOMAIN w.others = {}
                          /\ DOMAIN past[j].others \cap DOMAIN w.dogs = {}
      <4> SUFFICES ASSUME reused' = {}
                   PROVE  /\ DOMAIN past[j].dogs \cap DOMAIN w.others = {}
                          /\ DOMAIN past[j].others \cap DOMAIN w.dogs = {}
        OBVIOUS
      <4>1. /\ Listed(past[j]) \cap Listed(w) \subseteq Listed(world)
            /\ DOMAIN w.dogs \cap Listed(world) \subseteq DOMAIN world.dogs
            /\ DOMAIN w.others \cap Listed(world) \subseteq DOMAIN world.others
        BY <3>3 DEF Goes
      <4> QED
        BY <2>0, <3>3, <4>1 DEF Listed
    <3> QED
      BY <3>1, <3>5, <3>6, <3>7
  <2> QED
    BY <1>2, <2>1, <2>2, <2>3
<1>5. \A j, k, m \in 1..n + 1 : j <= k /\ k <= m =>
       /\ Items(next[j]) \cap Items(next[m]) \subseteq Items(next[k])
       /\ reused' = {} =>
            Listed(next[j]) \cap Listed(next[m]) \subseteq Listed(next[k])
  <2> SUFFICES ASSUME NEW j \in 1..n + 1, NEW k \in 1..n + 1, NEW m \in 1..n + 1,
                      j <= k, k <= m
               PROVE  /\ Items(next[j]) \cap Items(next[m]) \subseteq Items(next[k])
                      /\ reused' = {} =>
                           Listed(next[j]) \cap Listed(next[m]) \subseteq Listed(next[k])
    OBVIOUS
  <2>0. reused' = {} => reused = {}
    BY DEF Goes
  <2>1. CASE m \in 1..n
    <3>1. j \in 1..n /\ k \in 1..n
      BY <1>1, <2>1
    <3> QED
      BY <1>2, <2>0, <2>1, <3>1 DEF Lineage, n
  <2>2. CASE k = n + 1
    <3>1. m = n + 1
      BY <1>1, <2>2
    <3> QED
      BY <2>2, <3>1
  <2>3. CASE m = n + 1 /\ k \in 1..n
    <3>1. j \in 1..n /\ k <= n
      BY <1>1, <2>3
    <3>2. next[j] = past[j] /\ next[k] = past[k] /\ next[m] = w
      BY <1>2, <2>3, <3>1
    <3>3. /\ Items(past[j]) \cap Items(world) \subseteq Items(past[k])
          /\ reused = {} =>
               Listed(past[j]) \cap Listed(world) \subseteq Listed(past[k])
      BY <1>1, <1>2, <2>3, <3>1 DEF Lineage, n
    <3>4. Items(past[j]) \subseteq spawned
      BY <3>1 DEF Lineage, n
    <3>5. Listed(past[j]) \ Listed(past[k]) \subseteq left
      BY <2>3, <3>1 DEF Lineage, n
    <3>6. Items(past[j]) \cap Items(w) \subseteq Items(past[k])
      BY <3>3, <3>4 DEF Goes
    <3>7. reused' = {} => Listed(past[j]) \cap Listed(w) \subseteq Listed(past[k])
      BY <2>0, <3>3, <3>5 DEF Goes
    <3> QED
      BY <3>2, <3>6, <3>7
  <2> QED
    BY <1>2, <2>1, <2>2, <2>3
<1>6. Lineage(next)'
  <2>1. world'.v = n + 1
    BY <1>1
  <2>2. n + 1 \in Nat \ {0} /\ next[n + 1] = world'
    BY <1>1, <1>2
  <2> DEFINE m == world'.v
  <2>3. m = n + 1
    BY <2>1
  <2> HIDE DEF m
  <2>4. m \in Nat \ {0} /\ next[m] = world'
    BY <2>2, <2>3
  <2>5. \A k \in 1..m :
          next[k].v = k /\ OnePlace(next[k]) /\ Items(next[k]) \subseteq spawned'
    BY <2>3, <1>3, Zenon
  <2>6. \A j, k \in 1..m : j <= k =>
         /\ Listed(next[j]) \ Listed(next[k]) \subseteq left'
         /\ \A i \in DOMAIN next[j].dogs : \A l \in next[j].dogs[i].bag \cap Items(next[k]) :
              i \in DOMAIN next[k].dogs /\ l \in next[k].dogs[i].bag
         /\ reused' = {} => /\ DOMAIN next[j].dogs \cap DOMAIN next[k].others = {}
                            /\ DOMAIN next[j].others \cap DOMAIN next[k].dogs = {}
    BY <2>3, <1>4, Zenon
  <2>7. \A j, k, o \in 1..m : j <= k /\ k <= o =>
         /\ Items(next[j]) \cap Items(next[o]) \subseteq Items(next[k])
         /\ reused' = {} =>
              Listed(next[j]) \cap Listed(next[o]) \subseteq Listed(next[k])
    BY <2>3, <1>5, Zenon
  <2> QED
    BY <2>4, <2>5, <2>6, <2>7, Zenon DEF m, Lineage
<1>7. \A k \in 1..world.v : next[k] = past[k]
  BY <1>2 DEF n
<1>8. next[world.v + 1] = w
  BY <1>2 DEF n
<1> QED
  BY <1>6, <1>7, <1>8

\* What the server's answers are made of.
WorldTypes ==
  world \in [v : Nat \ {0}, ground : SUBSET Loot,
             dogs : UNION {[ids -> [name : Nat, bag : SUBSET Loot]] : ids \in SUBSET Ids},
             others : UNION {[ids -> Nat] : ids \in SUBSET Ids}]

\* The parts of the world.
LEMMA WorldParts ==
  ASSUME WorldTypes
  PROVE  /\ world = [v |-> world.v, ground |-> world.ground, dogs |-> world.dogs,
                     others |-> world.others]
         /\ world.others \in UNION {[ids -> Nat] : ids \in SUBSET Ids}
         /\ world.v \in Nat \ {0} /\ world.ground \subseteq Loot
         /\ DOMAIN world.dogs \subseteq Ids
         /\ world.dogs = [i \in DOMAIN world.dogs |-> world.dogs[i]]
         /\ \A i \in DOMAIN world.dogs : world.dogs[i] \in [name : Nat, bag : SUBSET Loot]
<1>1. world \in [v : Nat \ {0}, ground : SUBSET Loot,
             dogs : UNION {[ids -> [name : Nat, bag : SUBSET Loot]] : ids \in SUBSET Ids},
             others : UNION {[ids -> Nat] : ids \in SUBSET Ids}]
  BY DEF WorldTypes
<1>2. PICK ids \in SUBSET Ids : world.dogs \in [ids -> [name : Nat, bag : SUBSET Loot]]
  BY <1>1
<1> QED
  BY <1>1, <1>2

\* Each step of the server is such a step.
LEMMA JoinsGoes ==
  ASSUME WorldTypes, NEW past, Lineage(past), NEW i, Joins(i)
  PROVE  Goes(world') /\ WorldTypes'
<1>0. /\ world = [v |-> world.v, ground |-> world.ground, dogs |-> world.dogs,
                  others |-> world.others]
      /\ world.others \in UNION {[ids -> Nat] : ids \in SUBSET Ids}
      /\ world.v \in Nat \ {0} /\ world.ground \subseteq Loot
      /\ DOMAIN world.dogs \subseteq Ids
      /\ \A j \in DOMAIN world.dogs : world.dogs[j] \in [name : Nat, bag : SUBSET Loot]
      /\ OnePlace(world) /\ Items(world) \subseteq spawned
  BY WorldParts DEF Lineage
<1> DEFINE ds == [j \in DOMAIN world.dogs \cup {i} |->
                    IF j = i THEN [name |-> world.v + 1, bag |-> {}] ELSE world.dogs[j]]
<1>1. world' = [v |-> world.v + 1, ground |-> world.ground, dogs |-> ds,
                 others |-> world.others]
  BY <1>0 DEF Joins, Step
<1>2. /\ i \in Ids /\ i \notin DOMAIN world.dogs /\ i \notin DOMAIN world.others
      /\ reused' = reused \cup ({i} \cap left)
      /\ spawned' = spawned /\ left' = left
  BY DEF Joins, GivenOut, Listed
<1>3. /\ DOMAIN ds = DOMAIN world.dogs \cup {i} /\ ds[i] = [name |-> world.v + 1, bag |-> {}]
      /\ \A j \in DOMAIN world.dogs : ds[j] = world.dogs[j]
  BY <1>2
<1>4. ds \in [DOMAIN world.dogs \cup {i} -> [name : Nat, bag : SUBSET Loot]]
  BY <1>0
<1> HIDE DEF ds
<1>5. /\ world'.v = world.v + 1 /\ world'.ground = world.ground /\ world'.dogs = ds
      /\ world'.others = world.others
  BY <1>1
<1>6. Items(world') = Items(world)
  BY <1>3, <1>5 DEF Items
<1>7. OnePlace(world')
  BY <1>0, <1>2, <1>3, <1>5 DEF OnePlace
<1>8. WorldTypes'
  <2>1. PICK ids : ids = DOMAIN world.dogs \cup {i}
    OBVIOUS
  <2>2. ids \in SUBSET Ids /\ ds \in [ids -> [name : Nat, bag : SUBSET Loot]]
    BY <1>0, <1>2, <1>4, <2>1
  <2>3. ds \in UNION {[is -> [name : Nat, bag : SUBSET Loot]] : is \in SUBSET Ids}
    BY <2>2
  <2>4. world.v + 1 \in Nat \ {0}
    BY <1>0
  <2> QED
    BY <1>0, <1>1, <2>3, <2>4 DEF WorldTypes
<1> QED
  BY <1>0, <1>2, <1>3, <1>5, <1>6, <1>7, <1>8 DEF Goes, Listed

LEMMA RetiresGoes ==
  ASSUME WorldTypes, NEW past, Lineage(past), NEW i, Retires(i)
  PROVE  Goes(world') /\ WorldTypes'
<1>0. /\ world = [v |-> world.v, ground |-> world.ground, dogs |-> world.dogs,
                  others |-> world.others]
      /\ world.others \in UNION {[ids -> Nat] : ids \in SUBSET Ids}
      /\ world.v \in Nat \ {0} /\ world.ground \subseteq Loot
      /\ DOMAIN world.dogs \subseteq Ids
      /\ \A j \in DOMAIN world.dogs : world.dogs[j] \in [name : Nat, bag : SUBSET Loot]
      /\ OnePlace(world) /\ Items(world) \subseteq spawned
  BY WorldParts DEF Lineage
<1> DEFINE ds == [j \in DOMAIN world.dogs \ {i} |-> world.dogs[j]]
<1>1. world' = [v |-> world.v + 1, ground |-> world.ground, dogs |-> ds,
                 others |-> world.others]
  <2>1. Restrict(world.dogs, DOMAIN world.dogs \ {i}) = ds
    BY DEF Restrict
  <2> QED
    BY <1>0, <2>1 DEF Retires, Step
<1>2. i \in DOMAIN world.dogs /\ left' = left \cup {i}
      /\ spawned' = spawned /\ reused' = reused
  BY DEF Retires
<1>3. /\ DOMAIN ds = DOMAIN world.dogs \ {i}
      /\ \A j \in DOMAIN ds : ds[j] = world.dogs[j]
  OBVIOUS
<1>4. ds \in [DOMAIN world.dogs \ {i} -> [name : Nat, bag : SUBSET Loot]]
  BY <1>0
<1> HIDE DEF ds
<1>5. /\ world'.v = world.v + 1 /\ world'.ground = world.ground /\ world'.dogs = ds
      /\ world'.others = world.others
  BY <1>1
<1>6. Items(world') \subseteq Items(world)
  BY <1>3, <1>5 DEF Items
<1>7. OnePlace(world')
  BY <1>0, <1>3, <1>5 DEF OnePlace
<1>8. WorldTypes'
  <2>1. DOMAIN world.dogs \ {i} \in SUBSET Ids
    BY <1>0
  <2>2. ds \in UNION {[ids -> [name : Nat, bag : SUBSET Loot]] : ids \in SUBSET Ids}
    BY <1>4, <2>1
  <2> QED
    BY <1>0, <1>1, <2>2 DEF WorldTypes
<1>9. \A j \in DOMAIN world.dogs : \A l \in world.dogs[j].bag \cap Items(world') :
        j \in DOMAIN ds /\ l \in ds[j].bag
  <2> SUFFICES ASSUME NEW j \in DOMAIN world.dogs, NEW l \in world.dogs[j].bag, l \in Items(world')
               PROVE  j \in DOMAIN ds
    BY <1>3
  <2>1. CASE l \in world.ground
    BY <1>0, <2>1 DEF OnePlace
  <2>2. CASE \E k \in DOMAIN ds : l \in ds[k].bag
    <3>1. PICK k \in DOMAIN ds : l \in world.dogs[k].bag
      BY <1>3, <2>2
    <3>2. k = j
      BY <1>0, <1>3, <3>1 DEF OnePlace
    <3> QED
      BY <3>1, <3>2
  <2> QED
    BY <1>5, <2>1, <2>2 DEF Items
<1> QED
  BY <1>0, <1>2, <1>3, <1>5, <1>6, <1>7, <1>8, <1>9 DEF Goes, Listed

\* The other sessions leave the dogs and the loot alone.
LEMMA ElsewhereGoes ==
  ASSUME WorldTypes, NEW past, Lineage(past), NEW i, JoinsElsewhere(i) \/ RetiresElsewhere(i)
  PROVE  Goes(world') /\ WorldTypes'
<1>0. /\ world = [v |-> world.v, ground |-> world.ground, dogs |-> world.dogs,
                  others |-> world.others]
      /\ world.v \in Nat \ {0} /\ world.ground \subseteq Loot
      /\ OnePlace(world) /\ Items(world) \subseteq spawned
  BY WorldParts DEF Lineage
<1>1. PICK away \in SUBSET Ids : world.others \in [away -> Nat]
  BY WorldParts
<1>2. \E os : /\ world' = [v |-> world.v + 1, ground |-> world.ground, dogs |-> world.dogs,
                          others |-> os]
              /\ os \in UNION {[ids -> Nat] : ids \in SUBSET Ids}
              /\ \/ /\ i \notin Listed(world) /\ DOMAIN os = DOMAIN world.others \cup {i}
                    /\ left' = left /\ reused' = reused \cup ({i} \cap left)
                 \/ /\ i \in DOMAIN world.others /\ DOMAIN os = DOMAIN world.others \ {i}
                    /\ left' = left \cup {i} /\ reused' = reused
  <2>1. CASE JoinsElsewhere(i)
    <3> DEFINE os == [j \in DOMAIN world.others \cup {i} |->
                        IF j = i THEN world.v + 1 ELSE world.others[j]]
    <3>1. world' = [v |-> world.v + 1, ground |-> world.ground, dogs |-> world.dogs,
                    others |-> os]
      BY <1>0, <2>1 DEF JoinsElsewhere, Step
    <3>2. i \in Ids /\ i \notin Listed(world) /\ left' = left /\ reused' = reused \cup ({i} \cap left)
      BY <2>1 DEF JoinsElsewhere, GivenOut
    <3>3. os \in [away \cup {i} -> Nat] /\ away \cup {i} \in SUBSET Ids
      BY <1>0, <1>1, <3>2
    <3>4. DOMAIN os = DOMAIN world.others \cup {i}
      OBVIOUS
    <3> HIDE DEF os
    <3>5. os \in UNION {[ids -> Nat] : ids \in SUBSET Ids}
      BY <3>3
    <3> QED
      BY <3>1, <3>2, <3>4, <3>5
  <2>2. CASE RetiresElsewhere(i)
    <3> DEFINE os == [j \in DOMAIN world.others \ {i} |-> world.others[j]]
    <3>1. world' = [v |-> world.v + 1, ground |-> world.ground, dogs |-> world.dogs,
                    others |-> os]
      <4>1. Restrict(world.others, DOMAIN world.others \ {i}) = os
        BY DEF Restrict
      <4> QED
        BY <1>0, <2>2, <4>1 DEF RetiresElsewhere, Step
    <3>2. i \in DOMAIN world.others /\ left' = left \cup {i} /\ reused' = reused
      BY <2>2 DEF RetiresElsewhere
    <3>3. os \in [away \ {i} -> Nat] /\ away \ {i} \in SUBSET Ids
      BY <1>1
    <3>4. DOMAIN os = DOMAIN world.others \ {i}
      OBVIOUS
    <3> HIDE DEF os
    <3>5. os \in UNION {[ids -> Nat] : ids \in SUBSET Ids}
      BY <3>3
    <3> QED
      BY <3>1, <3>2, <3>4, <3>5
  <2> QED
    BY <2>1, <2>2
<1>3. PICK os :
        /\ world' = [v |-> world.v + 1, ground |-> world.ground, dogs |-> world.dogs,
                     others |-> os]
        /\ os \in UNION {[ids -> Nat] : ids \in SUBSET Ids}
        /\ \/ /\ i \notin Listed(world) /\ DOMAIN os = DOMAIN world.others \cup {i}
              /\ left' = left /\ reused' = reused \cup ({i} \cap left)
           \/ /\ i \in DOMAIN world.others /\ DOMAIN os = DOMAIN world.others \ {i}
              /\ left' = left \cup {i} /\ reused' = reused
  BY <1>2
<1>4. /\ world'.v = world.v + 1 /\ world'.ground = world.ground
      /\ world'.dogs = world.dogs /\ world'.others = os
  BY <1>3
<1>5. spawned' = spawned
  BY DEF JoinsElsewhere, GivenOut, RetiresElsewhere
<1>6. Items(world') = Items(world)
  BY <1>4 DEF Items
<1>7. OnePlace(world')
  BY <1>0, <1>3, <1>4 DEF OnePlace, Listed
<1>8. WorldTypes'
  <2>1. world.dogs \in UNION {[ids -> [name : Nat, bag : SUBSET Loot]] : ids \in SUBSET Ids}
    BY DEF WorldTypes
  <2> QED
    BY <1>0, <1>3, <2>1 DEF WorldTypes
<1> QED
  BY <1>0, <1>3, <1>4, <1>5, <1>6, <1>7, <1>8 DEF Goes, Listed

LEMMA SpawnsGoes ==
  ASSUME WorldTypes, NEW past, Lineage(past), NEW l, Spawns(l)
  PROVE  Goes(world') /\ WorldTypes'
<1>0. /\ world = [v |-> world.v, ground |-> world.ground, dogs |-> world.dogs,
                  others |-> world.others]
      /\ world.others \in UNION {[ids -> Nat] : ids \in SUBSET Ids}
      /\ world.v \in Nat \ {0} /\ world.ground \subseteq Loot
      /\ OnePlace(world) /\ Items(world) \subseteq spawned
  BY WorldParts DEF Lineage
<1>1. world' = [v |-> world.v + 1, ground |-> world.ground \cup {l}, dogs |-> world.dogs,
                 others |-> world.others]
  BY <1>0 DEF Spawns, Step
<1>2. l \in Loot \ spawned /\ spawned' = spawned \cup {l}
      /\ left' = left /\ reused' = reused
  BY DEF Spawns
<1>5. /\ world'.v = world.v + 1 /\ world'.ground = world.ground \cup {l} /\ world'.dogs = world.dogs
      /\ world'.others = world.others
  BY <1>1
<1>6. Items(world') = Items(world) \cup {l}
  BY <1>5 DEF Items
<1>7. OnePlace(world')
  <2>1. \A i \in DOMAIN world.dogs : l \notin world.dogs[i].bag
    BY <1>0, <1>2 DEF Items
  <2> QED
    BY <1>0, <1>5, <2>1 DEF OnePlace
<1>8. WorldTypes'
  <2>1. world.dogs \in UNION {[ids -> [name : Nat, bag : SUBSET Loot]] : ids \in SUBSET Ids}
    BY DEF WorldTypes
  <2> QED
    BY <1>0, <1>1, <1>2, <2>1 DEF WorldTypes
<1> QED
  BY <1>0, <1>2, <1>5, <1>6, <1>7, <1>8 DEF Goes, Listed

LEMMA IsTakenGoes ==
  ASSUME WorldTypes, NEW past, Lineage(past), NEW l, NEW i, IsTaken(l, i)
  PROVE  Goes(world') /\ WorldTypes'
<1>0. /\ world = [v |-> world.v, ground |-> world.ground, dogs |-> world.dogs,
                  others |-> world.others]
      /\ world.others \in UNION {[ids -> Nat] : ids \in SUBSET Ids}
      /\ world.v \in Nat \ {0} /\ world.ground \subseteq Loot
      /\ DOMAIN world.dogs \subseteq Ids
      /\ world.dogs = [j \in DOMAIN world.dogs |-> world.dogs[j]]
      /\ \A j \in DOMAIN world.dogs : world.dogs[j] \in [name : Nat, bag : SUBSET Loot]
      /\ OnePlace(world) /\ Items(world) \subseteq spawned
  BY WorldParts DEF Lineage
<1> DEFINE ds == [world.dogs EXCEPT ![i].bag = @ \cup {l}]
<1>1. world' = [v |-> world.v + 1, ground |-> world.ground \ {l}, dogs |-> ds,
                 others |-> world.others]
  BY <1>0 DEF IsTaken, Step
<1>2. l \in world.ground /\ i \in DOMAIN world.dogs
      /\ spawned' = spawned /\ left' = left /\ reused' = reused
  BY DEF IsTaken
<1>3. /\ DOMAIN ds = DOMAIN world.dogs
      /\ \A j \in DOMAIN world.dogs \ {i} : ds[j] = world.dogs[j]
      /\ ds[i].bag = world.dogs[i].bag \cup {l}
  BY <1>0, <1>2
<1>4. ds \in [DOMAIN world.dogs -> [name : Nat, bag : SUBSET Loot]]
  BY <1>0, <1>2
<1> HIDE DEF ds
<1>5. /\ world'.v = world.v + 1 /\ world'.ground = world.ground \ {l} /\ world'.dogs = ds
      /\ world'.others = world.others
  BY <1>1
<1>6. Items(world') = Items(world)
  <2>1. \A x : (\E j \in DOMAIN ds : x \in ds[j].bag) <=>
               x = l \/ \E j \in DOMAIN world.dogs : x \in world.dogs[j].bag
    BY <1>2, <1>3
  <2> QED
    BY <1>2, <1>5, <2>1 DEF Items
<1>7. OnePlace(world')
  <2>1. \A j \in DOMAIN world.dogs : l \notin world.dogs[j].bag
    BY <1>0, <1>2 DEF OnePlace
  <2> QED
    BY <1>0, <1>2, <1>3, <1>5, <2>1 DEF OnePlace
<1>8. WorldTypes'
  BY <1>0, <1>1, <1>2, <1>4 DEF WorldTypes
<1>9. \A j \in DOMAIN world.dogs : world.dogs[j].bag \subseteq ds[j].bag
  BY <1>3
<1> QED
  BY <1>0, <1>2, <1>3, <1>5, <1>6, <1>7, <1>8, <1>9 DEF Goes, Listed

LEMMA DeliversGoes ==
  ASSUME WorldTypes, NEW past, Lineage(past), NEW i, Delivers(i)
  PROVE  Goes(world') /\ WorldTypes'
<1>0. /\ world = [v |-> world.v, ground |-> world.ground, dogs |-> world.dogs,
                  others |-> world.others]
      /\ world.others \in UNION {[ids -> Nat] : ids \in SUBSET Ids}
      /\ world.v \in Nat \ {0} /\ world.ground \subseteq Loot
      /\ DOMAIN world.dogs \subseteq Ids
      /\ world.dogs = [j \in DOMAIN world.dogs |-> world.dogs[j]]
      /\ \A j \in DOMAIN world.dogs : world.dogs[j] \in [name : Nat, bag : SUBSET Loot]
      /\ OnePlace(world) /\ Items(world) \subseteq spawned
  BY WorldParts DEF Lineage
<1> DEFINE ds == [world.dogs EXCEPT ![i].bag = {}]
<1>1. world' = [v |-> world.v + 1, ground |-> world.ground, dogs |-> ds,
                 others |-> world.others]
  BY <1>0 DEF Delivers, Step
<1>2. i \in DOMAIN world.dogs
      /\ spawned' = spawned /\ left' = left /\ reused' = reused
  BY DEF Delivers
<1>3. /\ DOMAIN ds = DOMAIN world.dogs
      /\ \A j \in DOMAIN world.dogs \ {i} : ds[j] = world.dogs[j]
      /\ ds[i].bag = {}
  BY <1>0, <1>2
<1>4. ds \in [DOMAIN world.dogs -> [name : Nat, bag : SUBSET Loot]]
  BY <1>0, <1>2
<1> HIDE DEF ds
<1>5. /\ world'.v = world.v + 1 /\ world'.ground = world.ground /\ world'.dogs = ds
      /\ world'.others = world.others
  BY <1>1
<1>6. Items(world') = Items(world) \ world.dogs[i].bag
  <2>1. \A x : (\E j \in DOMAIN ds : x \in ds[j].bag) <=>
               /\ x \notin world.dogs[i].bag
               /\ \E j \in DOMAIN world.dogs : x \in world.dogs[j].bag
    BY <1>0, <1>2, <1>3 DEF OnePlace
  <2>2. world.ground \cap world.dogs[i].bag = {}
    BY <1>0, <1>2 DEF OnePlace
  <2> QED
    BY <1>2, <1>5, <2>1, <2>2 DEF Items
<1>7. OnePlace(world')
  BY <1>0, <1>2, <1>3, <1>5 DEF OnePlace
<1>8. WorldTypes'
  BY <1>0, <1>1, <1>2, <1>4 DEF WorldTypes
<1>9. \A j \in DOMAIN world.dogs : \A l \in world.dogs[j].bag \cap Items(world') : l \in ds[j].bag
  BY <1>0, <1>2, <1>3, <1>6
<1> QED
  BY <1>0, <1>2, <1>3, <1>5, <1>6, <1>7, <1>8, <1>9 DEF Goes, Listed

-----------------------------------------------------------------------------
\* The dogs and the loot of the view are those of w.
Shows(w) ==
  /\ DOMAIN lostObjects \subseteq w.ground
  /\ \A i \in current : i \in DOMAIN w.dogs /\ DOMAIN data[i] \subseteq w.dogs[i].bag

\* _applyDesiredState goes from the world past[d] to a later one.
LEMMA AppliedKeepsBooks ==
  ASSUME NEW past, Lineage(past), UNCHANGED <<world, spawned, left, reused>>,
         NEW n \in 1..world.v, NEW d \in 1..n, NEW w, w = past[n], NEW entries,
         ApplyDesiredState(w, entries), Shows(past[d]), BooksKept(past, d),
         DOMAIN data = current \cup linked, current \cap entries \subseteq linked,
         DOMAIN players' = entries, seen' \subseteq seen \cup entries,
         (listVersion' = listVersion /\ DOMAIN players = entries) \/ current = {},
         Keyed, reused = {}, ~unlisted', ~outrun'
  PROVE  BooksKept(past, n)'
<1> DEFINE ids       == DOMAIN w.dogs
           bagOf(i)  == w.dogs[i].bag
           kept(i)   == IF i \in current THEN data[i] ELSE << >>
           abandoned == Restrict(lostObjects, DOMAIN lostObjects \ w.ground)
           missing(i) == bagOf(i) \ DOMAIN kept(i)
           wanted    == UNION {missing(i) : i \in ids}
           created   == (w.ground \ DOMAIN lostObjects) \cup (wanted \ DOMAIN abandoned)
           object(l) == IF l \in DOMAIN abandoned THEN abandoned[l] ELSE CreateLoot(l)
           unloaded(i) == DOMAIN kept(i) \ bagOf(i)
           flying    == DOMAIN abandoned \ wanted
           dropped   == UNION {unloaded(i) : i \in ids}
           rising(l) == IF l \in flying THEN abandoned[l]
                        ELSE IF l \in dropped
                        THEN kept(CHOOSE i \in ids : l \in unloaded(i))[l]
                        ELSE disappearing[l]
<1>1. /\ lostObjects' = [l \in w.ground |-> IF l \in DOMAIN lostObjects
                                            THEN lostObjects[l] ELSE CreateLoot(l)]
      /\ data' = [i \in ids \cup linked |->
                    IF i \in ids
                    THEN [l \in bagOf(i) |-> IF l \in DOMAIN kept(i) THEN kept(i)[l]
                                                                    ELSE object(l)]
                    ELSE data[i]]
      /\ disappearing' = [l \in flying \cup dropped \cup DOMAIN disappearing |-> rising(l)]
      /\ scene' = scene \cup {CreateLoot(l) : l \in created}
      /\ linked' = linked \cup ((ids \ current) \cap entries)
      /\ current' = ids
      /\ \A i \in current \ (ids \cup seen) : kept(i) = << >>
      /\ \A i \in (ids \cap seen) \ entries : missing(i) = {}
  BY DEF ApplyDesiredState
<1>2. /\ DOMAIN abandoned = DOMAIN lostObjects \ w.ground
      /\ \A l \in DOMAIN abandoned : abandoned[l] = lostObjects[l]
  BY DEF Restrict
<1>3. \A i : i \notin current => DOMAIN kept(i) = {}
  OBVIOUS
<1>4. \A l : l \in wanted <=> \E i \in ids : l \in bagOf(i) /\ l \notin DOMAIN kept(i)
  OBVIOUS
<1>5. \A l : l \in dropped <=> \E i \in ids : l \in DOMAIN kept(i) /\ l \notin bagOf(i)
  OBVIOUS
<1>6. \A l \in dropped : \E i \in ids : /\ l \in DOMAIN kept(i) /\ l \notin bagOf(i)
                                        /\ rising(l) = IF l \in flying THEN abandoned[l] ELSE kept(i)[l]
  OBVIOUS
<1>7. \A l : l \in flying <=> l \in DOMAIN abandoned /\ l \notin wanted
  OBVIOUS
<1>8. \A l \in flying : rising(l) = abandoned[l]
  OBVIOUS
<1>9. \A l : l \notin flying /\ l \notin dropped => rising(l) = disappearing[l]
  OBVIOUS
<1>10. \A i \in current : kept(i) = data[i]
  OBVIOUS
<1>12. \A l : object(l) = IF l \in DOMAIN abandoned THEN abandoned[l] ELSE CreateLoot(l)
  OBVIOUS
<1>13. Items(w) = w.ground \cup UNION {bagOf(i) : i \in ids}
  BY DEF Items
<1>14. OnePlace(w) =>
         \A i \in ids : /\ bagOf(i) \cap w.ground = {}
                        /\ \A j \in ids \ {i} : bagOf(i) \cap bagOf(j) = {}
  BY DEF OnePlace
<1>15. \A i \in current \ ids : i \in DOMAIN past[d].dogs /\ i \notin DOMAIN past[n].dogs
  BY DEF Shows
<1>19. \A i \in current \ ids : i \in entries \/ i \in seen \/ DOMAIN data[i] = {}
  <2>1. DOMAIN << >> = {}
    OBVIOUS
  <2> QED
    BY <1>1, <1>10, <2>1
<1> DEFINE inView == DOMAIN lostObjects \cup UNION {DOMAIN data[i] : i \in current}
<1>16. \A i \in current : \A l \in DOMAIN data[i] : l \in past[d].dogs[i].bag /\ i \in DOMAIN past[d].dogs
  BY DEF Shows
<1>17. inView \subseteq Items(past[d])
  BY <1>16 DEF Shows, Items
<1>18. \A i \in current : \A l \in DOMAIN data[i] : l \in Items(w) => i \in ids /\ l \in bagOf(i)
  <2>1. d \in 1..world.v /\ d <= n
    BY DEF Lineage
  <2>2. \A i \in DOMAIN past[d].dogs : \A l \in past[d].dogs[i].bag \cap Items(past[n]) :
            i \in DOMAIN past[n].dogs /\ l \in past[n].dogs[i].bag
    BY <2>1 DEF Lineage
  <2> QED
    BY <1>16, <2>2
<1> HIDE DEF ids, bagOf, kept, abandoned, missing, wanted, created, object, unloaded,
             flying, dropped, rising, inView
<1>11. \A l : l \in created <=> (l \in w.ground /\ l \notin DOMAIN lostObjects)
                               \/ (l \in wanted /\ l \notin DOMAIN abandoned)
  BY DEF created
<1>20. d \in 1..world.v /\ d <= n /\ n \in Nat /\ d \in Nat /\ world.v \in Nat
  BY DEF Lineage
\* What the view had and w has not is gone for good.
<1>21. \A l \in inView : l \notin Items(w) => Gone(past, n, l)'
  <2> SUFFICES ASSUME NEW l \in inView, l \notin Items(past[n])
               PROVE  l \in spawned /\ \A j \in 1..world.v : j >= n => l \notin Items(past[j])
    BY DEF Gone
  <2>1. l \in Items(past[d])
    BY <1>17
  <2>2. l \in spawned
    BY <1>20, <2>1 DEF Lineage
  <2>3. ASSUME NEW j \in 1..world.v, j >= n PROVE l \notin Items(past[j])
    <3>1. Items(past[d]) \cap Items(past[j]) \subseteq Items(past[n])
      BY <1>20, <2>3 DEF Lineage
    <3> QED
      BY <2>1, <3>1
  <2> QED
    BY <2>2, <2>3
<1>22. \A l : Gone(past, d, l) => l \notin Items(w) /\ Gone(past, n, l)'
  BY <1>20 DEF Gone
<1>23. \A i \in current : i \notin ids => Away(past, n, i)'
  <2> SUFFICES ASSUME NEW i \in current, i \notin ids
               PROVE  i \in left /\ \A j \in 1..world.v : j >= n => i \notin Listed(past[j])
    BY DEF Away
  <2>1. i \in Listed(past[d]) /\ i \notin Listed(past[n])
    <3>1. i \in DOMAIN past[d].dogs /\ i \notin DOMAIN past[n].dogs
      BY <1>15
    <3>2. DOMAIN past[d].dogs \cap DOMAIN past[n].others = {}
      BY <1>20 DEF Lineage
    <3> QED
      BY <3>1, <3>2 DEF Listed
  <2>2. i \in left
    BY <1>20, <2>1 DEF Lineage
  <2>3. ASSUME NEW j \in 1..world.v, j >= n PROVE i \notin Listed(past[j])
    <3>1. Listed(past[d]) \cap Listed(past[j]) \subseteq Listed(past[n])
      BY <1>20, <2>3 DEF Lineage
    <3> QED
      BY <2>1, <3>1
  <2> QED
    BY <2>2, <2>3
<1>24. \A i : Away(past, d, i) => i \notin ids /\ Away(past, n, i)'
  BY <1>20 DEF Away, Listed, ids
<1>25. OnePlace(w)
  BY <1>20 DEF Lineage
\* What is on its way up, or with a dog that has left, is not in w.
<1>30. \A l \in flying : l \in DOMAIN lostObjects /\ l \notin Items(w)
  <2> SUFFICES ASSUME NEW l \in flying PROVE l \in DOMAIN lostObjects /\ l \notin Items(w)
    OBVIOUS
  <2>1. l \in DOMAIN lostObjects /\ l \notin w.ground /\ l \notin wanted
    BY <1>2, <1>7
  <2>2. ASSUME NEW i \in ids, l \in bagOf(i) PROVE FALSE
    <3>1. l \in DOMAIN kept(i)
      BY <1>4, <2>1, <2>2
    <3>2. i \in current /\ l \in DOMAIN data[i]
      BY <1>3, <1>10, <3>1
    <3> QED
      BY <2>1, <3>2 DEF BooksKept, Apart
  <2> QED
    BY <1>13, <2>1, <2>2
<1>31. \A l \in dropped : \E i \in current :
         /\ i \in ids /\ l \in DOMAIN data[i] /\ l \notin Items(w)
         /\ rising(l) = IF l \in flying THEN abandoned[l] ELSE data[i][l]
  <2> SUFFICES ASSUME NEW l \in dropped
               PROVE  \E i \in current :
                        /\ i \in ids /\ l \in DOMAIN data[i] /\ l \notin Items(w)
                        /\ rising(l) = IF l \in flying THEN abandoned[l] ELSE data[i][l]
    OBVIOUS
  <2>1. PICK i \in ids : /\ l \in DOMAIN kept(i) /\ l \notin bagOf(i)
                         /\ rising(l) = IF l \in flying THEN abandoned[l] ELSE kept(i)[l]
    BY <1>6
  <2>2. i \in current /\ kept(i) = data[i]
    BY <1>3, <1>10, <2>1
  <2> QED
    BY <1>18, <2>1, <2>2
<1>32. \A l \in DOMAIN disappearing : l \notin Items(w) /\ Gone(past, n, l)'
  BY <1>22 DEF BooksKept
<1>33. DOMAIN disappearing' = flying \cup dropped \cup DOMAIN disappearing
  BY <1>1
<1>34. \A l \in DOMAIN disappearing' : l \notin Items(w) /\ Gone(past, n, l)'
  <2>1. \A l \in flying \cup dropped : l \in inView
    BY <1>30, <1>31 DEF inView
  <2> QED
    BY <1>21, <1>30, <1>31, <1>32, <1>33, <2>1
<1>35. \A i \in linked \ ids : /\ Away(past, n, i)'
                               /\ \A l \in DOMAIN data[i] : l \notin Items(w) /\ Gone(past, n, l)'
  <2> SUFFICES ASSUME NEW i \in linked \ ids
               PROVE  /\ Away(past, n, i)'
                      /\ \A l \in DOMAIN data[i] : l \notin Items(w) /\ Gone(past, n, l)'
    OBVIOUS
  <2>1. CASE i \in current
    <3>1. \A l \in DOMAIN data[i] : l \in inView /\ l \notin Items(w)
      BY <1>18, <2>1 DEF inView
    <3> QED
      BY <1>21, <1>23, <2>1, <3>1
  <2>2. CASE i \notin current
    BY <1>22, <1>24, <2>2 DEF BooksKept
  <2> QED
    BY <2>1, <2>2
<1>36. \A i \in linked \ ids : \A l \in DOMAIN data[i] : l \notin DOMAIN disappearing'
  <2> SUFFICES ASSUME NEW i \in linked \ ids, NEW l \in DOMAIN data[i]
               PROVE  l \notin flying /\ l \notin dropped /\ l \notin DOMAIN disappearing
    BY <1>33
  <2>1. i \in DOMAIN data
    OBVIOUS
  <2>2. l \notin flying /\ l \notin DOMAIN disappearing
    BY <1>30, <2>1 DEF BooksKept, Apart
  <2>3. ASSUME l \in dropped PROVE FALSE
    <3>1. PICK j \in current : j \in ids /\ l \in DOMAIN data[j]
      BY <1>31, <2>3
    <3> QED
      BY <2>1, <3>1 DEF BooksKept, Apart
  <2> QED
    BY <2>2, <2>3
\* The tables afterwards.
<1>40. /\ DOMAIN data' = ids \cup linked
       /\ \A i \in ids : DOMAIN data'[i] = bagOf(i)
       /\ \A i \in linked \ ids : data'[i] = data[i]
       /\ \A i \in ids : \A l \in bagOf(i) :
            data'[i][l] = IF l \in DOMAIN kept(i) THEN kept(i)[l] ELSE object(l)
       /\ DOMAIN lostObjects' = w.ground
       /\ current' = ids /\ linked' \subseteq linked \cup ids
  BY <1>1
<1>41. \A i \in ids : bagOf(i) \subseteq Items(w)
  BY <1>13
<1>42. w.ground \subseteq Items(w)
  BY <1>13
<1>43. Apart'
  <2>1. DOMAIN lostObjects' \cap DOMAIN disappearing' = {}
    BY <1>34, <1>40, <1>42
  <2>2. ASSUME NEW i \in DOMAIN data'
        PROVE  /\ DOMAIN data'[i] \cap DOMAIN lostObjects' = {}
               /\ DOMAIN data'[i] \cap DOMAIN disappearing' = {}
               /\ \A j \in DOMAIN data' \ {i} : DOMAIN data'[i] \cap DOMAIN data'[j] = {}
    <3>1. CASE i \in ids
      <4>1. DOMAIN data'[i] = bagOf(i) /\ bagOf(i) \subseteq Items(w)
        BY <1>40, <1>41, <3>1
      <4>2. bagOf(i) \cap w.ground = {} /\ \A j \in ids \ {i} : bagOf(i) \cap bagOf(j) = {}
        BY <1>14, <1>25, <3>1
      <4>3. ASSUME NEW j \in DOMAIN data' \ {i} PROVE bagOf(i) \cap DOMAIN data'[j] = {}
        <5>1. CASE j \in ids
          BY <1>40, <4>2, <5>1
        <5>2. CASE j \in linked \ ids
          BY <1>35, <1>40, <4>1, <5>2
        <5> QED
          BY <1>40, <5>1, <5>2
      <4> QED
        BY <1>34, <1>40, <4>1, <4>2, <4>3
    <3>2. CASE i \in linked \ ids
      <4>1. data'[i] = data[i] /\ i \in DOMAIN data
        BY <1>40, <3>2
      <4>2. \A l \in DOMAIN data[i] : l \notin Items(w) /\ l \notin DOMAIN disappearing'
        BY <1>35, <1>36, <3>2
      <4>3. ASSUME NEW j \in DOMAIN data' \ {i} PROVE DOMAIN data[i] \cap DOMAIN data'[j] = {}
        <5>1. CASE j \in ids
          BY <1>40, <1>41, <4>2, <5>1
        <5>2. CASE j \in linked \ ids
          BY <1>40, <4>1, <5>2 DEF BooksKept, Apart
        <5> QED
          BY <1>40, <5>1, <5>2
      <4> QED
        BY <1>40, <1>42, <4>1, <4>2, <4>3
    <3> QED
      BY <1>40, <3>1, <3>2
  <2> QED
    BY <2>1, <2>2 DEF Apart
\* No object is left over.
<1>50. scene' = scene \cup {CreateLoot(l) : l \in created}
  BY <1>1
<1>51. \A l \in w.ground : lostObjects'[l] = IF l \in DOMAIN lostObjects THEN lostObjects[l]
                                             ELSE CreateLoot(l)
  BY <1>1
<1>52. \A l \in DOMAIN disappearing' : disappearing'[l] = rising(l)
  BY <1>1
<1>53. /\ \A l \in w.ground : lostObjects'[l] \in Tracked'
       /\ \A l \in DOMAIN disappearing' : disappearing'[l] \in Tracked'
       /\ \A i \in ids \cup linked : \A l \in DOMAIN data'[i] : data'[i][l] \in Tracked'
  BY <1>40 DEF Tracked, Range, Bags
<1>54. \A l \in DOMAIN lostObjects : lostObjects[l] \in Tracked'
  <2> SUFFICES ASSUME NEW l \in DOMAIN lostObjects PROVE lostObjects[l] \in Tracked'
    OBVIOUS
  <2>1. CASE l \in w.ground
    BY <1>51, <1>53, <2>1
  <2>2. CASE l \in flying
    BY <1>2, <1>7, <1>8, <1>33, <1>52, <1>53, <2>2
  <2>3. CASE l \in wanted /\ l \notin w.ground
    <3>1. PICK i \in ids : l \in bagOf(i) /\ l \notin DOMAIN kept(i)
      BY <1>4, <2>3
    <3>2. l \in DOMAIN abandoned /\ abandoned[l] = lostObjects[l]
      BY <1>2, <2>3
    <3>3. data'[i][l] = lostObjects[l]
      BY <1>12, <1>40, <3>1, <3>2
    <3> QED
      BY <1>40, <1>53, <3>1, <3>3
  <2> QED
    BY <1>2, <1>7, <2>1, <2>2, <2>3
<1>55. \A l \in DOMAIN disappearing : disappearing[l] \in Tracked'
  <2> SUFFICES ASSUME NEW l \in DOMAIN disappearing PROVE disappearing[l] \in Tracked'
    OBVIOUS
  <2>1. l \notin flying
    BY <1>30 DEF BooksKept, Apart
  <2>2. l \notin dropped
    BY <1>31 DEF BooksKept, Apart
  <2> QED
    BY <1>9, <1>33, <1>52, <1>53, <2>1, <2>2
\* A dog that leaves the view leaves no object behind: a list has its data, or
\* has dropped it with its loot, or it carries nothing.
<1>56. \A i \in DOMAIN data : \A l \in DOMAIN data[i] :
         data[i][l] \in scene => data[i][l] \in Tracked'
  <2> SUFFICES ASSUME NEW i \in DOMAIN data, NEW l \in DOMAIN data[i], data[i][l] \in scene
               PROVE  data[i][l] \in Tracked'
    OBVIOUS
  <2>1. CASE i \in linked \ ids
    BY <1>40, <1>53, <2>1
  <2>2. CASE i \in current \ ids
    <3>1. CASE i \in entries
      BY <1>40, <1>53, <2>2, <3>1
    <3>2. CASE i \in seen \ entries
      <4>1. i \in (current \cap seen) \ DOMAIN players
        BY <2>2, <3>2
      <4>2. Range(data[i]) \cap scene = {}
        BY <4>1 DEF BooksKept
      <4> QED
        BY <4>2 DEF Range
    <3> QED
      BY <1>19, <2>2, <3>1, <3>2
  <2>3. CASE i \in ids /\ i \notin current
    BY <1>24, <2>3 DEF BooksKept
  <2>4. CASE i \in ids /\ i \in current /\ l \in bagOf(i)
    <3>1. data'[i][l] = data[i][l]
      BY <1>10, <1>40, <2>4
    <3> QED
      BY <1>40, <1>53, <2>4, <3>1
  <2>5. CASE i \in ids /\ i \in current /\ l \notin bagOf(i)
    <3>1. l \in dropped
      BY <1>5, <1>10, <2>5
    <3>2. l \notin flying
      BY <1>30 DEF BooksKept, Apart
    <3>3. PICK j \in current : j \in ids /\ l \in DOMAIN data[j] /\ rising(l) = data[j][l]
      BY <1>31, <3>1, <3>2
    <3>4. j = i
      BY <3>3 DEF BooksKept, Apart
    <3> QED
      BY <1>33, <1>52, <1>53, <3>1, <3>3, <3>4
  <2> QED
    BY <2>1, <2>2, <2>3, <2>4, <2>5
<1>57. scene \subseteq Tracked'
  BY <1>54, <1>55, <1>56 DEF BooksKept, Tracked, Range, Bags
<1>58. \A i \in ids : \A l \in bagOf(i) : l \notin DOMAIN kept(i) =>
         data'[i][l] \in Tracked' /\ data'[i][l] \in scene'
  <2> SUFFICES ASSUME NEW i \in ids, NEW l \in bagOf(i), l \notin DOMAIN kept(i)
               PROVE  data'[i][l] \in scene'
    BY <1>40, <1>53
  <2>1. data'[i][l] = object(l) /\ l \in wanted
    BY <1>4, <1>40
  <2>2. CASE l \in DOMAIN abandoned
    <3>1. object(l) = lostObjects[l] /\ l \in DOMAIN lostObjects
      BY <1>2, <1>12, <2>2
    <3>2. lostObjects[l] \in scene
      BY <3>1 DEF BooksKept, Range
    <3> QED
      BY <1>50, <2>1, <3>1, <3>2
  <2>3. CASE l \notin DOMAIN abandoned
    BY <1>11, <1>12, <1>50, <2>1, <2>3
  <2> QED
    BY <2>2, <2>3
<1>59. \A l \in created : CreateLoot(l) \in Tracked'
  <2> SUFFICES ASSUME NEW l \in created PROVE CreateLoot(l) \in Tracked'
    OBVIOUS
  <2>1. CASE l \in w.ground /\ l \notin DOMAIN lostObjects
    BY <1>51, <1>53, <2>1
  <2>2. CASE l \in wanted /\ l \notin DOMAIN abandoned
    <3>1. PICK i \in ids : l \in bagOf(i) /\ l \notin DOMAIN kept(i)
      BY <1>4, <2>2
    <3>2. data'[i][l] = CreateLoot(l)
      BY <1>12, <1>40, <2>2, <3>1
    <3> QED
      BY <1>58, <3>1, <3>2
  <2> QED
    BY <1>11, <2>1, <2>2
<1>60. scene' \subseteq Tracked'
  BY <1>50, <1>57, <1>59
<1>61. Range(lostObjects') \subseteq scene'
  <2> SUFFICES ASSUME NEW l \in w.ground PROVE lostObjects'[l] \in scene'
    BY <1>40 DEF Range
  <2>1. CASE l \in DOMAIN lostObjects
    BY <1>50, <1>51, <2>1 DEF BooksKept, Range
  <2>2. CASE l \notin DOMAIN lostObjects
    BY <1>11, <1>50, <1>51, <2>2
  <2> QED
    BY <2>1, <2>2
<1>62. ASSUME NEW i \in ids
       PROVE  Range(data'[i]) \subseteq scene' \/ Away(past, listVersion, i)'
  <2>1. CASE i \in current /\ ~(Range(data[i]) \subseteq scene)
    <3>1. listVersion' = listVersion /\ Away(past, listVersion, i)
      BY <2>1 DEF BooksKept
    <3> QED
      BY <3>1 DEF Away
  <2>2. CASE i \in current => Range(data[i]) \subseteq scene
    <3> SUFFICES ASSUME NEW l \in bagOf(i) PROVE data'[i][l] \in scene'
      BY <1>40 DEF Range
    <3>1. CASE l \in DOMAIN kept(i)
      <4>1. i \in current /\ l \in DOMAIN data[i] /\ data'[i][l] = data[i][l]
        BY <1>3, <1>10, <1>40, <3>1
      <4> QED
        BY <1>50, <2>2, <4>1 DEF Range
    <3>2. CASE l \notin DOMAIN kept(i)
      BY <1>58, <3>2
    <3> QED
      BY <3>1, <3>2
  <2> QED
    BY <2>1, <2>2
<1>63. \A i \in linked' \ current' : Away(past, n, i)' /\ \A l \in DOMAIN data'[i] : Gone(past, n, l)'
  BY <1>35, <1>40
\* A dog that a list has dropped is given nothing.
<1>64. ASSUME NEW i \in (ids \cap seen) \ entries, NEW l \in bagOf(i)
       PROVE  data'[i][l] \notin scene'
  <2>1. \A k : k \in bagOf(i) => k \in DOMAIN kept(i)
    BY <1>1, <1>64 DEF missing
  <2>2. i \in current /\ l \in DOMAIN data[i] /\ data'[i][l] = data[i][l]
    BY <1>3, <1>10, <1>40, <1>64, <2>1
  <2>3. data[i][l] \notin scene
    <3>1. i \in (current \cap seen) \ DOMAIN players
      BY <1>64, <2>2
    <3> QED
      BY <2>2, <3>1 DEF BooksKept, Range
  <2>4. ASSUME NEW k \in created, data[i][l] = CreateLoot(k) PROVE FALSE
    <3>1. k = l
      BY <2>2, <2>4 DEF Keyed, CreateLoot
    <3>2. CASE l \in w.ground
      BY <1>14, <1>25, <1>64, <3>2
    <3>3. CASE l \in wanted
      <4>1. PICK j \in ids : l \in bagOf(j) /\ l \notin DOMAIN kept(j)
        BY <1>4, <3>3
      <4>2. j = i
        BY <1>14, <1>25, <1>64, <4>1
      <4> QED
        BY <1>64, <2>1, <4>1, <4>2
    <3> QED
      BY <1>11, <2>4, <3>1, <3>2, <3>3
  <2> QED
    BY <1>50, <2>2, <2>3, <2>4
<1>65. \A i \in (current' \cap seen') \ DOMAIN players' : Range(data'[i]) \cap scene' = {}
  BY <1>40, <1>64 DEF Range
<1> QED
  BY <1>34, <1>40, <1>43, <1>60, <1>61, <1>62, <1>63, <1>65 DEF BooksKept

\* It puts no object under another loot's id.
LEMMA AppliedKeepsKeys ==
  ASSUME NEW w, NEW entries, ApplyDesiredState(w, entries), Keyed, DOMAIN data = current \cup linked
  PROVE  Keyed'
<1> DEFINE ids       == DOMAIN w.dogs
           bagOf(i)  == w.dogs[i].bag
           kept(i)   == IF i \in current THEN data[i] ELSE << >>
           abandoned == Restrict(lostObjects, DOMAIN lostObjects \ w.ground)
           missing(i) == bagOf(i) \ DOMAIN kept(i)
           wanted    == UNION {missing(i) : i \in ids}
           created   == (w.ground \ DOMAIN lostObjects) \cup (wanted \ DOMAIN abandoned)
           object(l) == IF l \in DOMAIN abandoned THEN abandoned[l] ELSE CreateLoot(l)
           unloaded(i) == DOMAIN kept(i) \ bagOf(i)
           flying    == DOMAIN abandoned \ wanted
           dropped   == UNION {unloaded(i) : i \in ids}
           rising(l) == IF l \in flying THEN abandoned[l]
                        ELSE IF l \in dropped
                        THEN kept(CHOOSE i \in ids : l \in unloaded(i))[l]
                        ELSE disappearing[l]
<1>1. /\ lostObjects' = [l \in w.ground |-> IF l \in DOMAIN lostObjects
                                            THEN lostObjects[l] ELSE CreateLoot(l)]
      /\ data' = [i \in ids \cup linked |->
                    IF i \in ids
                    THEN [l \in bagOf(i) |-> IF l \in DOMAIN kept(i) THEN kept(i)[l]
                                                                    ELSE object(l)]
                    ELSE data[i]]
      /\ disappearing' = [l \in flying \cup dropped \cup DOMAIN disappearing |-> rising(l)]
  BY DEF ApplyDesiredState
<1>2. \A l : CreateLoot(l)[1] = l
  BY DEF CreateLoot
<1>3. \A l \in DOMAIN abandoned : abandoned[l][1] = l
  BY DEF Restrict, Keyed
<1>4. \A i : \A l \in DOMAIN kept(i) : kept(i)[l][1] = l
  BY DEF Keyed
<1>5. \A l \in dropped : \E i \in ids :
        /\ l \in DOMAIN kept(i)
        /\ rising(l) = IF l \in flying THEN abandoned[l] ELSE kept(i)[l]
  OBVIOUS
<1>6. \A l \in flying : rising(l) = abandoned[l] /\ l \in DOMAIN abandoned
  OBVIOUS
<1>7. \A l : l \notin flying /\ l \notin dropped => rising(l) = disappearing[l]
  OBVIOUS
<1>8. \A l : object(l) = IF l \in DOMAIN abandoned THEN abandoned[l] ELSE CreateLoot(l)
  OBVIOUS
<1> HIDE DEF ids, bagOf, kept, abandoned, missing, wanted, created, object, unloaded,
             flying, dropped, rising
<1>9. \A l \in flying \cup dropped \cup DOMAIN disappearing : rising(l)[1] = l
  <2> SUFFICES ASSUME NEW l \in flying \cup dropped \cup DOMAIN disappearing
               PROVE  rising(l)[1] = l
    OBVIOUS
  <2>1. CASE l \in flying
    BY <1>3, <1>6, <2>1
  <2>2. CASE l \in dropped /\ l \notin flying
    BY <1>4, <1>5, <2>2
  <2>3. CASE l \notin flying /\ l \notin dropped
    BY <1>7, <2>3 DEF Keyed
  <2> QED
    BY <2>1, <2>2, <2>3
<1>10. \A l \in DOMAIN disappearing' : disappearing'[l][1] = l
  BY <1>1, <1>9
<1>11. \A l \in DOMAIN lostObjects' : lostObjects'[l][1] = l
  BY <1>1, <1>2 DEF Keyed
<1>12. ASSUME NEW i \in DOMAIN data', NEW l \in DOMAIN data'[i] PROVE data'[i][l][1] = l
  <2>1. CASE i \in ids
    <3>1. data'[i] = [x \in bagOf(i) |-> IF x \in DOMAIN kept(i) THEN kept(i)[x] ELSE object(x)]
      BY <1>1, <2>1
    <3>2. data'[i][l] = IF l \in DOMAIN kept(i) THEN kept(i)[l] ELSE object(l)
      BY <3>1
    <3> QED
      BY <1>2, <1>3, <1>4, <1>8, <3>2
  <2>2. CASE i \notin ids
    BY <1>1, <2>2 DEF Keyed
  <2> QED
    BY <2>1, <2>2
<1> QED
  BY <1>10, <1>11, <1>12 DEF Keyed

\* Every dog with an entry in players is linked from there.
LEMMA AppliedKeepsLinks ==
  ASSUME NEW w, NEW entries, ApplyDesiredState(w, entries),
         DOMAIN data = current \cup linked, current \cap entries \subseteq linked
  PROVE  DOMAIN data' = current' \cup linked' /\ current' \cap entries \subseteq linked'
<1>1. /\ DOMAIN data' = DOMAIN w.dogs \cup linked
      /\ linked' = linked \cup ((DOMAIN w.dogs \ current) \cap entries)
      /\ current' = DOMAIN w.dogs
  BY DEF ApplyDesiredState
<1> QED
  BY <1>1

-----------------------------------------------------------------------------
\* _updatePlayersList leaves the data of the view alone.
LEMMA ListKeepsLinks ==
  ASSUME NEW w, UpdatePlayersList(w), UNCHANGED current,
         DOMAIN data = current \cup linked, current \cap DOMAIN players \subseteq linked
  PROVE  /\ DOMAIN data' = current' \cup linked' /\ current' \cap DOMAIN players' \subseteq linked'
         /\ DOMAIN players' = Listed(w)
         /\ \A i \in DOMAIN data' : i \in DOMAIN data /\ data'[i] = data[i]
         /\ current = {} /\ linked = {} => linked' = {}
<1>1. DOMAIN Names(w) = Listed(w)
  BY DEF Names
<1>2. DOMAIN players' = DOMAIN Names(w)
  BY DEF UpdatePlayersList, Deleted
<1>3. /\ DOMAIN data' = DOMAIN data \ ((DOMAIN players \ DOMAIN Names(w)) \ current)
      /\ \A i \in DOMAIN data' : i \in DOMAIN data /\ data'[i] = data[i]
      /\ linked' = (linked \ (DOMAIN players \ DOMAIN Names(w)))
                    \cup ((DOMAIN Names(w) \ DOMAIN players) \cap current)
  BY DEF UpdatePlayersList, Deleted, Restrict
<1> QED
  BY <1>1, <1>2, <1>3

\* What it takes from the scene, no table leads to; the dogs it deletes are not
\* listed again.
LEMMA ListKeepsBooks ==
  ASSUME NEW past, Lineage(past), UNCHANGED <<world, spawned, left, reused>>,
         NEW n \in 1..world.v, NEW w, w = past[n], UpdatePlayersList(w),
         UNCHANGED <<current, lostObjects, disappearing>>, listVersion' = n, listVersion <= n,
         seen' = seen \cup Listed(w),
         NEW d, BooksKept(past, d), Keyed,
         listVersion \in Nat,
         \A i \in DOMAIN players : listVersion > 0 /\ i \in Listed(past[listVersion]),
         DOMAIN data = current \cup linked, current \cap DOMAIN players \subseteq linked,
         reused = {}
  PROVE  BooksKept(past, d)'
<1> DEFINE deleted == DOMAIN players \ Listed(w)
           taken   == UNION {Range(data[i]) : i \in deleted \cap linked}
<1>0. n \in Nat /\ world.v \in Nat
  BY DEF Lineage
<1>1. DOMAIN Names(w) = Listed(w)
  BY DEF Names
<1>2. /\ scene' = scene \ taken
      /\ DOMAIN data' = DOMAIN data \ (deleted \ current)
      /\ \A i \in DOMAIN data' : i \in DOMAIN data /\ data'[i] = data[i]
      /\ linked' \subseteq (linked \ deleted) \cup current
  BY <1>1 DEF UpdatePlayersList, Deleted, Restrict, WithoutLootOf
<1>3. \A x : x \in taken <=> \E i \in deleted \cap linked : \E l \in DOMAIN data[i] : x = data[i][l]
  BY DEF Range
<1>4. ASSUME NEW i \in deleted PROVE Away(past, n, i)'
  <2>1. /\ i \notin Listed(past[n])
        /\ listVersion > 0 /\ i \in Listed(past[listVersion])
    BY <1>4
  <2>2. listVersion \in 1..world.v
    BY <1>0, <2>1
  <2>3. i \in left
    BY <2>1, <2>2 DEF Lineage
  <2>4. ASSUME NEW j \in 1..world.v, j >= n PROVE i \notin Listed(past[j])
    <3>1. Listed(past[listVersion]) \cap Listed(past[j]) \subseteq Listed(past[n])
      BY <1>0, <2>2, <2>4 DEF Lineage
    <3> QED
      BY <2>1, <3>1
  <2> QED
    BY <2>1, <2>3, <2>4 DEF Away
<1> HIDE DEF deleted, taken
<1>5. Apart'
  BY <1>2 DEF BooksKept, Apart
<1>6. ASSUME NEW l \in DOMAIN lostObjects PROVE lostObjects[l] \notin taken
  <2> SUFFICES ASSUME NEW i \in linked, NEW k \in DOMAIN data[i], lostObjects[l] = data[i][k]
               PROVE  FALSE
    BY <1>3
  <2>1. i \in DOMAIN data
    OBVIOUS
  <2>2. l = k
    BY <1>6, <2>1 DEF Keyed
  <2> QED
    BY <1>6, <2>1, <2>2 DEF BooksKept, Apart
<1>7. ASSUME NEW i \in DOMAIN data \ deleted, NEW l \in DOMAIN data[i] PROVE data[i][l] \notin taken
  <2> SUFFICES ASSUME NEW j \in deleted \cap linked, NEW k \in DOMAIN data[j], data[i][l] = data[j][k]
               PROVE  FALSE
    BY <1>3
  <2>1. j \in DOMAIN data /\ j # i
    BY <1>7
  <2>2. l = k
    BY <1>7, <2>1 DEF Keyed
  <2> QED
    BY <1>7, <2>1, <2>2 DEF BooksKept, Apart
<1>8. scene' \subseteq Tracked'
  <2> SUFFICES ASSUME NEW x \in scene, x \notin taken PROVE x \in Tracked'
    BY <1>2
  <2>1. x \in Tracked
    BY DEF BooksKept
  <2>2. CASE x \in Range(lostObjects) \cup Range(disappearing)
    BY <2>2 DEF Tracked
  <2>3. CASE x \in Bags(data)
    <3>1. PICK i \in DOMAIN data : \E l \in DOMAIN data[i] : x = data[i][l]
      BY <2>3 DEF Bags, Range
    <3>2. i \in DOMAIN data'
      BY <1>2, <1>3, <3>1
    <3>3. x \in Bags(data')
      BY <1>2, <3>1, <3>2 DEF Bags, Range
    <3> QED
      BY <3>3 DEF Tracked
  <2> QED
    BY <2>1, <2>2, <2>3 DEF Tracked
<1>9. Range(lostObjects') \subseteq scene'
  BY <1>2, <1>6 DEF BooksKept, Range
<1>10. ASSUME NEW i \in current'
       PROVE  Range(data'[i]) \subseteq scene' \/ Away(past, listVersion, i)'
  <2>0. i \in current /\ i \in DOMAIN data' /\ data'[i] = data[i]
    BY <1>2, <1>10
  <2>1. CASE i \in deleted
    BY <1>4, <2>1
  <2>2. CASE i \notin deleted /\ Range(data[i]) \subseteq scene
    BY <1>2, <1>7, <2>0, <2>2 DEF Range
  <2>3. CASE Away(past, listVersion, i)
    BY <1>0, <2>3 DEF Away
  <2> QED
    BY <2>0, <2>1, <2>2, <2>3 DEF BooksKept
<1>11. \A i \in linked' \ current' : /\ Away(past, d, i)'
                                     /\ \A l \in DOMAIN data'[i] : Gone(past, d, l)'
  <2> SUFFICES ASSUME NEW i \in linked' \ current'
               PROVE  /\ Away(past, d, i)'
                      /\ \A l \in DOMAIN data'[i] : Gone(past, d, l)'
    OBVIOUS
  <2>1. i \in linked \ current /\ i \in DOMAIN data'
    BY <1>2
  <2> QED
    BY <1>2, <2>1 DEF BooksKept, Away, Gone
<1>12. \A l \in DOMAIN disappearing' : Gone(past, d, l)'
  BY DEF BooksKept, Gone
<1>13. ASSUME NEW i \in (current' \cap seen') \ DOMAIN players'
       PROVE  Range(data'[i]) \cap scene' = {}
  <2>0. DOMAIN players' = Listed(w)
    BY <1>1 DEF UpdatePlayersList, Deleted
  <2>1. i \in current /\ i \in seen /\ i \notin Listed(w) /\ data'[i] = data[i]
    BY <1>2, <1>13, <2>0
  <2>2. CASE i \in DOMAIN players
    <3>1. i \in deleted \cap linked
      BY <2>1, <2>2 DEF deleted
    <3> QED
      BY <1>2, <1>3, <2>1, <3>1 DEF Range
  <2>3. CASE i \notin DOMAIN players
    BY <1>2, <2>1, <2>3 DEF BooksKept
  <2> QED
    BY <2>2, <2>3
<1> QED
  BY <1>5, <1>8, <1>9, <1>10, <1>11, <1>12, <1>13 DEF BooksKept

\* A frame takes away what has risen.
LEMMA TickKeepsBooks ==
  ASSUME NEW past, NEW d, UNCHANGED <<world, spawned, left>>,
         NEW polls, NEW gone \in SUBSET DOMAIN disappearing, Tick(polls, gone),
         BooksKept(past, d), Keyed, current \subseteq DOMAIN data
  PROVE  BooksKept(past, d)' /\ Keyed'
<1>1. /\ scene' = scene \ {disappearing[l] : l \in gone}
      /\ DOMAIN disappearing' = DOMAIN disappearing \ gone
      /\ \A l \in DOMAIN disappearing' : disappearing'[l] = disappearing[l]
      /\ UNCHANGED <<current, data, players, linked, lostObjects, listVersion, seen>>
  BY DEF Tick, Restrict, noteVars
<1>2. Keyed'
  BY <1>1 DEF Keyed
<1>3. \A l \in DOMAIN lostObjects : lostObjects[l] \notin {disappearing[k] : k \in gone}
  BY DEF Keyed, BooksKept, Apart
<1>4. \A i \in DOMAIN data : \A l \in DOMAIN data[i] : data[i][l] \notin {disappearing[k] : k \in gone}
  BY DEF Keyed, BooksKept, Apart
<1>5. Apart'
  BY <1>1 DEF BooksKept, Apart
<1>6. scene' \subseteq Tracked'
  <2> SUFFICES ASSUME NEW x \in scene, x \notin {disappearing[l] : l \in gone} PROVE x \in Tracked'
    BY <1>1
  <2>1. x \in Tracked
    BY DEF BooksKept
  <2>2. CASE x \in Range(lostObjects) \cup Bags(data)
    BY <1>1, <2>2 DEF Tracked
  <2>3. CASE x \in Range(disappearing)
    <3>1. PICK l \in DOMAIN disappearing : x = disappearing[l]
      BY <2>3 DEF Range
    <3>2. l \in DOMAIN disappearing' /\ x = disappearing'[l]
      BY <1>1, <3>1
    <3> QED
      BY <3>2 DEF Tracked, Range
  <2> QED
    BY <2>1, <2>2, <2>3 DEF Tracked
<1>7. Range(lostObjects') \subseteq scene'
  BY <1>1, <1>3 DEF BooksKept, Range
<1>8. ASSUME NEW i \in current'
      PROVE  Range(data'[i]) \subseteq scene' \/ Away(past, listVersion, i)'
  <2>1. CASE Range(data[i]) \subseteq scene
    BY <1>1, <1>4, <1>8, <2>1 DEF Range
  <2>2. CASE Away(past, listVersion, i)
    BY <1>1, <2>2 DEF Away
  <2> QED
    BY <1>1, <1>8, <2>1, <2>2 DEF BooksKept
<1>10. \A i \in linked' \ current' : Away(past, d, i)' /\ \A l \in DOMAIN data'[i] : Gone(past, d, l)'
  BY <1>1 DEF BooksKept, Away, Gone
<1>11. \A l \in DOMAIN disappearing' : Gone(past, d, l)'
  BY <1>1 DEF BooksKept, Gone
<1>12. \A i \in (current' \cap seen') \ DOMAIN players' : Range(data'[i]) \cap scene' = {}
  BY <1>1 DEF BooksKept
<1> QED
  BY <1>2, <1>5, <1>6, <1>7, <1>8, <1>10, <1>11, <1>12 DEF BooksKept

-----------------------------------------------------------------------------
\* The inductive invariant.
BooksInv ==
  /\ FramesInv /\ WorldTypes /\ Keyed /\ Linking
  /\ \E past : /\ Lineage(past) /\ Witnessed(past)
               /\ Untroubled => BooksKept(past, desiredState.v)

LEMMA BooksInit == Init => BooksInv
<1> SUFFICES ASSUME Init PROVE BooksInv
  OBVIOUS
<1>1. PICK ids \in SUBSET Ids, ground \in SUBSET spawned :
        \E carrier \in [spawned \ ground -> ids \ {Own}], away \in SUBSET (Ids \ ids) :
           world = [v |-> 1, ground |-> ground, others |-> [i \in away |-> 1],
                    dogs |-> [i \in ids |-> [name |-> 1, bag |->
                                 {l \in spawned \ ground : carrier[l] = i}]]]
  BY DEF Init
<1>2. PICK carrier \in [spawned \ ground -> ids \ {Own}], away \in SUBSET (Ids \ ids) :
           world = [v |-> 1, ground |-> ground, others |-> [i \in away |-> 1],
                    dogs |-> [i \in ids |-> [name |-> 1, bag |->
                                 {l \in spawned \ ground : carrier[l] = i}]]]
  BY <1>1
<1>3. /\ world.v = 1 /\ world.ground = ground /\ DOMAIN world.dogs = ids
      /\ DOMAIN world.others = away
      /\ \A i \in ids : world.dogs[i].bag = {l \in spawned \ ground : carrier[l] = i}
  BY <1>2
<1>4. spawned \subseteq Loot
  BY DEF Init
<1>5. WorldTypes
  <2> DEFINE dogs == [i \in ids |-> [name |-> 1, bag |-> {l \in spawned \ ground : carrier[l] = i}]]
  <2>1. dogs \in [ids -> [name : Nat, bag : SUBSET Loot]]
    BY <1>4
  <2>2. dogs \in UNION {[is -> [name : Nat, bag : SUBSET Loot]] : is \in SUBSET Ids}
    BY <2>1
  <2> HIDE DEF dogs
  <2>3. world = [v |-> 1, ground |-> ground, dogs |-> dogs, others |-> [i \in away |-> 1]]
    BY <1>2 DEF dogs
  <2>4. ground \subseteq Loot
    BY <1>4
  <2>5. [i \in away |-> 1] \in [away -> Nat] /\ away \in SUBSET Ids
    OBVIOUS
  <2>6. [i \in away |-> 1] \in UNION {[is -> Nat] : is \in SUBSET Ids}
    BY <2>5
  <2> QED
    BY <2>2, <2>3, <2>4, <2>6 DEF WorldTypes
<1>6. Keyed /\ Linking
  BY DEF Init, Keyed, Linking
<1>7. PICK past : past = [k \in {1} |-> world]
  OBVIOUS
<1>8. past[1] = world /\ \A k \in 1..world.v : k = 1
  BY <1>3, <1>7
<1>9. OnePlace(world) /\ Items(world) \subseteq spawned
  <2>1. OnePlace(world)
    BY <1>3 DEF OnePlace
  <2>2. \A i \in ids : world.dogs[i].bag \subseteq spawned
    BY <1>3
  <2> QED
    BY <1>3, <2>1, <2>2 DEF Items
<1>10. Lineage(past)
  BY <1>3, <1>8, <1>9 DEF Lineage
<1>11. DOMAIN inflight = {} /\ desiredState.v = 0 /\ listVersion = 0 /\ loaded = {} /\ DOMAIN players = {}
  BY DEF Init, EmptyBag, SetToBag, NoAnswer
<1>12. Witnessed(past)
  BY <1>3, <1>11 DEF Witnessed
<1>13. /\ DOMAIN lostObjects = {} /\ DOMAIN disappearing = {} /\ DOMAIN data = {}
       /\ current = {} /\ linked = {} /\ scene = {}
  BY DEF Init
<1>14. BooksKept(past, desiredState.v)
  BY <1>13 DEF BooksKept, Apart, Range
<1> QED
  BY FramesInit, <1>5, <1>6, <1>10, <1>12, <1>14 DEF BooksInv

\* The server goes on.
LEMMA GoingKeepsBooks ==
  ASSUME BooksInv, FramesInv', Goes(world'), WorldTypes',
         UNCHANGED <<inflight, loaded, viewVars, noteVars>>
  PROVE  BooksInv'
<1>1. PICK past : /\ Lineage(past) /\ Witnessed(past)
                  /\ Untroubled => BooksKept(past, desiredState.v)
  BY DEF BooksInv
<1>2. PICK w : w = world'
  OBVIOUS
<1>3. PICK next : /\ Lineage(next)'
                  /\ \A k \in 1..world.v : next[k] = past[k]
                  /\ next[world.v + 1] = w
  BY <1>1, <1>2, LineageGoesOn
<1>4. world.v \in Nat \ {0} /\ world'.v = world.v + 1 /\ past[world.v] = world
  BY <1>1 DEF Lineage, Goes
<1>5. UNCHANGED <<inflight, loaded, desiredState, current, data, players, linked, lostObjects,
                  disappearing, scene, listVersion, overtaken, seen, unlisted, outrun>>
  BY DEF viewVars, noteVars
<1>6. Keyed' /\ Linking'
  BY <1>5 DEF BooksInv, Keyed, Linking
<1>7. Witnessed(next)'
  <2>1. \A k \in 1..world.v : k \in 1..world'.v
    BY <1>4
  <2>2. \A a \in DOMAIN inflight : a.status = "ok" =>
          a.world.v \in 1..world'.v /\ a.world = next[a.world.v]
    BY <1>1, <1>3, <2>1 DEF Witnessed
  <2>3. desiredState.v \in 0..world'.v /\ listVersion \in 0..world'.v
    BY <1>1, <1>4 DEF Witnessed
  <2>4. "stateLoaded" \in loaded => desiredState.v > 0 /\ desiredState = next[desiredState.v]
    BY <1>1, <1>3, <1>4 DEF Witnessed
  <2>5. \A i \in DOMAIN players : listVersion > 0 /\ i \in Listed(next[listVersion])
    BY <1>1, <1>3, <1>4 DEF Witnessed
  <2> QED
    BY <1>5, <2>2, <2>3, <2>4, <2>5 DEF Witnessed
<1>8. ASSUME Untroubled' PROVE BooksKept(next, desiredState.v)'
  <2>1. Untroubled
    BY <1>5, <1>8 DEF Untroubled, Goes
  <2>2. BooksKept(past, desiredState.v)
    BY <1>1, <2>1
  <2>3. ASSUME NEW k, k \in 0..world.v, NEW l, Gone(past, k, l) PROVE Gone(next, k, l)'
    <3>1. world.v \in 1..world.v /\ world.v >= k
      BY <1>4, <2>3
    <3>2. l \in spawned /\ l \notin Items(world)
      BY <1>4, <2>3, <3>1 DEF Gone
    <3>3. l \in spawned' /\ l \notin Items(w)
      BY <1>2, <3>2 DEF Goes
    <3>4. ASSUME NEW j \in 1..world'.v, j >= k PROVE l \notin Items(next[j])
      <4>1. CASE j \in 1..world.v
        BY <1>3, <2>3, <3>4, <4>1 DEF Gone
      <4>2. CASE j = world.v + 1
        BY <1>3, <3>3, <4>2
      <4> QED
        BY <1>4, <4>1, <4>2
    <3> QED
      BY <3>3, <3>4 DEF Gone
  <2>4. ASSUME NEW k, k \in 0..world.v, NEW i, Away(past, k, i) PROVE Away(next, k, i)'
    <3>1. world.v \in 1..world.v /\ world.v >= k
      BY <1>4, <2>4
    <3>2. i \in left /\ i \notin Listed(world)
      BY <1>4, <2>4, <3>1 DEF Away
    <3>3. i \in left' /\ i \notin Listed(w)
      BY <1>2, <1>8, <3>2 DEF Goes, Untroubled
    <3>4. ASSUME NEW j \in 1..world'.v, j >= k PROVE i \notin Listed(next[j])
      <4>1. CASE j \in 1..world.v
        BY <1>3, <2>4, <3>4, <4>1 DEF Away
      <4>2. CASE j = world.v + 1
        BY <1>3, <3>3, <4>2
      <4> QED
        BY <1>4, <4>1, <4>2
    <3> QED
      BY <3>3, <3>4 DEF Away
  <2>5. desiredState.v \in 0..world.v /\ listVersion \in 0..world.v
    BY <1>1 DEF Witnessed
  <2>6. Apart' /\ Tracked' = Tracked
    BY <1>5, <2>2 DEF BooksKept, Apart, Tracked
  <2>7. PICK d : d = desiredState.v
    OBVIOUS
  <2>8. \A l \in DOMAIN disappearing : Gone(next, d, l)'
    BY <2>2, <2>3, <2>5, <2>7 DEF BooksKept
  <2>9. \A i \in linked \ current : Away(next, d, i)' /\ \A l \in DOMAIN data[i] : Gone(next, d, l)'
    BY <2>2, <2>3, <2>4, <2>5, <2>7 DEF BooksKept
  <2>10. PICK lv : lv = listVersion
    OBVIOUS
  <2>11. \A i \in current : \/ Range(data[i]) \subseteq scene
                            \/ Away(next, lv, i)'
    BY <2>2, <2>4, <2>5, <2>10 DEF BooksKept
  <2>12. \A i \in current : \/ Range(data[i]) \subseteq scene
                            \/ Away(next, listVersion, i)'
    BY <1>5, <2>10, <2>11 DEF Away
  <2>13. BooksKept(next, d)'
    BY <1>5, <2>2, <2>6, <2>8, <2>9, <2>12 DEF BooksKept
  <2> QED
    BY <1>5, <2>7, <2>13 DEF BooksKept, Gone, Away
<1> QED
  BY <1>3, <1>6, <1>7, <1>8 DEF BooksInv

\* The server rests, and the view is left alone.
LEMMA RestingKeepsBooks ==
  ASSUME BooksInv, FramesInv', UNCHANGED <<serverVars, loaded, viewVars, noteVars>>,
         \A a \in DOMAIN inflight' :
           a \in DOMAIN inflight \/ (a.status = "ok" => a.world = world)
  PROVE  BooksInv'
<1>1. PICK past : /\ Lineage(past) /\ Witnessed(past)
                  /\ Untroubled => BooksKept(past, desiredState.v)
  BY DEF BooksInv
<1>2. UNCHANGED <<world, spawned, left, reused, loaded, desiredState, current, data, players,
                  linked, lostObjects, disappearing, scene, listVersion, overtaken, seen, unlisted, outrun>>
  BY DEF serverVars, viewVars, noteVars
<1>3. Lineage(past)'
  BY <1>1, <1>2 DEF Lineage
<1>4. WorldTypes' /\ Keyed' /\ Linking'
  BY <1>2 DEF BooksInv, WorldTypes, Keyed, Linking
<1>5. Witnessed(past)'
  <2>1. world.v \in 1..world.v /\ past[world.v] = world
    BY <1>1 DEF Lineage
  <2> QED
    BY <1>1, <1>2, <2>1 DEF Witnessed
<1>6. Untroubled' => BooksKept(past, desiredState.v)'
  BY <1>1, <1>2 DEF Untroubled, BooksKept, Apart, Gone, Away, Tracked
<1> QED
  BY <1>3, <1>4, <1>5, <1>6 DEF BooksInv

LEMMA ServerKeepsBooks ==
  ASSUME BooksInv, FramesInv', NEW i, NEW l,
         \/ Joins(i) \/ Retires(i) \/ Delivers(i) \/ Spawns(l) \/ IsTaken(l, i)
         \/ JoinsElsewhere(i) \/ RetiresElsewhere(i)
  PROVE  BooksInv'
<1>1. PICK past : Lineage(past)
  BY DEF BooksInv
<1>2. WorldTypes
  BY DEF BooksInv
<1>3. Goes(world') /\ WorldTypes'
  BY <1>1, <1>2, JoinsGoes, RetiresGoes, ElsewhereGoes, SpawnsGoes, IsTakenGoes, DeliversGoes
<1>4. UNCHANGED <<inflight, loaded, viewVars, noteVars>>
  BY DEF Joins, Retires, JoinsElsewhere, RetiresElsewhere, Delivers, Spawns, IsTaken, Step
<1> QED
  BY <1>3, <1>4, GoingKeepsBooks

LEMMA StateArrivesKeepsBooks ==
  ASSUME BooksInv, FramesInv', NEW a \in DOMAIN inflight, StateArrives(a)
  PROVE  BooksInv'
<1>1. PICK past : /\ Lineage(past) /\ Witnessed(past)
                  /\ Untroubled => BooksKept(past, desiredState.v)
  BY DEF BooksInv
<1> DEFINE n == a.world.v
<1>2. /\ n \in 1..world.v /\ a.world = past[n] /\ desiredState' = a.world
      /\ DOMAIN inflight' \subseteq DOMAIN inflight
      /\ UNCHANGED <<world, spawned, left, reused, players, listVersion, seen>>
      /\ overtaken' = (overtaken \/ n < desiredState.v)
  BY <1>1, TakenOut DEF Witnessed, StateArrives, Take, serverVars
<1>3. Lineage(past)' /\ WorldTypes'
  <2>1. Lineage(past)'
    BY <1>1, <1>2 DEF Lineage
  <2> QED
    BY <1>2, <2>1 DEF BooksInv, WorldTypes
<1>4. world.v \in Nat \ {0} /\ n \in Nat /\ n > 0
  BY <1>1, <1>2 DEF Lineage
<1>5. Witnessed(past)'
  BY <1>1, <1>2, <1>4 DEF Witnessed
<1>6. /\ DOMAIN data = current \cup linked
      /\ current \cap DOMAIN players \subseteq linked
      /\ Keyed
      /\ "started" \notin loaded => /\ current = {} /\ linked = {}
                                    /\ DOMAIN lostObjects = {} /\ DOMAIN disappearing = {}
  BY DEF BooksInv, Linking
<1>7. CASE "started" \in loaded \/ MayStart(loaded \cup {"stateLoaded"})
  <2>1. /\ ApplyDesiredState(a.world, DOMAIN players)
        /\ "started" \in loaded'
    BY <1>7 DEF StateArrives
  <2>2. PICK entries : entries = DOMAIN players
    OBVIOUS
  <2>3. PICK w : w = a.world
    OBVIOUS
  <2>4. ApplyDesiredState(w, entries)
    BY <2>1, <2>2, <2>3
  <2>5. Keyed' /\ Linking'
    <3>1. Keyed'
      BY <1>6, <2>4, AppliedKeepsKeys
    <3>2. DOMAIN data' = current' \cup linked' /\ current' \cap entries \subseteq linked'
      BY <1>6, <2>2, <2>4, AppliedKeepsLinks
    <3> QED
      BY <1>2, <2>1, <2>2, <3>1, <3>2 DEF Linking
  <2>6. ASSUME Untroubled' PROVE BooksKept(past, desiredState.v)'
    <3>1. Untroubled /\ reused = {} /\ ~unlisted' /\ ~outrun' /\ ~(n < desiredState.v)
      <4>1. ~overtaken /\ ~(n < desiredState.v) /\ reused = {} /\ ~unlisted' /\ ~outrun'
        BY <1>2, <2>6 DEF Untroubled
      <4>2. ~unlisted /\ ~outrun
        BY <2>1, <4>1 DEF ApplyDesiredState
      <4> QED
        BY <4>1, <4>2 DEF Untroubled
    <3>2. BooksKept(past, desiredState.v)
      BY <1>1, <3>1
    <3>3. \E d \in 1..n : Shows(past[d]) /\ BooksKept(past, d)
      <4>1. CASE "started" \in loaded
        <5>1. /\ desiredState.v \in 1..n /\ desiredState = past[desiredState.v]
          <6>1. "stateLoaded" \in loaded
            BY <4>1 DEF BooksInv, FramesInv
          <6>2. desiredState.v > 0 /\ desiredState = past[desiredState.v] /\ desiredState.v \in 0..world.v
            BY <1>1, <6>1 DEF Witnessed
          <6> QED
            BY <1>4, <3>1, <6>2
        <5>2. Shows(desiredState)
          BY <4>1 DEF BooksInv, FramesInv, FramesFindTheirPlayers, Shows
        <5>3. PICK d : d = desiredState.v
          OBVIOUS
        <5>4. d \in 1..n /\ Shows(past[d]) /\ BooksKept(past, d)
          BY <3>2, <5>1, <5>2, <5>3
        <5> QED
          BY <5>4
      <4>2. CASE "started" \notin loaded
        <5>1. Shows(past[n])
          BY <1>6, <4>2 DEF Shows
        <5>2. BooksKept(past, n)
          BY <1>6, <3>2, <4>2 DEF BooksKept
        <5> QED
          BY <1>4, <5>1, <5>2
      <4> QED
        BY <4>1, <4>2
    <3>4. PICK d \in 1..n : Shows(past[d]) /\ BooksKept(past, d)
      BY <3>3
    <3>5. PICK m : m = n
      OBVIOUS
    <3>6. BooksKept(past, m)'
      BY <1>1, <1>2, <1>6, <2>2, <2>3, <2>4, <3>1, <3>4, <3>5, AppliedKeepsBooks
    <3> QED
      BY <1>2, <3>5, <3>6 DEF BooksKept, Gone, Away
  <2> QED
    BY <1>3, <1>5, <2>5, <2>6 DEF BooksInv
<1>8. CASE ~("started" \in loaded \/ MayStart(loaded \cup {"stateLoaded"}))
  <2>1. /\ "started" \notin loaded /\ loaded' = loaded \cup {"stateLoaded"}
        /\ UNCHANGED <<current, data, linked, lostObjects, disappearing, scene, unlisted, outrun>>
    BY <1>8 DEF StateArrives
  <2>2. Keyed' /\ Linking'
    BY <1>2, <1>6, <2>1 DEF Keyed, Linking
  <2>3. ASSUME Untroubled' PROVE BooksKept(past, desiredState.v)'
    <3>1. Untroubled
      BY <1>2, <2>1, <2>3 DEF Untroubled
    <3>2. BooksKept(past, desiredState.v)
      BY <1>1, <3>1
    <3> QED
      BY <1>2, <1>6, <2>1, <3>2 DEF BooksKept, Apart, Tracked
  <2> QED
    BY <1>3, <1>5, <2>2, <2>3 DEF BooksInv
<1> QED
  BY <1>7, <1>8

LEMMA PlayersArriveKeepsBooks ==
  ASSUME BooksInv, FramesInv', NEW a \in DOMAIN inflight, PlayersArrive(a)
  PROVE  BooksInv'
<1>1. PICK past : /\ Lineage(past) /\ Witnessed(past)
                  /\ Untroubled => BooksKept(past, desiredState.v)
  BY DEF BooksInv
<1> DEFINE n == a.world.v
<1>2. /\ n \in 1..world.v /\ a.world = past[n] /\ desiredState' = desiredState
      /\ DOMAIN inflight' \subseteq DOMAIN inflight
      /\ UNCHANGED <<world, spawned, left, reused>>
      /\ listVersion' = n /\ seen' = seen \cup Listed(a.world)
      /\ overtaken' = (overtaken \/ n < listVersion)
  BY <1>1, TakenOut DEF Witnessed, PlayersArrive, Take, serverVars, Names
<1>3. Lineage(past)' /\ WorldTypes'
  <2>1. Lineage(past)'
    BY <1>1, <1>2 DEF Lineage
  <2> QED
    BY <1>2, <2>1 DEF BooksInv, WorldTypes
<1>4. /\ world.v \in Nat \ {0} /\ n \in Nat /\ n > 0
      /\ desiredState.v \in 0..world.v /\ listVersion \in 0..world.v
  BY <1>1, <1>2 DEF Lineage, Witnessed
<1>5. /\ DOMAIN data = current \cup linked
      /\ current \cap DOMAIN players \subseteq linked
      /\ Keyed
      /\ "started" \notin loaded => /\ current = {} /\ linked = {}
                                    /\ DOMAIN lostObjects = {} /\ DOMAIN disappearing = {}
  BY DEF BooksInv, Linking
<1>6. ASSUME DOMAIN players' = Listed(a.world),
             "stateLoaded" \in loaded' => "stateLoaded" \in loaded
      PROVE  Witnessed(past)'
  BY <1>1, <1>2, <1>4, <1>6 DEF Witnessed
<1>7. CASE "started" \notin loaded /\ MayStart(loaded \cup {"playersLoaded"})
  <2>1. /\ players' = Names(a.world)
        /\ ApplyDesiredState(desiredState, DOMAIN players')
        /\ loaded' = (loaded \cup {"playersLoaded"}) \cup {"started"}
        /\ "stateLoaded" \in loaded
    BY <1>7 DEF PlayersArrive, MayStart
  <2>2. PICK entries : entries = DOMAIN players'
    OBVIOUS
  <2>3. PICK w : w = desiredState
    OBVIOUS
  <2>4. ApplyDesiredState(w, entries)
    BY <2>1, <2>2, <2>3
  <2>5. Keyed' /\ Linking'
    <3>1. Keyed'
      BY <1>5, <2>4, AppliedKeepsKeys
    <3>2. DOMAIN data' = current' \cup linked' /\ current' \cap entries \subseteq linked'
      BY <1>5, <1>7, <2>4, AppliedKeepsLinks
    <3> QED
      BY <2>1, <2>2, <3>1, <3>2 DEF Linking
  <2>6. Witnessed(past)'
    <3>1. DOMAIN players' = Listed(a.world)
      BY <2>1 DEF Names
    <3> QED
      BY <1>6, <2>1, <3>1
  <2>7. ASSUME Untroubled' PROVE BooksKept(past, desiredState.v)'
    <3>1. Untroubled /\ reused = {} /\ ~unlisted' /\ ~outrun'
      <4>1. ~overtaken /\ reused = {} /\ ~unlisted' /\ ~outrun'
        BY <1>2, <2>7 DEF Untroubled
      <4>2. ~unlisted /\ ~outrun
        BY <2>1, <4>1 DEF ApplyDesiredState
      <4> QED
        BY <4>1, <4>2 DEF Untroubled
    <3>2. PICK m : m = desiredState.v
      OBVIOUS
    <3>3. m \in 1..world.v /\ w = past[m] /\ m \in 1..m
      BY <1>1, <1>4, <2>1, <2>3, <3>2 DEF Witnessed
    <3>4. BooksKept(past, m) /\ Shows(past[m])
      BY <1>1, <1>5, <1>7, <3>1, <3>2 DEF Shows
    <3>5. DOMAIN players' = entries /\ seen' \subseteq seen \cup entries /\ current = {}
      <4>1. entries = Listed(a.world)
        BY <2>1, <2>2 DEF Names
      <4>2. seen' = seen \cup Listed(a.world)
        BY <1>2
      <4> QED
        BY <1>5, <1>7, <2>2, <4>1, <4>2
    <3>6. DOMAIN data = current \cup linked /\ current \cap entries \subseteq linked
      BY <1>5, <3>5
    <3>7. BooksKept(past, m)'
      BY <1>1, <1>2, <1>5, <2>4, <3>1, <3>3, <3>4, <3>5, <3>6, AppliedKeepsBooks
    <3> QED
      BY <1>2, <3>2, <3>7 DEF BooksKept, Gone, Away
  <2> QED
    BY <1>3, <2>5, <2>6, <2>7 DEF BooksInv
<1>8. CASE ~("started" \notin loaded /\ MayStart(loaded \cup {"playersLoaded"}))
  <2>1. /\ UpdatePlayersList(a.world) /\ loaded' = loaded \cup {"playersLoaded"}
        /\ UNCHANGED <<current, lostObjects, disappearing, unlisted, outrun>>
    BY <1>8 DEF PlayersArrive
  <2>2. /\ DOMAIN data' = current' \cup linked' /\ current' \cap DOMAIN players' \subseteq linked'
        /\ DOMAIN players' = Listed(a.world)
        /\ \A i \in DOMAIN data' : i \in DOMAIN data /\ data'[i] = data[i]
        /\ current = {} /\ linked = {} => linked' = {}
    BY <1>5, <2>1, ListKeepsLinks
  <2>3. Keyed' /\ Linking'
    <3>1. Keyed'
      BY <1>5, <2>1, <2>2 DEF Keyed
    <3>2. "started" \notin loaded' => /\ current' = {} /\ linked' = {}
                                      /\ DOMAIN lostObjects' = {} /\ DOMAIN disappearing' = {}
      BY <1>5, <2>1, <2>2
    <3> QED
      BY <2>2, <3>1, <3>2 DEF Linking
  <2>4. Witnessed(past)'
    BY <1>6, <2>1, <2>2
  <2>5. ASSUME Untroubled' PROVE BooksKept(past, desiredState.v)'
    <3>1. Untroubled /\ reused = {} /\ listVersion <= n
      <4>1. ~overtaken /\ ~(n < listVersion) /\ reused = {} /\ ~unlisted /\ ~outrun
        BY <1>2, <2>1, <2>5 DEF Untroubled
      <4>2. listVersion \in Nat
        BY <1>4
      <4> QED
        BY <1>4, <4>1, <4>2 DEF Untroubled
    <3>2. PICK d : d = desiredState.v
      OBVIOUS
    <3>3. PICK m : m = n
      OBVIOUS
    <3>4. BooksKept(past, d)
      BY <1>1, <3>1, <3>2
    <3>5. PICK w : w = a.world
      OBVIOUS
    <3>6. \A i \in DOMAIN players : listVersion > 0 /\ i \in Listed(past[listVersion])
      BY <1>1 DEF Witnessed
    <3>7. /\ m \in 1..world.v /\ w = past[m] /\ UpdatePlayersList(w)
          /\ listVersion' = m /\ listVersion <= m /\ listVersion \in Nat
          /\ seen' = seen \cup Listed(w)
      BY <1>2, <1>4, <2>1, <3>1, <3>3, <3>5
    <3>8. BooksKept(past, d)'
      BY <1>1, <1>2, <1>5, <2>1, <3>1, <3>4, <3>6, <3>7, ListKeepsBooks
    <3> QED
      BY <1>2, <3>2, <3>8 DEF BooksKept, Gone, Away
  <2> QED
    BY <1>3, <2>3, <2>4, <2>5 DEF BooksInv
<1> QED
  BY <1>7, <1>8

LEMMA FrameKeepsBooks ==
  ASSUME BooksInv, FramesInv',
         NEW polls, NEW gone \in SUBSET DOMAIN disappearing, Tick(polls, gone)
  PROVE  BooksInv'
<1>1. PICK past : /\ Lineage(past) /\ Witnessed(past)
                  /\ Untroubled => BooksKept(past, desiredState.v)
  BY DEF BooksInv
<1>2. /\ UNCHANGED <<world, spawned, left, reused, loaded, desiredState, current, data, players,
                     linked, lostObjects, listVersion, overtaken, seen, unlisted, outrun>>
      /\ "started" \in loaded
      /\ \A a \in DOMAIN inflight' : a \in DOMAIN inflight \/ a.status # "ok"
  <2>1. DOMAIN inflight' = DOMAIN inflight \cup {Asked(kind) : kind \in polls}
    BY PutIn DEF Tick
  <2>2. \A a \in DOMAIN inflight' : a \in DOMAIN inflight \/ a.status # "ok"
    BY <2>1 DEF Asked
  <2> QED
    BY <2>2 DEF Tick, serverVars, noteVars
<1>3. Lineage(past)' /\ WorldTypes'
  <2>1. Lineage(past)'
    BY <1>1, <1>2 DEF Lineage
  <2> QED
    BY <1>2, <2>1 DEF BooksInv, WorldTypes
<1>4. Witnessed(past)'
  BY <1>1, <1>2 DEF Witnessed
<1>5. Linking'
  BY <1>2 DEF BooksInv, Linking
<1>6. Keyed'
  <2>1. /\ DOMAIN disappearing' \subseteq DOMAIN disappearing
        /\ \A l \in DOMAIN disappearing' : disappearing'[l] = disappearing[l]
    BY DEF Tick, Restrict
  <2> QED
    BY <1>2, <2>1 DEF BooksInv, Keyed
<1>7. ASSUME Untroubled' PROVE BooksKept(past, desiredState.v)'
  <2>1. Untroubled
    BY <1>2, <1>7 DEF Untroubled
  <2>2. PICK d : d = desiredState.v
    OBVIOUS
  <2>3. BooksKept(past, d) /\ Keyed /\ current \subseteq DOMAIN data
    BY <1>1, <2>1, <2>2 DEF BooksInv, Linking
  <2>4. BooksKept(past, d)'
    BY <1>2, <2>3, TickKeepsBooks
  <2> QED
    BY <1>2, <2>2, <2>4 DEF BooksKept, Gone, Away
<1> QED
  BY <1>3, <1>4, <1>5, <1>6, <1>7 DEF BooksInv

LEMMA LoadingKeepsBooks ==
  ASSUME BooksInv, FramesInv', LoadActor \/ LoadLootType \/ LoadFails \/ CreateGameState
  PROVE  BooksInv'
<1>1. UNCHANGED <<serverVars, loaded, viewVars, noteVars>>
  BY DEF LoadActor, LoadLootType, LoadFails, CreateGameState
<1>2. \A a \in DOMAIN inflight' : a \in DOMAIN inflight \/ a.status # "ok"
  <2>1. CASE CreateGameState
    BY <2>1 DEF CreateGameState, SetToBag, Asked
  <2>2. CASE LoadActor \/ LoadLootType \/ LoadFails
    BY <2>2 DEF LoadActor, LoadLootType, LoadFails
  <2> QED
    BY <2>1, <2>2
<1> QED
  BY <1>1, <1>2, RestingKeepsBooks

LEMMA AnswerKeepsBooks ==
  ASSUME BooksInv, FramesInv', NEW kind \in Kinds, Answer(kind)
  PROVE  BooksInv'
<1>1. DOMAIN inflight' = DOMAIN (inflight (-) SetToBag({Asked(kind)})) \cup {AnswerNow(kind)}
  BY PutIn DEF Answer
<1>2. \A a \in DOMAIN inflight' : a \in DOMAIN inflight \/ a = AnswerNow(kind)
  BY <1>1, TakenOut
<1>3. AnswerNow(kind).status = "ok" => AnswerNow(kind).world = world
  BY DEF AnswerNow
<1>4. UNCHANGED <<serverVars, loaded, viewVars, noteVars>>
  BY DEF Answer
<1>5. \A a \in DOMAIN inflight' : a \in DOMAIN inflight \/ (a.status = "ok" => a.world = world)
  BY <1>2, <1>3
<1> QED
  BY <1>4, <1>5, RestingKeepsBooks

LEMMA OtherwiseKeepsBooks ==
  ASSUME BooksInv, FramesInv', NEW a, PlayersRefused(a) \/ StateRefused(a) \/ IsLost(a)
  PROVE  BooksInv'
<1>1. UNCHANGED <<serverVars, loaded, viewVars, noteVars>>
  BY DEF PlayersRefused, StateRefused, IsLost
<1>2. DOMAIN inflight' \subseteq DOMAIN inflight
  BY TakenOut DEF PlayersRefused, StateRefused, IsLost, Take
<1> QED
  BY <1>1, <1>2, RestingKeepsBooks

LEMMA BooksStep == BooksInv /\ [Next]_vars => BooksInv'
<1> SUFFICES ASSUME BooksInv, [Next]_vars PROVE BooksInv'
  OBVIOUS
<1>0. FramesInv'
  BY FramesStep DEF BooksInv
<1>1. CASE UNCHANGED vars
  <2>1. UNCHANGED <<serverVars, inflight, loaded, viewVars, noteVars>>
    BY <1>1 DEF vars
  <2> QED
    BY <1>0, <2>1, RestingKeepsBooks
<1>2. CASE IdleFrame
  BY <1>1, <1>2 DEF IdleFrame
<1>3. ASSUME NEW a \in DOMAIN inflight,
             \/ StateArrives(a) \/ PlayersArrive(a)
             \/ PlayersRefused(a) \/ StateRefused(a) \/ IsLost(a)
      PROVE  BooksInv'
  BY <1>0, <1>3, StateArrivesKeepsBooks, PlayersArriveKeepsBooks, OtherwiseKeepsBooks
<1>4. ASSUME NEW polls \in SUBSET Kinds, NEW gone \in SUBSET DOMAIN disappearing,
             Tick(polls, gone)
      PROVE  BooksInv'
  BY <1>0, <1>4, FrameKeepsBooks
<1> QED
  BY <1>0, <1>1, <1>2, <1>3, <1>4, ServerKeepsBooks, AnswerKeepsBooks, LoadingKeepsBooks DEF Next

\* A dog that is listed is not one that will never be listed again.
LEMMA BooksAreTheScene == BooksInv => SceneMatchesBooks
<1> SUFFICES ASSUME BooksInv, Untroubled
             PROVE  /\ Orphans = {}
                    /\ Range(lostObjects) \subseteq scene
                    /\ Bags(Restrict(data, current \cap DOMAIN players)) \subseteq scene
  BY DEF SceneMatchesBooks
<1>1. PICK past : Lineage(past) /\ Witnessed(past) /\ BooksKept(past, desiredState.v)
  BY DEF BooksInv
<1>2. ASSUME NEW i \in current \cap DOMAIN players PROVE Range(data[i]) \subseteq scene
  <2> SUFFICES ASSUME Away(past, listVersion, i) PROVE FALSE
    BY <1>1 DEF BooksKept
  <2>1. listVersion > 0 /\ i \in Listed(past[listVersion]) /\ listVersion \in 0..world.v
    BY <1>1 DEF Witnessed
  <2>2. world.v \in Nat
    BY <1>1 DEF Lineage
  <2>3. listVersion \in 1..world.v /\ listVersion >= listVersion
    BY <2>1, <2>2
  <2> QED
    BY <2>1, <2>3 DEF Away
<1>3. Bags(Restrict(data, current \cap DOMAIN players)) \subseteq scene
  BY <1>2 DEF Bags, Restrict, Range
<1>4. Orphans = {} /\ Range(lostObjects) \subseteq scene
  BY <1>1 DEF BooksKept, Orphans
<1> QED
  BY <1>3, <1>4

\* In whatever order the answers to the two polls come, every object of the scene
\* is in a table, and those of the view are in the scene; unless an answer was
\* overtaken by one of its kind, a dog that no list has shown took loot out of
\* view, one that a list has dropped was given loot, or an id came back.
THEOREM SceneIsKept == Spec => []SceneMatchesBooks
<1> QED
  BY BooksInit, BooksStep, BooksAreTheScene, PTL DEF Spec
=============================================================================
