# A verification development of dog_game

dog_game is a game server: dogs run on the roads of a map, collect loot, bring it
to offices for a score, and are retired into a table of records when they have
stood still for too long. The server is a C++ program on Boost.Asio; a JSON file
gives the maps, PostgreSQL keeps the records, a text archive keeps the state
between two runs, and a JavaScript client draws the game.

This directory holds TLA+ modules of its parts, the configurations TLC checks
them with, and theorems TLAPS proves. `PROJECT.json` lists the components, the
runs, a mutant per property (a plausible bug of the code that makes TLC report
that property), the source lines of every definition, the findings, the hazards
and the theorems. Source paths below are relative to `src/src/`, those of the page
(`game.js`, `game_map.js`) to `src/static/js/`.

    tlc -config App.cfg MCApp.tla            # check a run
    tlapm AppProofs.tla                      # check the proofs of a module

## 1. The system

| Part | State | Operations | Modelled in |
|---|---|---|---|
| `app::App`, `app::Players` (app.cpp) | `players_map_`, `token_to_player_` | JoinGame, GetPlayer, RetireDogs, DeletePlayer, RestorePlayers | `App`, `Server` |
| `model::Game` (model.cpp) | sessions, maps, generator, tick signal | GetSession, AddSession, TickAllSessions | `App`, `LootGenerator` |
| `model::GameSession` (model.cpp) | `dogs_`, `loots_`, `loot_max_id_` | AddDog, RemoveDog, SetDogDirection, Tick, MoveDog, AddLoots, SetLoots | `App`, `RoadMovement`, `LootSession` |
| `model::Dog` (model_dog.cpp) | position, speed, bag, score, clocks | PutToBag, EmptyBag, AddScore, clocks | `RoadMovement`, `LootSession`, `App` |
| `model_geometry` | none | Contains, LeavingPoint, road bounds | `RoadMovement` |
| `loot::LootGenerator` (loot.cpp) | `time_without_loot_` | Generate | `LootGenerator`, amount also in `LootSession` |
| `infrastructure::Autosaver`, serialization.h | `elapsed_`, the state file | OnTick, Save, Restore | `Server` |
| main.cpp | the process, the tick slot | start, stop, slot | `Server` |
| `connection_pool::ConnectionPool` | `pool_`, `used_connections_`, mutex, condition variable | GetConnection, ReturnConnection | `ConnectionPool` |
| `db::RecordDB` (db.cpp) | table `retired_players` | Save, GetRetiredDogs | Save in `App` |
| request_handler | none | routing, the use cases | state-changing use cases are actions of `App` and `Steering`, the answers of the polls in `Client` |
| http_server | per connection: stream, buffer, request | OnAccept, Read, OnRead, Write, OnWrite, Close, time-outs | `HttpServer`, composed with the keys in `Steering` |
| `Ticker` (ticker.h) | `last_tick_`, timer | Start, ScheduleTick, OnTick | its going on after an exception in `App` |
| `collision_detector` | none | TryCollectPoint, FindSortedGatherEvents | `Collision`, composed with the walks in `DogWalks`; `LootSession` allows any of its answers |
| json_loader, model_json | none | LoadGame | its results are CONSTANTS; what it sends of a road is in `TileMap` |
| client, game.js | `desiredState`, `currentState`, `players`, `lostObjects`, `disappearingLoot`, the scene | loading, `_updateState`, `_syncPlayers`, `_applyDesiredState`, `tick` | `Client` |
| client, keys | `pressedKeys` | keyDown, keyUp, `_pressKey` | `Steering` |
| client, game_map.js | `map_tiles` | gameLoadMap, makeRoads | `TileMap`, with the walks in `DogWalks` |
| logger, tagged, handler_serializer, sdk | - | - | not modelled: no state of the game |

How they interact. A connection reads one request at a time and dispatches API
requests to one strand, on which the ticker runs as well; every handler and every
tick therefore runs alone, and what can cut one short is an exception. A tick
(from the ticker or from `/api/v1/game/tick`) lets every session move its dogs,
gather loot and add loot, and then sends the tick signal; its slot in main.cpp:157
first saves the state if that is due and then retires dogs, with one INSERT each.
A token names a player, the player a session and the id of a dog. At the start,
if autosaving is on, the state file is restored; at an orderly stop it is saved.
The page polls the state of its session and, ten times less often, the players of
all sessions; every change of the arrow keys is a POST of its own.

What is hard here: exceptions half way through a tick, an INSERT series or a join;
crashes between saving, recording and removing; ids given out again after
retirement and after a restart; a search for roads that depends on their order;
one generator shared by all sessions; the condition variable of the pool; requests
of the page that overtake each other or end in silence; and time-outs and resets of
connections whose requests wait for the strand.
`PROJECT.json` lists these hazards at their lines.

What makes each part correct:

- players and dogs: a token steers its own dog or none; the two player maps agree;
  a dog and its player leave together; no dog leaves without a record; no running
  dog is retired; a dog that stands is;
- movement: a dog is always on a road, also at every point of its way, does not
  overshoot, and the search comes to an end;
- loot: an item is in one place, paid for once, and a bag never overflows;
- generator: its clock is not behind the time gone by, a shortage ends;
- connections: what waits for the strand is disturbed by no timer, and a request
  is answered or fails;
- page: a frame finds the players it draws, no object of the scene is lost track
  of, the page comes to show the world, and leaves when its player was retired;
- roads of the page: a dog never walks across an edge or off the tiles;
- state file: what a crash can cost is bounded, and an orderly stop costs nothing;
- pool: a connection is with one thread, and no thread sleeps next to a free one.

## 2. The modules

**`App`** - players, dogs, sessions and the records. One action per handler:
`JoinGame`, `MovePlayer`, `Tick`; `TickThrows` is the tick during which a session
throws, so that later sessions do not move and the slot is not called. A dog is
keyed by the join that created it (its token), which is also its place in
`dogs_`. `RetireDogs` has the two loops of the code: all overdue dogs of a session
are saved in order, and only then removed; a failing INSERT of the set `F` ends
it, so `SavedDogs` is larger than `RemovedDogs`. Of motion only "is its speed
zero" is kept. The read of `players_map_.end()` (app.cpp:39) may yield any number
of `EndRead`.

**`HallOfFame`** - what `App` promises about a dog's career: it enters once, leaves
only with an entry, never comes back, and an entry is never taken back.

**`Server`** - extends `App` by the life of the process: the Autosaver, the state
file, crashes at any point (between requests, while the file is written, between
the Save and the retirement, between two INSERTs), orderly stops and starts. It
reuses the operators of `App`; `ServerTick` is the slot, with the Save before the
retirement. While the process is down the variables keep what the memory held.
The config may lose a map between two starts: the constructor of its session
throws, and `Restore` leaves the sessions before it and no players at all. Dogs
without players are what `App` excludes, so `Server` has the removal loop of
`RetireDogs` dog by dog (`RemoveRetired`: the dog goes, then `players_map_.at`
throws). `RunsAsApp` shows that without such orphans its steps are those of `App`.
The first start finds no file or one that an earlier run has left (`Inherited`);
with a period of 0 nothing is saved and no start reads a file (`FileToRestore`).

**`RoadMovement`** - one dog: `SetDogDirection` with its fall-through switch,
`MoveDog` up to the point where the dog leaves its first road, then `SearchRoad`
per round of the loop and `DeadEnd`. Coordinates are integers on a grid on which
the corners of the roads lie.

**`Collision`** - `TryCollectPoint`, `IsCollected` and the events of one gatherer,
on whole numbers, with the quotients as numerators.

**`TileMap`** - the tiles `gameLoadMap` makes of the roads, the sides it marks, and
the edges `makeRoads` draws along the unmarked ones.

**`DogWalks`** - extends `RoadMovement` and instantiates the two above: what a walk
gathers and what is drawn under it.

**`HttpServer`** - Listener and Session: a connection reads, waits on the API strand,
is answered, and reads again. `TimesOut` is the 30 s timer, which runs on behind the
request; `Throws` is `remote_endpoint()` on a socket that is closed or reset, whose
exception ends a worker thread, or the process if the thread is a jthread. A peer
may reset the connection before its request is read (`ReadFails`), behind it, or
between the end of the stream and the `shutdown` of `Close`, which then throws too
(`PeerLeaves`). Every operation of a connection runs on that connection's own
strand.

**`Steering`** - extends `HttpServer` by `KeyState`, the POSTs it makes of the keys
and the one bit "the dog's speed is not zero", which POSTs set and a tick may take
away (`DeadEnd`). The browser gives a POST to any connection that carries nothing.
`LoseFocus` lets keys come up that the page does not see come up.

**`Client`** - the page from its first load on: `LoadActor`, `LoadLootType`,
`CreateGameState`, the two kinds of polls as a bag of requests in flight, their
answers in any order, and `Tick`, the frame. `world` is what the server would
answer now; it changes by joins, retirements, loot that appears, is taken and is
brought home. Players join and retire in other sessions, too: the list of players
shows them, ids are given out over all sessions, and one that was given up in this
session may come back in another (`others`, `JoinsElsewhere`, `RetiresElsewhere`).
The tables are those of the code; `scene` has an object for each clone that was
added and not removed.

**`LootSession`** - one session's loot: a tick is `StartTick` (the snapshot of
events), `PassLoot`/`PassOffice` in any order, and `FinishTick` (AddLoots);
`OfficeThrows` leaves the tick. Items carry serial numbers as history, since the
ids of the code repeat. Only orderly restarts are there; crashes are in `Server`.

**`LootGenerator`** - the sessions' calls of the one generator in a tick, and the
amount it returns, from a table of the probability in percent.

**`ConnectionPool`** - the critical sections of the pool; the condition variable is
a set of waiting threads with spurious wake-ups, and a returning thread notifies
in a step of its own. **`Lending`** is what it promises: things are lent to one
borrower at a time. In the server all queries come from one strand, so the wait
is not used; the module is about the class for any number of threads.

`MC*` modules give TLC its instances; `*Proofs` modules hold the proofs.

## 3. What is checked

| Run | Shows | Bounds |
|---|---|---|
| `App` | the registry, token and record invariants under failing INSERTs and cut-short ticks; running dogs stay, standing dogs leave; refinement of `HallOfFame` | 3 joins on two maps with roads and one without; ticks of 0, 1, 2 with retirement at 2 |
| `ServerRestarts` | control of the dogs across crashes, restarts and half-done restores, bounded loss, orderly stops neither lose nor repeat anything, steps of `App` in between | 2 joins on two maps, one of which the config may lose; 1 crash, 1 stop, period 2, ticks of 1 |
| `RoadsAnyHeading` | movement, what a walk gathers and what is drawn under it, for every order of the roads | a street of three parts with a side street, and two roads with a gap; distances -3, 7, 16 on roads 10 long |
| `LootSession` | items, bags, payment, ids | 2 dogs, bags of 2, 3 items of a valued and an unvalued type, 1 restart |
| `LootClock` | generator's clock, a shortage ends | 2 sessions of up to 2 dogs |
| `Pool` | slots, counts, wake-ups, progress, refinement of `Lending` | 5 threads and 3 connections |
| `Client` | frames, scene, convergence of the view, end of the page, start of the game | its own dog and one more id, in its session, in another or moving between them, one item, 2 steps of the world, 2 polls of a kind under way, 1 loss, no or 2 types of loot |
| `Steering` | the strand, the end of every POST, obedience of the dog | 2 keys, 2 connections, 2 threads, 4 POSTs, 2 faults |

Why the bounds are enough to see the cases. Three joins are needed for one dog
that failed, one before and one behind it, and for an id that is given out again
while another player is there. Two is enough in `Server`, where what is added is
the file: one dog that is in it and one that is not, one session that can be
restored and one that cannot. A tick of the length of the
retirement time, one of half of it and one of nothing are the cases of the
clocks, which saturate there. Three items and bags of two give a full bag, a
half-paid bag and one item two dogs pass. Five threads for three connections
leave two waiting while notifications of two are on their way.
`rows` counts to 2, which stands for "several". Two polls of a kind can overtake
each other; two steps of the world, from a start at which the other dog may carry
the item, let it appear and be taken, be taken and brought home, or let a dog leave
and its id come back, while they are out. Four POSTs are two
keys pressed and released; two faults a time-out of a connection and a reset of
another, or two threads ended. The roads are 10 long and 8 wide on the grid, the
radius of a gatherer is 3, so that a dog beside the axis passes some of the loot
on it and not the rest, and loot may lie right where a tick ends.

Symmetry is used for the dogs of `LootSession`, where no liveness is checked.

Premises. Some properties hold only where the code's own ways out did not
happen, and name them. With any one conjunct of the premises of `SceneMatchesBooks`
and `SettledDogObeys` left out, or `halfRestored`, TLC finds a counterexample (for
`reused` with two more steps of the world).

- `SceneMatchesBooks` (`Untroubled`) has four. An answer came after a younger one
  of its kind (`overtaken`). A dog that no list of players has ever shown left the
  view with loot in its bag, so that no `_deletePlayer` takes the loot away
  (`unlisted`). An answer of /state that is older than the last list of players gave
  loot to a dog whose entry that list had deleted: the dog leaves the view with the
  next state, and the object stays (`outrun`). An id was given out again
  (`reused`). The ordinary orders are inside the property: a retirement that the
  list shows after the state, and one that it shows before it.
- `ViewSettles`, `GameStarts`: nothing the start needs was lost; `stuck` says so.
  Nothing in the page asks again before the game has started.
- `SettledDogObeys` speaks of moments at which all is answered. It needs only of the
  last POST that it was handled (`lost`) and that no other was under way when it
  was sent (`raced`): earlier races and losses are made good by it. Two things are
  in the formula, not the premise: a dead end has stopped the dog since that POST
  (`stopped`, model.cpp:253-256), so that it stands although a key is down; and a
  key came up while the page had no focus (`unseen`), so that it runs although none
  is.
- `PostsEnd`: unless the process was terminated by an exception, or the last
  connection is gone after the Listener has given up on a failed accept.
- `PlayersStayInControl` and the other properties of `Server`: what they say of
  tokens and rows needs that no restore failed half way, or that its orphans are
  gone.

Fairness. `App!FairSpec`: ticks never end (the ticker schedules the next tick also
after an exception, ticker.h:45-59), and some of them find the database up and
throw nothing; nothing is assumed of players. `RoadMovement`: the loop goes on.
`LootGenerator`: no session throws in all of its ticks - it throws only for loot
without a value, which the shipped config does not have. `ConnectionPool`: a woken
thread gets the mutex at last and a notifying thread goes on; a thread that works
may keep its connection for ever. `Client`: loads and requests end unless they are
among the lost ones, the server answers, and the browser goes on drawing frames;
the world need not change. `Steering`: the threads that are left go on, the browser
uses a connection that is free; keys need never be pressed, and faults need never
happen. `Steering` may come to a stop, as its user may, and so is not checked for
deadlock.

### Findings

Four runs show a disagreement between the code and what it says of itself:

- `RoadsDirections`: the switch of `SetDogDirection` falls through; every known
  direction ends in the speed (s, 0) and "Unknown direction" (model.cpp:66-76).
  `RoadsAnyHeading` therefore also starts dogs with any heading, as a state file
  may give them, so that movement is not only checked towards the east.
- `RoadsDeadEnd`: "there is nowhere left to move" (model.cpp:237), while a road
  earlier in the vector would lead on.
- `LootClockDelta`: `time_delta` is not the time since the previous call
  (loot.h:57) once there are two sessions.
- `ServerRepresentation`: `DogRepr` lacks two fields of the dog
  (serialization.h:54).

Things the passing runs take as the code has them: a crash can bring a retired
dog back and record it twice, because the state is saved before the retirement;
a crash while the file is written loses the whole state; and so does the first
Save after a restore that failed half way. A dog left without a player by such a
restore can be steered by a new player that gets its id, and leaves the map with
it. `GetPlayersInfo` (app.cpp:93) puts the JSON of a player into a JSON string, of
which the page reads a member `name` (game.js:319): every name in its table of
scores reads "undefined".

## 4. What is proved

All theorems hold for every value of the constants, from the ASSUMEs of the
modules only. Few of the properties are inductive as they stand; what each proof
adds is named below. Each of these invariants was an invariant of a run of TLC
before it was proved.

- `AppProofs`: the invariants of `App`, `OneSessionPerMap`,
  `GhostsOnlyOnRoadlessMaps` (no player without a dog but those of maps without
  roads), `NoDogVanishes`, `RunningDogsStay`, and that `App` implements
  `HallOfFame`. The heart is that ids are given out again: a token steers no
  foreign dog because the token of a retired player goes with him *and* every dog
  has a registered player; each needs the other. The invariant has two halves.
  `Core` says that the two player maps mirror each other, that a dog carries the id
  and session of the player who joined with it, and that dogs and rows belong to
  joins that have happened. It stays true whatever dogs there are without players,
  and so is the core of the server's invariant too. `Careers` is what a step keeps
  besides, one implication per property.
- `ServerProofs`: everything the run `ServerRestarts` checks. `ServerInv` is
  `Core` and, of the file, `Restores`: Core holds of what Restore would make of
  it. `OnFile` bounds the loss: a dog older than the time since the last Save is in
  the file with its player, which needs `elapsed` below the period, and a retirement
  that takes the player with the dog. `FileOfTheStopped` and `CareersGoOn` carry
  the careers over an orderly stop. Two things made this long. The loops of
  `RetireDogs` go dog by dog and session by session, as folds over finite sets
  that take the largest element last, and a fold cannot be unfolded by the
  library's induction. So `UpToTheLast` does the induction along the order of
  strict subsets, and `RemovedInOrder` and `RetiredInOrder` give
  the fold's next pass. Then `RetiredAsApp` shows that without orphans the loops
  do what `App` states at once, so that `ServerTick` is App's `Tick` (theorem
  `ServerRunsApp`), and everything proved of `Tick` is used again; with orphans,
  `Left` says what is true of the game wherever the loops stop.
- `RoadProofs`: types, that a dog is on a road, at the ends of a tick and at each
  point of the way, that a walk does not overshoot, and that a tick gathers what it
  passes. `WalkSound` is about the locals of the search: the border point lies on a
  road and on the line of the dog's heading; `LeavingPointOnRoad` says why the
  next border point does again. `WaySound` adds that all points up to the border
  are on roads, and that each shares a road with the next one, which is what the
  page needs: its tiles and their open sides are made road by road. For
  `WalksOnDrawnRoads` the ASSUME of `DogWalks` says what every config gives: roads
  along the axes, at whole coordinates, and a half width of less than half a unit.
  `GathersWhatItPasses` is the geometry of `Collision`: its numerators and squares
  compare as the distances do.
- `LootProofs`: the types and the four properties of `LootSession`. These count
  places; `LootInv` says without counting that the places exclude each other
  (`SerialsApart`) and that an item has one (`NothingLost`). That ids repeat only
  after a restart needs the counter not behind the bags (`IdsCounted`), and
  `EmptiedIsPaid` needs to know why a bag may hold what was paid for already:
  there is loot without a value in it (`CreditsExplained`).
- `GeneratorProofs`: types and `ClockNotBehind`. Within a tick the clock lacks the
  length of the tick until the first session has called (`KeepsUp`); `Generate`
  never gives more than is missing (`RoundedIsBounded`).
- `PoolProofs`: the invariants of `Pool`, that the count of the pool is exact, and
  that the pool implements `Lending`. `InOnePlace` says that no two places hold one
  connection; the wake-up invariant counts: while someone waits, there are as many
  threads about to notify or to look as there are free connections. A count is
  needed; "at least one" is not inductive.
- `StrandProofs`: `StrandHoldsTheQueued`, inductive with the types of the
  connections, and `SettledDogObeys`, from two invariants. `KeysInv` is about the
  page alone: its list holds, once each, the keys that are down and those that came
  up unseen. `SteeringInv` follows the POSTs: the last one tells the last key of the
  list, they get their connections in order, and one that was sent while no other
  was under way is the only one carried; whatever became of those before it, the
  dog obeys it once it has been handled, or a dead end has stopped it since
  (`ObeysTheLast`).
- `ClientProofs`: both invariants of the page. A frame finds its players
  (`FramesInv`) because the game starts only with an answer of /state, and because
  what takes an entry off the list of players leaves the data object of every dog
  in view and of every linked player. For the scene (`BooksInv`) the page alone
  does not tell enough: whether an object may be taken away depends on what the
  world was when the answers still under way were made. The invariant says that
  there is a history of worlds up to the present one (`Lineage`), that each answer
  is one of them (`Witnessed`), and that, while the premises hold, no two tables
  hold one object, what rises or was carried out of view is gone for good from the
  worlds still to be answered, and a dog that a list has dropped has nothing left
  in the scene (`BooksKept`). Ids move between sessions only through a retirement,
  and so not at all while none is given out again.

Only model-checked: all liveness (`IdleDogsLeave`, `WalksEnd`,
`ShortageEnds`, `FreeConnectionIsNoticed`, `PostsEnd`, `ViewSettles`,
`RetiredPlayerLeaves`, `GameStarts`), which is out of reach of the prover, and the
properties of the four runs that expect a violation.
`TypeOK` of `LootSession` and `LootGenerator` are theorems
no run lists: the types there are for the reader and for the other proofs.

## 5. What is not modelled

- Of the server: collisions of the 128-bit tokens; rounding of doubles; ticks of
  negative or huge length in the clocks of `App` (`RoadMovement` has negative
  ones); a retirement time of zero; the truncation of the tick length in
  `Ticker`; the order and paging of the hall of fame, which PostgreSQL evaluates;
  a broken connection in the pool, whose effect on the game is a failing INSERT;
  static files, routing, formatting, logging. A request for a static file is
  handled outside of the strand and touches nothing of the game.
- Of the page: the smoothing of positions and rotations (game.js:427-480; a
  direction that changes during a turn starts from an angle beyond one turn), the
  camera, buildings and offices, the other pages.
- `three.js`, its loaders and controls, SkeletonUtils and fflate are vendored: over
  46000 of the 47339 lines in which the repository's JavaScript is counted. The
  page calls them to load and to draw, and what it needs of them is that a load
  calls back at last or never. They have no state of this system, and are left out
  whole.

## 6. Plan

Every invariant and every action property that a passing run checks is proved.
What is left:

1. `Clocks`: the length of a tick on its way from the timer or the request to the
   clocks of the dogs and the generator - the truncation to milliseconds in
   `Ticker`, the fixed-width conversions of `timeDelta` and of the retirement time
   (model.cpp:205, model.cpp:404) - and a theorem that bounds what is lost.
2. The hall of fame as a query: order and paging of `GetRetiredDogs`.
3. The clients of `/game/tick`: a tick that throws half way is answered 400 although
   most of it has been applied, and may be sent again (request_handler.cpp:263).
