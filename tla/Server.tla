------------------------------- MODULE Server -------------------------------
(***************************************************************************)
(* The life of the server process: App under the tick slot of main.cpp,    *)
(* with infrastructure::Autosaver, the state file in the representation of *)
(* serialization.h, crashes, stops and restarts.                           *)
(*                                                                         *)
(* The slot saves first and retires the dogs afterwards, in one tick.  An  *)
(* exception of the Autosaver keeps the retirement from being run at all.  *)
(* The file is opened for writing, and with that emptied, before anything  *)
(* is written to it.                                                       *)
(*                                                                         *)
(* While the process is down, the variables of App keep what its memory    *)
(* held last; nothing reads them until Start gives them new values.        *)
(*                                                                         *)
(* The config may lose maps between two runs.  A session of such a map     *)
(* makes Restore throw, after the sessions before it were added and before *)
(* any player is: the dogs of those are then orphans.  Retirement is       *)
(* therefore modelled here dog by dog; without orphans it is that of App   *)
(* (RunsAsApp).                                                            *)
(***************************************************************************)
EXTENDS App, FiniteSetsExt

CONSTANTS
  Configs,      \* the sets of maps a config file may have
  Inherited,    \* sessions, their dogs all retired, that an earlier run saved
  Period,       \* Autosaver::save_period_; 0 turns saving and restoring off
  MaxCrashes,   \* bound: crashes
  MaxStops      \* bound: orderly stops

ASSUME ServerAssumptions ==
  /\ Maps \in Configs /\ Configs \subseteq SUBSET Maps
  /\ \A ss \in Inherited :
       /\ DOMAIN ss \subseteq Nat /\ IsFiniteSet(DOMAIN ss)
       /\ ss \in [DOMAIN ss -> Maps \ RoadlessMaps] /\ IsInjective(ss)
  /\ Period \in Nat
  /\ MaxCrashes \in Nat
  /\ MaxStops \in Nat

VARIABLES
  process,     \* "running"; "stopped" with its last Save done; "down" without
  config,      \* the maps of the config the process was started with
  file,        \* the state file
  elapsed,     \* Autosaver::elapsed_
  crashes,     \* history: crashes so far
  stops,       \* history: orderly stops so far
  diskFailed,  \* history: some Save has thrown
  cutShort,    \* history: since the last Save some tick has thrown
  halfRestored,\* history: some Restore has thrown on a map that is gone
  age          \* history: time ticked since a dog joined

server == <<process, config, file, elapsed, crashes, stops, diskFailed, cutShort,
            halfRestored, age>>
allVars == <<vars, server>>

-----------------------------------------------------------------------------
(* The archive.                                                            *)

Missing == [state |-> "missing", sessions |-> << >>, dogs |-> << >>, players |-> << >>]
Broken  == [Missing EXCEPT !.state = "broken"]

\* DogRepr: neither nonactive_time nor play_time is in it.
DogRepr(dog) == [dog EXCEPT !.idle = 0]

\* AppRepr of the game with the dogs ds.  AllPlayersRepr goes through
\* players_map_ only.
AppRepr(ds) ==
  [state |-> "saved", sessions |-> sessions, players |-> players,
   dogs |-> [b \in DOMAIN ds |-> DogRepr(ds[b])]]

\* Mutant: Players::Add draws a new token, as it does for a new player.
TokensRedrawn(ps) == << >>

\* Players::Add of every restored player, with the token it had.
TokensOf(ps) ==
  [t \in {ps[i].token : i \in DOMAIN ps} |->
     CHOOSE p \in {ps[i] : i \in DOMAIN ps} : p.token = t]

\* Mutant: the file is opened for appending, and Restore reads its beginning.
SaveAppends(ds) ==
  /\ file' = IF file.state = "saved" THEN file ELSE AppRepr(ds)
  /\ elapsed' = 0
  /\ cutShort' = FALSE
  /\ UNCHANGED diskFailed

\* Autosaver::Save.  When it throws, the file may be emptied or untouched.
Save(ds) ==
  /\ file' = AppRepr(ds)
  /\ elapsed' = 0
  /\ cutShort' = FALSE
  /\ UNCHANGED diskFailed

SaveThrows ==
  /\ file' \in {file, Broken}
  /\ diskFailed' = TRUE

-----------------------------------------------------------------------------
(* Requests change the game and nothing else.                              *)

Join(m, fits) ==
  /\ process = "running" /\ m \in config
  /\ JoinGame(m, fits)
  /\ UNCHANGED server

Action(t, go) ==
  /\ process = "running"
  /\ MovePlayer(t, go)
  /\ UNCHANGED server

-----------------------------------------------------------------------------
(* Ticks.                                                                  *)

\* Every dog gets older by the tick.
Aged(d) ==
  age' = [b \in Births |-> IF b \in DOMAIN dogs THEN Capped(age[b] + d, Period)
                                                ELSE age[b]]

\* Mutant: a Save is due one unit too late.
SaveDueLate(d) == Period > 0 /\ elapsed + d > Period

\* Autosaver::OnTick, its condition.
SaveDue(d) == Period > 0 /\ elapsed + d >= Period

\* The dogs after a tick of every session.
Moved(d) == {MoveAllDogs(d, DOMAIN sessions, stopped) : stopped \in SUBSET Running}

\* RemoveDog erases the first dog of the session with that id.
FirstWithId(ds, sid, id) ==
  LET same == {b \in DOMAIN ds : ds[b].sess = sid /\ ds[b].id = id}
  IN  {b \in same : \A c \in same : b <= c}

\* Mutant: the player of a retired dog is not deleted.
RemoveDogAlone(b, g) ==
  [g EXCEPT !.dogs = Restrict(@, DOMAIN @ \ FirstWithId(@, g.was[b].sess, g.was[b].id))]

\* RemoveDog and DeletePlayer of one retired id.  For an orphan the latter
\* throws, after the dog is gone (players_map_.at, app.cpp:59).
RemoveRetired(b, g) ==
  LET id  == g.was[b].id
      sid == g.was[b].sess
  IN  IF g.thrown THEN g
      ELSE [g EXCEPT
              !.dogs = Restrict(@, DOMAIN @ \ FirstWithId(@, sid, id)),
              !.thrown = id \notin DOMAIN g.players,
              !.tokens = IF id \in DOMAIN g.players
                         THEN Restrict(@, DOMAIN @ \ {g.players[id].token}) ELSE @,
              !.players = Restrict(@, DOMAIN @ \ {id})]

\* RetireDogs in one session, in the order of its dogs; the INSERTs of those in
\* F fail.
RetireSession(g, sid, F) ==
  LET overdue == {b \in Overdue(g.dogs) : g.dogs[b].sess = sid}
      saved   == {b \in overdue : \A c \in F \cap overdue : b < c}
      stored  == [g EXCEPT !.rows = [b \in Births |-> IF b \in saved
                                       THEN Capped(@[b] + 1, 2) ELSE @[b]]]
  IN  IF g.thrown THEN g
      ELSE IF F \cap overdue # {}
      THEN [stored EXCEPT !.thrown = TRUE, !.failed = TRUE]
      ELSE MapThenFoldSet(RemoveRetired, stored, LAMBDA b : b, Max, overdue)

\* RetireDogs, session by session in the order of their ids.
Retired(ds, F) ==
  MapThenFoldSet(LAMBDA sid, g : RetireSession(g, sid, F),
                 [was |-> ds, dogs |-> ds, players |-> players, tokens |-> tokens,
                  rows |-> rows, thrown |-> FALSE, failed |-> saveFailed],
                 LAMBDA sid : sid, Max, DOMAIN sessions)

RetireOneByOne(ds, F) ==
  LET g == Retired(ds, F)
  IN  /\ dogs' = g.dogs /\ players' = g.players /\ tokens' = g.tokens
      /\ rows' = g.rows /\ saveFailed' = g.failed

\* The tick slot: OnTick of the Autosaver, then RetireDogs.
ServerTick(d) ==
  /\ process = "running"
  /\ \E ds \in Moved(d) :
       /\ IF SaveDue(d)
          THEN Save(ds)
          ELSE /\ elapsed' = Capped(elapsed + d, Period)
               /\ UNCHANGED <<file, diskFailed, cutShort>>
       /\ \E F \in Failures(ds) : RetireOneByOne(ds, F)
  /\ Aged(d)
  /\ UNCHANGED <<sessions, joins, born, process, config, crashes, stops, halfRestored>>

\* The Save of a tick throws: elapsed_ is not reset and nobody is retired.
TickWithoutSave(d) ==
  /\ process = "running" /\ SaveDue(d)
  /\ dogs' \in Moved(d)
  /\ SaveThrows
  /\ elapsed' = Capped(elapsed + d, Period)
  /\ cutShort' = TRUE
  /\ Aged(d)
  /\ UNCHANGED <<sessions, players, tokens, rows, joins, born, saveFailed,
                 process, config, crashes, stops, halfRestored>>

\* A session throws: the slot is not called.
TickOfSessionThrows(d) ==
  /\ process = "running"
  /\ TickThrows(d)
  /\ cutShort' = TRUE
  /\ Aged(d)
  /\ UNCHANGED <<process, config, file, elapsed, crashes, stops, diskFailed, halfRestored>>

-----------------------------------------------------------------------------
(* The process.  Any uncaught exception of a worker thread, too, ends it    *)
(* without a Save.                                                         *)

Dies ==
  /\ process = "running" /\ crashes < MaxCrashes
  /\ process' = "down"
  /\ crashes' = crashes + 1
  /\ UNCHANGED <<config, halfRestored>>

Crash ==
  /\ Dies
  /\ UNCHANGED <<vars, file, elapsed, stops, diskFailed, cutShort, age>>

\* The file has been emptied but not written.
CrashInSave ==
  /\ Dies /\ Period > 0
  /\ file' = Broken
  /\ UNCHANGED <<vars, elapsed, stops, diskFailed, cutShort, age>>

\* The Save of the tick, if one was due, is done and some of the overdue dogs
\* have their rows: those before the first of F.
CrashInRetireDogs(d) ==
  /\ Dies
  /\ \E ds \in Moved(d), F \in SUBSET Births :
       /\ Unsavable(ds) \subseteq F /\ F \subseteq Overdue(ds)
       /\ file' = IF SaveDue(d) THEN AppRepr(ds) ELSE file
       /\ rows' = Retired(ds, F).rows
  /\ UNCHANGED <<sessions, dogs, players, tokens, joins, born, saveFailed,
                 elapsed, stops, diskFailed, cutShort, age>>

\* SIGINT or SIGTERM: the workers come to an end and main saves for the last
\* time, or does not if that is turned off, or tries in vain.
Stop ==
  /\ process = "running" /\ stops < MaxStops
  /\ stops' = stops + 1
  /\ \/ Period > 0 /\ Save(dogs) /\ process' = "stopped"
     \/ /\ Period > 0 /\ SaveThrows /\ process' = "down"
        /\ UNCHANGED <<elapsed, cutShort>>
     \/ /\ Period = 0 /\ process' = "down"
        /\ UNCHANGED <<file, elapsed, diskFailed, cutShort>>
  /\ UNCHANGED <<vars, config, crashes, halfRestored, age>>

\* The sessions AppRepr::Restore adds before one throws: GameSession's
\* constructor asks for the loot data of a map that may be gone.
Restorable(f, maps) ==
  {s \in DOMAIN f.sessions : \A t \in DOMAIN f.sessions : t <= s => f.sessions[t] \in maps}

RestoreSessions(f, maps) ==
  /\ sessions' = Restrict(f.sessions, Restorable(f, maps))
  /\ dogs' = Restrict(f.dogs, {b \in DOMAIN f.dogs : f.dogs[b].sess \in Restorable(f, maps)})

\* Mutant: the sessions come back, the players do not.
PlayersForgotten(f, maps) ==
  /\ RestoreSessions(f, maps)
  /\ players' = << >> /\ tokens' = << >>
  /\ UNCHANGED halfRestored

\* Autosaver::Restore of an empty game; a missing or broken file leaves it
\* empty, and what throws half way leaves what is there.
Restore(f, maps) ==
  LET whole == Restorable(f, maps) = DOMAIN f.sessions
  IN  /\ RestoreSessions(f, maps)
      /\ players' = IF whole THEN f.players ELSE << >>
      /\ tokens' = IF whole THEN TokensOf(f.players) ELSE << >>
      /\ halfRestored' = (halfRestored \/ ~whole)

\* What main restores: the file, if it saves the state at all.
FileToRestore == IF Period > 0 THEN file ELSE Missing

Start ==
  /\ process # "running"
  /\ process' = "running"
  /\ config' \in Configs
  /\ Restore(FileToRestore, config')
  /\ elapsed' = 0
  /\ cutShort' = FALSE
  /\ UNCHANGED <<rows, joins, born, saveFailed, file, crashes, stops, diskFailed, age>>

-----------------------------------------------------------------------------
ServerInit ==
  /\ Init
  /\ process = "down"
  /\ \E ss \in Inherited :
       file = IF ss = << >> THEN Missing
              ELSE [Missing EXCEPT !.state = "saved", !.sessions = ss]
  /\ elapsed = 0
  /\ crashes = 0 /\ stops = 0
  /\ diskFailed = FALSE
  /\ cutShort = FALSE /\ halfRestored = FALSE
  /\ config = Maps
  /\ age = [b \in Births |-> 0]

ServerNext ==
  \/ \E m \in Maps, fits \in NameFits : Join(m, fits)
  \/ \E t \in DOMAIN tokens, go \in BOOLEAN : Action(t, go)
  \/ \E d \in Deltas : ServerTick(d)
  \/ \E d \in Deltas : TickWithoutSave(d)
  \/ \E d \in Deltas : TickOfSessionThrows(d)
  \/ Crash
  \/ CrashInSave
  \/ \E d \in Deltas : CrashInRetireDogs(d)
  \/ Stop
  \/ Start

ServerSpec == ServerInit /\ [][ServerNext]_allVars

-----------------------------------------------------------------------------
(* Properties.                                                             *)

Archives ==
  {f \in {file} : /\ f.state \in {"missing", "broken", "saved"}
                  /\ \A b \in DOMAIN f.dogs : f.dogs[b] \in Dog /\ f.dogs[b].idle = 0
                  /\ \A i \in DOMAIN f.players : f.players[i] \in Player}

\* The types of App and of the Autosaver.  Between ticks elapsed_ has not
\* reached the period, unless a Save has thrown.
ServerTypeOK ==
  /\ TypeOK
  /\ process \in {"running", "stopped", "down"} /\ config \in Configs
  /\ file \in Archives
  /\ elapsed \in 0..Period
  /\ Period > 0 /\ ~diskFailed => elapsed < Period
  /\ crashes \in 0..MaxCrashes /\ stops \in 0..MaxStops
  /\ diskFailed \in BOOLEAN /\ cutShort \in BOOLEAN
  /\ halfRestored \in BOOLEAN
  /\ age \in [Births -> 0..Period]

\* What App says of players, tokens and dogs holds across crashes and restarts:
\* the restored registry is mirrored again, every dog is steered by the token it
\* was issued with, and no other, although the ids of players that were lost in a
\* crash, or had retired, are given out again to new ones.  Only a half restored
\* game has orphans (and a new player may then steer, and take along into its
\* retirement, the orphan with its id); once they are gone all is well again.
Orphaned == DOMAIN dogs \ DOMAIN tokens
PlayersStayInControl ==
  /\ RegistryMirrored
  /\ ~halfRestored => Orphaned = {}
  /\ Orphaned = {} => TokenSteersOnlyItsDog /\ EveryDogIsSteerable

\* While the process runs and there are no orphans its steps are those of App,
\* or a tick whose Save throws: going through RetireDogs dog by dog comes to
\* what App says of it at once.
RunsAsApp ==
  [][process = "running" /\ process' = "running" /\ Orphaned = {} =>
       Next \/ (diskFailed' /\ cutShort')]_vars

\* What a crash can cost is bounded: unless a tick was cut short since, every
\* dog that has played for a whole period is in the state file, and with it
\* its player, if it still has one.
EstablishedDogsAreOnFile ==
  process = "running" /\ Period > 0 /\ ~cutShort =>
    \A b \in DOMAIN dogs : age[b] >= Period =>
      /\ b \in DOMAIN file.dogs
      /\ b \in DOMAIN tokens => \E i \in DOMAIN file.players : file.players[i].token = b

\* Only a crash, a failed INSERT, a failed Save or a game restored by half can
\* write the career of one dog twice: a stop and a start never bring back a
\* retired dog, although the state file of every tick is written before the
\* dogs of the tick retire.
OrderlyStopsRepeatNoRow ==
  crashes = 0 /\ ~saveFailed /\ ~diskFailed /\ ~halfRestored =>
    \A b \in Births : rows[b] <= 1

\* Nor does any number of stops and starts lose a dog that has no row, unless a
\* map is gone: the next Save then overwrites what could not be restored.
OrderlyStopsLoseNobody ==
  Period > 0 /\ crashes = 0 /\ ~diskFailed /\ ~halfRestored => NoDogVanishes

\* The game that is started after an orderly stop is the one that was stopped,
\* players, tokens and headings included, if its maps are still there; only the
\* idle clocks start over.
StopAndStartKeepTheGame ==
  [][process = "stopped" /\ Range(sessions) \subseteq config' =>
       /\ UNCHANGED <<sessions, players, tokens>>
       /\ dogs' = [b \in DOMAIN dogs |-> DogRepr(dogs[b])]]_allVars

\* What the comment says DogRepr is (serialization.h:54): a representation of
\* the Dog.  Of a stopped and restarted game the dogs are then what they were.
StopAndStartKeepTheDogs ==
  [][process = "stopped" /\ config' = Maps => UNCHANGED dogs]_allVars
=============================================================================
