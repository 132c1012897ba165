-------------------------------- MODULE App --------------------------------
(***************************************************************************)
(* Players, dogs and their retirement: app::App with app::Players          *)
(* (app.cpp), the sessions of model::Game and the dogs_ vectors of its     *)
(* GameSessions (model.cpp), and the retired_players table (db.cpp).       *)
(*                                                                         *)
(* All API handlers and the ticker run on one strand (main.cpp:135,        *)
(* request_handler.h), so a whole handler is one action.  What cuts a      *)
(* handler short is an exception, and those are modelled: the INSERT of a  *)
(* retiring dog may fail, a session's Tick may throw, AddDog throws on a   *)
(* map without roads.                                                      *)
(*                                                                         *)
(* Abstractions.  A token is the number of the join that generated it (the *)
(* code draws 128 random bits; a collision is not modelled).  A dog is     *)
(* keyed by its birth, the token of the join that created it; dogs_ only   *)
(* ever grows at its end, so births order every dogs_ vector.  Of a dog's  *)
(* motion only "its speed is not zero" is kept: where it goes, and what it *)
(* carries, are in RoadMovement and LootSession.                           *)
(***************************************************************************)
EXTENDS Naturals, Functions

CONSTANTS
  Maps,          \* the maps of the config
  RoadlessMaps,  \* those whose "roads" array is empty: no place to put a dog
  Retirement,    \* Game::retirement_time_, in time units
  Deltas,        \* the lengths a tick may have
  EndRead,       \* what dereferencing players_map_.end() may yield (app.cpp:39)
  NameFits,      \* may a name fit varchar(100)?  may it not?  (db.cpp:19)
  DbMayFail,     \* may an INSERT fail although the name fits?
  TickMayThrow,  \* may a session's Tick throw half way? (model.cpp:155)
  MaxJoins       \* bound: players created

ASSUME Assumptions ==
  /\ RoadlessMaps \subseteq Maps
  /\ Retirement \in Nat \ {0}
  /\ Deltas \subseteq Nat
  /\ EndRead \subseteq Nat
  /\ NameFits \subseteq BOOLEAN
  /\ DbMayFail \in BOOLEAN
  /\ TickMayThrow \in BOOLEAN
  /\ MaxJoins \in Nat

VARIABLES
  sessions,      \* Game::sessions_: session id -> map
  dogs,          \* every GameSession::dogs_: birth -> dog
  players,       \* Players::players_map_: id -> player
  tokens,        \* Players::token_to_player_: token -> the same player
  rows,          \* rows of retired_players per birth; 2 stands for "several"
  joins,         \* players created so far = the last token generated
  born,          \* history: the births that became a dog
  saveFailed     \* history: some INSERT has failed

vars == <<sessions, dogs, players, tokens, rows, joins, born, saveFailed>>

Births == 1..MaxJoins
Dog    == [id : Nat, sess : Nat, moving : BOOLEAN, idle : 0..Retirement,
           savable : BOOLEAN]
Player == [id : Nat, sess : Nat, token : Births]

\* The counters below saturate: only "is it the retirement time yet" and
\* "is it more than one row" are ever asked.
Capped(n, top) == IF n < top THEN n ELSE top

\* std::map::emplace: a key that is there already keeps its value.
Emplace(f, k, v) ==
  [x \in DOMAIN f \cup {k} |-> IF x \in DOMAIN f THEN f[x] ELSE v]

-----------------------------------------------------------------------------
(* Allocation of ids.  Both are the largest key plus one.                  *)

\* Mutant: the largest key itself, not the one after it.
NextKeysReused(keys, whenEmpty) ==
  IF keys = {} THEN whenEmpty ELSE {g \in keys : \A h \in keys : h <= g}

NextKeys(keys, whenEmpty) ==
  IF keys = {} THEN whenEmpty
  ELSE {k + 1 : k \in {g \in keys : \A h \in keys : h <= g}}

\* Players::Add takes max_element(...)->first + 1, also when there is none.
NewPlayerIds == NextKeys(DOMAIN players, {g + 1 : g \in EndRead})

\* Game::GetSession: the first session of the map, else a new one.
SessionFor(m) ==
  LET found == {s \in DOMAIN sessions : sessions[s] = m}
  IN  IF found # {} THEN {s \in found : \A t \in found : s <= t}
                    ELSE NextKeys(DOMAIN sessions, {0})

-----------------------------------------------------------------------------
(* JoinGameUseCase and App::JoinGame.  The player is registered before the *)
(* dog is placed; placing it throws on a map without roads, the answer is  *)
(* 400 and the player stays.                                               *)

\* Mutant: the player's id in the place of the session's.
NewDogInWrongSession(id, sid, fits) ==
  [id |-> id, sess |-> id, moving |-> FALSE, idle |-> 0, savable |-> fits]

NewDog(id, sid, fits) ==
  [id |-> id, sess |-> sid, moving |-> FALSE, idle |-> 0, savable |-> fits]

AddPlayer(p) ==
  /\ players' = Emplace(players, p.id, p)
  /\ tokens'  = Emplace(tokens, p.token, p)

JoinGame(m, fits) ==
  /\ joins < MaxJoins
  /\ joins' = joins + 1
  /\ \E sid \in SessionFor(m), id \in NewPlayerIds :
       /\ sessions' = Emplace(sessions, sid, m)
       /\ AddPlayer([id |-> id, sess |-> sid, token |-> joins'])
       /\ IF m \in RoadlessMaps
          THEN UNCHANGED <<dogs, born>>
          ELSE /\ dogs' = Emplace(dogs, joins', NewDog(id, sid, fits))
               /\ born' = born \cup {joins'}
  /\ UNCHANGED <<rows, saveFailed>>

-----------------------------------------------------------------------------
(* MovePlayerUseCase: the token gives a player, the player a session and   *)
(* an id, and the first dog of the session with that id is steered.        *)

SteeredBy(t) ==
  LET found == {b \in DOMAIN dogs : /\ dogs[b].sess = tokens[t].sess
                                    /\ dogs[b].id = tokens[t].id}
  IN  {b \in found : \A c \in found : b <= c}

\* go: the "move" of the request is one of U, D, L, R and not "".
MovePlayer(t, go) ==
  /\ \E b \in SteeredBy(t) : dogs' = [dogs EXCEPT ![b].moving = go]
  /\ UNCHANGED <<sessions, players, tokens, rows, joins, born, saveFailed>>

-----------------------------------------------------------------------------
(* A tick: every session moves its dogs, then the tick signal retires the  *)
(* dogs that have been idle for too long.                                  *)

\* Mutant: the way to a dead end counts as standing.
MoveDogIdleAtDeadEnd(dog, d, stops) ==
  IF ~dog.moving \/ d = 0 \/ stops
  THEN [dog EXCEPT !.idle = Capped(@ + d, Retirement), !.moving = @ /\ ~stops]
  ELSE [dog EXCEPT !.idle = 0]

\* GameSession::MoveDog, its clock; stops: the dog ran into a dead end.
MoveDog(dog, d, stops) ==
  IF ~dog.moving \/ d = 0
  THEN [dog EXCEPT !.idle = Capped(@ + d, Retirement)]
  ELSE [dog EXCEPT !.idle = 0, !.moving = ~stops]

\* MoveAllDogs of the sessions in S.
MoveAllDogs(d, S, stopped) ==
  [b \in DOMAIN dogs |->
     IF dogs[b].sess \in S THEN MoveDog(dogs[b], d, b \in stopped) ELSE dogs[b]]

Running == {b \in DOMAIN dogs : dogs[b].moving}

Overdue(ds) == {b \in DOMAIN ds : ds[b].idle >= Retirement}

Unsavable(ds) == {b \in Overdue(ds) : ~ds[b].savable}

\* The sets of overdue dogs whose INSERT fails if it is attempted.
Failures(ds) ==
  {F \in SUBSET Overdue(ds) :
     /\ Unsavable(ds) \subseteq F
     /\ DbMayFail \/ F = Unsavable(ds)}

\* RetireDogs goes through the sessions in id order and through each dogs_
\* in its order; the first INSERT that fails ends it.
SavedDogs(ds, F) ==
  {b \in Overdue(ds) : \A c \in F : \/ ds[b].sess < ds[c].sess
                                    \/ ds[b].sess = ds[c].sess /\ b < c}

\* Mutants of the removal: also the dogs behind the failed one; only the first
\* dog; only if no session had a failure.
RemoveBehind(ds, F)    == {b \in Overdue(ds) : \A c \in F : ds[b].sess <= ds[c].sess}
RemoveFirstDog(ds, F) == {b \in Overdue(ds) : F = {} /\ \A c \in Overdue(ds) : b <= c}
RemoveAllOrNone(ds, F) == {b \in Overdue(ds) : F = {}}

\* The saved dogs of a session are removed only after its last INSERT.
RemovedDogs(ds, F) ==
  {b \in Overdue(ds) : \A c \in F : ds[b].sess < ds[c].sess}

\* Mutant: the token outlives its player.
DeletePlayersButTokens(ids) ==
  players' = Restrict(players, DOMAIN players \ ids) /\ UNCHANGED tokens

\* Players::DeletePlayer of every id: the token goes with its player.
DeletePlayers(ids) ==
  /\ players' = Restrict(players, DOMAIN players \ ids)
  /\ tokens' = Restrict(tokens, DOMAIN tokens \ {players[id].token : id \in ids})

RetireDogs(ds, F) ==
  /\ rows' = [b \in Births |-> IF b \in SavedDogs(ds, F)
                               THEN Capped(rows[b] + 1, 2) ELSE rows[b]]
  /\ dogs' = Restrict(ds, DOMAIN ds \ RemovedDogs(ds, F))
  /\ DeletePlayers({ds[b].id : b \in RemovedDogs(ds, F)})
  /\ saveFailed' = (saveFailed \/ F # {})

Tick(d) ==
  /\ \E stopped \in SUBSET Running :
       LET ds == MoveAllDogs(d, DOMAIN sessions, stopped)
       IN  \E F \in Failures(ds) : RetireDogs(ds, F)
  /\ UNCHANGED <<sessions, joins, born>>

\* A tick during which the database is up.
SteadyTick(d) ==
  /\ \E stopped \in SUBSET Running :
       LET ds == MoveAllDogs(d, DOMAIN sessions, stopped)
       IN  RetireDogs(ds, Unsavable(ds))
  /\ UNCHANGED <<sessions, joins, born>>

\* Game::TickAllSessions when session s throws: a dog of s that moved reached
\* an office with loot that has no value.  The sessions after s do not move
\* and the tick signal is not sent; the ticker swallows the exception and the
\* API handler answers 400.
TickThrows(d) ==
  /\ TickMayThrow /\ d > 0
  /\ \E s \in DOMAIN sessions, stopped \in SUBSET Running :
       /\ \E b \in Running : dogs[b].sess = s
       /\ dogs' = MoveAllDogs(d, {t \in DOMAIN sessions : t <= s}, stopped)
  /\ UNCHANGED <<sessions, players, tokens, rows, joins, born, saveFailed>>

-----------------------------------------------------------------------------
Init ==
  /\ sessions = << >> /\ dogs = << >> /\ players = << >> /\ tokens = << >>
  /\ rows = [b \in Births |-> 0]
  /\ joins = 0
  /\ born = {}
  /\ saveFailed = FALSE

Next ==
  \/ \E m \in Maps, fits \in NameFits : JoinGame(m, fits)
  \/ \E t \in DOMAIN tokens, go \in BOOLEAN : MovePlayer(t, go)
  \/ \E d \in Deltas : Tick(d)
  \/ \E d \in Deltas : TickThrows(d)

Spec == Init /\ [][Next]_vars

\* The ticker fires for ever (ticker.h:57 reschedules even after an exception)
\* and the database is up during some of its ticks.
FairSpec == Spec /\ WF_vars(\E d \in Deltas \ {0} : SteadyTick(d))

-----------------------------------------------------------------------------
(* Properties.                                                             *)

\* Every id, session number and clock is in range, and every dog and every
\* player belongs to a session that exists: MovePlayerUseCase and
\* App::GetGameState call GetSessions().at(...) without looking first.
TypeOK ==
  /\ DOMAIN sessions \subseteq Nat
  /\ \A s \in DOMAIN sessions : sessions[s] \in Maps
  /\ DOMAIN dogs \subseteq 1..joins
  /\ \A b \in DOMAIN dogs : dogs[b] \in Dog /\ dogs[b].sess \in DOMAIN sessions
  /\ DOMAIN players \subseteq Nat
  /\ \A i \in DOMAIN players :
       players[i] \in Player /\ players[i].sess \in DOMAIN sessions
  /\ DOMAIN tokens \subseteq 1..joins
  /\ \A t \in DOMAIN tokens : tokens[t] \in Player
  /\ rows \in [Births -> 0..2]
  /\ joins \in 0..MaxJoins
  /\ born \subseteq 1..joins
  /\ saveFailed \in BOOLEAN

\* players_map_ and token_to_player_ hold the same players, each under its own
\* id and its own token.  Both are filled with emplace, which drops a clashing
\* key silently, and emptied by DeletePlayer through one another.
RegistryMirrored ==
  /\ \A i \in DOMAIN players :
       /\ players[i].id = i
       /\ players[i].token \in DOMAIN tokens
       /\ tokens[players[i].token] = players[i]
  /\ \A t \in DOMAIN tokens :
       /\ tokens[t].token = t
       /\ tokens[t].id \in DOMAIN players
       /\ players[tokens[t].id] = tokens[t]

\* A token never steers a dog other than the one it was issued with, although
\* ids are given out again once the player with the largest id has retired and
\* SetDogDirection looks a dog up by id.
TokenSteersOnlyItsDog == \A t \in DOMAIN tokens : SteeredBy(t) \subseteq {t}

\* Every dog on the map has a registered player whose token steers it.
EveryDogIsSteerable ==
  \A b \in DOMAIN dogs : b \in DOMAIN tokens /\ SteeredBy(b) = {b}

\* A player without a dog is one whose join was refused for want of a road:
\* retirement takes the dog and its player away together.
GhostsOnlyOnRoadlessMaps ==
  \A i \in DOMAIN players :
    \/ players[i].token \in DOMAIN dogs
    \/ sessions[players[i].sess] \in RoadlessMaps

\* GetSession makes at most one session per map, whatever the joins.
OneSessionPerMap == IsInjective(sessions)

\* Every dog that ever entered the game is still on a map or has a row in
\* retired_players, whichever INSERT of whichever tick failed.
NoDogVanishes == \A b \in born : b \in DOMAIN dogs \/ rows[b] > 0

\* As long as no INSERT has failed, a dog has at most one row, and once it has
\* one it is gone.
SavedOnceAndGone ==
  ~saveFailed => \A b \in Births : /\ rows[b] <= 1
                                   /\ rows[b] = 1 => b \notin DOMAIN dogs

\* A running dog leaves only if it was already overdue: the clock restarts
\* whenever the dog moves.
RunningDogsStay ==
  [][\A b \in DOMAIN dogs \ DOMAIN dogs' :
       dogs[b].moving => dogs[b].idle >= Retirement]_vars

\* A dog that stands still leaves, unless it is steered again or a dog with a
\* name the database refuses blocks the retirements: one in its own session or
\* in a session with a smaller id, never one in a later session.
IdleDogsLeave ==
  \A b \in Births :
    (b \in DOMAIN dogs /\ ~dogs[b].moving) ~>
      \/ b \notin DOMAIN dogs
      \/ dogs[b].moving
      \/ \E c \in DOMAIN dogs : ~dogs[c].savable /\ dogs[c].sess <= dogs[b].sess

-----------------------------------------------------------------------------
(* Refinement: the dogs on the maps and the retired_players table together *)
(* behave as a hall of fame.                                               *)

Fame == INSTANCE HallOfFame
          WITH Entrants <- Births,
               playing  <- DOMAIN dogs,
               recorded <- {b \in Births : rows[b] > 0}

\* A dog enters once, leaves only with a row and never comes back, in every
\* behaviour of joins, moves and half-failed ticks.
CareersEndInTheHall == Fame!Spec
=============================================================================
