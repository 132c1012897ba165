--------------------------- MODULE LootGenerator ----------------------------
(***************************************************************************)
(* The one LootGenerator of the Game and the sessions that share it        *)
(* (loot.cpp, json_loader.cpp:34-38, the end of GameSession::Tick).  A     *)
(* tick calls Generate once for every session, in the order of their ids,  *)
(* each time with the whole length of the tick.                            *)
(*                                                                         *)
(* The generator is the default one, which draws 1.0 each time, so that    *)
(* the amount of loot follows from the time gone by.  The formula          *)
(* 1 - (1 - p)^(t / base_interval) is given as a table in percent; from    *)
(* the end of the table on it is taken to be constant.                     *)
(***************************************************************************)
EXTENDS Naturals

CONSTANTS
  Sessions,   \* how many there are
  MaxDogs,    \* bound: dogs of a session
  MaxTime,    \* bound: the end of the table
  Chance,     \* the table: time -> percent
  Deltas      \* the lengths a tick may have

ASSUME Assumptions ==
  /\ Sessions \in Nat \ {0}
  /\ MaxDogs \in Nat
  /\ MaxTime \in Nat \ {0}
  /\ Chance \in [0..MaxTime -> 0..100]
  /\ Deltas \subseteq 1..MaxTime

VARIABLES
  dogs,      \* dogs_.size() of every session
  loots,     \* loots_.size() of every session
  clock,     \* time_without_loot_
  turn,      \* the session that ticks next, 0 between the ticks
  delta,     \* the length of the tick, or of the last one
  waited,    \* history: time really gone by since loot was last generated
  sinceCall, \* history: time really gone by since Generate was last called
  threw      \* history: a session has thrown before it called Generate

vars == <<dogs, loots, clock, turn, delta, waited, sinceCall, threw>>

Upto(n, top) == IF n < top THEN n ELSE top
Ids == 1..Sessions

-----------------------------------------------------------------------------
\* Between ticks dogs come and go.
Populate(s) ==
  /\ turn = 0
  /\ dogs' \in {[dogs EXCEPT ![s] = n] : n \in 0..MaxDogs}
  /\ UNCHANGED <<loots, clock, turn, delta, waited, sinceCall, threw>>

\* Game::TickAllSessions
StartTick(d) ==
  /\ turn = 0
  /\ turn' = 1
  /\ delta' = d
  /\ waited' = Upto(waited + d, MaxTime)
  /\ sinceCall' = Upto(sinceCall + d, MaxTime)
  /\ UNCHANGED <<dogs, loots, clock, threw>>

\* loot_shortage
Shortage(s, left) == IF left > dogs[s] THEN 0 ELSE dogs[s] - left

\* std::round of the shortage times the probability.
Rounded(shortage, t) == (2 * shortage * Chance[t] + 100) \div 200

\* Mutant: the time is counted from the last call.
TimeOfCall(generated, t) == 0

\* time_without_loot_ after a call: it starts over when there is loot.
TimeLeft(generated, t) == IF generated > 0 THEN 0 ELSE t

NextTurn == IF turn = Sessions THEN 0 ELSE turn + 1

\* The Tick of the session whose turn it is: its dogs take some loot, and
\* LootGenerator::Generate says how much there is to add.
Generate ==
  /\ turn > 0
  /\ \E left \in 0..loots[turn] :
       LET t == Upto(clock + delta, MaxTime)
           n == Rounded(Shortage(turn, left), t)
       IN  /\ loots' = [loots EXCEPT ![turn] = left + n]
           /\ clock' = TimeLeft(n, t)
           /\ waited' = IF n > 0 THEN 0 ELSE waited
  /\ sinceCall' = 0
  /\ turn' = NextTurn
  /\ UNCHANGED <<dogs, delta, threw>>

\* The Tick of the session throws: neither it nor those behind it call Generate.
SessionThrows ==
  /\ turn > 0
  /\ turn' = 0
  /\ threw' = TRUE
  /\ UNCHANGED <<dogs, loots, clock, delta, waited, sinceCall>>

Init ==
  /\ dogs = [s \in Ids |-> 0]
  /\ loots = [s \in Ids |-> 0]
  /\ clock = 0 /\ turn = 0 /\ delta = 0 /\ waited = 0 /\ sinceCall = 0
  /\ threw = FALSE

Next ==
  \/ \E s \in Ids : Populate(s)
  \/ \E d \in Deltas : StartTick(d)
  \/ Generate
  \/ SessionThrows

Spec == Init /\ [][Next]_vars

\* The ticker goes on, and no session throws in all of its ticks: it throws only
\* when a dog brings loot without a value to an office.
FairSpec ==
  /\ Spec
  /\ WF_vars(\E d \in Deltas : StartTick(d))
  /\ \A s \in Ids : SF_vars(turn = s /\ Generate)

-----------------------------------------------------------------------------
(* Properties.                                                             *)

\* The types; loot of dogs that have left may stay, so it is bounded only by
\* the most dogs a session ever had.
TypeOK ==
  /\ dogs \in [Ids -> 0..MaxDogs]
  /\ loots \in [Ids -> 0..MaxDogs]
  /\ clock \in 0..MaxTime
  /\ turn \in 0..Sessions
  /\ delta \in Deltas \cup {0}
  /\ waited \in 0..MaxTime /\ sinceCall \in 0..MaxTime
  /\ threw \in BOOLEAN

\* As long as every session ticks to its end, the clock of the generator is
\* never behind the time without loot, however many sessions share it and
\* whichever of them reset it.
ClockNotBehind == ~threw /\ turn = 0 => waited <= clock

\* A shortage anywhere brings loot somewhere.
ShortageEnds ==
  (\E s \in Ids : Shortage(s, loots[s]) > 0) ~>
    (waited = 0 \/ \A s \in Ids : Shortage(s, loots[s]) = 0)

\* What the comment on Generate says of time_delta (loot.h:57): it is the time
\* since the previous call.
DeltaIsSinceLastCall == [][Generate => delta = sinceCall]_vars
=============================================================================
