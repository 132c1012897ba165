---------------------------- MODULE LootSession -----------------------------
(***************************************************************************)
(* The loot of one GameSession: who takes it, where it is brought and what *)
(* is put back on the map (GameSession::Tick, SetLoots and AddLoots in     *)
(* model.cpp, the bag in model_dog.cpp, LootGenerator::Generate).          *)
(*                                                                         *)
(* A tick works on a snapshot: the gather events are computed for the loot *)
(* on the map before any of it is taken, and are then handled one after    *)
(* the other.  Which dog passes which item, and in which order, is left    *)
(* open here: any set of events in any order, so everything shown holds    *)
(* whatever collision_detector answers.                                    *)
(*                                                                         *)
(* Every item has a serial number, which the code does not have: ids are   *)
(* given out again after a restart.  AddScore is kept as the credit of the *)
(* item it pays for.                                                       *)
(***************************************************************************)
EXTENDS Naturals, FiniteSets, SequencesExt

CONSTANTS
  Dogs,          \* the dogs that may join the session
  Offices,       \* the offices of the map
  Types,         \* the loot types of the map
  Valued,        \* those with a "value" in the config; it is optional
  BagCapacity,   \* Map::GetBagSize()
  MaxSpawned,    \* bound: items ever put on the map
  MaxRestarts    \* bound: restarts of the server

ASSUME Assumptions ==
  /\ Valued \subseteq Types
  /\ BagCapacity \in Nat
  /\ MaxSpawned \in Nat
  /\ MaxRestarts \in Nat

VARIABLES
  dogs,       \* the dogs in dogs_
  bags,       \* Dog::bag_ of each
  loots,      \* loots_: id -> item
  lootMaxId,  \* loot_max_id_
  ticking,    \* inside Tick, between the gather events and AddLoots
  events,     \* the gather events not handled yet: <<dog, id or office>>
  spawned,    \* history: items put on the map so far
  credits,    \* history: how often AddScore paid for the item
  settled,    \* history: items that left the game, brought home or with a dog
  aborted,    \* history: some Tick has thrown
  restarts    \* history: restarts so far

vars == <<dogs, bags, loots, lootMaxId, ticking, events,
          spawned, credits, settled, aborted, restarts>>

Serials == 1..MaxSpawned
Item    == [id : Nat, type : Types, serial : Serials]

-----------------------------------------------------------------------------
(* Between ticks.                                                          *)

\* GameSession::AddDog
AddDog(d) ==
  /\ ~ticking /\ d \notin dogs
  /\ dogs' = dogs \cup {d}
  /\ bags' = [bags EXCEPT ![d] = << >>]
  /\ UNCHANGED <<loots, lootMaxId, ticking, events, spawned, credits, settled,
                 aborted, restarts>>

\* GameSession::RemoveDog: what the dog carries goes with it.
RemoveDog(d) ==
  /\ ~ticking /\ d \in dogs
  /\ dogs' = dogs \ {d}
  /\ settled' = settled \cup {item.serial : item \in ToSet(bags[d])}
  /\ bags' = [bags EXCEPT ![d] = << >>]
  /\ UNCHANGED <<loots, lootMaxId, ticking, events, spawned, credits, aborted, restarts>>

\* GameSession::SetLoots: the counter goes on from the largest id on the map;
\* on an empty map it keeps the value the constructor gave it.
MaxIdOf(onMap, current) ==
  IF onMap = {} THEN current ELSE CHOOSE m \in onMap : \A i \in onMap : i <= m

\* The server stops, saves, starts and restores (main.cpp:181, serialization.h).
\* Loot and bags come back; loot_max_id_ is not in the archive.
Restart ==
  /\ ~ticking /\ restarts < MaxRestarts
  /\ restarts' = restarts + 1
  /\ lootMaxId' = MaxIdOf(DOMAIN loots, 1)
  /\ UNCHANGED <<dogs, bags, loots, ticking, events, spawned, credits, settled, aborted>>

-----------------------------------------------------------------------------
(* GameSession::Tick.                                                      *)

\* FindSortedGatherEvents on the loot and the offices as they are now.
StartTick ==
  /\ ~ticking
  /\ ticking' = TRUE
  /\ events' \in SUBSET (dogs \X (DOMAIN loots \cup Offices))
  /\ UNCHANGED <<dogs, bags, loots, lootMaxId, spawned, credits, settled,
                 aborted, restarts>>

\* Mutant: one item too many.
BagOverfull(d) == Len(bags[d]) > BagCapacity

\* Dog::IsBagFull
IsBagFull(d) == Len(bags[d]) >= BagCapacity

\* Dog::PutToBag and loots_.erase
Take(d, i) ==
  /\ bags' = [bags EXCEPT ![d] = Append(@, loots[i])]
  /\ loots' = [j \in DOMAIN loots \ {i} |-> loots[j]]

\* A loot event.  Another dog may have taken the item since the snapshot, and
\* the bag may be full: then the event passes and the item stays.
PassLoot(d, i) ==
  /\ <<d, i>> \in events
  /\ events' = events \ {<<d, i>>}
  /\ IF i \in DOMAIN loots /\ ~IsBagFull(d)
     THEN Take(d, i)
     ELSE UNCHANGED <<bags, loots>>
  /\ UNCHANGED <<dogs, lootMaxId, ticking, spawned, credits, settled, aborted, restarts>>

\* Mutant: the loop ends before the first item of the bag.
PaidWithoutFirst(bag) ==
  {k \in DOMAIN bag : k > 1 /\ \A j \in k..Len(bag) : bag[j].type \in Valued}

\* The positions in the bag AddScore is called for: from the last one down,
\* until a type without a value makes value() throw.
Paid(bag) == {k \in DOMAIN bag : \A j \in k..Len(bag) : bag[j].type \in Valued}

Twice(n) == IF n < 2 THEN n + 1 ELSE 2   \* 2 stands for "more than once"

Credit(bag) ==
  credits' = [s \in Serials |->
                IF \E k \in Paid(bag) : bag[k].serial = s THEN Twice(credits[s])
                                                          ELSE credits[s]]

\* Mutant: the bag is not emptied.
UnloadForgotten(d) == UNCHANGED <<bags, settled>>

\* Dog::EmptyBag
Unload(d) ==
  /\ bags' = [bags EXCEPT ![d] = << >>]
  /\ settled' = settled \cup {item.serial : item \in ToSet(bags[d])}

\* An office event with a bag of valued loot only: it is paid for and emptied.
PassOffice(d, o) ==
  /\ <<d, o>> \in events
  /\ \A item \in ToSet(bags[d]) : item.type \in Valued
  /\ events' = events \ {<<d, o>>}
  /\ Credit(bags[d])
  /\ Unload(d)
  /\ UNCHANGED <<dogs, loots, lootMaxId, ticking, spawned, aborted, restarts>>

\* An office event with loot that has no value: the exception leaves Tick after
\* some of the bag was paid for, the bag stays as it is, the other events and
\* AddLoots are skipped.
OfficeThrows(d, o) ==
  /\ <<d, o>> \in events
  /\ \E item \in ToSet(bags[d]) : item.type \notin Valued
  /\ Credit(bags[d])
  /\ events' = {}
  /\ ticking' = FALSE
  /\ aborted' = TRUE
  /\ UNCHANGED <<dogs, bags, loots, lootMaxId, spawned, settled, restarts>>

\* LootGenerator::Generate: at most what is missing to one item per dog.
Shortage ==
  IF Cardinality(DOMAIN loots) > Cardinality(dogs) THEN 0
  ELSE Cardinality(dogs) - Cardinality(DOMAIN loots)

\* Mutant: ids are counted on from the largest one on the map.
IdBaseOfMap == MaxIdOf(DOMAIN loots, 1)

\* New ids are counted on from loot_max_id_.
IdBase == lootMaxId

\* AddLoots at the end of Tick.  Insert leaves an item that has the id already
\* in its place.
AddLoots(n, types) ==
  LET new == (IdBase + 1)..(IdBase + n)
      item(i) == [id |-> i, type |-> types[i - IdBase],
                  serial |-> spawned + (i - IdBase)]
  IN  loots' = [i \in DOMAIN loots \cup new |->
                  IF i \in DOMAIN loots THEN loots[i] ELSE item(i)]

FinishTick ==
  /\ ticking /\ events = {}
  /\ \E n \in 0..Shortage :
       /\ spawned + n <= MaxSpawned
       /\ \E types \in [1..n -> Types] : AddLoots(n, types)
       /\ lootMaxId' = lootMaxId + n
       /\ spawned' = spawned + n
  /\ ticking' = FALSE
  /\ UNCHANGED <<dogs, bags, events, credits, settled, aborted, restarts>>

-----------------------------------------------------------------------------
Init ==
  /\ dogs = {}
  /\ bags = [d \in Dogs |-> << >>]
  /\ loots = << >>
  /\ lootMaxId = 1
  /\ ticking = FALSE
  /\ events = {}
  /\ spawned = 0
  /\ credits = [s \in Serials |-> 0]
  /\ settled = {}
  /\ aborted = FALSE
  /\ restarts = 0

Next ==
  \/ \E d \in Dogs : AddDog(d) \/ RemoveDog(d)
  \/ Restart
  \/ StartTick
  \/ \E d \in dogs, i \in 1..lootMaxId : PassLoot(d, i)
  \/ \E d \in dogs, o \in Offices : PassOffice(d, o) \/ OfficeThrows(d, o)
  \/ FinishTick

Spec == Init /\ [][Next]_vars

-----------------------------------------------------------------------------
(* Properties.                                                             *)

\* No id reaches OFFICE_ITEM_TRAIT or goes past the counter, and an item on the
\* map has the id it is stored under.
TypeOK ==
  /\ dogs \subseteq Dogs
  /\ bags \in [Dogs -> Seq(Item)]
  /\ DOMAIN loots \subseteq 1..lootMaxId
  /\ \A i \in DOMAIN loots : loots[i] \in Item /\ loots[i].id = i
  /\ lootMaxId \in Nat \ {0}
  /\ ticking \in BOOLEAN
  /\ events \subseteq dogs \X ((1..lootMaxId) \cup Offices)
  /\ spawned \in 0..MaxSpawned
  /\ credits \in [Serials -> 0..2]
  /\ settled \subseteq 1..spawned
  /\ aborted \in BOOLEAN
  /\ restarts \in 0..MaxRestarts

\* The places item s is in: ids of the map and positions of bags.  What a bag
\* holds beyond its capacity has no place: restoring such a dog from the state
\* file throws (serialization.h:77).
OnMap(s)  == {i \in DOMAIN loots : loots[i].serial = s}
InBags(s) == {p \in Dogs \X (1..BagCapacity) :
                p[2] <= Len(bags[p[1]]) /\ bags[p[1]][p[2]].serial = s}

\* Every item put on the map is in exactly one place: there, in one bag, or out
\* of the game.  Two dogs that pass it in one tick do not both get it, a full
\* bag does not swallow it, and no new item takes its place.
EveryItemInOnePlace ==
  \A s \in 1..spawned :
    Cardinality(OnMap(s)) + Cardinality(InBags(s))
      + (IF s \in settled THEN 1 ELSE 0) = 1

\* Until the first restart no two items in the game have the same id.  After
\* it, an item on the map may have the id of one in a bag.
IdsUniqueUntilRestart ==
  restarts = 0 =>
    \A d, e \in Dogs : \A k \in DOMAIN bags[d] :
      /\ bags[d][k].id \notin DOMAIN loots
      /\ \A j \in DOMAIN bags[e] : bags[e][j].id = bags[d][k].id => d = e /\ j = k

\* As long as no Tick has thrown, an item is paid for at most once, and not
\* before it leaves its bag.
PaidOnceUntilAbort ==
  ~aborted => \A s \in Serials : credits[s] = 0 \/ (credits[s] = 1 /\ s \in settled)

\* A dog that empties its bag in an office is paid for all of it.
EmptiedIsPaid ==
  [][\A s \in settled' \ settled : ticking => credits'[s] > credits[s]]_vars
=============================================================================
