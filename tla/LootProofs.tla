----------------------------- MODULE LootProofs -----------------------------
(***************************************************************************)
(* The loot of a session, for any dogs, offices, types and bounds: no item *)
(* is lost or doubled, ids are unique until the first restart, and what is *)
(* paid for is paid for once until a Tick has thrown.                      *)
(*                                                                         *)
(* The properties of LootSession count places; the invariant says without  *)
(* counting that the places of an item exclude each other (SerialsApart)   *)
(* and that each item has one (NothingLost).  EmptiedIsPaid needs to know  *)
(* why a bag may hold an item that was paid for already (CreditsExplained).*)
(***************************************************************************)
EXTENDS LootSession, FiniteSetTheorems, WellFoundedInduction, TLAPS

Lies(s)    == \E i \in DOMAIN loots : loots[i].serial = s
Carried(s) == \E d \in Dogs : \E k \in DOMAIN bags[d] : bags[d][k].serial = s

\* A bag never holds more than its capacity, and a dog that is not in the
\* session carries nothing: AddDog may give it an empty bag.
BagsFit ==
  /\ \A d \in Dogs : Len(bags[d]) <= BagCapacity
  /\ \A d \in Dogs \ dogs : bags[d] = << >>

\* Only what was put on the map is there, in a bag, or has left the game.
SerialsKnown ==
  /\ \A i \in DOMAIN loots : loots[i].serial \in 1..spawned
  /\ \A d \in Dogs : \A k \in DOMAIN bags[d] : bags[d][k].serial \in 1..spawned
  /\ settled \subseteq 1..spawned

\* No item is in two places.
SerialsApart ==
  /\ \A i, j \in DOMAIN loots : loots[i].serial = loots[j].serial => i = j
  /\ \A d, e \in Dogs : \A k \in DOMAIN bags[d], j \in DOMAIN bags[e] :
       bags[d][k].serial = bags[e][j].serial => d = e /\ k = j
  /\ \A i \in DOMAIN loots : ~Carried(loots[i].serial)
  /\ \A s \in settled : ~Lies(s) /\ ~Carried(s)

NothingLost == \A s \in 1..spawned : Lies(s) \/ Carried(s) \/ s \in settled

\* Until a restart the counter is not behind the ids in the bags.
IdsCounted ==
  restarts = 0 => \A d \in Dogs : \A k \in DOMAIN bags[d] : bags[d][k].id <= lootMaxId

\* What was paid for has left the game, or is still in a bag that could not be
\* emptied for the worthless item in it.
Worthless(bag) == \E j \in DOMAIN bag : bag[j].type \notin Valued
CreditsExplained ==
  \A s \in Serials : credits[s] > 0 =>
    \/ s \in settled
    \/ \E d \in Dogs : /\ \E k \in DOMAIN bags[d] : bags[d][k].serial = s
                       /\ Worthless(bags[d])

\* The inductive invariant.
LootInv ==
  /\ TypeOK /\ IsFiniteSet(dogs)
  /\ ~ticking => events = {}
  /\ BagsFit /\ SerialsKnown /\ SerialsApart /\ NothingLost
  /\ IdsCounted /\ IdsUniqueUntilRestart
  /\ CreditsExplained /\ PaidOnceUntilAbort

-----------------------------------------------------------------------------
(* The operators.                                                          *)

\* A finite set of numbers that is not empty has a largest one: the smallest
\* of its subsets without one, if there were any, would be a singleton.
LEMMA LargestExists ==
  ASSUME NEW S \in SUBSET Nat, IsFiniteSet(S), S # {}
  PROVE  \E m \in S : \A i \in S : i <= m
<1> DEFINE HasLargest(X) == \E m \in X : \A i \in X : i <= m
           R   == StrictSubsetOrdering(S)
           Bad == {X \in SUBSET S : X # {} /\ ~HasLargest(X)}
<1> SUFFICES ASSUME S \in Bad PROVE FALSE
  OBVIOUS
<1>1. IsWellFoundedOn(R, FiniteSubsetsOf(S))
  BY FS_StrictSubsetOrderingWellFounded
<1>2. Bad \subseteq FiniteSubsetsOf(S)
  BY FS_FiniteSubsetsOfFinite
<1> HIDE DEF R
<1>3. PICK X \in Bad : \A Y \in Bad : <<Y, X>> \notin R
  BY <1>1, <1>2, WFMin
<1>4. PICK x \in X : TRUE
  OBVIOUS
<1>5. X \ {x} \notin Bad
  <2>1. X \ {x} \in SUBSET S /\ X \in SUBSET S /\ X \ {x} # X
    BY <1>4
  <2>2. <<X \ {x}, X>> \in R
    BY <2>1 DEF R, StrictSubsetOrdering
  <2> QED
    BY <1>3, <2>2
<1>6. CASE X \ {x} = {}
  BY <1>4, <1>6
<1>7. CASE HasLargest(X \ {x})
  <2>1. PICK m \in X \ {x} : \A i \in X \ {x} : i <= m
    BY <1>7
  <2>2. m \in Nat /\ x \in Nat
    BY <1>4, <2>1
  <2>3. CASE x <= m
    BY <2>1, <2>3
  <2>4. CASE m < x
    BY <1>4, <2>1, <2>2, <2>4
  <2> QED
    BY <2>2, <2>3, <2>4
<1> QED
  BY <1>5, <1>6, <1>7

\* SetLoots: the counter restored is not below any id on the map.
LEMMA MaxIdOfBounds ==
  ASSUME NEW S \in SUBSET (Nat \ {0}), IsFiniteSet(S)
  PROVE  MaxIdOf(S, 1) \in Nat \ {0} /\ S \subseteq 1..MaxIdOf(S, 1)
<1>1. CASE S = {}
  BY <1>1 DEF MaxIdOf
<1>2. CASE S # {}
  <2>1. \E m \in S : \A i \in S : i <= m
    BY <1>2, LargestExists
  <2>2. MaxIdOf(S, 1) \in S /\ \A i \in S : i <= MaxIdOf(S, 1)
    BY <1>2, <2>1 DEF MaxIdOf
  <2> DEFINE m == MaxIdOf(S, 1)
  <2> HIDE DEF m
  <2>3. m \in Nat \ {0} /\ \A i \in S : i <= m
    BY <2>2 DEF m
  <2>4. ASSUME NEW i \in S PROVE i \in 1..m
    BY <2>3
  <2> QED
    BY <2>3, <2>4 DEF m
<1> QED
  BY <1>1, <1>2

\* One more item in a bag.
LEMMA PutToBag ==
  ASSUME NEW S, NEW s \in Seq(S), NEW e \in S
  PROVE  /\ Append(s, e) \in Seq(S)
         /\ Len(s) \in Nat /\ Len(Append(s, e)) = Len(s) + 1
         /\ DOMAIN s = 1..Len(s) /\ DOMAIN Append(s, e) = (DOMAIN s) \cup {Len(s) + 1}
         /\ Len(s) + 1 \notin DOMAIN s
         /\ \A k \in DOMAIN s : Append(s, e)[k] = s[k]
         /\ Append(s, e)[Len(s) + 1] = e
OBVIOUS

\* The map holds finitely many items, so that what is missing is a number.
LEMMA ShortageType ==
  ASSUME TypeOK, IsFiniteSet(dogs)
  PROVE  IsFiniteSet(DOMAIN loots) /\ Shortage \in Nat
<1>1. IsFiniteSet(1..lootMaxId)
  BY FS_Interval DEF TypeOK
<1>2. IsFiniteSet(DOMAIN loots)
  BY <1>1, FS_Subset DEF TypeOK
<1>3. Cardinality(DOMAIN loots) \in Nat /\ Cardinality(dogs) \in Nat
  BY <1>2, FS_CardinalityType
<1> QED
  BY <1>2, <1>3 DEF Shortage

-----------------------------------------------------------------------------
(* What the actions do to the places of the items.                         *)

Places == BagsFit /\ SerialsKnown /\ SerialsApart /\ NothingLost

\* RemoveDog and PassOffice: what is in the bag leaves the game.
LEMMA UnloadKeepsPlaces ==
  ASSUME LootInv, NEW d \in Dogs, Unload(d), UNCHANGED <<loots, spawned>>,
         dogs \ {d} \subseteq dogs'
  PROVE  /\ Places'
         /\ bags' \in [Dogs -> Seq(Item)] /\ settled' \subseteq 1..spawned
         /\ bags'[d] = << >> /\ \A e \in Dogs \ {d} : bags'[e] = bags[e]
         /\ \A s : s \in settled' <=>
              s \in settled \/ \E k \in DOMAIN bags[d] : bags[d][k].serial = s
<1>1. bags \in [Dogs -> Seq(Item)] /\ bags' = [bags EXCEPT ![d] = << >>]
  BY DEF LootInv, TypeOK, Unload
<1>2. /\ bags' \in [Dogs -> Seq(Item)] /\ bags'[d] = << >> /\ DOMAIN bags'[d] = {}
      /\ Len(bags'[d]) = 0
      /\ \A e \in Dogs \ {d} : bags'[e] = bags[e]
  BY <1>1
<1>3. \A s : s \in settled' <=>
        s \in settled \/ \E k \in DOMAIN bags[d] : bags[d][k].serial = s
  BY DEF Unload, ToSet
<1>4. BagsFit'
  BY <1>2, Assumptions DEF LootInv, BagsFit
<1>5. SerialsKnown'
  <2>1. \A i \in DOMAIN loots' : loots'[i].serial \in 1..spawned'
    BY DEF LootInv, SerialsKnown
  <2>2. ASSUME NEW e \in Dogs, NEW k \in DOMAIN bags'[e]
        PROVE  bags'[e][k].serial \in 1..spawned'
    <3>1. e # d /\ bags'[e] = bags[e]
      BY <1>2
    <3> QED
      BY <3>1 DEF LootInv, SerialsKnown
  <2>3. settled' \subseteq 1..spawned'
    BY <1>3 DEF LootInv, SerialsKnown
  <2> QED
    BY <2>1, <2>2, <2>3 DEF SerialsKnown
<1>6. SerialsApart'
  <2> USE DEF LootInv, SerialsApart
  <2>1. \A i, j \in DOMAIN loots' : loots'[i].serial = loots'[j].serial => i = j
    OBVIOUS
  <2>2. \A e, f \in Dogs : \A k \in DOMAIN bags'[e], j \in DOMAIN bags'[f] :
          bags'[e][k].serial = bags'[f][j].serial => e = f /\ k = j
    BY <1>2
  <2>3. \A s : Carried(s)' => Carried(s)
    BY <1>2 DEF Carried
  <2>4. \A s : Lies(s)' <=> Lies(s)
    BY DEF Lies
  <2>5. ASSUME NEW k \in DOMAIN bags[d], NEW s, s = bags[d][k].serial
        PROVE  ~Lies(s) /\ ~Carried(s)'
    <3>1. Carried(s)
      BY <2>5 DEF Carried
    <3>2. ~Lies(s)
      BY <3>1 DEF Lies
    <3>3. ASSUME NEW e \in Dogs, NEW j \in DOMAIN bags'[e]
          PROVE  bags'[e][j].serial # s
      BY <1>2, <2>5
    <3> QED
      BY <3>2, <3>3 DEF Carried
  <2>6. \A i \in DOMAIN loots' : ~Carried(loots[i].serial)'
    BY <2>3
  <2>7. \A s \in settled' : ~Lies(s)' /\ ~Carried(s)'
    BY <1>3, <2>3, <2>4, <2>5
  <2> QED
    BY <2>1, <2>2, <2>6, <2>7
<1>7. NothingLost'
  <2> SUFFICES ASSUME NEW s \in 1..spawned
               PROVE  Lies(s)' \/ Carried(s)' \/ s \in settled'
    BY DEF NothingLost
  <2>1. Lies(s) => Lies(s)'
    BY DEF Lies
  <2>2. Carried(s) => Carried(s)' \/ s \in settled'
    BY <1>2, <1>3 DEF Carried
  <2> QED
    BY <1>3, <2>1, <2>2 DEF LootInv, NothingLost
<1> QED
  BY <1>2, <1>3, <1>4, <1>5, <1>6, <1>7 DEF Places, SerialsKnown

\* PassLoot: the item moves from the map into the bag.
LEMMA TakeKeepsPlaces ==
  ASSUME LootInv, NEW d \in dogs, NEW i \in DOMAIN loots, ~IsBagFull(d), Take(d, i),
         UNCHANGED <<dogs, spawned, settled>>
  PROVE  /\ Places'
         /\ bags' \in [Dogs -> Seq(Item)]
         /\ DOMAIN loots' = DOMAIN loots \ {i}
         /\ \A j \in DOMAIN loots' : loots'[j] = loots[j]
         /\ \A e \in Dogs \ {d} : bags'[e] = bags[e]
         /\ DOMAIN bags'[d] = DOMAIN bags[d] \cup {Len(bags[d]) + 1}
         /\ \A k \in DOMAIN bags[d] : bags'[d][k] = bags[d][k]
         /\ bags'[d][Len(bags[d]) + 1] = loots[i]
         /\ Len(bags[d]) + 1 \notin DOMAIN bags[d]
<1>1. /\ bags \in [Dogs -> Seq(Item)] /\ d \in Dogs /\ bags[d] \in Seq(Item)
      /\ loots[i] \in Item /\ bags' = [bags EXCEPT ![d] = Append(bags[d], loots[i])]
  BY DEF LootInv, TypeOK, Take
<1> DEFINE n == Len(bags[d]) + 1
<1>2. /\ bags' \in [Dogs -> Seq(Item)]
      /\ \A e \in Dogs \ {d} : bags'[e] = bags[e]
      /\ bags'[d] = Append(bags[d], loots[i])
  BY <1>1, PutToBag
<1>3. /\ Len(bags[d]) \in Nat /\ Len(bags'[d]) = n
      /\ DOMAIN bags'[d] = DOMAIN bags[d] \cup {n} /\ n \notin DOMAIN bags[d]
      /\ \A k \in DOMAIN bags[d] : bags'[d][k] = bags[d][k]
      /\ bags'[d][n] = loots[i]
  BY <1>1, <1>2, PutToBag
<1>4. /\ DOMAIN loots' = DOMAIN loots \ {i}
      /\ \A j \in DOMAIN loots' : loots'[j] = loots[j]
  BY DEF Take
<1> HIDE DEF n
<1>5. BagsFit'
  <2>1. Len(bags[d]) < BagCapacity
    BY <1>3, Assumptions DEF IsBagFull
  <2>2. n <= BagCapacity
    BY <1>3, <2>1, Assumptions DEF n
  <2> QED
    BY <1>1, <1>2, <1>3, <2>2 DEF LootInv, BagsFit
<1>6. SerialsKnown'
  BY <1>2, <1>3, <1>4 DEF LootInv, SerialsKnown
<1>7. \A s : Carried(s)' <=> Carried(s) \/ s = loots[i].serial
  BY <1>1, <1>2, <1>3 DEF Carried
<1>8. \A s : Lies(s)' <=> Lies(s) /\ s # loots[i].serial
  BY <1>4 DEF Lies, LootInv, SerialsApart
<1>9. SerialsApart'
  <2>1. \A j, k \in DOMAIN loots' : loots'[j].serial = loots'[k].serial => j = k
    BY <1>4 DEF LootInv, SerialsApart
  <2>2. \A e \in Dogs : \A k \in DOMAIN bags[e] : bags[e][k].serial # loots[i].serial
    BY DEF LootInv, SerialsApart, Carried
  <2>3. \A e, f \in Dogs : \A k \in DOMAIN bags'[e], j \in DOMAIN bags'[f] :
          bags'[e][k].serial = bags'[f][j].serial => e = f /\ k = j
    <3> SUFFICES ASSUME NEW e \in Dogs, NEW f \in Dogs,
                        NEW k \in DOMAIN bags'[e], NEW j \in DOMAIN bags'[f],
                        bags'[e][k].serial = bags'[f][j].serial
                 PROVE  e = f /\ k = j
      OBVIOUS
    <3>1. ASSUME NEW h \in Dogs, NEW m \in DOMAIN bags'[h], ~(h = d /\ m = n)
          PROVE  m \in DOMAIN bags[h] /\ bags'[h][m] = bags[h][m]
      <4>1. CASE h = d
        BY <1>3, <3>1, <4>1
      <4>2. CASE h # d
        BY <1>2, <4>2
      <4> QED
        BY <4>1, <4>2
    <3>2. CASE e = d /\ k = n
      BY <1>3, <2>2, <3>1, <3>2
    <3>3. CASE f = d /\ j = n
      BY <1>3, <2>2, <3>1, <3>3
    <3>4. CASE ~(e = d /\ k = n) /\ ~(f = d /\ j = n)
      <4>1. k \in DOMAIN bags[e] /\ j \in DOMAIN bags[f]
            /\ bags[e][k].serial = bags[f][j].serial
        BY <3>1, <3>4
      <4> QED
        BY <4>1 DEF LootInv, SerialsApart
    <3> QED
      BY <3>2, <3>3, <3>4
  <2>4. \A j \in DOMAIN loots' : ~Carried(loots[j].serial)'
    <3> SUFFICES ASSUME NEW j \in DOMAIN loots', NEW s, s = loots'[j].serial
                 PROVE  ~Carried(s)'
      OBVIOUS
    <3>1. j \in DOMAIN loots /\ j # i /\ loots'[j] = loots[j]
      BY <1>4
    <3>2. ~Carried(loots[j].serial) /\ loots[j].serial # loots[i].serial
      BY <3>1 DEF LootInv, SerialsApart
    <3> QED
      BY <1>7, <3>1, <3>2
  <2>5. \A s \in settled' : ~Lies(s)' /\ ~Carried(s)'
    <3>1. Lies(loots[i].serial)
      BY DEF Lies
    <3> QED
      BY <1>7, <1>8, <3>1 DEF LootInv, SerialsApart
  <2> QED
    BY <2>1, <2>3, <2>4, <2>5 DEF SerialsApart
<1>10. NothingLost'
  BY <1>7, <1>8 DEF LootInv, NothingLost
<1> QED
  BY <1>2, <1>3, <1>4, <1>5, <1>6, <1>9, <1>10 DEF Places, n

-----------------------------------------------------------------------------
(* The invariant, action by action.                                        *)

LEMMA LootInit == Init => LootInv
<1> SUFFICES ASSUME Init PROVE LootInv
  OBVIOUS
<1>1. /\ dogs = {} /\ settled = {} /\ events = {} /\ spawned = 0 /\ lootMaxId = 1
      /\ bags = [d \in Dogs |-> << >>] /\ DOMAIN loots = {}
      /\ credits = [s \in Serials |-> 0]
      /\ ~ticking /\ ~aborted /\ ticking \in BOOLEAN /\ aborted \in BOOLEAN /\ restarts = 0
  <2>1. DOMAIN << >> = {}
    OBVIOUS
  <2> QED
    BY <2>1, Zenon DEF Init
<1>2. bags \in [Dogs -> Seq(Item)] /\ \A d \in Dogs : Len(bags[d]) = 0 /\ DOMAIN bags[d] = {}
  BY <1>1
<1>3. TypeOK
  <2>1. credits \in [Serials -> 0..2]
    BY <1>1
  <2>2. spawned \in 0..MaxSpawned /\ restarts \in 0..MaxRestarts
    BY <1>1, Assumptions
  <2> QED
    BY <1>1, <1>2, <2>1, <2>2 DEF TypeOK
<1>4. BagsFit
  BY <1>1, <1>2, Assumptions DEF BagsFit
<1>5. SerialsKnown /\ SerialsApart /\ NothingLost
  BY <1>1, <1>2 DEF SerialsKnown, SerialsApart, NothingLost
<1>6. IdsCounted /\ IdsUniqueUntilRestart
  BY <1>1, <1>2 DEF IdsCounted, IdsUniqueUntilRestart
<1>7. CreditsExplained /\ PaidOnceUntilAbort
  BY <1>1 DEF CreditsExplained, PaidOnceUntilAbort
<1> QED
  BY <1>1, <1>3, <1>4, <1>5, <1>6, <1>7, FS_EmptySet DEF LootInv

LEMMA AddDogKeeps ==
  ASSUME LootInv, NEW d \in Dogs, AddDog(d)
  PROVE  LootInv'
<1>1. bags \in [Dogs -> Seq(Item)] /\ bags[d] = << >>
  BY DEF LootInv, TypeOK, BagsFit, AddDog
<1>2. bags' = bags
  BY <1>1 DEF AddDog
<1>3. IsFiniteSet(dogs')
  BY FS_AddElement DEF LootInv, AddDog
<1>4. TypeOK' /\ (~ticking => events = {})'
  BY <1>2 DEF LootInv, TypeOK, AddDog
<1>5. BagsFit'
  BY <1>2 DEF LootInv, BagsFit, AddDog
<1>6. SerialsKnown' /\ SerialsApart' /\ NothingLost'
  BY <1>2 DEF LootInv, AddDog, SerialsKnown, SerialsApart, NothingLost, Lies, Carried
<1>7. IdsCounted' /\ IdsUniqueUntilRestart'
  BY <1>2 DEF LootInv, AddDog, IdsCounted, IdsUniqueUntilRestart
<1>8. CreditsExplained' /\ PaidOnceUntilAbort'
  BY <1>2 DEF LootInv, AddDog, CreditsExplained, PaidOnceUntilAbort
<1> QED
  BY <1>3, <1>4, <1>5, <1>6, <1>7, <1>8 DEF LootInv

\* Nothing moves: the places and what is said of them stay.
LEMMA NothingMoves ==
  ASSUME LootInv, UNCHANGED <<dogs, bags, loots, spawned, settled>>
  PROVE  Places'
BY DEF LootInv, Places, BagsFit, SerialsKnown, SerialsApart, NothingLost, Lies, Carried

LEMMA RestartKeeps ==
  ASSUME LootInv, Restart
  PROVE  LootInv'
<1>1. DOMAIN loots \in SUBSET (Nat \ {0}) /\ IsFiniteSet(DOMAIN loots)
  BY ShortageType DEF LootInv, TypeOK
<1>2. lootMaxId' \in Nat \ {0} /\ DOMAIN loots \subseteq 1..lootMaxId'
  BY <1>1, MaxIdOfBounds DEF Restart
<1>3. restarts' \in 1..MaxRestarts /\ events' = {} /\ ~ticking'
  BY Assumptions DEF LootInv, TypeOK, Restart
<1>4. TypeOK'
  BY <1>2, <1>3 DEF LootInv, TypeOK, Restart
<1>5. Places'
  BY NothingMoves DEF Restart
<1>6. IdsCounted' /\ IdsUniqueUntilRestart'
  BY <1>3 DEF IdsCounted, IdsUniqueUntilRestart
<1>7. CreditsExplained' /\ PaidOnceUntilAbort'
  BY DEF LootInv, Restart, CreditsExplained, PaidOnceUntilAbort
<1> QED
  BY <1>3, <1>4, <1>5, <1>6, <1>7 DEF LootInv, Places, Restart

LEMMA StartTickKeeps ==
  ASSUME LootInv, StartTick
  PROVE  LootInv'
<1>1. TypeOK' /\ ticking'
  BY DEF LootInv, TypeOK, StartTick
<1>2. Places'
  BY NothingMoves DEF StartTick
<1>3. IdsCounted' /\ IdsUniqueUntilRestart' /\ CreditsExplained' /\ PaidOnceUntilAbort'
  BY DEF LootInv, StartTick, IdsCounted, IdsUniqueUntilRestart, CreditsExplained,
         PaidOnceUntilAbort
<1> QED
  BY <1>1, <1>2, <1>3 DEF LootInv, Places, StartTick

-----------------------------------------------------------------------------
LEMMA RemoveDogKeeps ==
  ASSUME LootInv, NEW d \in Dogs, RemoveDog(d)
  PROVE  LootInv'
<1>1. /\ Places'
      /\ bags' \in [Dogs -> Seq(Item)] /\ settled' \subseteq 1..spawned
      /\ bags'[d] = << >> /\ \A e \in Dogs \ {d} : bags'[e] = bags[e]
      /\ \A s : s \in settled' <=>
           s \in settled \/ \E k \in DOMAIN bags[d] : bags[d][k].serial = s
  BY UnloadKeepsPlaces DEF RemoveDog, Unload
<1>2. IsFiniteSet(dogs')
  BY FS_Subset DEF LootInv, RemoveDog
<1>3. events' = {} /\ ~ticking'
  BY DEF LootInv, RemoveDog
<1>4. TypeOK'
  BY <1>1, <1>3 DEF LootInv, TypeOK, RemoveDog
<1>5. \A e \in Dogs : \A k \in DOMAIN bags'[e] :
        e # d /\ k \in DOMAIN bags[e] /\ bags'[e][k] = bags[e][k]
  BY <1>1
<1>6. IdsCounted' /\ IdsUniqueUntilRestart'
  BY <1>5 DEF LootInv, RemoveDog, IdsCounted, IdsUniqueUntilRestart
<1>7. CreditsExplained'
  <2> SUFFICES ASSUME NEW s \in Serials, credits[s] > 0, s \notin settled'
               PROVE  \E e \in Dogs : /\ \E k \in DOMAIN bags'[e] : bags'[e][k].serial = s
                                      /\ Worthless(bags'[e])
    BY DEF RemoveDog, CreditsExplained
  <2>1. PICK e \in Dogs : /\ \E k \in DOMAIN bags[e] : bags[e][k].serial = s
                          /\ Worthless(bags[e])
    BY <1>1 DEF LootInv, CreditsExplained
  <2>2. e # d
    BY <1>1, <2>1
  <2> QED
    BY <1>1, <2>1, <2>2
<1>8. PaidOnceUntilAbort'
  BY <1>1 DEF LootInv, RemoveDog, PaidOnceUntilAbort
<1> QED
  BY <1>1, <1>2, <1>3, <1>4, <1>6, <1>7, <1>8 DEF LootInv, Places

LEMMA PassLootKeeps ==
  ASSUME LootInv, NEW d \in dogs, NEW i \in 1..lootMaxId, PassLoot(d, i)
  PROVE  LootInv'
<1>1. events' \subseteq events /\ ticking /\ ticking' = ticking
  BY DEF LootInv, PassLoot
<1>2. CASE i \in DOMAIN loots /\ ~IsBagFull(d)
  <2> DEFINE n == Len(bags[d]) + 1
  <2>1. /\ Places'
        /\ bags' \in [Dogs -> Seq(Item)]
        /\ DOMAIN loots' = DOMAIN loots \ {i}
        /\ \A j \in DOMAIN loots' : loots'[j] = loots[j]
        /\ \A e \in Dogs \ {d} : bags'[e] = bags[e]
        /\ DOMAIN bags'[d] = DOMAIN bags[d] \cup {n}
        /\ \A k \in DOMAIN bags[d] : bags'[d][k] = bags[d][k]
        /\ bags'[d][n] = loots[i]
        /\ n \notin DOMAIN bags[d]
    BY <1>2, TakeKeepsPlaces DEF PassLoot
  <2> HIDE DEF n
  <2>2. TypeOK'
    BY <1>1, <2>1 DEF LootInv, TypeOK, PassLoot
  <2>3. d \in Dogs /\ loots[i].id = i /\ loots[i] \in Item
        /\ \A j \in DOMAIN loots : loots[j].id = j
    BY <1>2 DEF LootInv, TypeOK
  <2>4. ASSUME NEW h \in Dogs, NEW m \in DOMAIN bags'[h]
        PROVE  \/ m \in DOMAIN bags[h] /\ bags'[h][m] = bags[h][m]
               \/ h = d /\ m = n /\ bags'[h][m] = loots[i]
    <3>1. CASE h = d
      BY <2>1, <3>1
    <3>2. CASE h # d
      BY <2>1, <3>2
    <3> QED
      BY <3>1, <3>2
  <2>5. IdsCounted'
    <3> SUFFICES ASSUME restarts = 0, NEW h \in Dogs, NEW m \in DOMAIN bags'[h]
                 PROVE  bags'[h][m].id <= lootMaxId
      BY DEF IdsCounted, PassLoot
    <3> QED
      BY <2>3, <2>4 DEF LootInv, IdsCounted
  <2>6. IdsUniqueUntilRestart'
    <3> SUFFICES ASSUME restarts = 0, NEW e \in Dogs, NEW f \in Dogs,
                        NEW k \in DOMAIN bags'[e]
                 PROVE  /\ bags'[e][k].id \notin DOMAIN loots'
                        /\ \A j \in DOMAIN bags'[f] :
                             bags'[f][j].id = bags'[e][k].id => e = f /\ k = j
      BY DEF IdsUniqueUntilRestart, PassLoot
    <3>1. \A h \in Dogs : \A m \in DOMAIN bags[h] : bags[h][m].id \notin DOMAIN loots
      BY DEF LootInv, IdsUniqueUntilRestart
    <3>2. bags'[e][k].id \notin DOMAIN loots'
      BY <2>1, <2>3, <2>4, <3>1
    <3>3. ASSUME NEW j \in DOMAIN bags'[f], bags'[f][j].id = bags'[e][k].id
          PROVE  e = f /\ k = j
      <4>1. CASE e = d /\ k = n /\ bags'[e][k] = loots[i]
        BY <1>2, <2>3, <2>4, <3>1, <3>3, <4>1
      <4>2. CASE f = d /\ j = n /\ bags'[f][j] = loots[i]
        BY <1>2, <2>3, <2>4, <3>1, <3>3, <4>2
      <4>3. CASE /\ k \in DOMAIN bags[e] /\ bags'[e][k] = bags[e][k]
                 /\ j \in DOMAIN bags[f] /\ bags'[f][j] = bags[f][j]
        BY <3>3, <4>3 DEF LootInv, IdsUniqueUntilRestart
      <4> QED
        BY <2>4, <4>1, <4>2, <4>3
    <3> QED
      BY <3>2, <3>3
  <2>7. CreditsExplained'
    <3> SUFFICES ASSUME NEW s \in Serials, credits[s] > 0, s \notin settled
                 PROVE  \E e \in Dogs : /\ \E k \in DOMAIN bags'[e] : bags'[e][k].serial = s
                                        /\ Worthless(bags'[e])
      BY DEF PassLoot, CreditsExplained
    <3>1. PICK e \in Dogs : /\ \E k \in DOMAIN bags[e] : bags[e][k].serial = s
                            /\ Worthless(bags[e])
      BY DEF LootInv, CreditsExplained
    <3>2. CASE e = d
      BY <2>1, <3>1, <3>2 DEF Worthless
    <3>3. CASE e # d
      BY <2>1, <3>1, <3>3
    <3> QED
      BY <3>2, <3>3
  <2>8. PaidOnceUntilAbort'
    BY DEF LootInv, PassLoot, PaidOnceUntilAbort
  <2> QED
    BY <1>1, <2>1, <2>2, <2>5, <2>6, <2>7, <2>8 DEF LootInv, Places, PassLoot
<1>3. CASE ~(i \in DOMAIN loots /\ ~IsBagFull(d))
  <2>1. UNCHANGED <<dogs, bags, loots, lootMaxId, spawned, credits, settled, aborted,
                    restarts, ticking>>
    BY <1>3 DEF PassLoot
  <2>2. TypeOK'
    BY <1>1, <2>1 DEF LootInv, TypeOK
  <2>3. Places'
    BY <2>1, NothingMoves
  <2>4. IdsCounted' /\ IdsUniqueUntilRestart' /\ CreditsExplained' /\ PaidOnceUntilAbort'
    BY <2>1 DEF LootInv, IdsCounted, IdsUniqueUntilRestart, CreditsExplained,
                PaidOnceUntilAbort
  <2> QED
    BY <1>1, <2>1, <2>2, <2>3, <2>4 DEF LootInv, Places
<1> QED
  BY <1>2, <1>3

-----------------------------------------------------------------------------
(* Offices.                                                                *)

\* AddScore never takes a credit back, and reaches only items of the bag.
LEMMA CreditType ==
  ASSUME TypeOK, NEW d \in Dogs, Credit(bags[d])
  PROVE  /\ credits' \in [Serials -> 0..2]
         /\ \A s \in Serials : credits'[s] >= credits[s]
         /\ \A s \in Serials : (\A k \in DOMAIN bags[d] : bags[d][k].serial # s)
                                 => credits'[s] = credits[s]
<1>1. credits \in [Serials -> 0..2]
  BY DEF TypeOK
<1>2. \A s \in Serials : credits[s] \in 0..2
  BY <1>1
<1>3. \A n \in 0..2 : Twice(n) \in 0..2 /\ Twice(n) >= n
  BY DEF Twice
<1>4. credits' = [s \in Serials |->
                    IF \E k \in Paid(bags[d]) : bags[d][k].serial = s
                    THEN Twice(credits[s]) ELSE credits[s]]
  BY DEF Credit
<1>5. credits' \in [Serials -> 0..2]
  BY <1>2, <1>3, <1>4
<1>6. \A s \in Serials : credits'[s] >= credits[s]
  BY <1>2, <1>3, <1>4
<1>7. \A s \in Serials : (\A k \in DOMAIN bags[d] : bags[d][k].serial # s)
                            => credits'[s] = credits[s]
  BY <1>4 DEF Paid
<1> QED
  BY <1>5, <1>6, <1>7

\* An item in a bag without a worthless one has not been paid for.
LEMMA UnpaidInAGoodBag ==
  ASSUME LootInv, NEW d \in Dogs, ~Worthless(bags[d]), NEW k \in DOMAIN bags[d]
  PROVE  bags[d][k].serial \in Serials /\ credits[bags[d][k].serial] = 0
<1> DEFINE s == bags[d][k].serial
<1>1. s \in 1..spawned /\ spawned \in 0..MaxSpawned /\ MaxSpawned \in Nat
  BY Assumptions DEF LootInv, SerialsKnown, TypeOK
<1>2. s \in Serials
  BY <1>1 DEF Serials
<1>3. credits[s] \in 0..2
  BY <1>2 DEF LootInv, TypeOK
<1>4. Carried(s)
  BY DEF Carried
<1> HIDE DEF s
<1>5. s \notin settled
  BY <1>4 DEF LootInv, SerialsApart
<1>6. ASSUME NEW e \in Dogs, NEW j \in DOMAIN bags[e], bags[e][j].serial = s
      PROVE  ~Worthless(bags[e])
  <2>1. e = d
    BY <1>6 DEF LootInv, SerialsApart, s
  <2> QED
    BY <2>1
<1>7. ~(credits[s] > 0)
  BY <1>2, <1>5, <1>6 DEF LootInv, CreditsExplained
<1> QED
  BY <1>2, <1>3, <1>7 DEF s

LEMMA PassOfficeKeeps ==
  ASSUME LootInv, NEW d \in dogs, NEW o \in Offices, PassOffice(d, o)
  PROVE  LootInv' /\ \A s \in settled' \ settled : credits'[s] > credits[s]
<1>1. d \in Dogs /\ bags[d] \in Seq(Item)
  BY DEF LootInv, TypeOK
<1>2. /\ Places'
      /\ bags' \in [Dogs -> Seq(Item)] /\ settled' \subseteq 1..spawned
      /\ bags'[d] = << >> /\ \A e \in Dogs \ {d} : bags'[e] = bags[e]
      /\ \A s : s \in settled' <=>
           s \in settled \/ \E k \in DOMAIN bags[d] : bags[d][k].serial = s
  BY <1>1, UnloadKeepsPlaces DEF PassOffice
<1>3. ~Worthless(bags[d])
  BY DEF PassOffice, ToSet, Worthless
<1>4. Paid(bags[d]) = DOMAIN bags[d]
  BY <1>1, <1>3 DEF Paid, Worthless
<1>5. /\ credits' \in [Serials -> 0..2]
      /\ \A s \in Serials : (\A k \in DOMAIN bags[d] : bags[d][k].serial # s)
                              => credits'[s] = credits[s]
  BY <1>1, CreditType DEF LootInv, PassOffice
<1>6. ASSUME NEW k \in DOMAIN bags[d], NEW s, s = bags[d][k].serial
      PROVE  s \in Serials /\ credits[s] = 0 /\ credits'[s] = 1
  <2>1. s \in Serials /\ credits[s] = 0
    BY <1>1, <1>3, <1>6, UnpaidInAGoodBag
  <2>2. credits'[s] = Twice(credits[s])
    BY <1>4, <1>6, <2>1 DEF PassOffice, Credit
  <2> QED
    BY <2>1, <2>2 DEF Twice
<1>7. events' \subseteq events /\ ticking' = ticking /\ ticking
  BY DEF LootInv, PassOffice
<1>8. TypeOK'
  BY <1>2, <1>5, <1>7 DEF LootInv, TypeOK, PassOffice
<1>9. \A e \in Dogs : \A k \in DOMAIN bags'[e] :
        e # d /\ k \in DOMAIN bags[e] /\ bags'[e][k] = bags[e][k]
  BY <1>2
<1>10. IdsCounted' /\ IdsUniqueUntilRestart'
  BY <1>9 DEF LootInv, PassOffice, IdsCounted, IdsUniqueUntilRestart
<1>11. CreditsExplained'
  <2> SUFFICES ASSUME NEW s \in Serials, credits'[s] > 0, s \notin settled'
               PROVE  \E e \in Dogs : /\ \E k \in DOMAIN bags'[e] : bags'[e][k].serial = s
                                      /\ Worthless(bags'[e])
    BY DEF CreditsExplained
  <2>1. credits[s] > 0
    BY <1>2, <1>5
  <2>2. PICK e \in Dogs : /\ \E k \in DOMAIN bags[e] : bags[e][k].serial = s
                          /\ Worthless(bags[e])
    BY <1>2, <2>1 DEF LootInv, CreditsExplained
  <2>3. e # d
    BY <1>3, <2>2
  <2> QED
    BY <1>2, <2>2, <2>3
<1>12. PaidOnceUntilAbort'
  <2> SUFFICES ASSUME ~aborted, NEW s \in Serials
               PROVE  credits'[s] = 0 \/ (credits'[s] = 1 /\ s \in settled')
    BY DEF PaidOnceUntilAbort, PassOffice
  <2>1. CASE \E k \in DOMAIN bags[d] : bags[d][k].serial = s
    BY <1>2, <1>6, <2>1
  <2>2. CASE ~\E k \in DOMAIN bags[d] : bags[d][k].serial = s
    BY <1>2, <1>5, <2>2 DEF LootInv, PaidOnceUntilAbort
  <2> QED
    BY <2>1, <2>2
<1>13. LootInv'
  BY <1>2, <1>7, <1>8, <1>10, <1>11, <1>12 DEF LootInv, Places, PassOffice
<1> QED
  BY <1>2, <1>6, <1>13

LEMMA OfficeThrowsKeeps ==
  ASSUME LootInv, NEW d \in dogs, NEW o \in Offices, OfficeThrows(d, o)
  PROVE  LootInv'
<1>1. d \in Dogs
  BY DEF LootInv, TypeOK
<1>2. Worthless(bags[d])
  BY DEF OfficeThrows, ToSet, Worthless
<1>3. /\ credits' \in [Serials -> 0..2]
      /\ \A s \in Serials : (\A k \in DOMAIN bags[d] : bags[d][k].serial # s)
                              => credits'[s] = credits[s]
  BY <1>1, CreditType DEF LootInv, OfficeThrows
<1>4. events' = {} /\ ~ticking' /\ ticking' \in BOOLEAN /\ aborted'
  BY DEF OfficeThrows
<1>5. TypeOK'
  BY <1>3, <1>4 DEF LootInv, TypeOK, OfficeThrows
<1>6. Places'
  BY NothingMoves DEF OfficeThrows
<1>7. IdsCounted' /\ IdsUniqueUntilRestart'
  BY DEF LootInv, OfficeThrows, IdsCounted, IdsUniqueUntilRestart
<1>8. CreditsExplained'
  BY <1>1, <1>2, <1>3 DEF LootInv, OfficeThrows, CreditsExplained
<1>9. PaidOnceUntilAbort'
  BY <1>4 DEF PaidOnceUntilAbort
<1> QED
  BY <1>4, <1>5, <1>6, <1>7, <1>8, <1>9 DEF LootInv, Places, OfficeThrows

-----------------------------------------------------------------------------
(* New loot.                                                               *)

LEMMA FinishTickKeeps ==
  ASSUME LootInv, FinishTick
  PROVE  LootInv'
<1>1. PICK n \in 0..Shortage :
        /\ spawned + n <= MaxSpawned
        /\ \E types \in [1..n -> Types] : AddLoots(n, types)
        /\ lootMaxId' = lootMaxId + n
        /\ spawned' = spawned + n
  BY DEF FinishTick
<1>2. PICK types \in [1..n -> Types] : AddLoots(n, types)
  BY <1>1
<1>3. /\ n \in Nat /\ spawned \in Nat /\ lootMaxId \in Nat \ {0} /\ MaxSpawned \in Nat
      /\ spawned' \in 0..MaxSpawned /\ lootMaxId' \in Nat \ {0}
      /\ DOMAIN loots \subseteq 1..lootMaxId
  BY <1>1, ShortageType, Assumptions DEF LootInv, TypeOK
<1> DEFINE new == (lootMaxId + 1)..(lootMaxId + n)
<1>4. /\ DOMAIN loots' = DOMAIN loots \cup new
      /\ \A i \in DOMAIN loots : loots'[i] = loots[i]
      /\ \A i \in new \ DOMAIN loots :
           loots'[i] = [id |-> i, type |-> types[i - lootMaxId],
                        serial |-> spawned + (i - lootMaxId)]
  BY <1>2 DEF AddLoots, IdBase
<1>5. \A i \in new : /\ i \notin DOMAIN loots /\ i \in Nat
                     /\ i - lootMaxId \in 1..n /\ i \in 1..lootMaxId'
  BY <1>1, <1>3
<1>6. \A i \in new : /\ loots'[i].id = i
                     /\ loots'[i].type \in Types
                     /\ loots'[i].serial = spawned + (i - lootMaxId)
                     /\ loots'[i].serial \in (spawned + 1)..spawned'
                     /\ loots'[i] \in Item
  <2> SUFFICES ASSUME NEW i \in new
               PROVE  /\ loots'[i].id = i
                      /\ loots'[i].type \in Types
                      /\ loots'[i].serial = spawned + (i - lootMaxId)
                      /\ loots'[i].serial \in (spawned + 1)..spawned'
                      /\ loots'[i] \in Item
    OBVIOUS
  <2>1. loots'[i] = [id |-> i, type |-> types[i - lootMaxId],
                     serial |-> spawned + (i - lootMaxId)]
    BY <1>4, <1>5
  <2>2. types[i - lootMaxId] \in Types /\ i \in Nat
    BY <1>5
  <2>3. spawned + (i - lootMaxId) \in (spawned + 1)..spawned'
    BY <1>1, <1>3, <1>5
  <2>4. spawned + (i - lootMaxId) \in Serials
    BY <1>3, <2>3 DEF Serials
  <2> QED
    BY <2>1, <2>2, <2>3, <2>4 DEF Item
<1> HIDE DEF new
<1>7. UNCHANGED <<dogs, bags, events, credits, settled, aborted, restarts>> /\ events = {}
      /\ ~ticking' /\ ticking' \in BOOLEAN
  BY DEF FinishTick
<1>8. TypeOK'
  <2>1. DOMAIN loots' \subseteq 1..lootMaxId'
    BY <1>1, <1>3, <1>4, <1>5
  <2>2. \A i \in DOMAIN loots' : loots'[i] \in Item /\ loots'[i].id = i
    BY <1>4, <1>6 DEF LootInv, TypeOK
  <2>3. settled \subseteq 1..spawned'
    BY <1>1, <1>3 DEF LootInv, TypeOK
  <2> QED
    BY <1>3, <1>7, <2>1, <2>2, <2>3 DEF LootInv, TypeOK
<1>9. BagsFit'
  BY <1>7 DEF LootInv, BagsFit
<1>10. \A s : s \in 1..spawned' <=> s \in 1..spawned \/ s \in (spawned + 1)..spawned'
  BY <1>1, <1>3
<1>11. \A s \in 1..spawned : s \notin (spawned + 1)..spawned'
  BY <1>1, <1>3
<1>12. SerialsKnown'
  BY <1>4, <1>6, <1>7, <1>10 DEF LootInv, SerialsKnown
<1>13. \A s : Carried(s)' <=> Carried(s)
  BY <1>7 DEF Carried
<1>14. \A s : Lies(s)' <=> Lies(s) \/ \E i \in new : loots'[i].serial = s
  BY <1>4, <1>5 DEF Lies
<1>15. SerialsApart'
  <2>1. \A s : Carried(s) \/ Lies(s) \/ s \in settled => s \in 1..spawned
    BY DEF LootInv, SerialsKnown, Carried, Lies
  <2>2. ASSUME NEW i \in DOMAIN loots', NEW j \in DOMAIN loots',
               loots'[i].serial = loots'[j].serial
        PROVE  i = j
    <3>1. CASE i \in DOMAIN loots /\ j \in DOMAIN loots
      BY <1>4, <2>2, <3>1 DEF LootInv, SerialsApart
    <3>2. CASE i \in new /\ j \in new
      <4>1. /\ spawned + (i - lootMaxId) = spawned + (j - lootMaxId)
            /\ i \in Nat /\ j \in Nat
        BY <1>5, <1>6, <2>2, <3>2
      <4> QED
        BY <1>3, <4>1
    <3>3. ASSUME NEW x \in DOMAIN loots, NEW y \in new
          PROVE  loots'[x].serial # loots'[y].serial
      BY <1>4, <1>6, <1>11 DEF LootInv, SerialsKnown
    <3> QED
      BY <1>4, <2>2, <3>1, <3>2, <3>3
  <2>3. \A s : Carried(s) => ~Lies(s)
    BY DEF LootInv, SerialsApart, Lies
  <2>4. \A s : Carried(s) \/ s \in settled => ~Lies(s)'
    BY <1>6, <1>11, <1>14, <2>1, <2>3 DEF LootInv, SerialsApart
  <2>5. \A i \in DOMAIN loots' : ~Carried(loots[i].serial)'
    <3> SUFFICES ASSUME NEW i \in DOMAIN loots', NEW s, s = loots'[i].serial
                 PROVE  ~Carried(s)'
      OBVIOUS
    <3>1. Lies(s)'
      BY DEF Lies
    <3> QED
      BY <1>13, <2>4, <3>1
  <2>6. \A s \in settled' : ~Lies(s)' /\ ~Carried(s)'
    BY <1>7, <1>13, <2>4 DEF LootInv, SerialsApart
  <2>7. \A d, e \in Dogs : \A k \in DOMAIN bags'[d], j \in DOMAIN bags'[e] :
          bags'[d][k].serial = bags'[e][j].serial => d = e /\ k = j
    BY <1>7 DEF LootInv, SerialsApart
  <2> QED
    BY <2>2, <2>5, <2>6, <2>7 DEF SerialsApart
<1>16. NothingLost'
  <2> SUFFICES ASSUME NEW s \in 1..spawned' PROVE Lies(s)' \/ Carried(s)' \/ s \in settled'
    BY DEF NothingLost
  <2>1. CASE s \in 1..spawned
    BY <1>7, <1>13, <1>14, <2>1 DEF LootInv, NothingLost
  <2>2. CASE s \in (spawned + 1)..spawned'
    <3>1. lootMaxId + (s - spawned) \in new
      BY <1>1, <1>3, <2>2 DEF new
    <3>2. loots'[lootMaxId + (s - spawned)].serial = s
      BY <1>3, <1>6, <2>2, <3>1
    <3> QED
      BY <1>14, <3>1, <3>2
  <2> QED
    BY <1>10, <2>1, <2>2
<1>17. IdsCounted'
  <2> SUFFICES ASSUME restarts = 0, NEW d \in Dogs, NEW k \in DOMAIN bags[d]
               PROVE  bags[d][k].id <= lootMaxId'
    BY <1>7 DEF IdsCounted
  <2>1. bags[d] \in Seq(Item) /\ bags[d][k] \in Item
    BY DEF LootInv, TypeOK
  <2>2. bags[d][k].id \in Nat /\ bags[d][k].id <= lootMaxId
    BY <2>1 DEF LootInv, IdsCounted, Item
  <2> QED
    BY <1>1, <1>3, <2>2
<1>18. IdsUniqueUntilRestart'
  <2> SUFFICES ASSUME restarts = 0, NEW d \in Dogs, NEW k \in DOMAIN bags[d]
               PROVE  bags[d][k].id \notin new
    BY <1>4, <1>7 DEF LootInv, IdsUniqueUntilRestart
  <2>1. bags[d] \in Seq(Item) /\ bags[d][k] \in Item
    BY DEF LootInv, TypeOK
  <2>2. bags[d][k].id \in Nat /\ bags[d][k].id <= lootMaxId
    BY <2>1 DEF LootInv, IdsCounted, Item
  <2> QED
    BY <1>3, <2>2 DEF new
<1>19. CreditsExplained' /\ PaidOnceUntilAbort'
  BY <1>7 DEF LootInv, CreditsExplained, PaidOnceUntilAbort
<1> QED
  BY <1>7, <1>8, <1>9, <1>12, <1>15, <1>16, <1>17, <1>18, <1>19 DEF LootInv

-----------------------------------------------------------------------------
LEMMA LootStep == LootInv /\ [Next]_vars => LootInv'
<1> SUFFICES ASSUME LootInv, [Next]_vars PROVE LootInv'
  OBVIOUS
<1>1. CASE UNCHANGED vars
  <2>1. UNCHANGED <<dogs, bags, loots, lootMaxId, ticking, events, spawned, credits,
                    settled, aborted, restarts>>
    BY <1>1 DEF vars
  <2>2. Places'
    BY <2>1, NothingMoves
  <2>3. TypeOK' /\ IdsCounted' /\ IdsUniqueUntilRestart' /\ CreditsExplained'
        /\ PaidOnceUntilAbort'
    BY <2>1 DEF LootInv, TypeOK, IdsCounted, IdsUniqueUntilRestart, CreditsExplained,
                PaidOnceUntilAbort
  <2> QED
    BY <2>1, <2>2, <2>3 DEF LootInv, Places
<1>2. ASSUME NEW d \in Dogs, AddDog(d) \/ RemoveDog(d)
      PROVE  LootInv'
  BY <1>2, AddDogKeeps, RemoveDogKeeps
<1>3. ASSUME NEW d \in dogs, NEW o \in Offices, PassOffice(d, o) \/ OfficeThrows(d, o)
      PROVE  LootInv'
  BY <1>3, PassOfficeKeeps, OfficeThrowsKeeps
<1> QED
  BY <1>1, <1>2, <1>3, RestartKeeps, StartTickKeeps, PassLootKeeps, FinishTickKeeps
     DEF Next

THEOREM LootInvariance == Spec => []LootInv
BY LootInit, LootStep, PTL DEF Spec

\* Every item put on the map is in exactly one place, counted: on the map under
\* one id, at one position of one bag, or out of the game.
LEMMA OnePlaceEach == LootInv => EveryItemInOnePlace
<1> SUFFICES ASSUME LootInv, NEW s \in 1..spawned
             PROVE  Cardinality(OnMap(s)) + Cardinality(InBags(s))
                      + (IF s \in settled THEN 1 ELSE 0) = 1
  BY DEF EveryItemInOnePlace
<1>1. Lies(s) => Cardinality(OnMap(s)) = 1
  <2> SUFFICES ASSUME Lies(s) PROVE Cardinality(OnMap(s)) = 1
    OBVIOUS
  <2>1. PICK i \in DOMAIN loots : loots[i].serial = s
    BY DEF Lies
  <2>2. OnMap(s) = {i}
    BY <2>1 DEF OnMap, LootInv, SerialsApart
  <2> QED
    BY <2>2, FS_Singleton
<1>2. ~Lies(s) => Cardinality(OnMap(s)) = 0
  <2>1. ~Lies(s) => OnMap(s) = {}
    BY DEF OnMap, Lies
  <2> QED
    BY <2>1, FS_EmptySet
<1>3. \A d \in Dogs : bags[d] \in Seq(Item) /\ Len(bags[d]) \in Nat
                      /\ DOMAIN bags[d] = 1..Len(bags[d])
                      /\ Len(bags[d]) <= BagCapacity
  BY DEF LootInv, TypeOK, BagsFit
<1>4. Carried(s) => Cardinality(InBags(s)) = 1
  <2> SUFFICES ASSUME Carried(s) PROVE Cardinality(InBags(s)) = 1
    OBVIOUS
  <2>1. PICK d \in Dogs : \E k \in DOMAIN bags[d] : bags[d][k].serial = s
    BY DEF Carried
  <2>2. PICK k \in DOMAIN bags[d] : bags[d][k].serial = s
    BY <2>1
  <2>3. k \in 1..BagCapacity /\ k <= Len(bags[d])
    BY <1>3, <2>2, Assumptions
  <2>4. <<d, k>> \in InBags(s)
    BY <2>2, <2>3 DEF InBags
  <2>5. ASSUME NEW p \in InBags(s) PROVE p = <<d, k>>
    <3>1. /\ p[1] \in Dogs /\ p[2] \in 1..BagCapacity /\ p = <<p[1], p[2]>>
          /\ p[2] <= Len(bags[p[1]]) /\ bags[p[1]][p[2]].serial = s
      BY <2>5 DEF InBags
    <3>2. p[2] \in DOMAIN bags[p[1]]
      BY <1>3, <3>1
    <3>3. p[1] = d /\ p[2] = k
      BY <2>2, <3>1, <3>2 DEF LootInv, SerialsApart
    <3> QED
      BY <3>1, <3>3
  <2>6. InBags(s) = {<<d, k>>}
    BY <2>4, <2>5
  <2> QED
    BY <2>6, FS_Singleton
<1>5. ~Carried(s) => Cardinality(InBags(s)) = 0
  <2>1. ~Carried(s) => InBags(s) = {}
    <3> SUFFICES ASSUME NEW p \in InBags(s) PROVE Carried(s)
      OBVIOUS
    <3>1. /\ p[1] \in Dogs /\ p[2] \in 1..BagCapacity
          /\ p[2] <= Len(bags[p[1]]) /\ bags[p[1]][p[2]].serial = s
      BY DEF InBags
    <3>2. p[2] \in DOMAIN bags[p[1]]
      BY <1>3, <3>1
    <3> QED
      BY <3>1, <3>2 DEF Carried
  <2> QED
    BY <2>1, FS_EmptySet
<1>6. ~(Lies(s) /\ Carried(s)) /\ (s \in settled => ~Lies(s) /\ ~Carried(s))
  BY DEF LootInv, SerialsApart, Lies
<1>7. Lies(s) \/ Carried(s) \/ s \in settled
  BY DEF LootInv, NothingLost
<1> QED
  BY <1>1, <1>2, <1>4, <1>5, <1>6, <1>7

-----------------------------------------------------------------------------
\* The types hold in every state: no id goes past the counter, and what is on
\* the map has the id it is stored under.
THEOREM LootTypes == Spec => []TypeOK
<1>1. LootInv => TypeOK
  BY DEF LootInv
<1> QED
  BY <1>1, LootInvariance, PTL

\* No item is lost or doubled by the events of a tick, in whatever order they
\* come, by dogs that leave, by full bags, or by restarts.
THEOREM ItemsInOnePlace == Spec => []EveryItemInOnePlace
BY OnePlaceEach, LootInvariance, PTL

\* Until the first restart no id is given out to two items in the game.
THEOREM UniqueIds == Spec => []IdsUniqueUntilRestart
<1>1. LootInv => IdsUniqueUntilRestart
  BY DEF LootInv
<1> QED
  BY <1>1, LootInvariance, PTL

\* Until some Tick has thrown no item is paid for twice, or while in a bag.
THEOREM PaidOnce == Spec => []PaidOnceUntilAbort
<1>1. LootInv => PaidOnceUntilAbort
  BY DEF LootInv
<1> QED
  BY <1>1, LootInvariance, PTL

\* A bag is never emptied in an office without being paid for, all of it, even
\* after ticks that threw had paid for some of the items of other bags.
THEOREM UnloadingPays == Spec => EmptiedIsPaid
<1>1. LootInv /\ [Next]_vars
        => [\A s \in settled' \ settled : ticking => credits'[s] > credits[s]]_vars
  <2> SUFFICES ASSUME LootInv, Next, ticking, settled' # settled
               PROVE  \A s \in settled' \ settled : credits'[s] > credits[s]
    BY DEF vars
  <2>1. \E d \in dogs, o \in Offices : PassOffice(d, o)
    BY DEF Next, AddDog, RemoveDog, Restart, StartTick, PassLoot, OfficeThrows, FinishTick
  <2> QED
    BY <2>1, PassOfficeKeeps
<1> QED
  BY <1>1, LootInvariance, PTL DEF Spec, EmptiedIsPaid
=============================================================================
