--------------------------- MODULE GeneratorProofs ---------------------------
(***************************************************************************)
(* The clock of the LootGenerator is not behind the time without loot, for *)
(* any number of sessions and dogs, any probability table and any lengths  *)
(* of the ticks.  ClockNotBehind speaks of the time between ticks; what a  *)
(* tick needs of its beginning is in KeepsUp: until the first session has  *)
(* called Generate, the clock still lacks the length of the tick.          *)
(***************************************************************************)
EXTENDS LootGenerator, TLAPS

KeepsUp ==
  ~threw => waited <= IF turn = 1 THEN Upto(clock + delta, MaxTime) ELSE clock

\* The inductive invariant.
GeneratorInv == TypeOK /\ KeepsUp

-----------------------------------------------------------------------------
\* Generate never adds more than what is missing: the percentage is at most
\* 100, and the half that is rounded up does not reach the next item.
LEMMA RoundedIsBounded ==
  ASSUME NEW n \in Nat, NEW t \in 0..MaxTime
  PROVE  Rounded(n, t) \in 0..n
<1>1. PICK c \in 0..100 : c = Chance[t]
  BY Assumptions
<1>2. n * c \in 0..(100 * n)
  <2>1. n * c \in Nat
    BY <1>1
  <2>2. n * (100 - c) \in Nat
    BY <1>1
  <2>3. n * (100 - c) = 100 * n - n * c
    BY <1>1
  <2> QED
    BY <2>1, <2>2, <2>3
<1> DEFINE p == n * c
<1>3. 2 * n * c = 2 * p
  BY <1>1
<1>4. p \in 0..(100 * n)
  BY <1>2
<1> HIDE DEF p
<1>5. (2 * p + 100) \div 200 \in 0..n
  BY <1>4
<1> QED
  BY <1>1, <1>3, <1>5 DEF Rounded

\* What a session is short of.
LEMMA ShortageType ==
  ASSUME TypeOK, NEW s \in Ids, NEW left \in 0..MaxDogs
  PROVE  Shortage(s, left) \in Nat /\ (left + Shortage(s, left) <= MaxDogs)
<1>1. dogs[s] \in 0..MaxDogs /\ MaxDogs \in Nat
  BY Assumptions DEF TypeOK
<1> QED
  BY <1>1 DEF Shortage

-----------------------------------------------------------------------------
LEMMA GeneratorInit == Init => GeneratorInv
<1> SUFFICES ASSUME Init PROVE GeneratorInv
  OBVIOUS
<1>1. TypeOK
  <2>1. 0 \in 0..MaxDogs /\ 0 \in 0..MaxTime /\ 0 \in 0..Sessions
    BY Assumptions
  <2>2. dogs \in [Ids -> 0..MaxDogs] /\ loots \in [Ids -> 0..MaxDogs]
    BY <2>1 DEF Init
  <2> QED
    BY <2>1, <2>2 DEF Init, TypeOK
<1>2. KeepsUp
  BY DEF Init, KeepsUp
<1> QED
  BY <1>1, <1>2 DEF GeneratorInv

LEMMA PopulateKeeps ==
  ASSUME GeneratorInv, NEW s \in Ids, Populate(s)
  PROVE  GeneratorInv'
BY DEF GeneratorInv, TypeOK, KeepsUp, Populate

LEMMA StartTickKeeps ==
  ASSUME GeneratorInv, NEW d \in Deltas, StartTick(d)
  PROVE  GeneratorInv'
<1>1. d \in 1..MaxTime /\ Sessions \in Nat \ {0} /\ MaxTime \in Nat \ {0}
  BY Assumptions
<1>2. TypeOK'
  BY <1>1 DEF GeneratorInv, TypeOK, StartTick, Upto
<1>3. KeepsUp'
  BY <1>1 DEF GeneratorInv, TypeOK, KeepsUp, StartTick, Upto
<1> QED
  BY <1>2, <1>3 DEF GeneratorInv

LEMMA GenerateKeeps ==
  ASSUME GeneratorInv, Generate
  PROVE  GeneratorInv'
<1>1. PICK left \in 0..loots[turn] :
        LET t == Upto(clock + delta, MaxTime)
            n == Rounded(Shortage(turn, left), t)
        IN  /\ loots' = [loots EXCEPT ![turn] = left + n]
            /\ clock' = TimeLeft(n, t)
            /\ waited' = IF n > 0 THEN 0 ELSE waited
  BY DEF Generate
<1> DEFINE t == Upto(clock + delta, MaxTime)
           n == Rounded(Shortage(turn, left), t)
<1>2. /\ MaxTime \in Nat \ {0} /\ Sessions \in Nat \ {0} /\ MaxDogs \in Nat
      /\ clock \in 0..MaxTime /\ delta \in Nat
      /\ turn \in 1..Sessions /\ turn \in Ids /\ loots[turn] \in 0..MaxDogs
  BY Assumptions DEF GeneratorInv, TypeOK, Generate, Ids
<1>3. t \in 0..MaxTime /\ left \in 0..MaxDogs
  BY <1>2 DEF Upto
<1>4. n \in Nat /\ left + n \in 0..MaxDogs
  <2> DEFINE lack == Shortage(turn, left)
  <2>1. lack \in Nat /\ left + lack <= MaxDogs
    BY <1>2, <1>3, ShortageType DEF GeneratorInv
  <2> HIDE DEF lack
  <2>2. Rounded(lack, t) \in 0..lack
    BY <2>1, <1>3, RoundedIsBounded
  <2> QED
    BY <1>2, <1>3, <2>1, <2>2 DEF lack
<1>5. /\ loots' = [loots EXCEPT ![turn] = left + n]
      /\ clock' = TimeLeft(n, t)
      /\ waited' = IF n > 0 THEN 0 ELSE waited
  BY <1>1
<1>6. turn' \in 0..Sessions /\ turn' # 1
  BY <1>2 DEF Generate, NextTurn
<1>7. ~threw => waited <= t
  BY <1>2 DEF GeneratorInv, KeepsUp, TypeOK, Upto
<1> HIDE DEF t, n
<1>8. clock' \in 0..MaxTime /\ waited' \in 0..MaxTime
  BY <1>2, <1>3, <1>4, <1>5 DEF TimeLeft, GeneratorInv, TypeOK
<1>9. TypeOK'
  BY <1>2, <1>4, <1>5, <1>6, <1>8 DEF GeneratorInv, TypeOK, Generate
<1>10. KeepsUp'
  BY <1>2, <1>4, <1>5, <1>6, <1>7 DEF KeepsUp, Generate, TimeLeft
<1> QED
  BY <1>9, <1>10 DEF GeneratorInv

LEMMA SessionThrowsKeeps ==
  ASSUME GeneratorInv, SessionThrows
  PROVE  GeneratorInv'
BY Assumptions DEF GeneratorInv, TypeOK, KeepsUp, SessionThrows

LEMMA GeneratorStep == GeneratorInv /\ [Next]_vars => GeneratorInv'
<1> SUFFICES ASSUME GeneratorInv, [Next]_vars PROVE GeneratorInv'
  OBVIOUS
<1>1. CASE UNCHANGED vars
  BY <1>1 DEF vars, GeneratorInv, TypeOK, KeepsUp
<1>2. CASE Next
  BY <1>2, PopulateKeeps, StartTickKeeps, GenerateKeeps, SessionThrowsKeeps DEF Next
<1> QED
  BY <1>1, <1>2

-----------------------------------------------------------------------------
\* The types hold in every state; in particular Generate never brings a session
\* above the most dogs one may have, whatever the table says.
THEOREM GeneratorTypes == Spec => []TypeOK
<1>1. GeneratorInv => TypeOK
  BY DEF GeneratorInv
<1> QED
  BY <1>1, GeneratorInit, GeneratorStep, PTL DEF Spec

\* As long as every session ticks to its end, the clock that all sessions share
\* is between ticks not behind the time that went by since loot was last made.
THEOREM ClockKeepsUp == Spec => []ClockNotBehind
<1>1. GeneratorInv => ClockNotBehind
  BY DEF GeneratorInv, KeepsUp, ClockNotBehind
<1> QED
  BY <1>1, GeneratorInit, GeneratorStep, PTL DEF Spec
=============================================================================
