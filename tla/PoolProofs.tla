----------------------------- MODULE PoolProofs -----------------------------
(***************************************************************************)
(* Proofs about ConnectionPool: of its invariants, and that it implements  *)
(* Lending, for any number of threads and any capacity.                    *)
(***************************************************************************)
EXTENDS ConnectionPool, FiniteSetTheorems, TLAPS

\* A thread holds a connection exactly while it works.
HoldersWork == \A t \in Threads : conn[t] # Moved <=> at[t] = "working"

\* No connection is in two slots, with two threads, or with one and in a slot.
InOnePlace ==
  /\ \A i, j \in Slots : pool[i] = pool[j] /\ pool[i] # Moved => i = j
  /\ \A t, u \in Threads : conn[t] = conn[u] /\ conn[t] # Moved => t = u
  /\ \A t \in Threads, i \in Slots : conn[t] = pool[i] => conn[t] = Moved

\* used_connections_ counts the connections that are out, so that a wrapper
\* that returns one finds it positive: the assert of ReturnConnection.
UsedAreOut == used = Cardinality(AtPlace("working"))

\* The inductive invariant: a connection can be lent to one thread only if no
\* other place still has it, and it can be put back only if its slot is free.
IInv ==
  /\ TypeOK
  /\ FreeSlotsAreFull
  /\ HoldersWork
  /\ InOnePlace
  /\ UsedAreOut
  /\ NoLostWakeUp

-----------------------------------------------------------------------------
(* Facts about the places threads are at.                                  *)

\* The sets of threads by place are finite.
LEMMA PlacesFinite ==
  ASSUME NEW place
  PROVE  IsFiniteSet(AtPlace(place)) /\ Cardinality(AtPlace(place)) \in Nat
BY Assumptions, FS_Subset, FS_CardinalityType DEF AtPlace

\* So is the set of the threads that are alert.
LEMMA AlertFinite == IsFiniteSet(Alert) /\ Cardinality(Alert) \in Nat
<1>1. Alert \subseteq Threads BY DEF Alert, AtPlace
<1> QED BY <1>1, Assumptions, FS_Subset, FS_CardinalityType

\* A thread that works keeps the count of connections that are out positive.
LEMMA WorkingIsCounted ==
  ASSUME IInv, NEW t \in Threads, at[t] = "working"
  PROVE  used \in 1..Capacity
<1>1. t \in AtPlace("working") BY DEF AtPlace
<1>2. Cardinality(AtPlace("working")) # 0 BY <1>1, PlacesFinite, FS_EmptySet
<1> QED BY <1>2, Assumptions DEF IInv, TypeOK, UsedAreOut

-----------------------------------------------------------------------------
(* The connections.                                                        *)

Connections == TypeOK /\ FreeSlotsAreFull /\ HoldersWork /\ InOnePlace

\* Lending a connection out keeps every connection in one place.
LEMMA GetKeepsConnections ==
  ASSUME IInv, NEW t \in Threads, GetConnection(t)
  PROVE  Connections'
<1> USE Assumptions DEF IInv, Slots, Moved
<1>1. used \in 0..Capacity - 1 /\ used + 1 \in Slots
      BY DEF GetConnection, HasFree, TypeOK
<1>2. pool[used + 1] \in Slots
      BY <1>1 DEF TypeOK, FreeSlotsAreFull
<1>3. /\ conn' = [conn EXCEPT ![t] = pool[used + 1]]
      /\ pool' = [pool EXCEPT ![used + 1] = Moved]
      /\ used' = used + 1
      /\ at' = [at EXCEPT ![t] = "working"]
      /\ conn[t] = Moved
      BY DEF GetConnection, MoveOut, HoldersWork
<1>4. TypeOK' BY <1>1, <1>2, <1>3 DEF TypeOK, Places
<1>5. FreeSlotsAreFull' BY <1>1, <1>3 DEF FreeSlotsAreFull, TypeOK
<1>6. HoldersWork' BY <1>2, <1>3 DEF HoldersWork, TypeOK
<1>7. InOnePlace'
  <2>1. \A i, j \in Slots : pool'[i] = pool'[j] /\ pool'[i] # Moved => i = j
        BY <1>1, <1>3 DEF InOnePlace, TypeOK
  <2>2. \A u, v \in Threads : conn'[u] = conn'[v] /\ conn'[u] # Moved => u = v
        BY <1>1, <1>2, <1>3 DEF InOnePlace, TypeOK
  <2>3. \A u \in Threads, i \in Slots : conn'[u] = pool'[i] => conn'[u] = Moved
        BY <1>1, <1>2, <1>3 DEF InOnePlace, TypeOK
  <2> QED BY <2>1, <2>2, <2>3 DEF InOnePlace
<1> QED BY <1>4, <1>5, <1>6, <1>7 DEF Connections

\* Putting one back does, too.
LEMMA ReturnKeepsConnections ==
  ASSUME IInv, NEW t \in Threads, ReturnConnection(t)
  PROVE  Connections'
<1> USE Assumptions DEF IInv, Slots, Moved
<1>1. used \in Slots
      BY WorkingIsCounted DEF ReturnConnection
<1>2. conn[t] \in Slots /\ pool[used] = Moved
      BY <1>1 DEF ReturnConnection, TypeOK, HoldersWork, FreeSlotsAreFull
<1>3. /\ pool' = [pool EXCEPT ![used] = conn[t]]
      /\ used' = used - 1
      /\ conn' = [conn EXCEPT ![t] = Moved]
      /\ at' = [at EXCEPT ![t] = "notifying"]
      BY DEF ReturnConnection
<1>4. TypeOK' BY <1>1, <1>2, <1>3 DEF TypeOK, Places
<1>5. FreeSlotsAreFull' BY <1>1, <1>2, <1>3 DEF FreeSlotsAreFull, TypeOK
<1>6. HoldersWork' BY <1>3 DEF HoldersWork, TypeOK
<1>7. InOnePlace'
  <2>1. \A i, j \in Slots : pool'[i] = pool'[j] /\ pool'[i] # Moved => i = j
        BY <1>1, <1>2, <1>3 DEF InOnePlace, TypeOK
  <2>2. \A u, v \in Threads : conn'[u] = conn'[v] /\ conn'[u] # Moved => u = v
        BY <1>3 DEF InOnePlace, TypeOK
  <2>3. \A u \in Threads, i \in Slots : conn'[u] = pool'[i] => conn'[u] = Moved
        BY <1>1, <1>2, <1>3 DEF InOnePlace, TypeOK
  <2> QED BY <2>1, <2>2, <2>3 DEF InOnePlace
<1> QED BY <1>4, <1>5, <1>6, <1>7 DEF Connections

-----------------------------------------------------------------------------
(* The counting.                                                           *)

\* The connections that are out stay counted.
LEMMA UsedStayCounted ==
  ASSUME IInv, NEW t \in Threads,
         GetConnection(t) \/ Wait(t) \/ WakeUp(t) \/ ReturnConnection(t) \/ Notify(t)
  PROVE  UsedAreOut'
<1> DEFINE W == AtPlace("working")
<1>0. IsFiniteSet(W) /\ Cardinality(W) \in Nat /\ used = Cardinality(W)
      BY PlacesFinite DEF IInv, UsedAreOut
<1>1. CASE GetConnection(t)
  <2>1. AtPlace("working")' = W \cup {t} /\ t \notin W /\ used' = used + 1
        BY <1>1 DEF GetConnection, MoveOut, AtPlace, IInv, TypeOK
  <2> QED BY <2>1, <1>0, FS_AddElement DEF UsedAreOut
<1>2. CASE ReturnConnection(t)
  <2>1. AtPlace("working")' = W \ {t} /\ t \in W /\ used' = used - 1
        BY <1>2 DEF ReturnConnection, AtPlace, IInv, TypeOK
  <2> QED BY <2>1, <1>0, FS_RemoveElement DEF UsedAreOut
<1>3. CASE Wait(t) \/ WakeUp(t) \/ Notify(t)
  <2>1. AtPlace("working")' = W /\ used' = used
        BY <1>3 DEF Wait, WakeUp, Notify, AtPlace, IInv, TypeOK
  <2> QED BY <2>1, <1>0 DEF UsedAreOut
<1> QED BY <1>1, <1>2, <1>3

\* Every step leaves enough threads alert for the connections that are free.
LEMMA AlertStaySufficient ==
  ASSUME IInv, NEW t \in Threads,
         GetConnection(t) \/ Wait(t) \/ WakeUp(t) \/ ReturnConnection(t) \/ Notify(t)
  PROVE  NoLostWakeUp'
<1>0. /\ IsFiniteSet(Alert) /\ Cardinality(Alert) \in Nat
      /\ used \in Nat /\ Capacity \in Nat
      /\ at \in [Threads -> Places]
      BY AlertFinite, Assumptions DEF IInv, TypeOK
<1>1. CASE GetConnection(t)
  <2>1. used' = used + 1 /\ AtPlace("waiting")' = AtPlace("waiting")
        BY <1>0, <1>1 DEF GetConnection, MoveOut, AtPlace
  <2>2. CASE at[t] = "outside"
    <3>1. Alert' = Alert BY <1>0, <1>1, <2>2 DEF GetConnection, Alert, AtPlace
    <3> QED BY <3>1, <2>1, <1>0 DEF IInv, NoLostWakeUp
  <2>3. CASE at[t] = "woken"
    <3>1. Alert' = Alert \ {t} /\ t \in Alert
          BY <1>0, <1>1, <2>3 DEF GetConnection, Alert, AtPlace
    <3>2. Cardinality(Alert') = Cardinality(Alert) - 1
          BY <3>1, <1>0, FS_RemoveElement
    <3> QED BY <3>2, <2>1, <1>0 DEF IInv, NoLostWakeUp
  <2> QED BY <1>1, <2>2, <2>3 DEF GetConnection
<1>2. CASE Wait(t)
  <2>1. used' = used /\ Capacity - used <= 0
        BY <1>2, <1>0 DEF Wait, HasFree, IInv, TypeOK
  <2>2. Cardinality(Alert') \in Nat
    <3>1. Alert' \subseteq Threads BY DEF Alert, AtPlace
    <3> QED BY <3>1, Assumptions, FS_Subset, FS_CardinalityType
  <2> QED BY <2>1, <2>2, <1>0 DEF NoLostWakeUp
<1>3. CASE WakeUp(t)
  <2>1. Alert' = Alert \cup {t} /\ t \notin Alert /\ used' = used /\ t \in AtPlace("waiting")
        BY <1>0, <1>3 DEF WakeUp, Alert, AtPlace
  <2>2. Cardinality(Alert') = Cardinality(Alert) + 1
        BY <2>1, <1>0, FS_AddElement
  <2> QED BY <2>1, <2>2, <1>0 DEF IInv, NoLostWakeUp
<1>4. CASE ReturnConnection(t)
  <2>1. /\ Alert' = Alert \cup {t} /\ t \notin Alert
        /\ used' = used - 1
        /\ AtPlace("waiting")' = AtPlace("waiting")
        BY <1>0, <1>4 DEF ReturnConnection, Alert, AtPlace
  <2>2. Cardinality(Alert') = Cardinality(Alert) + 1
        BY <2>1, <1>0, FS_AddElement
  <2> QED BY <2>1, <2>2, <1>0 DEF IInv, NoLostWakeUp
<1>5. CASE Notify(t)
  <2>1. CASE AtPlace("waiting") = {}
    <3>1. AtPlace("waiting")' = {} BY <1>0, <1>5, <2>1 DEF Notify, AtPlace
    <3> QED BY <3>1 DEF NoLostWakeUp
  <2>2. CASE AtPlace("waiting") # {}
    <3>1. PICK w \in AtPlace("waiting") :
            at' = [at EXCEPT ![t] = "outside", ![w] = "woken"]
          BY <1>5, <2>2 DEF Notify
    <3>2. /\ Alert' = (Alert \ {t}) \cup {w}
          /\ t \in Alert /\ w \notin Alert \ {t}
          /\ used' = used
          BY <1>0, <1>5, <3>1 DEF Notify, Alert, AtPlace
    <3>3. Cardinality(Alert \ {t}) = Cardinality(Alert) - 1 /\ IsFiniteSet(Alert \ {t})
          BY <3>2, <1>0, FS_RemoveElement
    <3>4. Cardinality((Alert \ {t}) \cup {w}) = Cardinality(Alert \ {t}) + 1
          BY <3>2, <3>3, FS_AddElement
    <3>5. Cardinality(Alert') = Cardinality(Alert)
          BY <3>2, <3>3, <3>4, <1>0
    <3> QED BY <3>2, <3>5, <2>2, <1>0 DEF IInv, NoLostWakeUp
  <2> QED BY <2>1, <2>2
<1> QED BY <1>1, <1>2, <1>3, <1>4, <1>5

-----------------------------------------------------------------------------
(* The theorems.                                                           *)

\* The inductive invariant holds at the start.
LEMMA InitIInv == Init => IInv
<1> SUFFICES ASSUME Init PROVE IInv OBVIOUS
<1>1. TypeOK BY Assumptions DEF Init, TypeOK, Slots, Moved, Places
<1>2. FreeSlotsAreFull /\ HoldersWork /\ InOnePlace
      BY DEF Init, FreeSlotsAreFull, HoldersWork, InOnePlace, Slots, Moved
<1>3. AtPlace("working") = {} /\ AtPlace("waiting") = {} BY DEF Init, AtPlace
<1>4. UsedAreOut BY <1>3, FS_EmptySet DEF Init, UsedAreOut
<1> QED BY <1>1, <1>2, <1>3, <1>4 DEF IInv, NoLostWakeUp

\* Every step keeps it.
LEMMA NextKeepsIInv == IInv /\ [Next]_vars => IInv'
<1> SUFFICES ASSUME IInv, [Next]_vars PROVE IInv' OBVIOUS
<1>1. CASE Next
  <2>1. PICK t \in Threads :
          GetConnection(t) \/ Wait(t) \/ WakeUp(t) \/ ReturnConnection(t) \/ Notify(t)
        BY <1>1 DEF Next
  <2>2. Connections'
    <3>1. CASE GetConnection(t) BY <3>1, GetKeepsConnections
    <3>2. CASE ReturnConnection(t) BY <3>2, ReturnKeepsConnections
    <3>3. CASE Wait(t) \/ WakeUp(t) \/ Notify(t)
      <4>1. UNCHANGED <<pool, used, conn>> BY <3>3 DEF Wait, WakeUp, Notify
      <4>2. at' \in [Threads -> Places]
            BY <3>3 DEF Wait, WakeUp, Notify, AtPlace, IInv, TypeOK, Places
      <4>3. \A u \in Threads : at'[u] = "working" <=> at[u] = "working"
            BY <3>3 DEF Wait, WakeUp, Notify, AtPlace, IInv, TypeOK
      <4> QED BY <4>1, <4>2, <4>3
              DEF IInv, Connections, TypeOK, FreeSlotsAreFull, HoldersWork, InOnePlace
    <3> QED BY <2>1, <3>1, <3>2, <3>3
  <2>3. UsedAreOut' BY <2>1, UsedStayCounted
  <2>4. NoLostWakeUp' BY <2>1, AlertStaySufficient
  <2> QED BY <2>2, <2>3, <2>4 DEF Connections, IInv
<1>2. CASE UNCHANGED vars
      BY <1>2 DEF vars, IInv, TypeOK, FreeSlotsAreFull, HoldersWork, InOnePlace,
                  UsedAreOut, NoLostWakeUp, AtPlace, Alert
<1> QED BY <1>1, <1>2

\* The inductive invariant holds throughout.
THEOREM Invariance == Spec => []IInv
BY InitIInv, NextKeepsIInv, PTL DEF Spec

\* Every variable stays in its type: the count never leaves the vector.
THEOREM TypeCorrect == Spec => []TypeOK
BY Invariance, PTL DEF IInv

\* The slots moved from are the first ones.
THEOREM SlotsStayInOrder == Spec => []FreeSlotsAreFull
BY Invariance, PTL DEF IInv

\* The count is that of the connections that are out.
THEOREM UsedStaysExact == Spec => []UsedAreOut
BY Invariance, PTL DEF IInv

\* No wake-up is lost.
THEOREM WakeUpsAreNotLost == Spec => []NoLostWakeUp
BY Invariance, PTL DEF IInv

-----------------------------------------------------------------------------
(* The pool implements Lending.                                            *)

Lent == {<<t, conn[t]>> : t \in {u \in Threads : conn[u] # Moved}}

\* Taking a connection is a loan of it.
LEMMA GetIsLend ==
  ASSUME IInv, NEW t \in Threads, GetConnection(t)
  PROVE  Loans!Lend(t, pool[used + 1]) /\ pool[used + 1] \in Slots
<1> USE Assumptions DEF IInv, Slots, Moved
<1>1. used + 1 \in Slots /\ used + 1 > used /\ used \in Nat
      BY DEF GetConnection, HasFree, TypeOK
<1>2. pool[used + 1] \in Slots
      BY <1>1 DEF TypeOK, FreeSlotsAreFull
<1>3. conn[t] = Moved /\ conn' = [conn EXCEPT ![t] = pool[used + 1]]
      BY DEF GetConnection, MoveOut, HoldersWork
<1>4. \A loan \in Lent : loan[1] # t /\ loan[2] # pool[used + 1]
      BY <1>1, <1>2, <1>3 DEF Lent, InOnePlace
<1>5. Lent' = Lent \cup {<<t, pool[used + 1]>>}
      BY <1>2, <1>3 DEF Lent, TypeOK
<1> QED BY <1>2, <1>4, <1>5 DEF Lent, Loans!Lend

\* Returning one ends its loan.
LEMMA ReturnIsTakeBack ==
  ASSUME IInv, NEW t \in Threads, ReturnConnection(t)
  PROVE  \E loan \in Lent : Loans!TakeBack(loan)
<1> USE DEF IInv, Moved
<1>1. conn[t] # Moved /\ conn' = [conn EXCEPT ![t] = Moved]
      BY DEF ReturnConnection, HoldersWork
<1>2. <<t, conn[t]>> \in Lent BY <1>1 DEF Lent
<1>3. Lent' = Lent \ {<<t, conn[t]>>}
      BY <1>1 DEF Lent, TypeOK
<1> QED BY <1>2, <1>3 DEF Lent, Loans!TakeBack

\* No connection is ever with two threads, and every connection that is lent
\* was free before.
THEOREM PoolImplementsLending == Spec => ConnectionsAreLent
<1>1. Init => Loans!Init BY DEF Init, Loans!Init, Moved
<1>2. ASSUME IInv, [Next]_vars
      PROVE  [Loans!Next]_Lent
  <2>1. CASE UNCHANGED vars BY <2>1 DEF vars, Lent
  <2>2. CASE Next
    <3>1. PICK t \in Threads :
            GetConnection(t) \/ Wait(t) \/ WakeUp(t) \/ ReturnConnection(t) \/ Notify(t)
          BY <2>2 DEF Next
    <3>2. CASE GetConnection(t)
      <4>1. Loans!Lend(t, pool[used + 1]) /\ pool[used + 1] \in Slots
            BY <3>2, <1>2, GetIsLend
      <4> QED BY <4>1 DEF Loans!Next, Loans!Lend
    <3>3. CASE ReturnConnection(t)
      <4>1. \E loan \in Lent : Loans!TakeBack(loan)
            BY <3>3, <1>2, ReturnIsTakeBack
      <4> QED BY <4>1 DEF Loans!Next, Lent
    <3>4. CASE Wait(t) \/ WakeUp(t) \/ Notify(t)
          BY <3>4 DEF Wait, WakeUp, Notify, Lent
    <3> QED BY <3>1, <3>2, <3>3, <3>4
  <2> QED BY <1>2, <2>1, <2>2
<1> QED BY <1>1, <1>2, Invariance, PTL DEF Spec, ConnectionsAreLent, Loans!Spec, Lent
=============================================================================
