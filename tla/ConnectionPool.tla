--------------------------- MODULE ConnectionPool ---------------------------
(***************************************************************************)
(* connection_pool::ConnectionPool (connection_pool.h): a vector of        *)
(* connections of which the first used_connections_ have been moved out,   *)
(* a mutex around it and a condition variable to wait for a free one.      *)
(*                                                                         *)
(* What is done under the mutex is one step.  The condition variable is    *)
(* the set of the threads that wait: a wait gives the mutex up and joins   *)
(* them in one step, a woken thread has to get the mutex again before it   *)
(* looks, and threads may wake up for no reason.  Return gives the mutex   *)
(* up before it notifies, so others come in between.                       *)
(***************************************************************************)
EXTENDS Naturals, FiniteSets

CONSTANTS
  Threads,   \* the threads that call GetConnection
  Capacity   \* connections made by the constructor

ASSUME Assumptions ==
  /\ IsFiniteSet(Threads)
  /\ Capacity \in Nat \ {0}

VARIABLES
  pool,   \* pool_, with Moved in the slots that are moved from
  used,   \* used_connections_
  at,     \* where a thread is
  conn    \* ConnectionWrapper::conn_ of the wrapper it holds, or Moved

vars == <<pool, used, at, conn>>

Slots == 1..Capacity   \* the connections are named by the slot they started in
Moved == 0
Places == {"outside", "waiting", "woken", "working", "notifying"}

AtPlace(place) == {t \in Threads : at[t] = place}

\* The threads that will look at the pool again or make another one look.
Alert == AtPlace("woken") \cup AtPlace("notifying")

-----------------------------------------------------------------------------
\* The predicate of the wait, and of the loop around it.
HasFree == used < Capacity

\* Mutant: the connection is copied out of the slot, not moved.
CopyOut(t) ==
  /\ conn' = [conn EXCEPT ![t] = pool[used + 1]]
  /\ used' = used + 1
  /\ UNCHANGED pool

\* std::move(pool_[used_connections_++])
MoveOut(t) ==
  /\ conn' = [conn EXCEPT ![t] = pool[used + 1]]
  /\ pool' = [pool EXCEPT ![used + 1] = Moved]
  /\ used' = used + 1

\* GetConnection with the mutex: a thread that comes, or that was woken, takes
\* a connection if there is one and waits if there is none.
GetConnection(t) ==
  /\ at[t] \in {"outside", "woken"}
  /\ HasFree
  /\ MoveOut(t)
  /\ at' = [at EXCEPT ![t] = "working"]

Wait(t) ==
  /\ at[t] \in {"outside", "woken"}
  /\ ~HasFree
  /\ at' = [at EXCEPT ![t] = "waiting"]
  /\ UNCHANGED <<pool, used, conn>>

WakeUp(t) ==
  /\ at[t] = "waiting"
  /\ at' = [at EXCEPT ![t] = "woken"]
  /\ UNCHANGED <<pool, used, conn>>

\* Mutants: the wrapper is copied and each copy returns the connection; the
\* wrapper goes on holding it.
ReturnByCopies(t) ==
  /\ at[t] = "working"
  /\ pool' = [pool EXCEPT ![used] = conn[t]]
  /\ used' = used - 1
  /\ UNCHANGED <<conn, at>>
ReturnAndKeep(t) ==
  /\ at[t] = "working"
  /\ pool' = [pool EXCEPT ![used] = conn[t]]
  /\ used' = used - 1
  /\ at' = [at EXCEPT ![t] = "notifying"]
  /\ UNCHANGED conn

\* Mutant: nobody is notified.
ReturnSilently(t) ==
  /\ at[t] = "working"
  /\ pool' = [pool EXCEPT ![used] = conn[t]]
  /\ used' = used - 1
  /\ conn' = [conn EXCEPT ![t] = Moved]
  /\ at' = [at EXCEPT ![t] = "outside"]

\* ReturnConnection, called by the destructor of the wrapper, up to the end of
\* the block that holds the mutex.  An exception in the query runs it, too.
ReturnConnection(t) ==
  /\ at[t] = "working"
  /\ pool' = [pool EXCEPT ![used] = conn[t]]
  /\ used' = used - 1
  /\ conn' = [conn EXCEPT ![t] = Moved]
  /\ at' = [at EXCEPT ![t] = "notifying"]

\* notify_one
Notify(t) ==
  /\ at[t] = "notifying"
  /\ \/ \E w \in AtPlace("waiting") :
          at' = [at EXCEPT ![t] = "outside", ![w] = "woken"]
     \/ /\ AtPlace("waiting") = {}
        /\ at' = [at EXCEPT ![t] = "outside"]
  /\ UNCHANGED <<pool, used, conn>>

-----------------------------------------------------------------------------
Init ==
  /\ pool = [i \in Slots |-> i]
  /\ used = 0
  /\ at = [t \in Threads |-> "outside"]
  /\ conn = [t \in Threads |-> Moved]

Next ==
  \E t \in Threads :
    \/ GetConnection(t)
    \/ Wait(t)
    \/ WakeUp(t)
    \/ ReturnConnection(t)
    \/ Notify(t)

Spec == Init /\ [][Next]_vars

\* A thread that has been woken gets the mutex at last, and one that notifies
\* is not stopped.  Nothing is assumed of callers: they may never come, and one
\* that works may keep its connection for ever.
FairSpec ==
  /\ Spec
  /\ \A t \in Threads :
       /\ WF_vars(at[t] = "woken" /\ (GetConnection(t) \/ Wait(t)))
       /\ WF_vars(Notify(t))

-----------------------------------------------------------------------------
(* Properties.                                                             *)

TypeOK ==
  /\ pool \in [Slots -> Slots \cup {Moved}]
  /\ used \in 0..Capacity
  /\ at \in [Threads -> Places]
  /\ conn \in [Threads -> Slots \cup {Moved}]

\* The slots moved from are exactly the first used_connections_, so that nobody
\* is handed a null pointer and no returned connection overwrites another, in
\* whatever order the connections come back.
FreeSlotsAreFull == \A i \in Slots : pool[i] = Moved <=> i <= used

\* No wake-up is lost although the notification comes after the mutex is given
\* up and goes to one thread only: while somebody waits, there are at least as
\* many threads about to notify or to look again as there are free connections.
NoLostWakeUp ==
  AtPlace("waiting") = {} \/
    Capacity - used <= Cardinality(Alert)

\* No thread sleeps for ever next to a free connection.
FreeConnectionIsNoticed ==
  (AtPlace("waiting") # {} /\ HasFree) ~> (AtPlace("waiting") = {} \/ ~HasFree)

-----------------------------------------------------------------------------
(* Refinement: a connection is on loan while a wrapper holds it.           *)

Loans == INSTANCE Lending
           WITH Borrowers <- Threads,
                Things    <- Slots,
                lent      <- {<<t, conn[t]>> : t \in {u \in Threads : conn[u] # Moved}}

\* No two threads ever work on one connection: pqxx::connection is not
\* thread-safe.
ConnectionsAreLent == Loans!Spec
=============================================================================
