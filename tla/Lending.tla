------------------------------ MODULE Lending -------------------------------
(***************************************************************************)
(* What a pool of connections promises its callers: whoever has none may   *)
(* be lent one, and none is lent to two at a time.                         *)
(***************************************************************************)
CONSTANTS Borrowers, Things

VARIABLE lent   \* the pairs <<who, what>> of the loans going on

Lend(b, x) ==
  /\ \A loan \in lent : loan[1] # b /\ loan[2] # x
  /\ lent' = lent \cup {<<b, x>>}

TakeBack(loan) == lent' = lent \ {loan}

Init == lent = {}

Next ==
  \/ \E b \in Borrowers, x \in Things : Lend(b, x)
  \/ \E loan \in lent : TakeBack(loan)

Spec == Init /\ [][Next]_lent
=============================================================================
