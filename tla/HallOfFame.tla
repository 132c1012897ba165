---------------------------- MODULE HallOfFame -----------------------------
(***************************************************************************)
(* What the server promises about a dog's career, without sessions, ids,   *)
(* tokens or exceptions: a dog enters once, may be entered in the hall of  *)
(* fame while it plays, and leaves only if it is in it.  An entry is never *)
(* taken back and a dog never returns.                                     *)
(***************************************************************************)
EXTENDS Naturals

CONSTANT Entrants

VARIABLES
  playing,   \* the dogs on some map
  recorded   \* the dogs with an entry

careers == <<playing, recorded>>

Enter(b) ==
  /\ b \notin playing \cup recorded
  /\ playing' = playing \cup {b}
  /\ UNCHANGED recorded

\* Several dogs may be recorded at once and only some of them leave: the rest
\* are those a failure kept on the map after their entry was made.
Retire(entered, leaving) ==
  /\ entered \subseteq playing
  /\ leaving \subseteq playing \cap (recorded \cup entered)
  /\ recorded' = recorded \cup entered
  /\ playing' = playing \ leaving

Init == playing = {} /\ recorded = {}

Next ==
  \/ \E b \in Entrants : Enter(b)
  \/ \E entered, leaving \in SUBSET Entrants : Retire(entered, leaving)

Spec == Init /\ [][Next]_careers
=============================================================================
