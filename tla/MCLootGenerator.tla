-------------------------- MODULE MCLootGenerator ---------------------------
(***************************************************************************)
(* Instances of LootGenerator for TLC: the probability 0.5 of config.json, *)
(* with half of the base interval as the unit of time.                     *)
(***************************************************************************)
EXTENDS LootGenerator

Half == [t \in 0..4 |-> CASE t = 0 -> 0 [] t = 1 -> 29 [] t = 2 -> 50
                          [] t = 3 -> 65 [] t = 4 -> 75]
=============================================================================
