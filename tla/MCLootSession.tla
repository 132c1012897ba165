--------------------------- MODULE MCLootSession ----------------------------
(***************************************************************************)
(* Instances of LootSession for TLC.  The dogs are interchangeable.        *)
(***************************************************************************)
EXTENDS LootSession

CONSTANTS rex, ada, depot, key, bone

DogSymmetry == Permutations(Dogs)
=============================================================================
