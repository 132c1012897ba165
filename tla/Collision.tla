----------------------------- MODULE Collision -----------------------------
(***************************************************************************)
(* collision_detector.cpp on whole numbers: which items a gatherer passes  *)
(* on its way in one tick.  The quotients of the code are kept as their    *)
(* numerators, over the square of the way's length.  TryCollectPoint       *)
(* asserts that there is a way; FindSortedGatherEvents skips one without.  *)
(***************************************************************************)
EXTENDS Integers

Square(n) == n * n
Dot(u, v) == u.x * v.x + u.y * v.y
Minus(p, q) == [x |-> p.x - q.x, y |-> p.y - q.y]

\* TryCollectPoint(a, b, c): proj_ratio and sq_distance, both times len2.
TryCollectPoint(a, b, c) ==
  LET u == Minus(c, a)
      v == Minus(b, a)
  IN  [len2     |-> Dot(v, v),
       ratio    |-> Dot(u, v),
       distance |-> Dot(u, u) * Dot(v, v) - Square(Dot(u, v))]

\* Mutant: the end of the way is not part of it.
IsCollectedBefore(result, radius) ==
  /\ result.ratio >= 0 /\ result.ratio < result.len2
  /\ result.distance <= Square(radius) * result.len2

\* CollectionResult::IsCollected
IsCollected(result, radius) ==
  /\ result.ratio >= 0 /\ result.ratio <= result.len2
  /\ result.distance <= Square(radius) * result.len2

\* The gather events of one gatherer, radius being the sum of the widths.
GatherEvents(a, b, items, radius) ==
  IF a = b THEN {} ELSE {c \in items : IsCollected(TryCollectPoint(a, b, c), radius)}
=============================================================================
