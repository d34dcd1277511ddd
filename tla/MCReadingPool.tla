----------------------------- MODULE MCReadingPool -----------------------------
(* Instances of ReadingPool for TLC: more lists than threads. *)
EXTENDS ReadingPool

OfTheirOwn == [l \in List |-> l]
\* The last two lists are of one child.
Shared == [l \in List |-> IF l = Lists THEN l - 1 ELSE l]
=============================================================================
