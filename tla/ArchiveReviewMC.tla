--------------------------- MODULE ArchiveReviewMC ---------------------------
(* A small instance of ArchiveReview: two Vaults with authority records of  *)
(* their own, and two items, reviewed alone or both together.               *)
EXTENDS ArchiveReview

CONSTANTS v1, v2, d, e

EachAuthority == [v \in {v1, v2} |-> v]
EachContent == [i \in 1 .. 2 |-> IF i = 1 THEN d ELSE e]
OneOrBoth == {{1}, {1, 2}}
=============================================================================
