--------------------------- MODULE SourceCleanupMC ---------------------------
(* A small instance of SourceCleanup: two operations with a source each, and *)
(* requests that select both, in the order of their removal.                  *)
EXTENDS SourceCleanup

CONSTANTS o1, o2, f1, f2

EachSource == [o \in {o1, o2} |-> IF o = o1 THEN f1 ELSE f2]
BothInOrder == {<<o1, o2>>}
=============================================================================
