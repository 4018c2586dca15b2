---------------------------- MODULE ArchiveUndoMC ----------------------------
(* Small instances of ArchiveUndo: up to three operations and three undos. *)
EXTENDS ArchiveUndo

CONSTANTS o1, o2, o3, d1, d2, d3, u1, u2, u3

SeparateDest == [o \in {o1, o2, o3} |-> IF o = o1 THEN d1 ELSE IF o = o2 THEN d2 ELSE d3]
SharedDest == [o \in {o1, o2} |-> d1]           \* o2 archives the bytes of o1 again
SameOperation == [u \in {u1, u2} |-> o1]        \* both undos take back o1
EachOperation == [u \in {u1, u2, u3} |-> IF u = u1 THEN o1 ELSE IF u = u2 THEN o2 ELSE o3]

(* The three operations are alike, each with its destination and its undo. *)
Row == {<<o1, d1, u1>>, <<o2, d2, u2>>, <<o3, d3, u3>>}
RowOf(x) == CHOOSE r \in Row : \E i \in 1 .. 3 : r[i] = x
Alike == {[x \in {r[i] : r \in Row, i \in 1 .. 3} |->
              to[RowOf(x)][CHOOSE i \in 1 .. 3 : RowOf(x)[i] = x]] :
          to \in {f \in [Row -> Row] : \A q, r \in Row : f[q] = f[r] => q = r}}
=============================================================================
