-------------------------- MODULE OriginalCustodyMC --------------------------
(* One archived operation, one undo of it and one request to clean it up. *)
EXTENDS OriginalCustody

CONSTANTS o1, d1, u1

OneDest == [o \in {o1} |-> d1]
OneUndo == [u \in {u1} |-> o1]
TheOperation == {<<o1>>}
=============================================================================
