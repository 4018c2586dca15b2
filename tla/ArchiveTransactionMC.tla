------------------------ MODULE ArchiveTransactionMC ------------------------
(***************************************************************************)
(* Values for the model checker: two operations reviewed for the same      *)
(* destination.                                                            *)
(***************************************************************************)
EXTENDS ArchiveTransaction, TLC

CONSTANTS o1, o2, d1, r1

SharedDest == (o1 :> d1) @@ (o2 :> d1)
=============================================================================
