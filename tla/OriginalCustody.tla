--------------------------- MODULE OriginalCustody ---------------------------
(***************************************************************************)
(* Archive undo and source cleanup of one open Vault, composed: both read  *)
(* the same source files, registrations and audits, each confirms under    *)
(* its own plan on its own blocking thread, and nothing orders the two     *)
(* (undo.rs and cleanup/mod.rs take no common lock; a VaultLease is only   *)
(* counted).  The steps are those of ArchiveUndo and of SourceCleanup;     *)
(* what one changes, the other reads: the cleanup's retained originals are *)
(* the ones that verified_registered_original accepts in ArchiveUndo.      *)
(*                                                                         *)
(* Openings, crashes and failed operations are left to the two modules:    *)
(* here the Vault is opened once and every operation succeeds.             *)
(***************************************************************************)
EXTENDS ArchiveUndo

CONSTANTS Request, Selection, MaxCleanupOperations     \* those of SourceCleanup

VARIABLES cleanupPc, items, next, cleanupHistory, cleanupDir, cleanupTorn, trash,
          removed, gone, putBack

Cleanup == INSTANCE SourceCleanup WITH
    Path <- Op, SourceOf <- [o \in Op |-> o],
    pc <- cleanupPc, history <- cleanupHistory, auditDir <- cleanupDir, torn <- cleanupTorn,
    retained <- [o \in Op |-> Registered(o)]

undoOnly == <<pc, audit, links, registers, archived, knowledge, saving, budget>>
cleanupOnly == <<cleanupPc, items, next, cleanupHistory, cleanupDir, cleanupTorn,
                 removed, gone, putBack>>
custodyVars == <<vars, cleanupOnly, trash>>

InitCleanup ==
    /\ cleanupPc = [p \in Cleanup!Plan |-> "idle"]
    /\ items = [r \in Request |-> <<>>]
    /\ next = [p \in Cleanup!Plan |-> 1]
    /\ cleanupHistory = [p \in Cleanup!Plan |-> <<>>]
    /\ cleanupDir = [p \in Cleanup!Plan |-> FALSE]
    /\ cleanupTorn = [p \in Cleanup!Plan |-> FALSE]
    /\ trash = [o \in Op |-> "none"]
    /\ removed = [p \in Cleanup!Plan |-> {}]
    /\ gone = {} /\ putBack = {}

UndoStep ==
    /\ \/ \E u \in Undo : Create(u) \/ Confirm(u) \/ Execute(u)
       \/ \E o \in Op : Archive(o) \/ SourceChanges(o)
       \/ vault = "closed" /\ BeginReconcile
       \/ FinishReconcile
    /\ UNCHANGED <<cleanupOnly, trash>>

CleanupStep ==
    /\ UNCHANGED undoOnly
    /\ \/ \E r \in Request : Cleanup!Create(r) \/ Cleanup!Authorize(r)
       \/ \E p \in Cleanup!Plan : Cleanup!Confirm(p) \/ Cleanup!Execute(p)
       \/ \E o \in Op : Cleanup!PutBackFromTrash(o)

Custody == Init /\ InitCleanup /\ [][UndoStep \/ CleanupStep]_custodyVars
-----------------------------------------------------------------------------
(* The program never leaves an archived original in the trash of the operating *)
(* system alone, or nowhere: the file is at its source path (edited by the    *)
(* user or not), or a copy is at the destination, in quarantine or staged.     *)
LastOriginalRemains ==
    \A o \in Op : archived[o] => source[o] # "absent" \/ Copied(DestOf[o])
=============================================================================
