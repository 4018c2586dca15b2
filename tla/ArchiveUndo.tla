---------------------------- MODULE ArchiveUndo ----------------------------
(***************************************************************************)
(* The bounded archive undo of src-tauri/src/archive/undo.rs and its       *)
(* reconciliation in undo/recovery.rs: a committed archive operation is    *)
(* taken back by staging a second link of the archived file, moving the    *)
(* file through a quarantine to the trash of the operating system, and     *)
(* retiring its registration, with an audit record at each stage.          *)
(*                                                                         *)
(* An undo is one reviewed plan with a fresh id.  Confirmed undos run on   *)
(* blocking threads, so undos of one operation interleave at every step.   *)
(*                                                                         *)
(* Abstractions.  The whole archive transaction is one step, Archive (its  *)
(* own steps are in ArchiveTransaction); a destination is named by a       *)
(* digest, so the links of one destination hold the same bytes and a       *)
(* boolean per link tells if it exists; an operation's journal is reduced  *)
(* to "Committed", since an undo only ever reads its last state.  Nobody   *)
(* but the program writes under the Vault: a verification of a Vault file  *)
(* fails here only as a failed file operation.                             *)
(***************************************************************************)
EXTENDS Integers, Sequences, FiniteSets

CONSTANTS
    Op,             \* archive operations
    Dest,           \* destination paths Originals/<digest>/<name>
    DestOf,         \* the destination of each archive operation
    Undo,           \* undo plans, one fresh UUID each
    TargetOf,       \* the archive operation each undo is for
    Saver,          \* operations whose knowledge the user saves
    MaxUndoOperations,  \* undo audits that one scan of them may pass
    MaxFaults,      \* bound: failed file operations of the program
    MaxCrashes      \* bound: process crashes

ASSUME PlanAssumption == DestOf \in [Op -> Dest] /\ TargetOf \in [Undo -> Op]
ASSUME LimitAssumption ==
    MaxUndoOperations \in Nat /\ MaxFaults \in Nat /\ MaxCrashes \in Nat

VARIABLES
    vault,          \* closed, reconciling, open or refused by reconciliation
    pc,             \* the next step of each undo
    history,        \* the states of .aiks/archive-undo/<undo>/, in order
    auditDir,       \* .aiks/archive-undo/<undo> exists
    torn,           \* a temporary record file was left in that directory
    staging,        \* .aiks/undo-staging/<undo>.part exists
    quarantine,     \* the archived file stands in .aiks/undo-trash/<undo>/
    archived,       \* the archive operation ended Committed
    dest,           \* the archived file stands at its destination
    registration,   \* .aiks/registrations/<operation>.json exists
    tombstone,      \* .aiks/undone-registrations/<operation>.json exists
    source,         \* the reviewed source still matches its identity
    knowledge,      \* .aiks/knowledge/<operation> exists
    saving,         \* save_document verified the original and will write
    faults, crashes

audit == <<history, auditDir, torn>>
links == <<staging, quarantine, dest>>
registers == <<registration, tombstone>>
user == <<archived, source, knowledge, saving>>
budget == <<faults, crashes>>
vars == <<vault, pc, history, auditDir, torn, staging, quarantine, archived, dest,
          registration, tombstone, source, knowledge, saving, faults, crashes>>

-----------------------------------------------------------------------------
(* UndoLifecycleState, and the record each persist_state call writes. *)
Terminal == {"Committed", "Failed", "Abandoned"}
UndoState == {"Proposed", "Executing"} \cup Terminal

RecordedState ==
    [recordProposed  |-> "Proposed",  recordExecuting |-> "Executing",
     recordRefused   |-> "Failed",    recordFailed    |-> "Failed",
     recordRestored  |-> "Failed",    recordCommitted |-> "Committed",
     abandonPlan     |-> "Abandoned", abandonKept     |-> "Abandoned",
     recordAbandoned |-> "Abandoned"]
RecordStep == DOMAIN RecordedState

AtRest == {"idle", "refused", "planned", "expired", "stopped", "done"}
WorkStep == {"createAudit", "reverify", "stage", "discard", "quarantine", "trash",
             "rollback", "unstage", "finalize", "deactivate", "recheck", "restore",
             "restoreRegistration", "dropRestored", "dropStaging"}
Step == AtRest \cup WorkStep \cup RecordStep \cup {"inspect", "inspectKept"}

D(u) == DestOf[TargetOf[u]]
StateOf(u) == IF history[u] = <<>> THEN "None" ELSE history[u][Len(history[u])]

GoTo(u, step) == pc' = [pc EXCEPT ![u] = step]
Live(u, step) == vault = "open" /\ pc[u] = step
Running(u, step) == vault \in {"open", "reconciling"} /\ pc[u] = step

(* A process that stops keeps only what is on disk; a reconciliation that    *)
(* gives up leaves the registry of plans as it is.                           *)
Halted == [u \in Undo |-> IF pc[u] \in AtRest \ {"planned"} THEN pc[u] ELSE "stopped"]
Kept == {"planned", "inspectKept", "abandonKept"}
Ended == [u \in Undo |-> IF pc[u] \in Kept THEN "planned" ELSE Halted[u]]
Refuse == vault' = "refused" /\ pc' = Ended

(* An error ends a reconciliation; an undo goes on with its error path. *)
Otherwise(u, step) ==
    IF vault = "open" THEN GoTo(u, step) /\ UNCHANGED vault ELSE Refuse

(* read_operation: a non-record file, or no record at all, is an error. *)
Readable(u) == auditDir[u] => ~torn[u] /\ history[u] # <<>>

(* An audit is never removed, and every scan of them gives up at a limit.    *)
Audited == {u \in Undo : auditDir[u]}

(* verified_registered_original: operation_is_undone reads every undo audit. *)
Registered(o) ==
    /\ archived[o] /\ dest[DestOf[o]] /\ registration[o]
    /\ Cardinality(Audited) <= MaxUndoOperations
    /\ \A u \in Undo : Readable(u)
    /\ \A u \in Undo : TargetOf[u] = o => StateOf(u) # "Committed"

(* The checks of create_at and of reverify_plan. *)
Reviewed(u) ==
    LET o == TargetOf[u] IN Registered(o) /\ ~knowledge[o] /\ source[o] = "match"

(* A record being written shows its temporary file to whoever reads it. *)
SomeRecordInFlight(u) == \E w \in Undo \ {u} : pc[w] \in RecordStep

Init ==
    /\ vault = "closed"
    /\ pc = [u \in Undo |-> "idle"]
    /\ history = [u \in Undo |-> <<>>]
    /\ auditDir = [u \in Undo |-> FALSE]
    /\ torn = [u \in Undo |-> FALSE]
    /\ staging = [u \in Undo |-> FALSE]
    /\ quarantine = [u \in Undo |-> FALSE]
    /\ archived = [o \in Op |-> FALSE]
    /\ dest = [d \in Dest |-> FALSE]
    /\ registration = [o \in Op |-> FALSE]
    /\ tombstone = [o \in Op |-> FALSE]
    /\ source = [o \in Op |-> "match"]
    /\ knowledge = [o \in Op |-> FALSE]
    /\ saving = [o \in Op |-> FALSE]
    /\ faults = 0 /\ crashes = 0

-----------------------------------------------------------------------------
(* create_at, consume_at and the expiry of a plan. *)

Create(u) ==
    /\ Live(u, "idle") /\ Reviewed(u)
    /\ GoTo(u, "createAudit")
    /\ UNCHANGED <<vault, audit, links, registers, user, budget>>

CreateAudit(u) ==
    /\ Live(u, "createAudit")
    /\ auditDir' = [auditDir EXCEPT ![u] = TRUE]
    /\ GoTo(u, "recordProposed")
    /\ UNCHANGED <<vault, history, torn, links, registers, user, budget>>

Confirm(u) ==
    /\ Live(u, "planned")
    /\ GoTo(u, "reverify")
    /\ UNCHANGED <<vault, audit, links, registers, user, budget>>

(* Also what becomes of a plan confirmed while its Vault is not current. *)
Expire(u) ==
    /\ pc[u] = "planned"
    /\ GoTo(u, "expired")
    /\ UNCHANGED <<vault, audit, links, registers, user, budget>>

(* persist_state, with what the code does next. *)
AfterRecord(u) ==
    IF pc[u] \in {"recordProposed", "abandonKept"} THEN "planned"
    ELSE IF pc[u] = "recordExecuting" THEN "quarantine"
    ELSE IF pc[u] \in {"recordRefused", "recordFailed", "abandonPlan"} THEN "done"
    ELSE IF pc[u] = "recordRestored" /\ vault = "open" THEN "dropRestored"
    ELSE "dropStaging"

(* An undo numbers its records itself, a recovery goes on from the latest;    *)
(* write_new_json refuses a number that is taken.                             *)
SequenceOf == [recordProposed |-> 0, recordRefused |-> 1, recordExecuting |-> 1,
               recordFailed |-> 2, recordRestored |-> 2, recordCommitted |-> 2]
Numbered(u) == vault = "open" => Len(history[u]) <= SequenceOf[pc[u]]

WriteRecord(u) ==
    /\ vault \in {"open", "reconciling"} /\ pc[u] \in RecordStep /\ Numbered(u)
    /\ history' = [history EXCEPT ![u] = Append(@, RecordedState[pc[u]])]
    /\ GoTo(u, AfterRecord(u))
    /\ UNCHANGED <<vault, auditDir, torn, links, registers, user, budget>>

-----------------------------------------------------------------------------
(* execute_with, in program order. *)

Reverify(u) ==
    /\ Live(u, "reverify")
    /\ \/ Reviewed(u) /\ GoTo(u, "stage")
       \/ /\ ~Reviewed(u) \/ SomeRecordInFlight(u)
          /\ GoTo(u, "recordRefused")
    /\ UNCHANGED <<vault, audit, links, registers, user, budget>>

(* prepare_staging: hard_link needs the archived file. *)
Stage(u) ==
    /\ Live(u, "stage")
    /\ IF dest[D(u)] /\ ~staging[u]
         THEN staging' = [staging EXCEPT ![u] = TRUE] /\ GoTo(u, "recordExecuting")
         ELSE UNCHANGED staging /\ GoTo(u, "discard")
    /\ UNCHANGED <<vault, audit, quarantine, dest, registers, user, budget>>

\* Mutant: a failure to stage is recorded like a failure to quarantine.
DiscardRecorded(u) ==
    /\ Live(u, "discard")
    /\ staging' = [staging EXCEPT ![u] = FALSE]
    /\ GoTo(u, "recordFailed")
    /\ UNCHANGED <<vault, audit, quarantine, dest, registers, user, budget>>

(* Staging or its record failed: the undo returns without another record. *)
Discard(u) ==
    /\ Live(u, "discard")
    /\ staging' = [staging EXCEPT ![u] = FALSE]
    /\ GoTo(u, "done")
    /\ UNCHANGED <<vault, audit, quarantine, dest, registers, user, budget>>

EnterQuarantine(u) ==
    /\ quarantine' = [quarantine EXCEPT ![u] = TRUE]
    /\ dest' = [dest EXCEPT ![D(u)] = FALSE]

Quarantine(u) ==
    /\ Live(u, "quarantine")
    /\ IF dest[D(u)]
         THEN EnterQuarantine(u) /\ GoTo(u, "trash")
         ELSE GoTo(u, "rollback") /\ UNCHANGED <<quarantine, dest>>
    /\ UNCHANGED <<vault, audit, staging, registers, user, budget>>

MoveToTrash(u) ==
    /\ Live(u, "trash")
    /\ quarantine' = [quarantine EXCEPT ![u] = FALSE]
    /\ GoTo(u, "finalize")
    /\ UNCHANGED <<vault, audit, staging, dest, registers, user, budget>>

(* finalize_or_rollback: the source decides. *)
Finalize(u) ==
    /\ Live(u, "finalize")
    /\ GoTo(u, IF source[TargetOf[u]] = "match" THEN "deactivate" ELSE "restore")
    /\ UNCHANGED <<vault, audit, links, registers, user, budget>>

Recheck(u) ==
    /\ Live(u, "recheck")
    /\ GoTo(u, IF source[TargetOf[u]] = "match" THEN "recordCommitted" ELSE "restore")
    /\ UNCHANGED <<vault, audit, links, registers, user, budget>>

(* deactivate_registration; its errors return without rollback_archive. *)
Retire(u) ==
    /\ registration' = [registration EXCEPT ![TargetOf[u]] = FALSE]
    /\ tombstone' = [tombstone EXCEPT ![TargetOf[u]] = TRUE]

Deactivate(u) ==
    /\ Running(u, "deactivate")
    /\ IF registration[TargetOf[u]] /\ ~tombstone[TargetOf[u]]
         THEN /\ Retire(u)
              /\ GoTo(u, IF vault = "open" THEN "recheck" ELSE "recordCommitted")
              /\ UNCHANGED vault
         ELSE Otherwise(u, "recordRestored") /\ UNCHANGED registers
    /\ UNCHANGED <<audit, links, user, budget>>

-----------------------------------------------------------------------------
(* The error paths: rollback_quarantine, rollback_archive, removals. *)

(* A file already back at the destination is never overwritten. *)
Rollback(u) ==
    /\ Running(u, "rollback")
    /\ IF quarantine[u] /\ ~dest[D(u)]
         THEN /\ quarantine' = [quarantine EXCEPT ![u] = FALSE]
              /\ dest' = [dest EXCEPT ![D(u)] = TRUE]
         ELSE UNCHANGED <<quarantine, dest>>
    /\ IF vault = "open"
         THEN GoTo(u, "unstage") /\ UNCHANGED vault
         ELSE IF (quarantine[u] => ~dest[D(u)]) /\ registration[TargetOf[u]]
                THEN GoTo(u, "recordAbandoned") /\ UNCHANGED vault
                ELSE Refuse
    /\ UNCHANGED <<audit, staging, registers, user, budget>>

Unstage(u) ==
    /\ Live(u, "unstage")
    /\ staging' = [staging EXCEPT ![u] = FALSE]
    /\ GoTo(u, "recordFailed")
    /\ UNCHANGED <<vault, audit, quarantine, dest, registers, user, budget>>

(* rollback_archive, its two file operations. *)
Restore(u) ==
    /\ Running(u, "restore")
    /\ dest' = [dest EXCEPT ![D(u)] = TRUE]
    /\ GoTo(u, "restoreRegistration")
    /\ UNCHANGED <<vault, audit, staging, quarantine, registers, user, budget>>

RestoreRegistration(u) ==
    /\ Running(u, "restoreRegistration")
    /\ LET o == TargetOf[u] IN
         IF ~registration[o] /\ tombstone[o]
           THEN /\ registration' = [registration EXCEPT ![o] = TRUE]
                /\ tombstone' = [tombstone EXCEPT ![o] = FALSE]
                /\ GoTo(u, "recordRestored") /\ UNCHANGED vault
           ELSE /\ UNCHANGED registers
                /\ IF registration[o] THEN GoTo(u, "recordRestored") /\ UNCHANGED vault
                                      ELSE Otherwise(u, "recordRestored")
    /\ UNCHANGED <<audit, links, user, budget>>

\* Mutant: the staged link goes whether or not the archive was restored.
DropRestoredUnseen(u) ==
    /\ Live(u, "dropRestored")
    /\ GoTo(u, "dropStaging")
    /\ UNCHANGED <<vault, audit, links, registers, user, budget>>

(* The staged link goes only once the archive is seen restored. *)
DropRestored(u) ==
    /\ Live(u, "dropRestored")
    /\ GoTo(u, IF dest[D(u)] /\ registration[TargetOf[u]] THEN "dropStaging" ELSE "done")
    /\ UNCHANGED <<vault, audit, links, registers, user, budget>>

DropStaging(u) ==
    /\ Running(u, "dropStaging")
    /\ staging' = [staging EXCEPT ![u] = FALSE]
    /\ GoTo(u, "done")
    /\ UNCHANGED <<vault, audit, quarantine, dest, registers, user, budget>>

-----------------------------------------------------------------------------
(* Failed file operations. *)

Fault == faults < MaxFaults /\ faults' = faults + 1 /\ UNCHANGED crashes

(* The step an undo takes after the file operation of this one failed. *)
AfterFault ==
    [createAudit |-> "refused",     recordProposed |-> "refused",
     reverify |-> "recordRefused",  recordRefused |-> "done",
     stage |-> "discard",           recordExecuting |-> "discard",
     discard |-> "done",            quarantine |-> "rollback",
     trash |-> "rollback",          rollback |-> "unstage",
     unstage |-> "recordFailed",    recordFailed |-> "done",
     finalize |-> "restore",        deactivate |-> "recordRestored",
     recheck |-> "restore",         restore |-> "recordRestored",
     restoreRegistration |-> "recordRestored", recordRestored |-> "dropRestored",
     dropRestored |-> "done",       recordCommitted |-> "done",
     dropStaging |-> "done"]

RecordExists(u) ==
    /\ vault = "open" /\ pc[u] \in DOMAIN SequenceOf /\ ~Numbered(u)
    /\ GoTo(u, AfterFault[pc[u]])
    /\ UNCHANGED <<vault, audit, links, registers, user, budget>>

(* The operation failed and left everything as it was. *)
StepFails(u) ==
    /\ vault = "open" /\ pc[u] \in DOMAIN AfterFault /\ Fault
    /\ GoTo(u, AfterFault[pc[u]])
    /\ UNCHANGED <<vault, audit, links, registers, user>>

(* The file was moved, and its verification at the new place failed. *)
VerificationFails(u) ==
    /\ vault = "open" /\ Fault
    /\ \/ /\ pc[u] = "quarantine" /\ dest[D(u)]
          /\ EnterQuarantine(u) /\ GoTo(u, "rollback")
          /\ UNCHANGED <<staging, registers>>
       \/ /\ pc[u] = "rollback" /\ quarantine[u] /\ ~dest[D(u)]
          /\ quarantine' = [quarantine EXCEPT ![u] = FALSE]
          /\ dest' = [dest EXCEPT ![D(u)] = TRUE]
          /\ GoTo(u, "unstage")
          /\ UNCHANGED <<staging, registers>>
       \/ /\ pc[u] = "restore" /\ ~dest[D(u)]
          /\ dest' = [dest EXCEPT ![D(u)] = TRUE]
          /\ GoTo(u, "recordRestored")
          /\ UNCHANGED <<staging, quarantine, registers>>
       \/ /\ pc[u] = "deactivate"           \* renamed back, then rollback_archive
          /\ registration[TargetOf[u]] /\ ~tombstone[TargetOf[u]]
          /\ GoTo(u, "restore")
          /\ UNCHANGED <<links, registers>>
    /\ UNCHANGED <<vault, audit, user>>

RecoveryFails(u) ==
    /\ vault = "reconciling" /\ pc[u] \notin AtRest /\ Fault
    /\ Refuse
    /\ dest' \in {dest} \cup IF pc[u] = "deactivate"     \* after rollback_archive
                              THEN {[dest EXCEPT ![D(u)] = TRUE]} ELSE {}
    /\ UNCHANGED <<audit, staging, quarantine, registers, user>>

-----------------------------------------------------------------------------
(* reconcile_vault: one undo after the other, in no particular order, before *)
(* the archive's own reconciliation.                                         *)

Busy == {u \in Undo : pc[u] \notin AtRest \cup {"inspect", "inspectKept"}}

BeginReconcile ==
    /\ vault \in {"closed", "refused"}
    /\ vault' = "reconciling"
    /\ pc' = [u \in Undo |-> IF ~auditDir[u] THEN pc[u]
                              ELSE IF pc[u] = "planned" THEN "inspectKept" ELSE "inspect"]
    /\ UNCHANGED <<audit, links, registers, user, budget>>

\* Mutant: the registration is not deactivated by the recovery.
RecoverExecutingRegistered(u) ==
    IF ~staging[u] THEN Refuse
    ELSE /\ GoTo(u, IF quarantine[u] THEN "rollback"
                    ELSE IF dest[D(u)] THEN "recordAbandoned"
                    ELSE IF source[TargetOf[u]] = "match" THEN "recordCommitted"
                    ELSE "restore")
         /\ UNCHANGED vault

\* Mutant: an archive already retired is not recognised by the recovery.
RecoverExecutingActiveOnly(u) ==
    IF ~staging[u] \/ ~registration[TargetOf[u]] THEN Refuse
    ELSE /\ GoTo(u, IF quarantine[u] THEN "rollback"
                    ELSE IF dest[D(u)] THEN "recordAbandoned"
                    ELSE IF source[TargetOf[u]] = "match" THEN "deactivate"
                    ELSE "restore")
         /\ UNCHANGED vault

(* reconcile_executing: what is left on disk tells how far the undo went. *)
RecoverExecuting(u) ==
    LET o == TargetOf[u] IN
    IF ~staging[u] THEN Refuse
    ELSE IF quarantine[u] THEN GoTo(u, "rollback") /\ UNCHANGED vault
    ELSE IF dest[D(u)]
      THEN IF registration[o] THEN GoTo(u, "recordAbandoned") /\ UNCHANGED vault
                              ELSE Refuse
    ELSE IF source[o] # "match" THEN GoTo(u, "restore") /\ UNCHANGED vault
    ELSE IF registration[o] THEN GoTo(u, "deactivate") /\ UNCHANGED vault
    ELSE IF tombstone[o] THEN GoTo(u, "recordCommitted") /\ UNCHANGED vault
    ELSE Refuse

(* The scan counts the audits it has passed before it reads one. *)
Passed == {u \in Audited : pc[u] \notin {"inspect", "inspectKept"}}
Accepts(u) == Cardinality(Passed) < MaxUndoOperations /\ Readable(u)

\* Mutant: an undo that failed is not passed over.
InspectSuccessesOnly(u) ==
    /\ vault = "reconciling" /\ pc[u] \in {"inspect", "inspectKept"} /\ Busy = {}
    /\ StateOf(u) # "Failed"
    /\ \/ ~Accepts(u) /\ Refuse
       \/ /\ Accepts(u) /\ StateOf(u) = "Proposed"
          /\ GoTo(u, IF pc[u] = "inspect" THEN "abandonPlan" ELSE "abandonKept")
          /\ UNCHANGED vault
       \/ Accepts(u) /\ StateOf(u) = "Executing" /\ RecoverExecuting(u)
       \/ /\ Accepts(u) /\ StateOf(u) \in Terminal
          /\ GoTo(u, IF pc[u] = "inspect" THEN "done" ELSE "planned")
          /\ UNCHANGED vault
    /\ UNCHANGED <<audit, links, registers, user, budget>>

Inspect(u) ==
    /\ vault = "reconciling" /\ pc[u] \in {"inspect", "inspectKept"} /\ Busy = {}
    /\ \/ ~Accepts(u) /\ Refuse
       \/ /\ Accepts(u) /\ StateOf(u) = "Proposed"
          /\ GoTo(u, IF pc[u] = "inspect" THEN "abandonPlan" ELSE "abandonKept")
          /\ UNCHANGED vault
       \/ Accepts(u) /\ StateOf(u) = "Executing" /\ RecoverExecuting(u)
       \/ /\ Accepts(u) /\ StateOf(u) \in Terminal
          /\ GoTo(u, IF pc[u] = "inspect" THEN "done" ELSE "planned")
          /\ UNCHANGED vault
    /\ UNCHANGED <<audit, links, registers, user, budget>>

(* archive::reconcile_vault: each Committed operation is either verified or  *)
(* verified to be undone (verify_committed, verify_committed_undo).          *)
Undone(o) == \E u \in Undo : TargetOf[u] = o /\ StateOf(u) = "Committed"
OperationVerified(o) ==
    IF Undone(o) THEN ~dest[DestOf[o]] /\ ~registration[o] /\ tombstone[o]
                 ELSE dest[DestOf[o]] /\ registration[o]

FinishReconcile ==
    /\ vault = "reconciling" /\ \A u \in Undo : pc[u] \in AtRest
    /\ IF \A o \in Op : archived[o] => OperationVerified(o)
         THEN vault' = "open" /\ UNCHANGED pc
         ELSE Refuse
    /\ UNCHANGED <<audit, links, registers, user, budget>>

-----------------------------------------------------------------------------
(* The rest of the program, as far as an undo meets it, and the user. *)

(* A whole archive transaction; require_absent refuses a taken destination. *)
Archive(o) ==
    /\ vault = "open" /\ ~archived[o] /\ source[o] = "match" /\ ~dest[DestOf[o]]
    /\ archived' = [archived EXCEPT ![o] = TRUE]
    /\ dest' = [dest EXCEPT ![DestOf[o]] = TRUE]
    /\ registration' = [registration EXCEPT ![o] = TRUE]
    /\ UNCHANGED <<vault, pc, audit, staging, quarantine, tombstone, source,
                   knowledge, saving, budget>>

(* save_document verifies the original, then writes without looking again. *)
VerifyForSave(o) ==
    /\ vault = "open" /\ o \in Saver /\ ~saving[o] /\ ~knowledge[o]
    /\ Registered(o)
    /\ saving' = [saving EXCEPT ![o] = TRUE]
    /\ UNCHANGED <<vault, pc, audit, links, registers, archived, source, knowledge, budget>>

WriteKnowledge(o) ==
    /\ saving[o]
    /\ saving' = [saving EXCEPT ![o] = FALSE]
    /\ knowledge' = [knowledge EXCEPT ![o] = TRUE]
    /\ UNCHANGED <<vault, pc, audit, links, registers, archived, source, budget>>

SourceChanges(o) ==
    /\ source[o] = "match"
    /\ source' = [source EXCEPT ![o] = "changed"]
    /\ UNCHANGED <<vault, pc, audit, links, registers, archived, knowledge, saving, budget>>

(* The application is closed while nothing runs: plans live in memory. *)
Quit ==
    /\ vault = "open" /\ \A u \in Undo : pc[u] \in AtRest
    /\ \A o \in Op : ~saving[o]
    /\ vault' = "closed" /\ pc' = Halted
    /\ UNCHANGED <<audit, links, registers, user, budget>>

(* confirm_transfer makes another Vault the authority once no lease is held, *)
(* and this one later again; the registry of plans outlives the exchange.    *)
TransferAway ==
    /\ vault = "open" /\ \A u \in Undo : pc[u] \in AtRest
    /\ \A o \in Op : ~saving[o]
    /\ vault' = "closed"
    /\ UNCHANGED <<pc, audit, links, registers, user, budget>>

(* A crash may leave the temporary file of a record that was being written. *)
Crash ==
    /\ crashes < MaxCrashes /\ vault # "closed"
    /\ crashes' = crashes + 1
    /\ vault' = "closed" /\ pc' = Halted
    /\ \E T \in SUBSET {u \in Undo : pc[u] \in RecordStep} :
          torn' = [u \in Undo |-> torn[u] \/ u \in T]
    /\ saving' = [o \in Op |-> FALSE]
    /\ UNCHANGED <<history, auditDir, links, registers, archived, source, knowledge, faults>>

-----------------------------------------------------------------------------
Execute(u) ==
    \/ CreateAudit(u) \/ WriteRecord(u) \/ RecordExists(u) \/ Reverify(u) \/ Stage(u) \/ Discard(u)
    \/ Quarantine(u) \/ MoveToTrash(u) \/ Finalize(u) \/ Deactivate(u) \/ Recheck(u)
    \/ Rollback(u) \/ Unstage(u) \/ Restore(u) \/ RestoreRegistration(u)
    \/ DropRestored(u) \/ DropStaging(u) \/ Inspect(u)

Failure(u) == StepFails(u) \/ VerificationFails(u) \/ RecoveryFails(u)

Next ==
    \/ \E u \in Undo : Create(u) \/ Confirm(u) \/ Expire(u) \/ Execute(u) \/ Failure(u)
    \/ \E o \in Op : Archive(o) \/ VerifyForSave(o) \/ WriteKnowledge(o) \/ SourceChanges(o)
    \/ BeginReconcile \/ FinishReconcile \/ Quit \/ TransferAway \/ Crash

Spec == Init /\ [][Next]_vars

(* A thread that runs goes on running; the user need not do anything. *)
Fairness == (\A u \in Undo : WF_vars(Execute(u))) /\ WF_vars(FinishReconcile)
FairSpec == Spec /\ Fairness
-----------------------------------------------------------------------------
(* Properties. *)

(* Every variable holds a value the code can give it. *)
TypeOK ==
    /\ vault \in {"closed", "reconciling", "open", "refused"}
    /\ pc \in [Undo -> Step]
    /\ history \in [Undo -> Seq(UndoState)]
    /\ auditDir \in [Undo -> BOOLEAN] /\ torn \in [Undo -> BOOLEAN]
    /\ staging \in [Undo -> BOOLEAN] /\ quarantine \in [Undo -> BOOLEAN]
    /\ dest \in [Dest -> BOOLEAN]
    /\ archived \in [Op -> BOOLEAN]
    /\ registration \in [Op -> BOOLEAN] /\ tombstone \in [Op -> BOOLEAN]
    /\ source \in [Op -> {"match", "changed"}]
    /\ knowledge \in [Op -> BOOLEAN] /\ saving \in [Op -> BOOLEAN]
    /\ faults \in 0..MaxFaults /\ crashes \in 0..MaxCrashes

(* The bytes of an archived original stay in the Vault, at the destination, in *)
(* a quarantine or as a staged link, until an undo is recorded Committed,      *)
(* whatever undos, failed file operations and crashes interleave (execute_with *)
(* stages a link before the trash, and gives it up only on the right exits).   *)
EverCommitted(d) ==
    \E u \in Undo : D(u) = d /\ \E i \in DOMAIN history[u] : history[u][i] = "Committed"
Copied(d) == dest[d] \/ \E u \in Undo : D(u) = d /\ (staging[u] \/ quarantine[u])
ArchiveCopyRemains ==
    \A o \in Op : archived[o] /\ ~EverCommitted(DestOf[o]) => Copied(DestOf[o])

(* The inductive strengthening of ArchiveCopyRemains: someone other than an    *)
(* undo about to give up its staged link holds the bytes, an undo past its     *)
(* staging owns its link, and a reconciliation that is about to unstage has    *)
(* put the file back and runs alone.                                           *)
GivingUp == {"recordExecuting", "quarantine", "trash", "rollback", "unstage",
             "discard", "dropStaging"}
Holds(u) == quarantine[u] \/ (staging[u] /\ pc[u] \notin GivingUp)
Held(d) == dest[d] \/ \E u \in Undo : D(u) = d /\ Holds(u)
ArchiveHeld == \A o \in Op : archived[o] /\ ~EverCommitted(DestOf[o]) => Held(DestOf[o])

Unstaged == {"idle", "createAudit", "recordProposed", "planned", "inspectKept",
             "abandonKept", "reverify", "stage"}
Staged == {"recordExecuting", "quarantine", "trash", "finalize", "deactivate",
           "recheck", "restore", "recordCommitted"}
StagedLinksOwned ==
    \A u \in Undo : (pc[u] \in Unstaged => ~staging[u]) /\ (pc[u] \in Staged => staging[u])

RestoredStep == {"restoreRegistration", "recordRestored", "recordAbandoned"}
RecoveryRestores ==
    \A u \in Undo :
        /\ vault = "reconciling" /\ pc[u] = "rollback" => quarantine[u]
        /\ vault = "reconciling" /\ pc[u] \in RestoredStep => dest[D(u)]
        /\ pc[u] = "recordAbandoned" => vault = "reconciling"
RecoveryAlone ==
    /\ vault = "reconciling" => \A u, w \in Undo : u \in Busy /\ w \in Busy => u = w
    /\ vault \in {"closed", "refused"} => Busy = {}
HoldInvariant == ArchiveHeld /\ StagedLinksOwned /\ RecoveryRestores /\ RecoveryAlone

(* Whatever writes the audit, an undo or a reconciliation, leaves a history    *)
(* that validate_history accepts: a plan that a reconciliation abandoned while *)
(* the registry kept it never executes, and no live record skips a number.     *)
ValidHistories ==
    {<<>>, <<"Proposed">>} \cup {<<"Proposed", s>> : s \in UndoState \ {"Proposed", "Committed"}}
        \cup {<<"Proposed", "Executing", s>> : s \in Terminal}
HistoriesAreReadable ==
    \A u \in Undo :
        /\ history[u] \in ValidHistories
        /\ vault = "open" /\ pc[u] \in RecordStep => Len(history[u]) >= SequenceOf[pc[u]]

(* The inductive strengthening of HistoriesAreReadable: the step an undo, or a *)
(* recovery of it, stands at tells what its audit says, and a reconciliation   *)
(* takes none but its own steps.                                               *)
Unrecorded == {"idle", "createAudit", "recordProposed"}
Unexecuted == {"planned", "inspectKept", "reverify", "stage", "recordExecuting",
               "recordRefused"}
Abandoning == {"abandonPlan", "abandonKept"}
Underway == {"quarantine", "trash", "rollback", "unstage", "finalize", "deactivate",
             "recheck", "restore", "restoreRegistration", "recordFailed",
             "recordRestored", "recordCommitted", "recordAbandoned"}
Fits(step, records) ==
    /\ records \in ValidHistories
    /\ step \in Unrecorded => records = <<>>
    /\ step \in Unexecuted => records \in {<<"Proposed">>, <<"Proposed", "Abandoned">>}
    /\ step \in Abandoning => records = <<"Proposed">>
    /\ step \in Underway => records = <<"Proposed", "Executing">>

RecoveryOnly == {"inspect", "inspectKept", "recordAbandoned"} \cup Abandoning
RecoveryStep == RecoveryOnly \cup {"rollback", "deactivate", "restore", "restoreRegistration",
                                    "recordRestored", "recordCommitted", "dropStaging"}
Allowed(step, v) ==
    /\ v = "open" => step \notin RecoveryOnly
    /\ v = "reconciling" => step \in AtRest \cup RecoveryStep
    /\ v \in {"closed", "refused"} => step \in AtRest
HistoryInvariant == \A u \in Undo : Fits(pc[u], history[u]) /\ Allowed(pc[u], vault)

(* An undo that ended Failed or Abandoned has left the original at its         *)
(* destination and registered, unless another undo of it runs or succeeded     *)
(* (the rollbacks of execute_with and of reconcile_executing).                 *)
FailedUndoKeepsArchive ==
    \A u \in Undo :
        /\ pc[u] = "done" /\ StateOf(u) \in {"Failed", "Abandoned"}
        /\ \A w \in Undo \ {u} : TargetOf[w] = TargetOf[u] =>
                StateOf(w) \notin {"Executing", "Committed"}
        => dest[D(u)] /\ registration[TargetOf[u]]

(* An undo recorded Committed has its destination and active registration     *)
(* gone and its tombstone in place: verify_committed_undo, on which every      *)
(* reader of originals and every later opening depend, succeeds.               *)
CommittedUndoIsRetired ==
    \A u \in Undo : StateOf(u) = "Committed" =>
        ~dest[D(u)] /\ ~registration[TargetOf[u]] /\ tombstone[TargetOf[u]]

(* The outcome that an undo reports is the state of the archive: taken back as *)
(* a whole, or kept as a whole.                                                *)
OutcomesHold == FailedUndoKeepsArchive /\ CommittedUndoIsRetired

(* The inductive strengthening of OutcomesHold and RefusalHasCause, which hold *)
(* when no file operation fails, each operation has a destination of its own   *)
(* and one undo at most: what stands on disk at each step of an undo, and what *)
(* a crash there leaves behind.                                                *)
AsArchived(u) ==
    LET o == TargetOf[u] IN dest[D(u)] /\ registration[o] /\ ~tombstone[o] /\ ~quarantine[u]
AsUndone(u) ==
    LET o == TargetOf[u] IN ~dest[D(u)] /\ ~registration[o] /\ tombstone[o] /\ ~quarantine[u]

\* The archive of an undo that executes, by its step; and after a crash at any of them.
Executed(u) ==
    LET o == TargetOf[u]
        retired == registration[o] # tombstone[o]
    IN  /\ staging[u] /\ retired
        /\ quarantine[u] => ~dest[D(u)] /\ registration[o]
        /\ pc[u] \in {"quarantine", "recordRestored", "recordAbandoned"} => AsArchived(u)
        /\ pc[u] \in {"trash", "rollback"} => quarantine[u]
        /\ pc[u] \in {"finalize", "deactivate"} => /\ registration[o]
                                                   /\ ~dest[D(u)] /\ ~quarantine[u]
        /\ pc[u] \in {"recheck", "recordCommitted"} => AsUndone(u)
        /\ pc[u] = "restore" => ~dest[D(u)] /\ ~quarantine[u]
        /\ pc[u] = "restoreRegistration" => dest[D(u)]
        /\ pc[u] \notin {"discard", "unstage", "dropStaging", "dropRestored"}

UndoInvariant(u) ==
    /\ history[u] # <<>> \/ pc[u] = "recordProposed" => auditDir[u]
    /\ pc[u] \notin {"unstage", "recordFailed"}
    /\ pc[u] = "rollback" => vault = "reconciling"
    /\ StateOf(u) \in {"None", "Proposed", "Failed", "Abandoned"} /\ archived[TargetOf[u]] =>
           AsArchived(u)
    /\ StateOf(u) = "Executing" => Executed(u) /\ (vault = "reconciling" => pc[u] \notin AtRest)
    /\ StateOf(u) = "Committed" => AsUndone(u)

ArchiveInvariant(o) ==
    /\ ~archived[o] =>
           /\ ~dest[DestOf[o]] /\ ~registration[o] /\ ~tombstone[o]
           /\ \A u \in Undo : TargetOf[u] = o => /\ pc[u] = "idle" /\ history[u] = <<>>
                                                 /\ ~auditDir[u] /\ ~quarantine[u]
    /\ archived[o] /\ (\A u \in Undo : TargetOf[u] # o) => dest[DestOf[o]] /\ registration[o]

OutcomeInvariant ==
    /\ \A u \in Undo : UndoInvariant(u)
    /\ \A o \in Op : ArchiveInvariant(o)

(* After crashes alone, the Vault refuses to open only over more undo audits   *)
(* than a scan may pass, an audit that cannot be read, or an archive restored  *)
(* without its registration; every other crash point is recovered              *)
(* (reconcile_vault, reconcile_executing).                                     *)
HalfRestored(u) == StateOf(u) = "Executing" /\ dest[D(u)] /\ ~registration[TargetOf[u]]
RefusalHasCause ==
    vault = "refused" =>
        \/ Cardinality(Audited) > MaxUndoOperations
        \/ \E u \in Undo : ~Readable(u) \/ HalfRestored(u)

(* The inductive strengthening of RefusalHasCause, beside OutcomeInvariant:    *)
(* finitely many audits were written, and a scan reads only those.             *)
AuditsCounted ==
    /\ IsFiniteSet(Audited)
    /\ \A u \in Undo : pc[u] \in {"inspect", "inspectKept"} => auditDir[u]

(* Every later opening of the Vault succeeds.  This does NOT hold: see         *)
(* "Divergences" in README.md.                                                 *)
NeverRefused == vault # "refused"

(* An operation taken back by an undo has no knowledge depending on it.  This  *)
(* does NOT hold: see "Divergences" in README.md.                              *)
UndoneHasNoKnowledge == \A o \in Op : Undone(o) => ~knowledge[o]

(* An undo that was begun or confirmed runs to its end, and an opening of the  *)
(* Vault is decided, unless the process stops.                                 *)
UndosSettle ==
    /\ \A u \in Undo : []<>(pc[u] \in AtRest \/ vault # "open")
    /\ []<>(vault # "reconciling")
=============================================================================
