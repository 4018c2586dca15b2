------------------------- MODULE ArchiveTransaction -------------------------
(***************************************************************************)
(* The archive transaction of src-tauri/src/archive/transaction.rs: how a  *)
(* reviewed source becomes a registered original of the Vault, one durable *)
(* record at a time, and how the next opening of the Vault resumes or      *)
(* abandons what a crash cut short.                                        *)
(*                                                                         *)
(* An operation is one item of one confirmed plan.  Confirmed plans run on *)
(* blocking threads (archive/mod.rs, confirm_archive_plan), so operations  *)
(* of different plans interleave at every file operation.                  *)
(*                                                                         *)
(* Abstractions.  Bytes are "good" (they hash to the reviewed identity) or *)
(* "bad".  Two operations share a destination only when they share the     *)
(* digest that names its directory, so "good" means the same for both.     *)
(* The SHA-256 chain of a record stream is represented by its sequence     *)
(* numbers: an operation is the only writer of its stream, and the chain   *)
(* breaks exactly when a number is skipped.                                *)
(***************************************************************************)
EXTENDS Integers, Sequences, FiniteSets

CONSTANTS
    Op,                     \* archive operations, one fresh UUID each
    Dest,                   \* destination paths Originals/<digest>/<name>
    DestOf,                 \* the destination each operation was reviewed for
    Reader,                 \* threads that list or read registered originals
    NoAnchor,               \* no terminal audit anchor on disk
    NoRead,                 \* the reader holds no stream
    MaxFaults,              \* bound: failed file operations of the program
    MaxCrashes,             \* bound: process crashes
    MaxDamage,              \* bound: Vault files the user damages or removes
    MaxOperationRecords     \* MAX_OPERATION_RECORDS, journal entries readable

ASSUME DestOfAssumption == DestOf \in [Op -> Dest]
ASSUME BoundsAssumption == /\ MaxFaults \in Nat
                           /\ MaxCrashes \in Nat
                           /\ MaxDamage \in Nat
                           /\ MaxOperationRecords \in Nat

(* OperationState *)
Terminal == {"Committed", "Failed", "Abandoned"}
State == {"Proposed", "Copying", "Verified"} \cup Terminal
Record == [seq : Nat, state : State]

ASSUME SentinelAssumption == /\ NoAnchor \notin Record
                             /\ NoRead \notin [op : Op, anchor : Record]

VARIABLES
    vault,          \* closed, reconciling, open or refused by reconciliation
    pc,             \* the next file operation of each archive operation
    memory,         \* OperationContext.record
    exposed,        \* OperationContext.target_exposed
    journal,        \* .aiks/operations, the records of each stream in order
    anchor,         \* .aiks/archive-audit-anchors
    staging,        \* .aiks/staging/<operation>.part
    pending,        \* .aiks/pending-registrations/<operation>.json exists
    registration,   \* .aiks/registrations/<operation>.json exists
    dest,           \* Originals/<digest>/<name>
    source,         \* the reviewed source still matches its identity
    result,         \* the status returned to the desktop for each item
    reads,          \* the stream a reader verified and will anchor
    faults, crashes, damage

files == <<staging, pending, registration, dest>>
audit == <<journal, anchor>>
budget == <<faults, crashes, damage>>
vars == <<vault, pc, memory, exposed, journal, anchor, staging, pending,
          registration, dest, source, result, reads, faults, crashes, damage>>

-----------------------------------------------------------------------------
(* Steps of a commit, of a rejection, and of a reconciliation. *)
CommitStep == {"verifySource", "recordCopying", "createStaging", "copy",
               "verifyStaging", "recordVerified", "writePending", "expose",
               "promote", "recordCommitted"}
AnchorStep == {"anchor", "writeAnchor", "dropStaging"}
RejectStep == {"removeWork", "removeRegistration", "removeDestination",
               "recordFailed"}
RecoverStep == {"load", "writeLoaded", "loaded", "recordAbandoned",
                "recordRecovered"}
Step == {"idle", "stopped", "done"}
            \cup CommitStep \cup AnchorStep \cup RejectStep \cup RecoverStep

Content == {"absent", "good", "bad"}

Latest(o) == journal[o][Len(journal[o])]
Started(o) == journal[o] # <<>>
StateOf(o) == IF Started(o) THEN Latest(o).state ELSE "None"

GoTo(o, step) == pc' = [pc EXCEPT ![o] = step]
Live(o, step) == vault = "open" /\ pc[o] = step
Recovering(o, step) == vault = "reconciling" /\ pc[o] = step

(* transition_required: the record in memory moves to its next state before  *)
(* the record file is written, whether or not the write then succeeds.       *)
AdvancedRecord(o, state) == [seq |-> memory[o].seq + 1, state |-> state]
Advance(o, state) == memory' = [memory EXCEPT ![o] = AdvancedRecord(o, state)]
Persist(o, state) ==
    /\ Advance(o, state)
    /\ journal' = [journal EXCEPT ![o] = Append(@, AdvancedRecord(o, state))]

(* The step that follows a rejection: cleanup_rejected_operation. *)
Reject(o) == GoTo(o, "removeWork")

(* A process that stops keeps only what is on disk. *)
Halted == [o \in Op |-> IF pc[o] \in {"idle", "done"} THEN pc[o] ELSE "stopped"]
Refuse == vault' = "refused" /\ pc' = Halted

Init ==
    /\ vault = "closed"
    /\ pc = [o \in Op |-> "idle"]
    /\ memory = [o \in Op |-> [seq |-> 0, state |-> "Proposed"]]
    /\ exposed = [o \in Op |-> FALSE]
    /\ journal = [o \in Op |-> <<>>]
    /\ anchor = [o \in Op |-> NoAnchor]
    /\ staging = [o \in Op |-> "absent"]
    /\ pending = [o \in Op |-> FALSE]
    /\ registration = [o \in Op |-> FALSE]
    /\ dest = [d \in Dest |-> "absent"]
    /\ source = [o \in Op |-> "match"]
    /\ result = [o \in Op |-> "none"]
    /\ reads = [r \in Reader |-> NoRead]
    /\ faults = 0 /\ crashes = 0 /\ damage = 0

-----------------------------------------------------------------------------
(* commit_one and execute_operation, in program order. *)

Start(o) ==
    /\ Live(o, "idle")
    /\ journal' = [journal EXCEPT ![o] = <<memory[o]>>]
    /\ GoTo(o, "verifySource")
    /\ UNCHANGED <<vault, memory, exposed, anchor, files, source, result, reads, budget>>

VerifySource(o) ==
    /\ Live(o, "verifySource")
    /\ \/ source[o] = "match" /\ GoTo(o, "recordCopying")
       \/ source[o] = "changed" /\ Reject(o)
    /\ UNCHANGED <<vault, memory, exposed, audit, files, source, result, reads, budget>>

RecordCopying(o) ==
    /\ Live(o, "recordCopying")
    /\ Persist(o, "Copying")
    /\ GoTo(o, "createStaging")
    /\ UNCHANGED <<vault, exposed, anchor, files, source, result, reads, budget>>

CreateStaging(o) ==
    /\ Live(o, "createStaging")
    /\ staging' = [staging EXCEPT ![o] = "bad"]     \* nothing copied yet
    /\ GoTo(o, "copy")
    /\ UNCHANGED <<vault, memory, exposed, audit, pending, registration, dest,
                   source, result, reads, budget>>

Copy(o) ==
    /\ Live(o, "copy")
    /\ staging' = [staging EXCEPT ![o] = IF source[o] = "match" THEN "good" ELSE "bad"]
    /\ GoTo(o, "verifyStaging")
    /\ UNCHANGED <<vault, memory, exposed, audit, pending, registration, dest,
                   source, result, reads, budget>>

\* Mutant: the staged file is not hashed.
VerifyStagingUnhashed(o) ==
    /\ Live(o, "verifyStaging")
    /\ GoTo(o, "recordVerified")
    /\ UNCHANGED <<vault, memory, exposed, audit, files, source, result, reads, budget>>

(* The staged bytes and the source, opened anew, must both match. *)
VerifyStaging(o) ==
    /\ Live(o, "verifyStaging")
    /\ IF staging[o] = "good" /\ source[o] = "match"
         THEN GoTo(o, "recordVerified")
         ELSE Reject(o)
    /\ UNCHANGED <<vault, memory, exposed, audit, files, source, result, reads, budget>>

RecordVerified(o) ==
    /\ Live(o, "recordVerified")
    /\ Persist(o, "Verified")
    /\ GoTo(o, "writePending")
    /\ UNCHANGED <<vault, exposed, anchor, files, source, result, reads, budget>>

WritePending(o) ==
    /\ Live(o, "writePending")
    /\ pending' = [pending EXCEPT ![o] = TRUE]
    /\ GoTo(o, "expose")
    /\ UNCHANGED <<vault, memory, exposed, audit, staging, registration, dest,
                   source, result, reads, budget>>

(* require_absent, then hard_link, which also fails on an existing name. *)
Expose(o) ==
    /\ Live(o, "expose")
    /\ IF dest[DestOf[o]] = "absent"
         THEN /\ dest' = [dest EXCEPT ![DestOf[o]] = staging[o]]
              /\ exposed' = [exposed EXCEPT ![o] = TRUE]
              /\ GoTo(o, "promote")
         ELSE Reject(o) /\ UNCHANGED <<dest, exposed>>
    /\ UNCHANGED <<vault, memory, audit, staging, pending, registration,
                   source, result, reads, budget>>

Promote(o) ==
    /\ Live(o, "promote")
    /\ pending' = [pending EXCEPT ![o] = FALSE]
    /\ registration' = [registration EXCEPT ![o] = TRUE]
    /\ GoTo(o, "recordCommitted")
    /\ UNCHANGED <<vault, memory, exposed, audit, staging, dest, source, result,
                   reads, budget>>

RecordCommitted(o) ==
    /\ Live(o, "recordCommitted")
    /\ Persist(o, "Committed")
    /\ GoTo(o, "anchor")
    /\ UNCHANGED <<vault, exposed, anchor, files, source, result, reads, budget>>

-----------------------------------------------------------------------------
(* persist_terminal_anchor: inspect the anchor, then write it if absent.     *)
(* The caller is a commit, a rejection, or a reconciliation that has just    *)
(* recorded the operation's terminal state.                                  *)

Anchored(o) ==
    /\ IF memory[o].state = "Committed"
         THEN GoTo(o, "dropStaging") /\ UNCHANGED result
         ELSE /\ GoTo(o, "done")
              /\ result' = IF vault = "open" THEN [result EXCEPT ![o] = "failed"]
                                             ELSE result
    /\ UNCHANGED vault

AnchorRejected(o) ==
    \/ /\ vault = "open" /\ memory[o].state = "Committed"
       /\ Reject(o)
       /\ UNCHANGED <<vault, result>>
    \/ /\ vault = "open" /\ memory[o].state = "Failed"
       /\ GoTo(o, "done")
       /\ result' = [result EXCEPT ![o] = "failed"]
       /\ UNCHANGED vault
    \/ vault = "reconciling" /\ Refuse /\ UNCHANGED result

InspectAnchor(o) ==
    /\ vault \in {"open", "reconciling"} /\ pc[o] = "anchor"
    /\ \/ anchor[o] = NoAnchor /\ GoTo(o, "writeAnchor") /\ UNCHANGED <<vault, result>>
       \/ anchor[o] = memory[o] /\ Anchored(o)
       \/ anchor[o] \notin {NoAnchor, memory[o]} /\ AnchorRejected(o)
    /\ UNCHANGED <<memory, exposed, audit, files, source, reads, budget>>

WriteAnchor(o) ==
    /\ vault \in {"open", "reconciling"} /\ pc[o] = "writeAnchor"
    /\ IF anchor[o] = NoAnchor
         THEN anchor' = [anchor EXCEPT ![o] = memory[o]] /\ Anchored(o)
         ELSE AnchorRejected(o) /\ UNCHANGED anchor      \* "already exists"
    /\ UNCHANGED <<memory, exposed, journal, files, source, reads, budget>>

DropStaging(o) ==
    /\ vault \in {"open", "reconciling"} /\ pc[o] = "dropStaging"
    /\ staging' = [staging EXCEPT ![o] = "absent"]
    /\ result' = IF vault = "open" THEN [result EXCEPT ![o] = "committed"] ELSE result
    /\ GoTo(o, "done")
    /\ UNCHANGED <<vault, memory, exposed, audit, pending, registration, dest,
                   source, reads, budget>>

-----------------------------------------------------------------------------
(* cleanup_rejected_operation, then the Failed record of commit_one. *)

RemoveWork(o) ==
    /\ Live(o, "removeWork")
    /\ staging' = [staging EXCEPT ![o] = "absent"]
    /\ pending' = [pending EXCEPT ![o] = FALSE]
    /\ GoTo(o, "removeRegistration")
    /\ UNCHANGED <<vault, memory, exposed, audit, registration, dest, source,
                   result, reads, budget>>

RemoveRegistration(o) ==
    /\ Live(o, "removeRegistration")
    /\ registration' = [registration EXCEPT ![o] = FALSE]
    /\ GoTo(o, "removeDestination")
    /\ UNCHANGED <<vault, memory, exposed, audit, staging, pending, dest, source,
                   result, reads, budget>>

\* Mutant: target_exposed is not consulted.
RemoveAnyDestination(o) ==
    /\ Live(o, "removeDestination")
    /\ dest' = [dest EXCEPT ![DestOf[o]] = "absent"]
    /\ GoTo(o, "recordFailed")
    /\ UNCHANGED <<vault, memory, exposed, audit, staging, pending, registration,
                   source, result, reads, budget>>

RemoveDestination(o) ==
    /\ Live(o, "removeDestination")
    /\ dest' = IF exposed[o] THEN [dest EXCEPT ![DestOf[o]] = "absent"] ELSE dest
    /\ GoTo(o, "recordFailed")
    /\ UNCHANGED <<vault, memory, exposed, audit, staging, pending, registration,
                   source, result, reads, budget>>

RecordFailed(o) ==
    /\ Live(o, "recordFailed")
    /\ Persist(o, "Failed")
    /\ GoTo(o, "anchor")
    /\ UNCHANGED <<vault, exposed, anchor, files, source, result, reads, budget>>

-----------------------------------------------------------------------------
(* Failed file operations.  Each leaves the file as it was (write_new_bytes  *)
(* publishes by a rename that comes last).                                   *)

Fault == faults < MaxFaults /\ faults' = faults + 1

Finish(o, outcome) == GoTo(o, "done") /\ result' = [result EXCEPT ![o] = outcome]

(* The first record cannot be written: commit_one returns before executing. *)
StartFails(o) ==
    /\ Live(o, "idle") /\ Fault
    /\ Finish(o, "failed")
    /\ UNCHANGED <<vault, memory, exposed, audit, files, source, reads, crashes, damage>>

RecordedState == [recordCopying |-> "Copying", recordVerified |-> "Verified",
                  recordCommitted |-> "Committed", recordFailed |-> "Failed",
                  recordAbandoned |-> "Abandoned", recordRecovered |-> "Committed"]

CommitFails(o) ==
    /\ vault = "open" /\ pc[o] \in CommitStep /\ Fault
    /\ IF pc[o] \in DOMAIN RecordedState
         THEN Advance(o, RecordedState[pc[o]])
         ELSE UNCHANGED memory
    /\ Reject(o)
    /\ UNCHANGED <<vault, exposed, audit, files, source, result, reads, crashes, damage>>

AnchorFails(o) ==
    /\ vault = "open" /\ pc[o] \in {"anchor", "writeAnchor"} /\ Fault
    /\ AnchorRejected(o)
    /\ UNCHANGED <<memory, exposed, audit, files, source, reads, crashes, damage>>

(* Removal is best effort: a failure is swallowed and the next step follows. *)
AfterRemoval == [removeWork |-> "removeRegistration",
                 removeRegistration |-> "removeDestination",
                 removeDestination |-> "recordFailed"]

RemovalFails(o) ==
    /\ vault = "open" /\ pc[o] \in DOMAIN AfterRemoval /\ Fault
    /\ GoTo(o, AfterRemoval[pc[o]])
    /\ UNCHANGED <<vault, memory, exposed, audit, files, source, result, reads,
                   crashes, damage>>

(* Neither the Failed record nor the staging file decides the result. *)
LastStepFails(o) ==
    /\ Fault
    /\ \/ Live(o, "recordFailed") /\ Advance(o, "Failed") /\ Finish(o, "failed")
       \/ Live(o, "dropStaging") /\ UNCHANGED memory /\ Finish(o, "committed")
    /\ UNCHANGED <<vault, exposed, audit, files, source, reads, crashes, damage>>

-----------------------------------------------------------------------------
(* reconcile_vault, called by VaultAuthorityRegistry::authorize_path before  *)
(* the directory becomes the authoritative Vault.  It runs on one thread and *)
(* takes the operations in no particular order (a HashMap).                  *)

RecordCount == Cardinality(UNION {{o} \X DOMAIN journal[o] : o \in Op})

(* verify_operation_audit_stream *)
StreamSound(o) ==
    /\ \A i \in DOMAIN journal[o] : journal[o][i].seq + 1 = i
    /\ anchor[o] \in {NoAnchor, Latest(o)}

Busy == {o \in Op : pc[o] \in {"writeLoaded", "recordAbandoned", "recordRecovered",
                               "anchor", "writeAnchor", "dropStaging"}}

BeginReconcile ==
    /\ vault \in {"closed", "refused"}
    /\ IF RecordCount <= MaxOperationRecords
         THEN /\ vault' = "reconciling"
              /\ pc' = [o \in Op |-> IF Started(o) THEN "load" ELSE pc[o]]
         ELSE Refuse
    /\ UNCHANGED <<memory, exposed, audit, files, source, result, reads, budget>>

(* latest_operation_records: verify the stream; anchor a terminal one. *)
LoadStream(o) ==
    /\ Recovering(o, "load") /\ Started(o) /\ Busy = {}
    /\ IF StreamSound(o)
         THEN /\ memory' = [memory EXCEPT ![o] = Latest(o)]
              /\ IF anchor[o] = NoAnchor /\ StateOf(o) \in Terminal
                   THEN GoTo(o, "writeLoaded")
                   ELSE GoTo(o, "loaded")
              /\ UNCHANGED vault
         ELSE Refuse /\ UNCHANGED memory
    /\ UNCHANGED <<exposed, audit, files, source, result, reads, budget>>

WriteLoadedAnchor(o) ==
    /\ Recovering(o, "writeLoaded")
    /\ IF anchor[o] = NoAnchor
         THEN /\ anchor' = [anchor EXCEPT ![o] = memory[o]]
              /\ GoTo(o, "loaded")
              /\ UNCHANGED vault
         ELSE Refuse /\ UNCHANGED anchor
    /\ UNCHANGED <<memory, exposed, journal, files, source, result, reads, budget>>

AllLoaded == \A o \in Op : pc[o] \notin {"load", "writeLoaded"}
CanRecover(o) == Recovering(o, "loaded") /\ AllLoaded /\ Busy = {}

RemoveLeftovers(o) ==
    /\ staging' = [staging EXCEPT ![o] = "absent"]
    /\ pending' = [pending EXCEPT ![o] = FALSE]

\* Mutant: committed originals are not verified.
RecoverTerminalUnverified(o) ==
    /\ CanRecover(o) /\ memory[o].state \in Terminal
    /\ RemoveLeftovers(o) /\ GoTo(o, "done")
    /\ UNCHANGED <<vault, memory, exposed, audit, registration, dest, source,
                   result, reads, budget>>

(* A Committed operation must still have its original and registration. *)
RecoverTerminal(o) ==
    /\ CanRecover(o) /\ memory[o].state \in Terminal
    /\ IF memory[o].state = "Committed"
            /\ ~(registration[o] /\ dest[DestOf[o]] = "good")
         THEN Refuse /\ UNCHANGED <<staging, pending>>
         ELSE RemoveLeftovers(o) /\ GoTo(o, "done") /\ UNCHANGED vault
    /\ UNCHANGED <<memory, exposed, audit, registration, dest, source, result,
                   reads, budget>>

\* Mutant: a Verified operation is abandoned even after its exposure.
RecoverVerifiedAsUnexposed(o) ==
    /\ CanRecover(o) /\ memory[o].state \notin Terminal
    /\ RemoveLeftovers(o)
    /\ registration' = [registration EXCEPT ![o] = FALSE]
    /\ GoTo(o, "recordAbandoned")
    /\ UNCHANGED <<vault, memory, exposed, audit, dest, source, result, reads, budget>>

\* Mutant: abandoning also removes the destination.
RecoverRemovingDestination(o) ==
    /\ CanRecover(o) /\ memory[o].state \notin Terminal
    /\ RemoveLeftovers(o)
    /\ registration' = [registration EXCEPT ![o] = FALSE]
    /\ dest' = [dest EXCEPT ![DestOf[o]] = "absent"]
    /\ GoTo(o, "recordAbandoned")
    /\ UNCHANGED <<vault, memory, exposed, audit, source, result, reads, budget>>

\* Mutant: operations interrupted while copying are forgotten.
RecoverProposedOnly(o) ==
    /\ CanRecover(o)
    /\ \/ memory[o].state = "Proposed"
       \/ memory[o].state = "Verified" /\ dest[DestOf[o]] = "absent"
    /\ RemoveLeftovers(o)
    /\ registration' = [registration EXCEPT ![o] = FALSE]
    /\ GoTo(o, "recordAbandoned")
    /\ UNCHANGED <<vault, memory, exposed, audit, dest, source, result, reads, budget>>

RecoverUnexposed(o) ==
    /\ CanRecover(o)
    /\ \/ memory[o].state \in {"Proposed", "Copying"}
       \/ memory[o].state = "Verified" /\ dest[DestOf[o]] = "absent"
    /\ RemoveLeftovers(o)
    /\ registration' = [registration EXCEPT ![o] = FALSE]
    /\ GoTo(o, "recordAbandoned")
    /\ UNCHANGED <<vault, memory, exposed, audit, dest, source, result, reads, budget>>

(* recover_registration: keep, promote or write the registration. *)
RecoverExposed(o) ==
    /\ CanRecover(o)
    /\ memory[o].state = "Verified" /\ dest[DestOf[o]] # "absent"
    /\ IF dest[DestOf[o]] = "good"
         THEN /\ registration' = [registration EXCEPT ![o] = TRUE]
              /\ pending' = IF registration[o] THEN pending
                                               ELSE [pending EXCEPT ![o] = FALSE]
              /\ GoTo(o, "recordRecovered")
              /\ UNCHANGED vault
         ELSE Refuse /\ UNCHANGED <<registration, pending>>
    /\ UNCHANGED <<memory, exposed, audit, staging, dest, source, result, reads, budget>>

RecordRecovery(o) ==
    /\ \/ Recovering(o, "recordAbandoned") /\ Persist(o, "Abandoned")
       \/ Recovering(o, "recordRecovered") /\ Persist(o, "Committed")
    /\ GoTo(o, "anchor")
    /\ UNCHANGED <<vault, exposed, anchor, files, source, result, reads, budget>>

FinishReconcile ==
    /\ vault = "reconciling" /\ \A o \in Op : pc[o] \in {"idle", "done"}
    /\ vault' = "open"
    /\ UNCHANGED <<pc, memory, exposed, audit, files, source, result, reads, budget>>

(* Any failed file operation ends the reconciliation with an error. *)
RecoveryFails(o) ==
    /\ vault = "reconciling" /\ pc[o] \in RecoverStep \cup AnchorStep /\ Fault
    /\ Refuse
    /\ UNCHANGED <<memory, exposed, audit, files, source, result, reads, crashes, damage>>

-----------------------------------------------------------------------------
(* verified_registered_original and list_verified_registered_originals, which *)
(* the knowledge, undo, cleanup and agent paths call on threads of their own: *)
(* reading a stream that ends in an unanchored terminal record anchors it.    *)

ReadStream(r, o) ==
    /\ reads[r] = NoRead /\ Started(o)
    /\ StreamSound(o) /\ anchor[o] = NoAnchor /\ StateOf(o) \in Terminal
    /\ reads' = [reads EXCEPT ![r] = [op |-> o, anchor |-> Latest(o)]]
    /\ UNCHANGED <<vault, pc, memory, exposed, audit, files, source, result, budget>>

AnchorRead(r) ==
    /\ reads[r] # NoRead
    /\ LET o == reads[r].op IN
         anchor' = IF anchor[o] = NoAnchor
                     THEN [anchor EXCEPT ![o] = reads[r].anchor]
                     ELSE anchor
    /\ reads' = [reads EXCEPT ![r] = NoRead]
    /\ UNCHANGED <<vault, pc, memory, exposed, journal, files, source, result, budget>>

-----------------------------------------------------------------------------
(* The environment: crashes, edits of the source, damage to Vault files. *)

Crash ==
    /\ crashes < MaxCrashes /\ vault # "closed"
    /\ crashes' = crashes + 1
    /\ vault' = "closed"
    /\ pc' = Halted
    /\ exposed' = [o \in Op |-> FALSE]
    /\ reads' = [r \in Reader |-> NoRead]
    /\ UNCHANGED <<memory, audit, files, source, result, faults, damage>>

SourceChanges(o) ==
    /\ source[o] = "match"
    /\ source' = [source EXCEPT ![o] = "changed"]
    /\ UNCHANGED <<vault, pc, memory, exposed, audit, files, result, reads, budget>>

(* The user edits, removes or plants Vault files, not during an opening. *)
Damage ==
    /\ damage < MaxDamage /\ vault # "reconciling"
    /\ damage' = damage + 1
    /\ \/ \E d \in Dest : \E content \in {"absent", "bad"} \ {dest[d]} :
            dest' = [dest EXCEPT ![d] = content] /\ UNCHANGED registration
       \/ \E o \in {p \in Op : registration[p]} :
            registration' = [registration EXCEPT ![o] = FALSE] /\ UNCHANGED dest
    /\ UNCHANGED <<vault, pc, memory, exposed, audit, staging, pending, source,
                   result, reads, faults, crashes>>

-----------------------------------------------------------------------------
Commit(o) ==
    \/ VerifySource(o) \/ RecordCopying(o) \/ CreateStaging(o) \/ Copy(o)
    \/ VerifyStaging(o) \/ RecordVerified(o) \/ WritePending(o) \/ Expose(o)
    \/ Promote(o) \/ RecordCommitted(o)
    \/ InspectAnchor(o) \/ WriteAnchor(o) \/ DropStaging(o)

Rejection(o) ==
    \/ RemoveWork(o) \/ RemoveRegistration(o) \/ RemoveDestination(o)
    \/ RecordFailed(o)

Recovery(o) ==
    \/ LoadStream(o) \/ WriteLoadedAnchor(o) \/ RecoverTerminal(o)
    \/ RecoverUnexposed(o) \/ RecoverExposed(o) \/ RecordRecovery(o)

Failure(o) ==
    \/ StartFails(o) \/ CommitFails(o) \/ AnchorFails(o) \/ RemovalFails(o)
    \/ LastStepFails(o) \/ RecoveryFails(o)

Next ==
    \/ \E o \in Op : \/ Start(o) \/ Commit(o) \/ Rejection(o) \/ Recovery(o)
                     \/ Failure(o) \/ SourceChanges(o)
    \/ \E r \in Reader : AnchorRead(r) \/ \E o \in Op : ReadStream(r, o)
    \/ BeginReconcile \/ FinishReconcile \/ Crash \/ Damage

Spec == Init /\ [][Next]_vars

(* Threads run to completion once started; nobody is obliged to start an     *)
(* operation, to open the Vault, to edit a source or to crash.               *)
Fairness ==
    /\ \A o \in Op : WF_vars(Commit(o) \/ Rejection(o) \/ Recovery(o))
    /\ WF_vars(FinishReconcile)

FairSpec == Spec /\ Fairness

-----------------------------------------------------------------------------
(* Properties. *)

AtRest == vault = "open" /\ \A o \in Op : pc[o] \in {"idle", "done"}
Preserved(o) == registration[o] /\ dest[DestOf[o]] = "good"

(* Every variable holds a value the code can give it. *)
TypeOK ==
    /\ vault \in {"closed", "reconciling", "open", "refused"}
    /\ pc \in [Op -> Step]
    /\ memory \in [Op -> Record]
    /\ exposed \in [Op -> BOOLEAN]
    /\ journal \in [Op -> Seq(Record)]
    /\ anchor \in [Op -> Record \cup {NoAnchor}]
    /\ staging \in [Op -> Content]
    /\ pending \in [Op -> BOOLEAN]
    /\ registration \in [Op -> BOOLEAN]
    /\ dest \in [Dest -> Content]
    /\ source \in [Op -> {"match", "changed"}]
    /\ result \in [Op -> {"none", "committed", "failed"}]
    /\ reads \in [Reader -> [op : Op, anchor : Record] \cup {NoRead}]
    /\ faults \in 0..MaxFaults /\ crashes \in 0..MaxCrashes /\ damage \in 0..MaxDamage

(* As long as nobody but the program touches the Vault's files, an item the   *)
(* desktop was told is Committed keeps its registration, its verified original *)
(* and its anchored Committed record whatever other operations, readers, failed *)
(* file operations and crashes do (commit_one, cleanup_rejected_operation,     *)
(* reconcile_vault).                                                           *)
ReportedCommitIsPreserved ==
    damage = 0 => \A o \in Op : result[o] = "committed" =>
        /\ Preserved(o)
        /\ Started(o) /\ Latest(o).state = "Committed" /\ anchor[o] = Latest(o)

VerifiedDestinations == \A d \in Dest : dest[d] # "bad"

(* Only bytes that hash to the reviewed identity are ever put at a destination, *)
(* whatever happens to the source while it is copied (execute_operation hashes *)
(* the staged file before hard_link): bytes that do not hash are the user's.   *)
OnlyVerifiedBytesExposed == damage = 0 => VerifiedDestinations

(* The inductive strengthening of ReportedCommitIsPreserved: an exposed       *)
(* original has one owner until its commit is reported or it is removed, and   *)
(* the owner's own files and records are complete at each step that relies on  *)
(* them.                                                                       *)
Committing(o) == \/ pc[o] \in {"recordCommitted", "dropStaging"}
                 \/ pc[o] \in {"anchor", "writeAnchor"} /\ memory[o].state = "Committed"
Owner(o) == \/ result[o] = "committed"
            \/ exposed[o] /\ (Committing(o) \/ pc[o] = "promote"
                                \/ pc[o] \in RejectStep \ {"recordFailed"})

OwnedOriginals ==
    /\ \A o \in Op : Owner(o) => dest[DestOf[o]] = "good"
    /\ \A o, p \in Op : Owner(o) /\ Owner(p) /\ DestOf[o] = DestOf[p] => o = p
CommitsComplete ==
    \A o \in Op :
        /\ vault = "open" /\ pc[o] = "promote" => exposed[o]
        /\ vault = "open" /\ Committing(o) => exposed[o] /\ registration[o]
        /\ vault # "open" => ~exposed[o]
        /\ pc[o] \in {"idle"} \cup (CommitStep \ {"promote", "recordCommitted"}) => ~exposed[o]
        /\ pc[o] \in {"recordVerified", "writePending", "expose"} => staging[o] = "good"
RecordsCurrent ==
    \A o \in Op :
        /\ pc[o] \in AnchorStep \cup {"writeLoaded", "loaded"} =>
                Started(o) /\ memory[o] = Latest(o)
        /\ pc[o] = "dropStaging" =>
                memory[o].state = "Committed" /\ anchor[o] = memory[o]
ReportsFinal ==
    \A o \in Op : result[o] = "committed" =>
        /\ pc[o] \in {"done", "stopped", "load", "writeLoaded", "loaded"}
        /\ registration[o]
        /\ Started(o) /\ Latest(o).state = "Committed" /\ anchor[o] = Latest(o)

CommitInvariant ==
    VerifiedDestinations /\ OwnedOriginals /\ CommitsComplete
        /\ RecordsCurrent /\ ReportsFinal

(* A registration never outlives or precedes its verified original            *)
(* (promote_registration follows hard_link; a rejection removes it first).     *)
RegisteredOriginalExists ==
    \A o \in Op : registration[o] => dest[DestOf[o]] = "good"

(* When the Vault is open and nothing runs, no original stands in it without   *)
(* a committed operation that registers it.                                    *)
NoUnregisteredOriginal ==
    AtRest => \A d \in Dest : dest[d] # "absent" =>
        \E o \in Op : DestOf[o] = d /\ registration[o] /\ StateOf(o) = "Committed"

(* When the Vault is open and nothing runs, no operation is left between       *)
(* Proposed and its terminal state, and none leaves staging or a pending       *)
(* registration behind.                                                        *)
NothingLeftUnderway ==
    AtRest => \A o \in Op : Started(o) =>
        /\ StateOf(o) \in Terminal /\ anchor[o] = Latest(o)
        /\ staging[o] = "absent" /\ ~pending[o]

(* Each stream on disk can be read back: its chain is unbroken and its anchor, *)
(* when there is one, is its last record (verify_operation_audit_stream).  It  *)
(* does NOT hold: README.md, "Divergences", says in which instances it fails.  *)
StreamsReadable == \A o \in Op : Started(o) => StreamSound(o)

(* A stream whose last record is anchored Committed has its original and its   *)
(* registration: verify_committed, which decides if the Vault opens, succeeds. *)
AnchoredCommitIsBacked ==
    \A o \in Op : anchor[o] # NoAnchor /\ anchor[o].state = "Committed" => Preserved(o)

(* The files of the Vault and the records about them agree, at every step and  *)
(* the more so at rest: whatever crashes come between two steps of             *)
(* execute_operation, the next opening tells from the files alone what to keep *)
(* (reconcile_operation, cleanup_rejected_operation).                          *)
FilesMatchRecords ==
    /\ RegisteredOriginalExists
    /\ AnchoredCommitIsBacked
    /\ NoUnregisteredOriginal
    /\ NothingLeftUnderway

(* The inductive strengthening of FilesMatchRecords, which CommitInvariant     *)
(* completes: with crashes alone, the step an operation stands at tells its    *)
(* stream, a stream is anchored once and last, and every original at a         *)
(* destination has an operation that committed it or will.                     *)
StreamFollowsStep(o) ==
    /\ pc[o] = "idle" => ~Started(o) /\ memory[o].state = "Proposed"
    /\ pc[o] \in CommitStep \cup RejectStep \cup {"recordAbandoned", "recordRecovered"} =>
            StateOf(o) \notin Terminal \cup {"None"}
    /\ pc[o] \in {"writePending", "expose", "promote", "recordCommitted",
                  "recordRecovered"} => StateOf(o) = "Verified"
    /\ pc[o] \in AnchorStep \cup {"writeLoaded"} => StateOf(o) \in Terminal
AnchorIsLast(o) ==
    /\ anchor[o] # NoAnchor => anchor[o] = Latest(o) /\ StateOf(o) \in Terminal
    /\ pc[o] \in {"anchor", "writeAnchor"} => anchor[o] = NoAnchor
    /\ pc[o] = "loaded" /\ StateOf(o) \in Terminal => anchor[o] # NoAnchor
CommitIsBacked(o) ==
    /\ StateOf(o) = "Committed" \/ pc[o] = "recordRecovered" => Preserved(o)
    /\ registration[o] => dest[DestOf[o]] = "good" /\ ~pending[o]
    /\ pc[o] \in {"idle"} \cup (CommitStep \ {"recordCommitted"}) => ~registration[o]
    /\ pc[o] \in RejectStep => ~exposed[o]
LeftoversGone(o) ==
    /\ \/ pc[o] \in (RejectStep \ {"removeWork"}) \cup {"recordAbandoned"}
       \/ pc[o] \in {"anchor", "writeAnchor"} /\ memory[o].state # "Committed"
       \/ pc[o] = "done" /\ Started(o)
       => staging[o] = "absent" /\ ~pending[o]
    /\ pc[o] = "done" /\ Started(o) => StateOf(o) \in Terminal /\ anchor[o] = Latest(o)

Exposing == {"promote", "recordCommitted", "stopped", "load", "loaded", "recordRecovered"}
Claims(o) == \/ StateOf(o) = "Committed"
             \/ StateOf(o) = "Verified" /\ pc[o] \in Exposing
OriginalsAreClaimed ==
    \A d \in Dest : dest[d] # "absent" => \E o \in Op : DestOf[o] = d /\ Claims(o)

CrashInvariant ==
    /\ \A o \in Op : StreamFollowsStep(o) /\ AnchorIsLast(o) /\ CommitIsBacked(o)
                        /\ LeftoversGone(o)
    /\ OriginalsAreClaimed

(* Reconciliation opens the Vault only when every committed operation still    *)
(* has a registered original that matches its identity (verify_committed).     *)
OpeningVerifiesOriginals ==
    [][vault = "reconciling" /\ vault' = "open" =>
            \A o \in Op : StateOf(o) = "Committed" => Preserved(o)]_vars

(* The inductive strengthening of OpeningVerifiesOriginals: what the            *)
(* reconciliation has passed, or is about to record, is still there, since      *)
(* nothing else touches the files of the Vault meanwhile.                       *)
OpeningInvariant ==
    \A o \in Op :
        /\ pc[o] = "idle" => ~Started(o)
        /\ vault \in {"closed", "refused"} => pc[o] \in {"idle", "done", "stopped"}
        /\ vault = "reconciling" =>
            /\ pc[o] \in AnchorStep \cup {"writeLoaded", "loaded"} => memory[o].state = StateOf(o)
            /\ \/ pc[o] \in AnchorStep \cup {"done"} /\ StateOf(o) = "Committed"
               \/ pc[o] = "recordRecovered"
               => Preserved(o)

(* Crash and interleaving do not show through the archive's promise.            *)
Status(o) == CASE StateOf(o) = "None" -> "none"
               [] StateOf(o) = "Committed" -> "registered"
               [] StateOf(o) \in {"Failed", "Abandoned"} -> "rejected"
               [] OTHER -> "underway"
Originals == {d \in Dest : dest[d] = "good"}
Lifecycle == INSTANCE ArchiveLifecycle WITH
    status <- [o \in Op |-> Status(o)],
    original <- Originals

(* The transaction, with crashes, implements ArchiveLifecycle.                 *)
ImplementsLifecycle == Lifecycle!Spec

(* A started operation ends: it is recorded terminal in an open Vault, unless  *)
(* the process stops and nobody opens the Vault again.                         *)
OperationsSettle ==
    \A o \in Op : Started(o) ~>
        \/ vault = "open" /\ pc[o] = "done" /\ StateOf(o) \in Terminal
        \/ vault = "closed"
=============================================================================
