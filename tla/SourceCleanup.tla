---------------------------- MODULE SourceCleanup ----------------------------
(***************************************************************************)
(* User-controlled source cleanup of src-tauri/src/cleanup/mod.rs and its  *)
(* reconciliation in cleanup/recovery.rs: the sources of archived          *)
(* operations are moved to the trash of the operating system or deleted,   *)
(* under a single-use plan whose audit is recorded in the Vault.           *)
(*                                                                         *)
(* A request of the user gives a trash plan; asking for permanent deletion *)
(* consumes that plan and makes a second one of the same request, so that  *)
(* a plan is named by its request and its disposition.  Confirmed plans    *)
(* run on blocking threads and interleave at every step.                   *)
(*                                                                         *)
(* Abstractions.  The operations are archived beforehand.  retained tells  *)
(* if verified_registered_original accepts an operation; a whole archive   *)
(* undo is one step, TakeBack (OriginalCustody has its steps).  What the   *)
(* recovery reads of the sources of one plan is read in one step, and a    *)
(* failed write leaves no temporary file: its removal, best effort in      *)
(* write_new_bytes, succeeds.                                              *)
(***************************************************************************)
EXTENDS Integers, Sequences, FiniteSets

CONSTANTS
    Op,             \* committed archive operations
    Path,           \* source paths
    SourceOf,       \* the source path of each operation
    Request,        \* what the user asks to clean up, once each
    Selection,      \* the sequences of operations a request may select
    MaxCleanupOperations,  \* audits that a reconciliation may pass
    MaxFaults,      \* bound: failed file operations of the program
    MaxCrashes      \* bound: process crashes

ASSUME SourceAssumption == SourceOf \in [Op -> Path]
ASSUME SelectionAssumption ==
    \A s \in Selection : /\ s \in Seq(Op) /\ s # <<>>
                         /\ \A i, j \in DOMAIN s : s[i] = s[j] => i = j
ASSUME LimitAssumption ==
    MaxCleanupOperations \in Nat /\ MaxFaults \in Nat /\ MaxCrashes \in Nat

VARIABLES
    vault,          \* closed, reconciling, open or refused by reconciliation
    pc,             \* the next step of each plan
    items,          \* the operations each request selected
    next,           \* the item each plan removes next
    history,        \* the states of .aiks/cleanup/<plan>/, in order
    auditDir,       \* .aiks/cleanup/<plan> exists
    torn,           \* a temporary record file was left in that directory
    source,         \* each source file matches its archive, changed or is absent
    trash,          \* what the trash of the operating system holds of each path
    retained,       \* the registered original of each operation is verified
    removed,        \* history variable: the paths each plan removed
    gone,           \* history variable: the paths that were ever absent
    putBack,        \* history variable: the paths the user put back
    faults, crashes

audit == <<history, auditDir, torn>>
files == <<source, trash, retained>>
trail == <<removed, gone, putBack>>
budget == <<faults, crashes>>
vars == <<vault, pc, items, next, history, auditDir, torn, source, trash, retained,
          removed, gone, putBack, faults, crashes>>

-----------------------------------------------------------------------------
(* CleanupDisposition, CleanupLifecycleState, and the state each             *)
(* persist_state call records.                                               *)
Plan == Request \X {"trash", "permanentDelete"}
Terminal == {"Superseded", "Committed", "Failed", "Abandoned"}
CleanupState == {"Proposed", "Executing"} \cup Terminal

RecordedState ==
    [recordProposed  |-> "Proposed",  recordSuperseded |-> "Superseded",
     recordExecuting |-> "Executing", recordRefused    |-> "Failed",
     recordCommitted |-> "Committed", recordFailed     |-> "Failed",
     abandonPlan     |-> "Abandoned", abandonKept      |-> "Abandoned",
     recordAbandoned |-> "Abandoned"]
RecordStep == DOMAIN RecordedState

AtRest == {"idle", "refused", "planned", "lapsed", "stopped", "done"}
Inspecting == {"inspect", "inspectKept"}
Step == AtRest \cup RecordStep \cup Inspecting \cup {"createAudit", "review", "reverify", "remove"}

GoTo(p, step) == pc' = [pc EXCEPT ![p] = step]
Live(p, step) == vault = "open" /\ pc[p] = step

SourcesOf(p) == {SourceOf[items[p[1]][i]] : i \in DOMAIN items[p[1]]}
OriginalsOf(p) == {items[p[1]][i] : i \in DOMAIN items[p[1]]}
StateOf(p) == IF history[p] = <<>> THEN "None" ELSE history[p][Len(history[p])]

(* A process that stops keeps only what is on disk; a reconciliation that    *)
(* gives up leaves the registry of plans as it is.                           *)
Halted == [p \in Plan |-> IF pc[p] \in AtRest \ {"planned"} THEN pc[p] ELSE "stopped"]
Kept == {"planned", "inspectKept", "abandonKept"}
Ended == [p \in Plan |-> IF pc[p] \in Kept THEN "planned" ELSE Halted[p]]
Refuse == vault' = "refused" /\ pc' = Ended

(* cleanup_item and the items of reverify_plan. *)
ItemVerified(o) == retained[o] /\ source[SourceOf[o]] = "match"
Verified(p) == \A o \in OriginalsOf(p) : ItemVerified(o)

Init ==
    /\ vault = "closed"
    /\ pc = [p \in Plan |-> "idle"]
    /\ items = [r \in Request |-> <<>>]
    /\ next = [p \in Plan |-> 1]
    /\ history = [p \in Plan |-> <<>>]
    /\ auditDir = [p \in Plan |-> FALSE]
    /\ torn = [p \in Plan |-> FALSE]
    /\ source = [f \in Path |-> "match"]
    /\ trash = [f \in Path |-> "none"]
    /\ retained = [o \in Op |-> TRUE]
    /\ removed = [p \in Plan |-> {}]
    /\ gone = {} /\ putBack = {}
    /\ faults = 0 /\ crashes = 0

-----------------------------------------------------------------------------
(* create_at, escalate_at and consume_at. *)

Create(r) ==
    /\ Live(<<r, "trash">>, "idle")
    /\ \E s \in Selection :
          /\ \A i \in DOMAIN s : ItemVerified(s[i])
          /\ items' = [items EXCEPT ![r] = s]
    /\ GoTo(<<r, "trash">>, "createAudit")
    /\ UNCHANGED <<vault, next, audit, files, trail, budget>>

CreateAudit(p) ==
    /\ Live(p, "createAudit")
    /\ auditDir' = [auditDir EXCEPT ![p] = TRUE]
    /\ GoTo(p, "recordProposed")
    /\ UNCHANGED <<vault, items, next, history, torn, files, trail, budget>>

(* consume_at takes the plan out of the registry for good. *)
Confirm(p) ==
    /\ Live(p, "planned")
    /\ GoTo(p, "reverify")
    /\ UNCHANGED <<vault, items, next, audit, files, trail, budget>>

\* Mutant: the plan is read from the registry, and stays in it.
AuthorizeKeepingPlan(r) ==
    /\ Live(<<r, "trash">>, "planned")
    /\ GoTo(<<r, "permanentDelete">>, "createAudit")
    /\ UNCHANGED <<vault, items, next, audit, files, trail, budget>>

(* authorize_permanent_cleanup: a plan that is not a trash plan is lost. *)
Authorize(r) ==
    /\ \/ Live(<<r, "trash">>, "planned") /\ GoTo(<<r, "trash">>, "review")
       \/ /\ Live(<<r, "permanentDelete">>, "planned")
          /\ GoTo(<<r, "permanentDelete">>, "lapsed")
    /\ UNCHANGED <<vault, items, next, audit, files, trail, budget>>

Review(p) ==
    /\ Live(p, "review")
    /\ GoTo(p, IF Verified(p) THEN "recordSuperseded" ELSE "lapsed")
    /\ UNCHANGED <<vault, items, next, audit, files, trail, budget>>

(* Also what becomes of a plan confirmed while its Vault is not current. *)
Expire(p) ==
    /\ pc[p] = "planned"
    /\ GoTo(p, "lapsed")
    /\ UNCHANGED <<vault, items, next, audit, files, trail, budget>>

-----------------------------------------------------------------------------
(* persist_state, with what the code does next. *)
AfterRecord ==
    [recordProposed  |-> "planned", recordSuperseded |-> "done",
     recordExecuting |-> "remove",  recordRefused    |-> "done",
     recordCommitted |-> "done",    recordFailed     |-> "done",
     abandonPlan     |-> "done",    recordAbandoned  |-> "done",
     abandonKept     |-> "planned"]

(* An execution numbers its records itself, a recovery goes on from the       *)
(* latest; write_new_json refuses a number that is taken.                     *)
SequenceOf == [recordProposed |-> 0, recordSuperseded |-> 1, recordRefused |-> 1,
               recordExecuting |-> 1, recordFailed |-> 2, recordCommitted |-> 2]

\* Mutant: a record replaces the one that has its number.
NumberedFreely(p) == TRUE

Numbered(p) == vault = "open" => Len(history[p]) <= SequenceOf[pc[p]]

(* Once the trash plan is superseded, the plan to delete is made. *)
WriteRecord(p) ==
    /\ vault \in {"open", "reconciling"} /\ pc[p] \in RecordStep /\ Numbered(p)
    /\ history' = [history EXCEPT ![p] = Append(@, RecordedState[pc[p]])]
    /\ pc' = [q \in Plan |->
                IF q = p THEN AfterRecord[pc[p]]
                ELSE IF pc[p] = "recordSuperseded" /\ q = <<p[1], "permanentDelete">>
                       THEN "createAudit"
                       ELSE pc[q]]
    /\ UNCHANGED <<vault, items, next, auditDir, torn, files, trail, budget>>

Reverify(p) ==
    /\ Live(p, "reverify")
    /\ GoTo(p, IF Verified(p) THEN "recordExecuting" ELSE "recordRefused")
    /\ UNCHANGED <<vault, items, next, audit, files, trail, budget>>

(* execute_with: the file that is now at the path of the next item goes. *)
Remove(p) ==
    /\ Live(p, "remove")
    /\ LET f == SourceOf[items[p[1]][next[p]]] IN
         IF source[f] = "absent"
           THEN /\ GoTo(p, "recordFailed")
                /\ UNCHANGED <<next, source, trash, removed, gone>>
           ELSE /\ source' = [source EXCEPT ![f] = "absent"]
                /\ trash' = IF p[2] = "trash" THEN [trash EXCEPT ![f] = source[f]] ELSE trash
                /\ removed' = [removed EXCEPT ![p] = @ \cup {f}]
                /\ gone' = gone \cup {f}
                /\ next' = [next EXCEPT ![p] = @ + 1]
                /\ IF next[p] = Len(items[p[1]]) THEN GoTo(p, "recordCommitted")
                                                 ELSE UNCHANGED pc
    /\ UNCHANGED <<vault, items, audit, retained, putBack, budget>>

-----------------------------------------------------------------------------
(* Failed file operations: the step a plan takes after this one failed. *)
AfterFault ==
    [createAudit |-> "refused",     recordProposed |-> "refused",
     review |-> "lapsed",           recordSuperseded |-> "lapsed",
     reverify |-> "recordRefused",  recordRefused |-> "done",
     recordExecuting |-> "done",    remove |-> "recordFailed",
     recordFailed |-> "done",       recordCommitted |-> "done"]

RecordExists(p) ==
    /\ vault = "open" /\ pc[p] \in DOMAIN SequenceOf /\ ~Numbered(p)
    /\ GoTo(p, AfterFault[pc[p]])
    /\ UNCHANGED <<vault, items, next, audit, files, trail, budget>>

Fault == faults < MaxFaults /\ faults' = faults + 1 /\ UNCHANGED crashes

StepFails(p) ==
    /\ vault = "open" /\ pc[p] \in DOMAIN AfterFault /\ Fault
    /\ GoTo(p, AfterFault[pc[p]])
    /\ UNCHANGED <<vault, items, next, audit, files, trail>>

RecoveryFails(p) ==
    /\ vault = "reconciling" /\ pc[p] \notin AtRest /\ Fault
    /\ Refuse
    /\ UNCHANGED <<items, next, audit, files, trail>>
-----------------------------------------------------------------------------
(* reconcile_vault: one plan after the other, in no particular order. *)

Readable(p) == auditDir[p] => ~torn[p] /\ history[p] # <<>>
Busy == {p \in Plan : pc[p] \notin AtRest \cup Inspecting}

BeginReconcile ==
    /\ vault \in {"closed", "refused"}
    /\ vault' = "reconciling"
    /\ pc' = [p \in Plan |-> IF ~auditDir[p] THEN pc[p]
                             ELSE IF pc[p] = "planned" THEN "inspectKept" ELSE "inspect"]
    /\ UNCHANGED <<items, next, audit, files, trail, budget>>

Absent(p) == {f \in SourcesOf(p) : source[f] = "absent"}

\* Mutant: one source still there is enough to call nothing removed.
RecoveredOutcomeOfNone(p) ==
    IF \E o \in OriginalsOf(p) : ~retained[o] THEN "recordFailed"
    ELSE IF \E f \in SourcesOf(p) : source[f] = "changed" THEN "recordFailed"
    ELSE IF Absent(p) = SourcesOf(p) THEN "recordCommitted" ELSE "recordAbandoned"

\* Mutant: the retained originals are not verified.
RecoveredOutcomeUnverified(p) ==
    IF \E f \in SourcesOf(p) : source[f] = "changed" THEN "recordFailed"
    ELSE IF Absent(p) = SourcesOf(p) THEN "recordCommitted"
    ELSE IF Absent(p) = {} THEN "recordAbandoned" ELSE "recordFailed"

(* reconcile_executing: what the sources tell of an execution cut short. *)
RecoveredOutcome(p) ==
    IF \E o \in OriginalsOf(p) : ~retained[o] THEN "recordFailed"
    ELSE IF \E f \in SourcesOf(p) : source[f] = "changed" THEN "recordFailed"
    ELSE IF Absent(p) = SourcesOf(p) THEN "recordCommitted"
    ELSE IF Absent(p) = {} THEN "recordAbandoned" ELSE "recordFailed"

(* What the registry kept, it keeps. *)
Abandoning(p) == IF pc[p] = "inspectKept" THEN "abandonKept" ELSE "abandonPlan"
Passing(p) == IF pc[p] = "inspectKept" THEN "planned" ELSE "done"

(* The scan counts the audits it has passed before it reads one. *)
Passed == {p \in Plan : auditDir[p] /\ pc[p] \notin Inspecting}
Accepts(p) == Cardinality(Passed) < MaxCleanupOperations /\ Readable(p)

\* Mutant: a plan with a recorded end is not passed over.
InspectUnfinishedOnly(p) ==
    /\ vault = "reconciling" /\ pc[p] \in Inspecting /\ Busy = {}
    /\ StateOf(p) \notin Terminal
    /\ IF ~Accepts(p) THEN Refuse
       ELSE /\ GoTo(p, IF StateOf(p) = "Executing" THEN RecoveredOutcome(p) ELSE Abandoning(p))
            /\ UNCHANGED vault
    /\ UNCHANGED <<items, next, audit, files, trail, budget>>

Inspect(p) ==
    /\ vault = "reconciling" /\ pc[p] \in Inspecting /\ Busy = {}
    /\ IF ~Accepts(p) THEN Refuse
       ELSE /\ GoTo(p, IF StateOf(p) = "Executing" THEN RecoveredOutcome(p)
                       ELSE IF StateOf(p) = "Proposed" THEN Abandoning(p) ELSE Passing(p))
            /\ UNCHANGED vault
    /\ UNCHANGED <<items, next, audit, files, trail, budget>>

FinishReconcile ==
    /\ vault = "reconciling" /\ \A p \in Plan : pc[p] \in AtRest
    /\ vault' = "open"
    /\ UNCHANGED <<pc, items, next, audit, files, trail, budget>>

-----------------------------------------------------------------------------
(* The rest of the program and the user. *)

(* A whole archive undo, which needs the source to match. *)
TakeBack(o) ==
    /\ vault = "open" /\ ItemVerified(o)
    /\ retained' = [retained EXCEPT ![o] = FALSE]
    /\ UNCHANGED <<vault, pc, items, next, audit, source, trash, trail, budget>>

EditSource(f) ==
    /\ source[f] = "match"
    /\ source' = [source EXCEPT ![f] = "changed"]
    /\ UNCHANGED <<vault, pc, items, next, audit, trash, retained, trail, budget>>

PutBackFromTrash(f) ==
    /\ trash[f] # "none" /\ source[f] = "absent"
    /\ source' = [source EXCEPT ![f] = trash[f]]
    /\ trash' = [trash EXCEPT ![f] = "none"]
    /\ putBack' = putBack \cup {f}
    /\ UNCHANGED <<vault, pc, items, next, audit, retained, removed, gone, budget>>

(* The application is closed while nothing runs: plans live in memory. *)
Quit ==
    /\ vault = "open" /\ \A p \in Plan : pc[p] \in AtRest
    /\ vault' = "closed" /\ pc' = Halted
    /\ UNCHANGED <<items, next, audit, files, trail, budget>>

(* confirm_transfer makes another Vault the authority once no lease is held, *)
(* and this one later again; the registry of plans outlives the exchange.    *)
TransferAway ==
    /\ vault = "open" /\ \A p \in Plan : pc[p] \in AtRest
    /\ vault' = "closed"
    /\ UNCHANGED <<pc, items, next, audit, files, trail, budget>>

(* A crash may leave the temporary file of a record that was being written. *)
Crash ==
    /\ crashes < MaxCrashes /\ vault # "closed"
    /\ crashes' = crashes + 1
    /\ vault' = "closed" /\ pc' = Halted
    /\ \E T \in SUBSET {p \in Plan : pc[p] \in RecordStep} :
          torn' = [p \in Plan |-> torn[p] \/ p \in T]
    /\ UNCHANGED <<items, next, history, auditDir, files, trail, faults>>

-----------------------------------------------------------------------------
Execute(p) ==
    \/ CreateAudit(p) \/ Review(p) \/ WriteRecord(p) \/ RecordExists(p) \/ Reverify(p)
    \/ Remove(p) \/ Inspect(p)

Next ==
    \/ \E r \in Request : Create(r) \/ Authorize(r)
    \/ \E p \in Plan : Confirm(p) \/ Expire(p) \/ Execute(p) \/ StepFails(p) \/ RecoveryFails(p)
    \/ \E o \in Op : TakeBack(o)
    \/ \E f \in Path : EditSource(f) \/ PutBackFromTrash(f)
    \/ BeginReconcile \/ FinishReconcile \/ Quit \/ TransferAway \/ Crash

Spec == Init /\ [][Next]_vars

(* Some thread that can run does, or the reconciliation ends; the user need *)
(* not do anything.  Each plan is used once, so that no thread starves.     *)
Fairness == WF_vars((\E p \in Plan : Execute(p)) \/ FinishReconcile)
FairSpec == Spec /\ Fairness
-----------------------------------------------------------------------------
(* Properties. *)

(* Every variable holds a value the code can give it. *)
TypeOK ==
    /\ vault \in {"closed", "reconciling", "open", "refused"}
    /\ pc \in [Plan -> Step]
    /\ items \in [Request -> Selection \cup {<<>>}]
    /\ next \in [Plan -> Nat \ {0}]
    /\ history \in [Plan -> Seq(CleanupState)]
    /\ auditDir \in [Plan -> BOOLEAN] /\ torn \in [Plan -> BOOLEAN]
    /\ source \in [Path -> {"match", "changed", "absent"}]
    /\ trash \in [Path -> {"match", "changed", "none"}]
    /\ retained \in [Op -> BOOLEAN]
    /\ removed \in [Plan -> SUBSET Path]
    /\ gone \in SUBSET Path /\ putBack \in SUBSET Path
    /\ faults \in 0..MaxFaults /\ crashes \in 0..MaxCrashes

(* A plan recorded as never executed (superseded, abandoned unconfirmed, or    *)
(* failed "not-mutated") has removed nothing, whatever crash came in between.  *)
UnexecutedPlansRemoveNothing ==
    \A p \in Plan : removed[p] # {} =>
        Len(history[p]) >= 2 /\ history[p][2] = "Executing"

(* An execution recorded Committed, by itself or by a recovery, has had every  *)
(* one of its sources gone: a partial removal is never recorded as complete.   *)
CommittedSourcesAreGone ==
    \A p \in Plan : StateOf(p) = "Committed" => SourcesOf(p) \subseteq gone

(* An execution that a recovery records as stopped before any removal has     *)
(* removed nothing but what the user has put back since.                       *)
AbandonedSourcesArePresent ==
    \A p \in Plan : StateOf(p) = "Abandoned" => removed[p] \subseteq putBack

(* What the audit says of a cleanup is what happened to its sources, whichever *)
(* step failed or was cut short.                                               *)
AuditTellsRemovals ==
    UnexecutedPlansRemoveNothing /\ CommittedSourcesAreGone /\ AbandonedSourcesArePresent

(* A permanent deletion comes after its reviewed trash plan was superseded,    *)
(* and that trash plan never removes anything: one confirmation never serves   *)
(* two dispositions (escalate_at and consume_at).                              *)
PermanentDeletionReviewedTwice ==
    \A r \in Request : removed[<<r, "permanentDelete">>] # {} =>
        StateOf(<<r, "trash">>) = "Superseded" /\ removed[<<r, "trash">>] = {}

(* A recovery records an execution as Committed only while the registered      *)
(* original of every item is verified (verify_retained_originals).             *)
RecoveredCommitsKeepOriginals ==
    [][\A p \in Plan : vault = "reconciling" /\ StateOf(p) # "Committed" /\ StateOf(p)' = "Committed"
          => \A o \in OriginalsOf(p) : retained[o]]_vars

(* Whatever writes the audit, an execution, an escalation or a reconciliation, *)
(* leaves a history that validate_history accepts at the next opening: a plan  *)
(* that a reconciliation abandoned while the registry kept it never executes   *)
(* and is never superseded, and no live record skips a number.                 *)
ValidHistories ==
    {<<>>, <<"Proposed">>}
        \cup {<<"Proposed", s>> : s \in CleanupState \ {"Proposed", "Committed"}}
        \cup {<<"Proposed", "Executing", s>> : s \in {"Committed", "Failed", "Abandoned"}}
HistoriesAreReadable ==
    \A p \in Plan :
        /\ history[p] \in ValidHistories
        /\ vault = "open" /\ pc[p] \in DOMAIN SequenceOf =>
              Len(history[p]) >= SequenceOf[pc[p]]

(* Confirmed cleanups and escalations run to their end, and an opening of the  *)
(* Vault is decided, unless the process stops.                                 *)
Underway == vault = "reconciling" \/ (vault = "open" /\ Busy # {})
CleanupsSettle == []<>~Underway
=============================================================================
