------------------------- MODULE ArchiveUndoProofs -------------------------
(***************************************************************************)
(* Proofs about ArchiveUndo, for any number of operations, destinations    *)
(* and undos, any sharing of destinations, and any bounds on failed file   *)
(* operations and crashes, except where a theorem assumes UndosApart.      *)
(***************************************************************************)
EXTENDS ArchiveUndo, FiniteSetTheorems, TLAPS

(* The literals of the sets that TypeOK names, so that they can stay folded. *)
LEMMA StepLiterals ==
    {"idle", "refused", "planned", "expired", "stopped", "done", "createAudit",
     "reverify", "stage", "discard", "quarantine", "trash", "rollback", "unstage",
     "finalize", "deactivate", "recheck", "restore", "restoreRegistration",
     "dropRestored", "dropStaging", "inspect", "recordProposed", "recordExecuting",
     "recordRefused", "recordFailed", "recordRestored", "recordCommitted",
     "abandonPlan", "recordAbandoned", "inspectKept", "abandonKept"} \subseteq Step
  BY DEF Step, AtRest, WorkStep, RecordStep, RecordedState

(* Halting, or giving up a reconciliation, leaves each undo at rest. *)
LEMMA HaltedRests ==
    ASSUME pc \in [Undo -> Step]
    PROVE  /\ Halted \in [Undo -> Step] /\ \A u \in Undo : Halted[u] \in AtRest
           /\ Ended \in [Undo -> Step] /\ \A u \in Undo : Ended[u] \in AtRest
  <1>1. Halted \in [Undo -> Step] /\ \A u \in Undo : Halted[u] \in AtRest
    BY DEF Halted, Step, AtRest
  <1>2. "planned" \in Step /\ "planned" \in AtRest
    BY DEF Step, AtRest
  <1> QED
    BY <1>1, <1>2 DEF Ended

(* Every step that an undo goes to is one of the program's. *)
LEMMA GoToType ==
    ASSUME TypeOK, NEW u \in Undo, NEW s \in Step, GoTo(u, s)
    PROVE  pc' \in [Undo -> Step]
  BY DEF TypeOK, GoTo

(* Every record an undo writes is a state of its lifecycle. *)
LEMMA RecordedType ==
    ASSUME NEW s \in RecordStep
    PROVE  RecordedState[s] \in UndoState
  BY DEF RecordStep, RecordedState, UndoState, Terminal

(* The step after a record, and the step after a failed one, are steps. *)
LEMMA FollowingSteps ==
    /\ \A u \in Undo : AfterRecord(u) \in Step
    /\ \A s \in DOMAIN AfterFault : AfterFault[s] \in Step
  <1>1. \A u \in Undo : AfterRecord(u) \in Step
    BY StepLiterals DEF AfterRecord
  <1>2. \A s \in DOMAIN AfterFault : AfterFault[s] \in Step
    BY StepLiterals DEF AfterFault
  <1> QED
    BY <1>1, <1>2

(* TypeOK holds initially and every action keeps it. *)
LEMMA TypeInit == Init => TypeOK
  <1> SUFFICES ASSUME Init PROVE TypeOK
    OBVIOUS
  <1>1. history \in [Undo -> Seq(UndoState)]
    BY DEF Init
  <1> QED
    BY <1>1, StepLiterals, LimitAssumption DEF Init, TypeOK

LEMMA TypeStep == TypeOK /\ [Next]_vars => TypeOK'
  <1> SUFFICES ASSUME TypeOK, [Next]_vars PROVE TypeOK'
    OBVIOUS
  <1> USE LimitAssumption, PlanAssumption, HaltedRests, StepLiterals, FollowingSteps
  <1> USE DEF audit, links, registers, user, budget, D
  <1>Create. ASSUME NEW u \in Undo, Create(u) PROVE TypeOK'
    BY <1>Create DEF Create, TypeOK, Live, GoTo
  <1>CreateAudit. ASSUME NEW u \in Undo, CreateAudit(u) PROVE TypeOK'
    BY <1>CreateAudit DEF CreateAudit, TypeOK, Live, GoTo
  <1>Confirm. ASSUME NEW u \in Undo, Confirm(u) PROVE TypeOK'
    BY <1>Confirm DEF Confirm, TypeOK, Live, GoTo
  <1>Expire. ASSUME NEW u \in Undo, Expire(u) PROVE TypeOK'
    BY <1>Expire DEF Expire, TypeOK, Live, GoTo
  <1>WriteRecord. ASSUME NEW u \in Undo, WriteRecord(u) PROVE TypeOK'
    <2>1. Append(history[u], RecordedState[pc[u]]) \in Seq(UndoState)
      BY <1>WriteRecord, RecordedType DEF WriteRecord, TypeOK
    <2>2. history' \in [Undo -> Seq(UndoState)]
      BY <1>WriteRecord, <2>1 DEF WriteRecord, TypeOK
    <2> QED
      BY <1>WriteRecord, <2>2 DEF WriteRecord, TypeOK, GoTo
  <1>RecordExists. ASSUME NEW u \in Undo, RecordExists(u) PROVE TypeOK'
    <2>1. AfterFault[pc[u]] \in Step
      BY <1>RecordExists DEF RecordExists, SequenceOf, AfterFault
    <2> QED
      BY <1>RecordExists, <2>1 DEF RecordExists, TypeOK, GoTo
  <1>Reverify. ASSUME NEW u \in Undo, Reverify(u) PROVE TypeOK'
    <2>1. pc' \in [Undo -> Step]
      <3>1. GoTo(u, "stage") \/ GoTo(u, "recordRefused")
        BY <1>Reverify DEF Reverify
      <3> QED
        BY <3>1, GoToType, StepLiterals
    <2> QED
      BY <1>Reverify, <2>1 DEF Reverify, TypeOK, Live, GoTo
  <1>Stage. ASSUME NEW u \in Undo, Stage(u) PROVE TypeOK'
    <2>1. pc' \in [Undo -> Step]
      <3>1. \/ pc' = [pc EXCEPT ![u] = "recordExecuting"]
            \/ pc' = [pc EXCEPT ![u] = "discard"]
        BY <1>Stage DEF Stage, Live, GoTo
      <3> QED
        BY <3>1 DEF TypeOK
    <2>2. staging' \in [Undo -> BOOLEAN]
      BY <1>Stage DEF Stage, TypeOK, Live, GoTo
    <2> QED
      BY <1>Stage, <2>1, <2>2 DEF Stage, TypeOK, Live, GoTo
  <1>Discard. ASSUME NEW u \in Undo, Discard(u) PROVE TypeOK'
    BY <1>Discard DEF Discard, TypeOK, Live, GoTo
  <1>Quarantine. ASSUME NEW u \in Undo, Quarantine(u) PROVE TypeOK'
    <2>1. pc' \in [Undo -> Step]
      <3>1. \/ pc' = [pc EXCEPT ![u] = "trash"]
            \/ pc' = [pc EXCEPT ![u] = "rollback"]
        BY <1>Quarantine DEF Quarantine, Live, GoTo, EnterQuarantine
      <3> QED
        BY <3>1 DEF TypeOK
    <2>2. quarantine' \in [Undo -> BOOLEAN]
      BY <1>Quarantine DEF Quarantine, TypeOK, Live, GoTo, EnterQuarantine
    <2>3. dest' \in [Dest -> BOOLEAN]
      BY <1>Quarantine DEF Quarantine, TypeOK, Live, GoTo, EnterQuarantine
    <2> QED
      BY <1>Quarantine, <2>1, <2>2, <2>3 DEF Quarantine, TypeOK, Live, GoTo, EnterQuarantine
  <1>MoveToTrash. ASSUME NEW u \in Undo, MoveToTrash(u) PROVE TypeOK'
    BY <1>MoveToTrash DEF MoveToTrash, TypeOK, Live, GoTo
  <1>Finalize. ASSUME NEW u \in Undo, Finalize(u) PROVE TypeOK'
    <2>1. pc' \in [Undo -> Step]
      BY <1>Finalize DEF Finalize, TypeOK, Live, GoTo
    <2> QED
      BY <1>Finalize, <2>1 DEF Finalize, TypeOK, Live, GoTo
  <1>Recheck. ASSUME NEW u \in Undo, Recheck(u) PROVE TypeOK'
    <2>1. pc' \in [Undo -> Step]
      BY <1>Recheck DEF Recheck, TypeOK, Live, GoTo
    <2> QED
      BY <1>Recheck, <2>1 DEF Recheck, TypeOK, Live, GoTo
  <1>Deactivate. ASSUME NEW u \in Undo, Deactivate(u) PROVE TypeOK'
    <2>1. pc' \in [Undo -> Step]
      <3>1. \/ pc' = [pc EXCEPT ![u] = "recheck"]
            \/ pc' = [pc EXCEPT ![u] = "recordCommitted"]
            \/ pc' = [pc EXCEPT ![u] = "recordRestored"]
            \/ pc' = Ended
        BY <1>Deactivate DEF Deactivate, Running, GoTo, Retire, Otherwise, Refuse
      <3> QED
        BY <3>1 DEF TypeOK
    <2>2. vault' \in {"closed", "reconciling", "open", "refused"}
      BY <1>Deactivate DEF Deactivate, TypeOK, Running, GoTo, Retire, Otherwise, Refuse
    <2>3. registration' \in [Op -> BOOLEAN]
      BY <1>Deactivate DEF Deactivate, TypeOK, Running, GoTo, Retire, Otherwise, Refuse
    <2>4. tombstone' \in [Op -> BOOLEAN]
      BY <1>Deactivate DEF Deactivate, TypeOK, Running, GoTo, Retire, Otherwise, Refuse
    <2> QED
      BY <1>Deactivate, <2>1, <2>2, <2>3, <2>4 DEF Deactivate, TypeOK, Running, GoTo, Retire, Otherwise, Refuse
  <1>Rollback. ASSUME NEW u \in Undo, Rollback(u) PROVE TypeOK'
    <2>1. pc' \in [Undo -> Step]
      <3>1. \/ pc' = [pc EXCEPT ![u] = "unstage"]
            \/ pc' = [pc EXCEPT ![u] = "recordAbandoned"]
            \/ pc' = Ended
        BY <1>Rollback DEF Rollback, Running, GoTo, Refuse
      <3> QED
        BY <3>1 DEF TypeOK
    <2>2. vault' \in {"closed", "reconciling", "open", "refused"}
      BY <1>Rollback DEF Rollback, TypeOK, Running, GoTo, Refuse
    <2>3. quarantine' \in [Undo -> BOOLEAN]
      BY <1>Rollback DEF Rollback, TypeOK, Running, GoTo, Refuse
    <2>4. dest' \in [Dest -> BOOLEAN]
      BY <1>Rollback DEF Rollback, TypeOK, Running, GoTo, Refuse
    <2> QED
      BY <1>Rollback, <2>1, <2>2, <2>3, <2>4 DEF Rollback, TypeOK, Running, GoTo, Refuse
  <1>Unstage. ASSUME NEW u \in Undo, Unstage(u) PROVE TypeOK'
    BY <1>Unstage DEF Unstage, TypeOK, Live, GoTo
  <1>Restore. ASSUME NEW u \in Undo, Restore(u) PROVE TypeOK'
    BY <1>Restore DEF Restore, TypeOK, Running, GoTo
  <1>RestoreRegistration. ASSUME NEW u \in Undo, RestoreRegistration(u) PROVE TypeOK'
    <2>1. pc' \in [Undo -> Step]
      <3>1. \/ pc' = [pc EXCEPT ![u] = "recordRestored"]
            \/ pc' = Ended
        BY <1>RestoreRegistration DEF RestoreRegistration, Running, GoTo, Otherwise, Refuse
      <3> QED
        BY <3>1 DEF TypeOK
    <2>2. vault' \in {"closed", "reconciling", "open", "refused"}
      BY <1>RestoreRegistration DEF RestoreRegistration, TypeOK, Running, GoTo, Otherwise, Refuse
    <2>3. registration' \in [Op -> BOOLEAN]
      BY <1>RestoreRegistration DEF RestoreRegistration, TypeOK, Running, GoTo, Otherwise, Refuse
    <2>4. tombstone' \in [Op -> BOOLEAN]
      BY <1>RestoreRegistration DEF RestoreRegistration, TypeOK, Running, GoTo, Otherwise, Refuse
    <2> QED
      BY <1>RestoreRegistration, <2>1, <2>2, <2>3, <2>4 DEF RestoreRegistration, TypeOK, Running, GoTo, Otherwise, Refuse
  <1>DropRestored. ASSUME NEW u \in Undo, DropRestored(u) PROVE TypeOK'
    <2>1. pc' \in [Undo -> Step]
      BY <1>DropRestored DEF DropRestored, TypeOK, Live, GoTo
    <2> QED
      BY <1>DropRestored, <2>1 DEF DropRestored, TypeOK, Live, GoTo
  <1>DropStaging. ASSUME NEW u \in Undo, DropStaging(u) PROVE TypeOK'
    BY <1>DropStaging DEF DropStaging, TypeOK, Running, GoTo
  <1>Inspect. ASSUME NEW u \in Undo, Inspect(u) PROVE TypeOK'
    <2>1. pc' \in [Undo -> Step]
      <3>1. \/ pc' = Ended
            \/ \E s \in {"abandonPlan", "abandonKept", "done", "planned"} : GoTo(u, s)
            \/ RecoverExecuting(u)
        BY <1>Inspect DEF Inspect, Refuse
      <3>2. RecoverExecuting(u) =>
                \/ pc' = Ended
                \/ \E s \in {"rollback", "recordAbandoned", "restore", "deactivate",
                             "recordCommitted"} : GoTo(u, s)
        BY DEF RecoverExecuting, Refuse
      <3>3. pc \in [Undo -> Step]
        BY DEF TypeOK
      <3> QED
        BY <3>1, <3>2, <3>3, GoToType, HaltedRests, StepLiterals
    <2>2. vault' \in {"closed", "reconciling", "open", "refused"}
      BY <1>Inspect DEF Inspect, TypeOK, GoTo, RecoverExecuting, Refuse
    <2> QED
      BY <1>Inspect, <2>1, <2>2 DEF Inspect, TypeOK, GoTo, RecoverExecuting, Refuse
  <1>StepFails. ASSUME NEW u \in Undo, StepFails(u) PROVE TypeOK'
    <2>1. pc' \in [Undo -> Step]
      BY <1>StepFails DEF StepFails, TypeOK, GoTo, Fault
    <2> QED
      BY <1>StepFails, <2>1 DEF StepFails, TypeOK, GoTo, Fault
  <1>VerificationFails. ASSUME NEW u \in Undo, VerificationFails(u) PROVE TypeOK'
    <2>1. pc' \in [Undo -> Step]
      <3>1. \E s \in {"rollback", "unstage", "recordRestored", "restore"} :
                pc' = [pc EXCEPT ![u] = s]
        BY <1>VerificationFails DEF VerificationFails, GoTo, EnterQuarantine
      <3> QED
        BY <3>1 DEF TypeOK
    <2>2. quarantine' \in [Undo -> BOOLEAN]
      BY <1>VerificationFails DEF VerificationFails, TypeOK, GoTo, Fault, EnterQuarantine
    <2>3. dest' \in [Dest -> BOOLEAN]
      BY <1>VerificationFails DEF VerificationFails, TypeOK, GoTo, Fault, EnterQuarantine
    <2> QED
      BY <1>VerificationFails, <2>1, <2>2, <2>3 DEF VerificationFails, TypeOK, GoTo, Fault, EnterQuarantine
  <1>RecoveryFails. ASSUME NEW u \in Undo, RecoveryFails(u) PROVE TypeOK'
    <2>1. dest' \in [Dest -> BOOLEAN]
      BY <1>RecoveryFails DEF RecoveryFails, TypeOK, Fault, Refuse
    <2> QED
      BY <1>RecoveryFails, <2>1 DEF RecoveryFails, TypeOK, Fault, Refuse
  <1>Archive. ASSUME NEW o \in Op, Archive(o) PROVE TypeOK'
    BY <1>Archive DEF Archive, TypeOK
  <1>VerifyForSave. ASSUME NEW o \in Op, VerifyForSave(o) PROVE TypeOK'
    BY <1>VerifyForSave DEF VerifyForSave, TypeOK
  <1>WriteKnowledge. ASSUME NEW o \in Op, WriteKnowledge(o) PROVE TypeOK'
    BY <1>WriteKnowledge DEF WriteKnowledge, TypeOK
  <1>SourceChanges. ASSUME NEW o \in Op, SourceChanges(o) PROVE TypeOK'
    BY <1>SourceChanges DEF SourceChanges, TypeOK
  <1>BeginReconcile. ASSUME BeginReconcile PROVE TypeOK'
    BY <1>BeginReconcile DEF BeginReconcile, TypeOK
  <1>FinishReconcile. ASSUME FinishReconcile PROVE TypeOK'
    BY <1>FinishReconcile DEF FinishReconcile, TypeOK, Refuse
  <1>TransferAway. ASSUME TransferAway PROVE TypeOK'
    BY <1>TransferAway DEF TransferAway, TypeOK
  <1>Quit. ASSUME Quit PROVE TypeOK'
    BY <1>Quit DEF Quit, TypeOK
  <1>Crash. ASSUME Crash PROVE TypeOK'
    BY <1>Crash DEF Crash, TypeOK
  <1>Stutter. ASSUME UNCHANGED vars PROVE TypeOK'
    BY <1>Stutter DEF vars, TypeOK
  <1> QED
    BY <1>Stutter, <1>Create, <1>CreateAudit, <1>Confirm, <1>Expire,
       <1>WriteRecord, <1>RecordExists, <1>TransferAway, <1>Reverify, <1>Stage, <1>Discard,
       <1>Quarantine, <1>MoveToTrash, <1>Finalize, <1>Recheck,
       <1>Deactivate, <1>Rollback, <1>Unstage, <1>Restore,
       <1>RestoreRegistration, <1>DropRestored, <1>DropStaging, <1>Inspect,
       <1>StepFails, <1>VerificationFails, <1>RecoveryFails, <1>Archive,
       <1>VerifyForSave, <1>WriteKnowledge, <1>SourceChanges, <1>BeginReconcile,
       <1>FinishReconcile, <1>Quit, <1>Crash
       DEF Next, Execute, Failure

(* Every reachable state of the undo is well typed. *)
THEOREM TypeCorrect == Spec => []TypeOK
  BY TypeInit, TypeStep, PTL DEF Spec

-----------------------------------------------------------------------------
(* No undo loses the last copy of an archived original. *)

(* What a recorded undo committed stays recorded. *)
LEMMA CommittedStays ==
    ASSUME TypeOK,
           \/ history' = history
           \/ \E u \in Undo : \E s \in UndoState :
                  history' = [history EXCEPT ![u] = Append(@, s)]
    PROVE  \A d \in Dest : EverCommitted(d) => EverCommitted(d)'
  <1>1. CASE history' = history
    BY <1>1 DEF EverCommitted
  <1>2. CASE \E u \in Undo : \E s \in UndoState :
                history' = [history EXCEPT ![u] = Append(@, s)]
    <2>1. PICK u \in Undo, s \in UndoState : history' = [history EXCEPT ![u] = Append(@, s)]
      BY <1>2
    <2>2. ASSUME NEW w \in Undo, NEW i \in DOMAIN history[w]
          PROVE  i \in DOMAIN history'[w] /\ history'[w][i] = history[w][i]
      <3>1. history[w] \in Seq(UndoState)
        BY DEF TypeOK
      <3>2. CASE w = u
        <4>1. history'[w] = Append(history[w], s)
          BY <2>1, <3>2 DEF TypeOK
        <4> QED
          BY <4>1, <3>1
      <3>3. CASE w # u
        BY <2>1, <3>3 DEF TypeOK
      <3> QED
        BY <3>2, <3>3
    <2> QED
      BY <2>2 DEF EverCommitted
  <1> QED
    BY <1>1, <1>2

(* Undo u alone moves, to step s: what HoldInvariant asks of such a step. *)
Moves(u, s) ==
    /\ vault \in {"open", "reconciling"} /\ vault' = vault
    /\ pc' = [pc EXCEPT ![u] = s]
    /\ archived' = archived
    /\ \A d \in Dest : EverCommitted(d) => EverCommitted(d)'
    /\ \A w \in Undo \ {u} : staging'[w] = staging[w] /\ quarantine'[w] = quarantine[w]
    /\ \A d \in Dest \ {D(u)} : dest'[d] = dest[d]
    /\ dest[D(u)] /\ ~EverCommitted(D(u))' => dest'[D(u)] \/ Holds(u)'
    /\ Holds(u) /\ ~EverCommitted(D(u))' => dest'[D(u)] \/ Holds(u)'
    /\ (s \in Unstaged => ~staging'[u]) /\ (s \in Staged => staging'[u])
    /\ vault = "reconciling" =>
          /\ pc[u] \notin AtRest
          /\ pc[u] \in {"inspect", "inspectKept"} => Busy = {}
          /\ s = "rollback" => quarantine'[u]
          /\ s \in RestoredStep => dest'[D(u)]
    /\ s = "recordAbandoned" => vault = "reconciling"

LEMMA MovesHolds ==
    ASSUME TypeOK, HoldInvariant, NEW u \in Undo, NEW s \in Step, Moves(u, s)
    PROVE  HoldInvariant'
  <1>1. /\ pc'[u] = s
        /\ \A w \in Undo \ {u} : pc'[w] = pc[w]
        /\ D(u) \in Dest
    BY PlanAssumption DEF Moves, TypeOK, D
  <1>2. \A w \in Undo \ {u} : Holds(w) => Holds(w)'
    BY <1>1 DEF Moves, Holds
  <1>3. ArchiveHeld'
    <2> SUFFICES ASSUME NEW o \in Op, archived[o], ~EverCommitted(DestOf[o])'
                 PROVE  Held(DestOf[o])'
      BY DEF ArchiveHeld, Moves
    <2>1. DestOf[o] \in Dest
      BY PlanAssumption
    <2>2. Held(DestOf[o])
      BY <2>1 DEF HoldInvariant, ArchiveHeld, Moves
    <2>3. CASE dest[DestOf[o]]
      <3>1. CASE DestOf[o] = D(u)
        <4>1. dest'[DestOf[o]] \/ Holds(u)'
          BY <2>3, <3>1 DEF Moves
        <4> QED
          BY <4>1, <3>1 DEF Held, D
      <3>2. CASE DestOf[o] # D(u)
        BY <2>1, <2>3, <3>2 DEF Moves, Held
      <3> QED
        BY <3>1, <3>2
    <2>4. CASE \E w \in Undo : D(w) = DestOf[o] /\ Holds(w)
      <3>1. PICK w \in Undo : D(w) = DestOf[o] /\ Holds(w)
        BY <2>4
      <3>2. CASE w = u
        <4>1. dest'[DestOf[o]] \/ Holds(u)'
          BY <3>1, <3>2 DEF Moves
        <4> QED
          BY <4>1, <3>1, <3>2 DEF Held, D
      <3>3. CASE w # u
        BY <1>2, <3>1, <3>3 DEF Held, D
      <3> QED
        BY <3>2, <3>3
    <2> QED
      BY <2>2, <2>3, <2>4 DEF Held
  <1>4. StagedLinksOwned'
    BY <1>1 DEF HoldInvariant, StagedLinksOwned, Moves
  <1>5. RecoveryAlone'
    <2>1. CASE vault = "open"
      BY <2>1 DEF Moves, RecoveryAlone
    <2>2. CASE vault = "reconciling"
      <3>1. \A w \in Undo \ {u} : w \notin Busy
        BY <2>2 DEF HoldInvariant, RecoveryAlone, Moves, Busy
      <3>2. \A w \in Undo \ {u} : w \notin Busy'
        BY <3>1, <1>1 DEF Busy
      <3> QED
        BY <2>2, <3>2 DEF RecoveryAlone, Moves, Busy
    <2> QED
      BY <2>1, <2>2 DEF Moves
  <1>6. RecoveryRestores'
    <2>1. CASE vault = "open"
      BY <2>1, <1>1 DEF Moves, HoldInvariant, RecoveryRestores
    <2>2. CASE vault = "reconciling"
      <3>1. \A w \in Undo \ {u} : w \notin Busy
        BY <2>2 DEF HoldInvariant, RecoveryAlone, Moves, Busy
      <3>2. \A w \in Undo \ {u} : pc'[w] \notin RestoredStep \cup {"rollback", "recordAbandoned"}
        BY <3>1, <1>1 DEF Busy, RestoredStep, AtRest
      <3> QED
        BY <2>2, <3>2, <1>1 DEF RecoveryRestores, Moves
    <2> QED
      BY <2>1, <2>2 DEF Moves
  <1> QED
    BY <1>3, <1>4, <1>5, <1>6 DEF HoldInvariant

(* A process that stops, or a reconciliation that gives up, loses no copy. *)
LEMMA HaltHolds ==
    ASSUME TypeOK, HoldInvariant, pc' \in {Halted, Ended}, archived' = archived, history' = history,
           vault' \in {"closed", "refused"},
           \A w \in Undo : staging'[w] = staging[w],
           \A w \in Undo : dest[D(w)] => dest'[D(w)],
           \A d \in Dest : dest[d] => dest'[d],
           \A w \in Undo : quarantine[w] => quarantine'[w] \/ dest'[D(w)]
    PROVE  HoldInvariant'
  <1>1. \A w \in Undo : /\ pc'[w] \in AtRest
                        /\ \/ pc'[w] \in {"stopped", pc[w]}
                           \/ pc[w] \in Kept /\ pc'[w] = "planned"
    BY DEF Halted, Ended, AtRest
  <1>2. ArchiveHeld'
    <2> SUFFICES ASSUME NEW o \in Op, archived[o], ~EverCommitted(DestOf[o])'
                 PROVE  Held(DestOf[o])'
      BY DEF ArchiveHeld
    <2>1. DestOf[o] \in Dest
      BY PlanAssumption
    <2>2. Held(DestOf[o])
      BY DEF HoldInvariant, ArchiveHeld, EverCommitted
    <2>3. \A w \in Undo : Holds(w) => Holds(w)' \/ dest'[D(w)]
      BY <1>1 DEF Holds, GivingUp, AtRest
    <2> QED
      BY <2>1, <2>2, <2>3 DEF Held, D
  <1>3. StagedLinksOwned'
    BY <1>1 DEF HoldInvariant, StagedLinksOwned, AtRest, Kept, Staged, Unstaged
  <1>4. RecoveryRestores'
    BY <1>1 DEF RecoveryRestores, RestoredStep, AtRest
  <1>5. RecoveryAlone'
    BY <1>1 DEF RecoveryAlone, Busy
  <1> QED
    BY <1>2, <1>3, <1>4, <1>5 DEF HoldInvariant

(* Nothing that HoldInvariant reads changes but the vault's own archive. *)
LEMMA StillHolds ==
    ASSUME HoldInvariant,
           UNCHANGED <<vault, pc, history, staging, quarantine, dest, archived>>
    PROVE  HoldInvariant'
  BY DEF HoldInvariant, ArchiveHeld, EverCommitted, Held, Holds, StagedLinksOwned,
     RecoveryRestores, RecoveryAlone, Busy

LEMMA HoldInit == Init => HoldInvariant
  BY DEF Init, HoldInvariant, ArchiveHeld, StagedLinksOwned, RecoveryRestores,
     RecoveryAlone, Busy, AtRest, Staged, Unstaged, RestoredStep

LEMMA HoldStep == TypeOK /\ HoldInvariant /\ [Next]_vars => HoldInvariant'
  <1> SUFFICES ASSUME TypeOK, HoldInvariant, [Next]_vars PROVE HoldInvariant'
    OBVIOUS
  <1> USE DEF audit, links, registers, user, budget
  <1>d. \A u \in Undo : D(u) \in Dest
    BY PlanAssumption DEF D
  <1>h. history' = history => \A d \in Dest : EverCommitted(d) => EverCommitted(d)'
    BY CommittedStays
  <1>p. \A u \in Undo, s \in Step : pc' = [pc EXCEPT ![u] = s] => pc'[u] = s
    BY DEF TypeOK
  <1>s. /\ \A u \in Undo : pc[u] \in Unstaged => ~staging[u]
        /\ \A u \in Undo : pc[u] \in Staged => staging[u]
        /\ \A u \in Undo : vault = "reconciling" /\ pc[u] = "rollback" => quarantine[u]
        /\ \A u \in Undo : vault = "reconciling" /\ pc[u] \in RestoredStep => dest[D(u)]
        /\ \A u \in Undo : pc[u] = "recordAbandoned" => vault = "reconciling"
    BY DEF HoldInvariant, StagedLinksOwned, RecoveryRestores
  <1> USE StepLiterals
  <1>f. ASSUME NEW u \in Undo,
               pc' = [pc EXCEPT ![u] = AfterFault[pc[u]]],
               UNCHANGED <<vault, history, archived, staging, quarantine, dest>>,
               vault = "open", pc[u] \in DOMAIN AfterFault
        PROVE  HoldInvariant'
    <2>2. pc'[u] = AfterFault[pc[u]] /\ AfterFault[pc[u]] \in Step
      BY <1>f, FollowingSteps DEF TypeOK
    <2>3. /\ AfterFault[pc[u]] \in Unstaged => ~staging[u]
          /\ AfterFault[pc[u]] \in Staged => staging[u]
          /\ AfterFault[pc[u]] # "recordAbandoned"
      BY <1>f, <1>s DEF AfterFault, Unstaged, Staged
    <2>4. Holds(u) => Holds(u)'
      BY <1>f, <2>2, <1>s DEF AfterFault, Holds, GivingUp, Unstaged
    <2>5. Moves(u, AfterFault[pc[u]])
      BY <1>f, <2>3, <2>4, <1>h DEF Moves
    <2> QED
      BY <2>2, <2>5, MovesHolds
  <1>Create. ASSUME NEW u \in Undo, Create(u) PROVE HoldInvariant'
    <2>1. CASE pc' = [pc EXCEPT ![u] = "createAudit"] /\ vault' = vault
      <3>1. Moves(u, "createAudit")
        BY <2>1, <1>Create, <1>d, <1>h, <1>p, <1>s DEF Create, Live, GoTo, Moves, Holds, GivingUp, Staged, Unstaged, RestoredStep, AtRest, TypeOK
      <3> QED
        BY <3>1, MovesHolds
    <2> QED
      BY <1>Create, <2>1 DEF Create, Live, GoTo
  <1>CreateAudit. ASSUME NEW u \in Undo, CreateAudit(u) PROVE HoldInvariant'
    <2>1. CASE pc' = [pc EXCEPT ![u] = "recordProposed"] /\ vault' = vault
      <3>1. Moves(u, "recordProposed")
        BY <2>1, <1>CreateAudit, <1>d, <1>h, <1>p, <1>s DEF CreateAudit, Live, GoTo, Moves, Holds, GivingUp, Staged, Unstaged, RestoredStep, AtRest, TypeOK
      <3> QED
        BY <3>1, MovesHolds
    <2> QED
      BY <1>CreateAudit, <2>1 DEF CreateAudit, Live, GoTo
  <1>Confirm. ASSUME NEW u \in Undo, Confirm(u) PROVE HoldInvariant'
    <2>1. CASE pc' = [pc EXCEPT ![u] = "reverify"] /\ vault' = vault
      <3>1. Moves(u, "reverify")
        BY <2>1, <1>Confirm, <1>d, <1>h, <1>p, <1>s DEF Confirm, Live, GoTo, Moves, Holds, GivingUp, Staged, Unstaged, RestoredStep, AtRest, TypeOK
      <3> QED
        BY <3>1, MovesHolds
    <2> QED
      BY <1>Confirm, <2>1 DEF Confirm, Live, GoTo
  <1>Expire. ASSUME NEW u \in Undo, Expire(u) PROVE HoldInvariant'
    <2>1. /\ UNCHANGED <<vault, history, staging, quarantine, dest, archived>>
          /\ pc[u] = "planned" /\ pc'[u] = "expired"
          /\ \A w \in Undo \ {u} : pc'[w] = pc[w]
      BY <1>Expire DEF Expire, GoTo, TypeOK
    <2>2. ArchiveHeld'
      <3>1. \A w \in Undo : Holds(w) => Holds(w)'
        BY <2>1 DEF Holds, GivingUp
      <3>2. \A e \in Dest : EverCommitted(e)' <=> EverCommitted(e)
        BY <2>1 DEF EverCommitted
      <3> QED
        BY <3>1, <3>2, <2>1, PlanAssumption DEF HoldInvariant, ArchiveHeld, Held
    <2>3. StagedLinksOwned'
      BY <2>1, <1>s DEF StagedLinksOwned, Staged, Unstaged
    <2>4. RecoveryRestores'
      BY <2>1, <1>s DEF RecoveryRestores, RestoredStep
    <2>5. Busy' = Busy
      BY <2>1 DEF Busy, AtRest
    <2> QED
      BY <2>1, <2>2, <2>3, <2>4, <2>5 DEF HoldInvariant, RecoveryAlone
  <1>WriteRecord. ASSUME NEW u \in Undo, WriteRecord(u) PROVE HoldInvariant'
    <2>1. RecordedState[pc[u]] \in UndoState
      BY <1>WriteRecord, RecordedType DEF WriteRecord
    <2>2. \A d \in Dest : EverCommitted(d) => EverCommitted(d)'
      BY <1>WriteRecord, <2>1, CommittedStays DEF WriteRecord
    <2>3. pc[u] = "recordCommitted" => EverCommitted(D(u))'
      <3> SUFFICES ASSUME pc[u] = "recordCommitted" PROVE EverCommitted(D(u))'
        OBVIOUS
      <3>1. history[u] \in Seq(UndoState)
        BY DEF TypeOK
      <3>2. history'[u] = Append(history[u], "Committed")
        BY <1>WriteRecord DEF WriteRecord, RecordedState, TypeOK
      <3>3. Len(history[u]) + 1 \in DOMAIN history'[u]
                /\ history'[u][Len(history[u]) + 1] = "Committed"
        BY <3>1, <3>2
      <3> QED
        BY <3>3 DEF EverCommitted, D
    <2>4. /\ pc' = [pc EXCEPT ![u] = AfterRecord(u)]
          /\ UNCHANGED <<vault, archived, staging, quarantine, dest>>
          /\ vault \in {"open", "reconciling"}
          /\ pc[u] \in RecordStep
      BY <1>WriteRecord DEF WriteRecord, GoTo
    <2>5. pc[u] \notin AtRest \cup {"inspect", "inspectKept"}
      BY <2>4 DEF AtRest, RecordStep, RecordedState
    <2>6. pc'[u] = AfterRecord(u) /\ AfterRecord(u) \in Step
      BY <2>4, FollowingSteps DEF TypeOK
    <2>7. AfterRecord(u) \in {"planned", "quarantine", "done", "dropRestored", "dropStaging"}
      BY DEF AfterRecord
    <2>8. Holds(u) /\ ~EverCommitted(D(u))' => dest'[D(u)] \/ Holds(u)'
      <3>1. CASE pc[u] \in {"recordAbandoned", "recordRestored"} /\ vault = "reconciling"
        BY <3>1, <2>4, <1>s DEF RestoredStep
      <3>2. CASE pc[u] = "recordCommitted"
        BY <3>2, <2>3
      <3>3. CASE /\ pc[u] \in RecordStep \ {"recordAbandoned", "recordCommitted"}
                 /\ pc[u] = "recordRestored" => vault = "open"
        <4>1. AfterRecord(u) \notin GivingUp \/ pc[u] = "recordExecuting"
          BY <3>3 DEF AfterRecord, GivingUp, RecordStep, RecordedState
        <4> QED
          BY <4>1, <2>4, <2>6 DEF Holds, GivingUp
      <3> QED
        BY <3>1, <3>2, <3>3, <2>4, <1>s
    <2>9. /\ AfterRecord(u) \in Unstaged => ~staging'[u]
          /\ AfterRecord(u) \in Staged => staging'[u]
      BY <2>4, <1>s DEF AfterRecord, Unstaged, Staged
    <2>10. Moves(u, AfterRecord(u))
      BY <2>2, <2>4, <2>5, <2>7, <2>8, <2>9 DEF Moves, RestoredStep
    <2> QED
      BY <2>6, <2>10, MovesHolds
  <1>RecordExists. ASSUME NEW u \in Undo, RecordExists(u) PROVE HoldInvariant'
    <2>1. /\ pc' = [pc EXCEPT ![u] = AfterFault[pc[u]]]
          /\ UNCHANGED <<vault, history, archived, staging, quarantine, dest>>
          /\ vault = "open" /\ pc[u] \in DOMAIN AfterFault
      BY <1>RecordExists DEF RecordExists, GoTo, SequenceOf, AfterFault
    <2> QED
      BY <2>1, <1>f
  <1>Reverify. ASSUME NEW u \in Undo, Reverify(u) PROVE HoldInvariant'
    <2>1. CASE pc' = [pc EXCEPT ![u] = "stage"] /\ vault' = vault
      <3>1. Moves(u, "stage")
        BY <2>1, <1>Reverify, <1>d, <1>h, <1>p, <1>s DEF Reverify, Live, GoTo, Moves, Holds, GivingUp, Staged, Unstaged, RestoredStep, AtRest, TypeOK
      <3> QED
        BY <3>1, MovesHolds
    <2>2. CASE pc' = [pc EXCEPT ![u] = "recordRefused"] /\ vault' = vault
      <3>1. Moves(u, "recordRefused")
        BY <2>2, <1>Reverify, <1>d, <1>h, <1>p, <1>s DEF Reverify, Live, GoTo, Moves, Holds, GivingUp, Staged, Unstaged, RestoredStep, AtRest, TypeOK
      <3> QED
        BY <3>1, MovesHolds
    <2> QED
      BY <1>Reverify, <2>1, <2>2 DEF Reverify, Live, GoTo
  <1>Stage. ASSUME NEW u \in Undo, Stage(u) PROVE HoldInvariant'
    <2>1. CASE pc' = [pc EXCEPT ![u] = "recordExecuting"] /\ vault' = vault
      <3>1. Moves(u, "recordExecuting")
        BY <2>1, <1>Stage, <1>d, <1>h, <1>p, <1>s DEF Stage, Live, GoTo, Moves, Holds, GivingUp, Staged, Unstaged, RestoredStep, AtRest, TypeOK
      <3> QED
        BY <3>1, MovesHolds
    <2>2. CASE pc' = [pc EXCEPT ![u] = "discard"] /\ vault' = vault
      <3>1. Moves(u, "discard")
        BY <2>2, <1>Stage, <1>d, <1>h, <1>p, <1>s DEF Stage, Live, GoTo, Moves, Holds, GivingUp, Staged, Unstaged, RestoredStep, AtRest, TypeOK
      <3> QED
        BY <3>1, MovesHolds
    <2> QED
      BY <1>Stage, <2>1, <2>2 DEF Stage, Live, GoTo
  <1>Discard. ASSUME NEW u \in Undo, Discard(u) PROVE HoldInvariant'
    <2>1. CASE pc' = [pc EXCEPT ![u] = "done"] /\ vault' = vault
      <3>1. Moves(u, "done")
        BY <2>1, <1>Discard, <1>d, <1>h, <1>p, <1>s DEF Discard, Live, GoTo, Moves, Holds, GivingUp, Staged, Unstaged, RestoredStep, AtRest, TypeOK
      <3> QED
        BY <3>1, MovesHolds
    <2> QED
      BY <1>Discard, <2>1 DEF Discard, Live, GoTo
  <1>Quarantine. ASSUME NEW u \in Undo, Quarantine(u) PROVE HoldInvariant'
    <2>1. CASE pc' = [pc EXCEPT ![u] = "trash"] /\ vault' = vault
      <3>1. Moves(u, "trash")
        BY <2>1, <1>Quarantine, <1>d, <1>h, <1>p, <1>s DEF Quarantine, Live, GoTo, EnterQuarantine, Moves, Holds, GivingUp, Staged, Unstaged, RestoredStep, AtRest, TypeOK
      <3> QED
        BY <3>1, MovesHolds
    <2>2. CASE pc' = [pc EXCEPT ![u] = "rollback"] /\ vault' = vault
      <3>1. Moves(u, "rollback")
        BY <2>2, <1>Quarantine, <1>d, <1>h, <1>p, <1>s DEF Quarantine, Live, GoTo, EnterQuarantine, Moves, Holds, GivingUp, Staged, Unstaged, RestoredStep, AtRest, TypeOK
      <3> QED
        BY <3>1, MovesHolds
    <2> QED
      BY <1>Quarantine, <2>1, <2>2 DEF Quarantine, Live, GoTo, EnterQuarantine
  <1>MoveToTrash. ASSUME NEW u \in Undo, MoveToTrash(u) PROVE HoldInvariant'
    <2>1. CASE pc' = [pc EXCEPT ![u] = "finalize"] /\ vault' = vault
      <3>1. Moves(u, "finalize")
        BY <2>1, <1>MoveToTrash, <1>d, <1>h, <1>p, <1>s DEF MoveToTrash, Live, GoTo, Moves, Holds, GivingUp, Staged, Unstaged, RestoredStep, AtRest, TypeOK
      <3> QED
        BY <3>1, MovesHolds
    <2> QED
      BY <1>MoveToTrash, <2>1 DEF MoveToTrash, Live, GoTo
  <1>Finalize. ASSUME NEW u \in Undo, Finalize(u) PROVE HoldInvariant'
    <2>1. CASE pc' = [pc EXCEPT ![u] = "deactivate"] /\ vault' = vault
      <3>1. Moves(u, "deactivate")
        BY <2>1, <1>Finalize, <1>d, <1>h, <1>p, <1>s DEF Finalize, Live, GoTo, Moves, Holds, GivingUp, Staged, Unstaged, RestoredStep, AtRest, TypeOK
      <3> QED
        BY <3>1, MovesHolds
    <2>2. CASE pc' = [pc EXCEPT ![u] = "restore"] /\ vault' = vault
      <3>1. Moves(u, "restore")
        BY <2>2, <1>Finalize, <1>d, <1>h, <1>p, <1>s DEF Finalize, Live, GoTo, Moves, Holds, GivingUp, Staged, Unstaged, RestoredStep, AtRest, TypeOK
      <3> QED
        BY <3>1, MovesHolds
    <2> QED
      BY <1>Finalize, <2>1, <2>2 DEF Finalize, Live, GoTo
  <1>Recheck. ASSUME NEW u \in Undo, Recheck(u) PROVE HoldInvariant'
    <2>1. CASE pc' = [pc EXCEPT ![u] = "recordCommitted"] /\ vault' = vault
      <3>1. Moves(u, "recordCommitted")
        BY <2>1, <1>Recheck, <1>d, <1>h, <1>p, <1>s DEF Recheck, Live, GoTo, Moves, Holds, GivingUp, Staged, Unstaged, RestoredStep, AtRest, TypeOK
      <3> QED
        BY <3>1, MovesHolds
    <2>2. CASE pc' = [pc EXCEPT ![u] = "restore"] /\ vault' = vault
      <3>1. Moves(u, "restore")
        BY <2>2, <1>Recheck, <1>d, <1>h, <1>p, <1>s DEF Recheck, Live, GoTo, Moves, Holds, GivingUp, Staged, Unstaged, RestoredStep, AtRest, TypeOK
      <3> QED
        BY <3>1, MovesHolds
    <2> QED
      BY <1>Recheck, <2>1, <2>2 DEF Recheck, Live, GoTo
  <1>Deactivate. ASSUME NEW u \in Undo, Deactivate(u) PROVE HoldInvariant'
    <2>1. CASE pc' = [pc EXCEPT ![u] = "recheck"] /\ vault' = vault
      <3>1. Moves(u, "recheck")
        BY <2>1, <1>Deactivate, <1>d, <1>h, <1>p, <1>s DEF Deactivate, Running, GoTo, Retire, Otherwise, Refuse, Moves, Holds, GivingUp, Staged, Unstaged, RestoredStep, AtRest, TypeOK
      <3> QED
        BY <3>1, MovesHolds
    <2>2. CASE pc' = [pc EXCEPT ![u] = "recordCommitted"] /\ vault' = vault
      <3>1. Moves(u, "recordCommitted")
        BY <2>2, <1>Deactivate, <1>d, <1>h, <1>p, <1>s DEF Deactivate, Running, GoTo, Retire, Otherwise, Refuse, Moves, Holds, GivingUp, Staged, Unstaged, RestoredStep, AtRest, TypeOK
      <3> QED
        BY <3>1, MovesHolds
    <2>3. CASE pc' = [pc EXCEPT ![u] = "recordRestored"] /\ vault' = vault
      <3>1. Moves(u, "recordRestored")
        BY <2>3, <1>Deactivate, <1>d, <1>h, <1>p, <1>s DEF Deactivate, Running, GoTo, Retire, Otherwise, Refuse, Moves, Holds, GivingUp, Staged, Unstaged, RestoredStep, AtRest, TypeOK
      <3> QED
        BY <3>1, MovesHolds
    <2>4. CASE pc' = Ended /\ vault' = "refused"
      BY <2>4, <1>Deactivate, <1>d, <1>s, HaltHolds DEF Deactivate, Running, GoTo, Retire, Otherwise, Refuse, TypeOK
    <2> QED
      BY <1>Deactivate, <2>1, <2>2, <2>3, <2>4 DEF Deactivate, Running, GoTo, Retire, Otherwise, Refuse
  <1>Rollback. ASSUME NEW u \in Undo, Rollback(u) PROVE HoldInvariant'
    <2>1. CASE pc' = [pc EXCEPT ![u] = "unstage"] /\ vault' = vault
      <3>1. Moves(u, "unstage")
        BY <2>1, <1>Rollback, <1>d, <1>h, <1>p, <1>s DEF Rollback, Running, GoTo, Refuse, Moves, Holds, GivingUp, Staged, Unstaged, RestoredStep, AtRest, TypeOK
      <3> QED
        BY <3>1, MovesHolds
    <2>2. CASE pc' = [pc EXCEPT ![u] = "recordAbandoned"] /\ vault' = vault
      <3>1. Moves(u, "recordAbandoned")
        BY <2>2, <1>Rollback, <1>d, <1>h, <1>p, <1>s DEF Rollback, Running, GoTo, Refuse, Moves, Holds, GivingUp, Staged, Unstaged, RestoredStep, AtRest, TypeOK
      <3> QED
        BY <3>1, MovesHolds
    <2>3. CASE pc' = Ended /\ vault' = "refused"
      BY <2>3, <1>Rollback, <1>d, <1>s, HaltHolds DEF Rollback, Running, GoTo, Refuse, TypeOK
    <2> QED
      BY <1>Rollback, <2>1, <2>2, <2>3 DEF Rollback, Running, GoTo, Refuse
  <1>Unstage. ASSUME NEW u \in Undo, Unstage(u) PROVE HoldInvariant'
    <2>1. CASE pc' = [pc EXCEPT ![u] = "recordFailed"] /\ vault' = vault
      <3>1. Moves(u, "recordFailed")
        BY <2>1, <1>Unstage, <1>d, <1>h, <1>p, <1>s DEF Unstage, Live, GoTo, Moves, Holds, GivingUp, Staged, Unstaged, RestoredStep, AtRest, TypeOK
      <3> QED
        BY <3>1, MovesHolds
    <2> QED
      BY <1>Unstage, <2>1 DEF Unstage, Live, GoTo
  <1>Restore. ASSUME NEW u \in Undo, Restore(u) PROVE HoldInvariant'
    <2>1. CASE pc' = [pc EXCEPT ![u] = "restoreRegistration"] /\ vault' = vault
      <3>1. Moves(u, "restoreRegistration")
        BY <2>1, <1>Restore, <1>d, <1>h, <1>p, <1>s DEF Restore, Running, GoTo, Moves, Holds, GivingUp, Staged, Unstaged, RestoredStep, AtRest, TypeOK
      <3> QED
        BY <3>1, MovesHolds
    <2> QED
      BY <1>Restore, <2>1 DEF Restore, Running, GoTo
  <1>RestoreRegistration. ASSUME NEW u \in Undo, RestoreRegistration(u) PROVE HoldInvariant'
    <2>1. CASE pc' = [pc EXCEPT ![u] = "recordRestored"] /\ vault' = vault
      <3>1. Moves(u, "recordRestored")
        BY <2>1, <1>RestoreRegistration, <1>d, <1>h, <1>p, <1>s DEF RestoreRegistration, Running, GoTo, Otherwise, Refuse, Moves, Holds, GivingUp, Staged, Unstaged, RestoredStep, AtRest, TypeOK
      <3> QED
        BY <3>1, MovesHolds
    <2>2. CASE pc' = Ended /\ vault' = "refused"
      BY <2>2, <1>RestoreRegistration, <1>d, <1>s, HaltHolds DEF RestoreRegistration, Running, GoTo, Otherwise, Refuse, TypeOK
    <2> QED
      BY <1>RestoreRegistration, <2>1, <2>2 DEF RestoreRegistration, Running, GoTo, Otherwise, Refuse
  <1>DropRestored. ASSUME NEW u \in Undo, DropRestored(u) PROVE HoldInvariant'
    <2>1. CASE pc' = [pc EXCEPT ![u] = "dropStaging"] /\ vault' = vault
      <3>1. Moves(u, "dropStaging")
        BY <2>1, <1>DropRestored, <1>d, <1>h, <1>p, <1>s DEF DropRestored, Live, GoTo, Moves, Holds, GivingUp, Staged, Unstaged, RestoredStep, AtRest, TypeOK
      <3> QED
        BY <3>1, MovesHolds
    <2>2. CASE pc' = [pc EXCEPT ![u] = "done"] /\ vault' = vault
      <3>1. Moves(u, "done")
        BY <2>2, <1>DropRestored, <1>d, <1>h, <1>p, <1>s DEF DropRestored, Live, GoTo, Moves, Holds, GivingUp, Staged, Unstaged, RestoredStep, AtRest, TypeOK
      <3> QED
        BY <3>1, MovesHolds
    <2> QED
      BY <1>DropRestored, <2>1, <2>2 DEF DropRestored, Live, GoTo
  <1>DropStaging. ASSUME NEW u \in Undo, DropStaging(u) PROVE HoldInvariant'
    <2>1. CASE pc' = [pc EXCEPT ![u] = "done"] /\ vault' = vault
      <3>1. Moves(u, "done")
        BY <2>1, <1>DropStaging, <1>d, <1>h, <1>p, <1>s DEF DropStaging, Running, GoTo, Moves, Holds, GivingUp, Staged, Unstaged, RestoredStep, AtRest, TypeOK
      <3> QED
        BY <3>1, MovesHolds
    <2> QED
      BY <1>DropStaging, <2>1 DEF DropStaging, Running, GoTo
  <1>Inspect. ASSUME NEW u \in Undo, Inspect(u) PROVE HoldInvariant'
    <2>1. CASE pc' = [pc EXCEPT ![u] = "abandonPlan"] /\ vault' = vault
      <3>1. Moves(u, "abandonPlan")
        BY <2>1, <1>Inspect, <1>d, <1>h, <1>p, <1>s DEF Inspect, GoTo, RecoverExecuting, Refuse, Moves, Holds, GivingUp, Staged, Unstaged, RestoredStep, AtRest, TypeOK
      <3> QED
        BY <3>1, MovesHolds
    <2>2. CASE pc' = [pc EXCEPT ![u] = "done"] /\ vault' = vault
      <3>1. Moves(u, "done")
        BY <2>2, <1>Inspect, <1>d, <1>h, <1>p, <1>s DEF Inspect, GoTo, RecoverExecuting, Refuse, Moves, Holds, GivingUp, Staged, Unstaged, RestoredStep, AtRest, TypeOK
      <3> QED
        BY <3>1, MovesHolds
    <2>3. CASE pc' = [pc EXCEPT ![u] = "rollback"] /\ vault' = vault
      <3>1. Moves(u, "rollback")
        BY <2>3, <1>Inspect, <1>d, <1>h, <1>p, <1>s DEF Inspect, GoTo, RecoverExecuting, Refuse, Moves, Holds, GivingUp, Staged, Unstaged, RestoredStep, AtRest, TypeOK
      <3> QED
        BY <3>1, MovesHolds
    <2>4. CASE pc' = [pc EXCEPT ![u] = "recordAbandoned"] /\ vault' = vault
      <3>1. Moves(u, "recordAbandoned")
        BY <2>4, <1>Inspect, <1>d, <1>h, <1>p, <1>s DEF Inspect, GoTo, RecoverExecuting, Refuse, Moves, Holds, GivingUp, Staged, Unstaged, RestoredStep, AtRest, TypeOK
      <3> QED
        BY <3>1, MovesHolds
    <2>5. CASE pc' = [pc EXCEPT ![u] = "restore"] /\ vault' = vault
      <3>1. Moves(u, "restore")
        BY <2>5, <1>Inspect, <1>d, <1>h, <1>p, <1>s DEF Inspect, GoTo, RecoverExecuting, Refuse, Moves, Holds, GivingUp, Staged, Unstaged, RestoredStep, AtRest, TypeOK
      <3> QED
        BY <3>1, MovesHolds
    <2>6. CASE pc' = [pc EXCEPT ![u] = "deactivate"] /\ vault' = vault
      <3>1. Moves(u, "deactivate")
        BY <2>6, <1>Inspect, <1>d, <1>h, <1>p, <1>s DEF Inspect, GoTo, RecoverExecuting, Refuse, Moves, Holds, GivingUp, Staged, Unstaged, RestoredStep, AtRest, TypeOK
      <3> QED
        BY <3>1, MovesHolds
    <2>7. CASE pc' = [pc EXCEPT ![u] = "recordCommitted"] /\ vault' = vault
      <3>1. Moves(u, "recordCommitted")
        BY <2>7, <1>Inspect, <1>d, <1>h, <1>p, <1>s DEF Inspect, GoTo, RecoverExecuting, Refuse, Moves, Holds, GivingUp, Staged, Unstaged, RestoredStep, AtRest, TypeOK
      <3> QED
        BY <3>1, MovesHolds
    <2>9. CASE pc' = [pc EXCEPT ![u] = "abandonKept"] /\ vault' = vault
      <3>1. Moves(u, "abandonKept")
        BY <2>9, <1>Inspect, <1>d, <1>h, <1>p, <1>s DEF Inspect, GoTo, RecoverExecuting, Refuse, Moves, Holds, GivingUp, Staged, Unstaged, RestoredStep, AtRest, TypeOK
      <3> QED
        BY <3>1, MovesHolds
    <2>10. CASE pc' = [pc EXCEPT ![u] = "planned"] /\ vault' = vault
      <3>1. Moves(u, "planned")
        BY <2>10, <1>Inspect, <1>d, <1>h, <1>p, <1>s DEF Inspect, GoTo, RecoverExecuting, Refuse, Moves, Holds, GivingUp, Staged, Unstaged, RestoredStep, AtRest, TypeOK
      <3> QED
        BY <3>1, MovesHolds
    <2>8. CASE pc' = Ended /\ vault' = "refused"
      BY <2>8, <1>Inspect, <1>d, <1>s, HaltHolds DEF Inspect, GoTo, RecoverExecuting, Refuse, TypeOK
    <2> QED
      BY <1>Inspect, <2>1, <2>2, <2>3, <2>4, <2>5, <2>6, <2>7, <2>8, <2>9, <2>10 DEF Inspect, GoTo, RecoverExecuting, Refuse
  <1>StepFails. ASSUME NEW u \in Undo, StepFails(u) PROVE HoldInvariant'
    BY <1>StepFails, <1>f DEF StepFails, GoTo
  <1>VerificationFails. ASSUME NEW u \in Undo, VerificationFails(u) PROVE HoldInvariant'
    <2>1. CASE pc' = [pc EXCEPT ![u] = "rollback"] /\ vault' = vault
      <3>1. Moves(u, "rollback")
        BY <2>1, <1>VerificationFails, <1>d, <1>h, <1>p, <1>s DEF VerificationFails, GoTo, Fault, EnterQuarantine, Moves, Holds, GivingUp, Staged, Unstaged, RestoredStep, AtRest, TypeOK
      <3> QED
        BY <3>1, MovesHolds
    <2>2. CASE pc' = [pc EXCEPT ![u] = "unstage"] /\ vault' = vault
      <3>1. Moves(u, "unstage")
        BY <2>2, <1>VerificationFails, <1>d, <1>h, <1>p, <1>s DEF VerificationFails, GoTo, Fault, EnterQuarantine, Moves, Holds, GivingUp, Staged, Unstaged, RestoredStep, AtRest, TypeOK
      <3> QED
        BY <3>1, MovesHolds
    <2>3. CASE pc' = [pc EXCEPT ![u] = "recordRestored"] /\ vault' = vault
      <3>1. Moves(u, "recordRestored")
        BY <2>3, <1>VerificationFails, <1>d, <1>h, <1>p, <1>s DEF VerificationFails, GoTo, Fault, EnterQuarantine, Moves, Holds, GivingUp, Staged, Unstaged, RestoredStep, AtRest, TypeOK
      <3> QED
        BY <3>1, MovesHolds
    <2>4. CASE pc' = [pc EXCEPT ![u] = "restore"] /\ vault' = vault
      <3>1. Moves(u, "restore")
        BY <2>4, <1>VerificationFails, <1>d, <1>h, <1>p, <1>s DEF VerificationFails, GoTo, Fault, EnterQuarantine, Moves, Holds, GivingUp, Staged, Unstaged, RestoredStep, AtRest, TypeOK
      <3> QED
        BY <3>1, MovesHolds
    <2> QED
      BY <1>VerificationFails, <2>1, <2>2, <2>3, <2>4 DEF VerificationFails, GoTo, Fault, EnterQuarantine
  <1>RecoveryFails. ASSUME NEW u \in Undo, RecoveryFails(u) PROVE HoldInvariant'
    <2>1. \A d \in Dest : dest[d] => dest'[d]
      BY <1>RecoveryFails, <1>d DEF RecoveryFails, TypeOK
    <2> QED
      BY <1>RecoveryFails, <2>1, <1>d, HaltHolds DEF RecoveryFails, Refuse, Fault, TypeOK
  <1>Archive. ASSUME NEW o \in Op, Archive(o) PROVE HoldInvariant'
    <2>1. /\ UNCHANGED <<vault, pc, history, staging, quarantine>>
          /\ \A d \in Dest : dest[d] => dest'[d]
          /\ dest'[DestOf[o]]
          /\ \A p \in Op \ {o} : archived'[p] = archived[p]
      BY <1>Archive, PlanAssumption DEF Archive, TypeOK
    <2>2. ArchiveHeld'
      <3> SUFFICES ASSUME NEW p \in Op, archived'[p], ~EverCommitted(DestOf[p])'
                   PROVE  Held(DestOf[p])'
        BY DEF ArchiveHeld
      <3>1. CASE p = o
        BY <3>1, <2>1 DEF Held
      <3>2. CASE p # o
        <4>1. Held(DestOf[p])
          BY <3>2, <2>1 DEF HoldInvariant, ArchiveHeld, EverCommitted
        <4> QED
          BY <4>1, <2>1, PlanAssumption DEF Held, Holds
      <3> QED
        BY <3>1, <3>2
    <2>3. StagedLinksOwned' /\ RecoveryAlone'
      BY <2>1 DEF HoldInvariant, StagedLinksOwned, RecoveryAlone, Busy
    <2>4. RecoveryRestores'
      BY <2>1, <1>d DEF HoldInvariant, RecoveryRestores
    <2> QED
      BY <2>2, <2>3, <2>4 DEF HoldInvariant
  <1>VerifyForSave. ASSUME NEW o \in Op, VerifyForSave(o) PROVE HoldInvariant'
    BY <1>VerifyForSave, StillHolds DEF VerifyForSave
  <1>WriteKnowledge. ASSUME NEW o \in Op, WriteKnowledge(o) PROVE HoldInvariant'
    BY <1>WriteKnowledge, StillHolds DEF WriteKnowledge
  <1>SourceChanges. ASSUME NEW o \in Op, SourceChanges(o) PROVE HoldInvariant'
    BY <1>SourceChanges, StillHolds DEF SourceChanges
  <1>BeginReconcile. ASSUME BeginReconcile PROVE HoldInvariant'
    <2>1. /\ UNCHANGED <<history, staging, quarantine, dest, archived>>
          /\ vault' = "reconciling"
          /\ \A w \in Undo : /\ pc[w] \in AtRest \cup {"inspect", "inspectKept"}
                              /\ \/ pc'[w] \in {"inspect", pc[w]}
                                 \/ pc[w] = "planned" /\ pc'[w] = "inspectKept"
      BY <1>BeginReconcile DEF BeginReconcile, HoldInvariant, RecoveryAlone, Busy, AtRest
    <2>2. ArchiveHeld'
      <3>1. \A w \in Undo : Holds(w) => Holds(w)'
        BY <2>1 DEF Holds, GivingUp
      <3>2. \A e \in Dest : EverCommitted(e)' <=> EverCommitted(e)
        BY <2>1 DEF EverCommitted
      <3> QED
        BY <3>1, <3>2, <2>1, PlanAssumption DEF HoldInvariant, ArchiveHeld, Held
    <2>3. StagedLinksOwned'
      BY <2>1, <1>s DEF StagedLinksOwned, Staged, Unstaged
    <2>4. RecoveryRestores' /\ RecoveryAlone'
      BY <2>1 DEF RecoveryRestores, RecoveryAlone, Busy, RestoredStep, AtRest
    <2> QED
      BY <2>2, <2>3, <2>4 DEF HoldInvariant
  <1>FinishReconcile. ASSUME FinishReconcile PROVE HoldInvariant'
    <2>1. CASE pc' = Ended /\ vault' = "refused"
      BY <2>1, <1>FinishReconcile, <1>d, HaltHolds DEF FinishReconcile
    <2>2. CASE pc' = pc /\ vault' = "open"
      <3>1. /\ UNCHANGED <<pc, history, staging, quarantine, dest, archived>>
            /\ \A w \in Undo : pc[w] \in AtRest
        BY <2>2, <1>FinishReconcile DEF FinishReconcile
      <3>2. ArchiveHeld' /\ StagedLinksOwned'
        BY <3>1 DEF HoldInvariant, ArchiveHeld, EverCommitted, Held, Holds, StagedLinksOwned
      <3>3. RecoveryRestores' /\ RecoveryAlone'
        BY <2>2, <3>1 DEF RecoveryRestores, RecoveryAlone, AtRest
      <3> QED
        BY <3>2, <3>3 DEF HoldInvariant
    <2> QED
      BY <1>FinishReconcile, <2>1, <2>2 DEF FinishReconcile, Refuse
  <1>TransferAway. ASSUME TransferAway PROVE HoldInvariant'
    <2>1. /\ UNCHANGED <<pc, history, staging, quarantine, dest, archived>>
          /\ vault' = "closed" /\ \A w \in Undo : pc[w] \in AtRest
      BY <1>TransferAway DEF TransferAway
    <2>2. ArchiveHeld' /\ StagedLinksOwned'
      BY <2>1 DEF HoldInvariant, ArchiveHeld, EverCommitted, Held, Holds, StagedLinksOwned
    <2>3. RecoveryRestores' /\ RecoveryAlone'
      BY <2>1 DEF RecoveryRestores, RecoveryAlone, Busy, RestoredStep, AtRest
    <2> QED
      BY <2>2, <2>3 DEF HoldInvariant
  <1>Quit. ASSUME Quit PROVE HoldInvariant'
    BY <1>Quit, <1>d, HaltHolds DEF Quit
  <1>Crash. ASSUME Crash PROVE HoldInvariant'
    BY <1>Crash, <1>d, HaltHolds DEF Crash
  <1>Stutter. ASSUME UNCHANGED vars PROVE HoldInvariant'
    BY <1>Stutter, StillHolds DEF vars
  <1> QED
    BY <1>Create, <1>CreateAudit, <1>Confirm, <1>Expire,
       <1>WriteRecord, <1>RecordExists, <1>TransferAway, <1>Reverify, <1>Stage, <1>Discard,
       <1>Quarantine, <1>MoveToTrash, <1>Finalize, <1>Recheck,
       <1>Deactivate, <1>Rollback, <1>Unstage, <1>Restore,
       <1>RestoreRegistration, <1>DropRestored, <1>DropStaging, <1>Inspect,
       <1>StepFails, <1>VerificationFails, <1>RecoveryFails, <1>Archive,
       <1>VerifyForSave, <1>WriteKnowledge, <1>SourceChanges, <1>BeginReconcile,
       <1>FinishReconcile, <1>Quit, <1>Crash, <1>Stutter
       DEF Next, Execute, Failure

(* However undos of shared or separate destinations, failed file operations   *)
(* and crashes interleave, the Vault keeps the bytes of an archived original   *)
(* until an undo of that destination is recorded Committed.                    *)
THEOREM ArchivedBytesRemain == Spec => []ArchiveCopyRemains
  <1>1. Init => TypeOK /\ HoldInvariant
    BY TypeInit, HoldInit
  <1>2. TypeOK /\ HoldInvariant /\ [Next]_vars => TypeOK' /\ HoldInvariant'
    BY TypeStep, HoldStep
  <1>3. HoldInvariant => ArchiveCopyRemains
    BY DEF HoldInvariant, ArchiveHeld, Held, Holds, ArchiveCopyRemains, Copied
  <1> QED
    BY <1>1, <1>2, <1>3, PTL DEF Spec

-----------------------------------------------------------------------------
(* Whatever writes an audit, its history stays one that can be read back.      *)

(* Records appended to a history, and the state a history stands at. *)
LEMMA Appended ==
    ASSUME NEW s
    PROVE  /\ Append(<<>>, s) = <<s>>
           /\ Append(<<"Proposed">>, s) = <<"Proposed", s>>
           /\ Append(<<"Proposed", "Executing">>, s) = <<"Proposed", "Executing", s>>
  <1>1. Append(<<>>, s) = <<s>>
    OBVIOUS
  <1>2. Append(<<"Proposed">>, s) = <<"Proposed", s>>
    <2> DEFINE longer == Append(<<"Proposed">>, s)
    <2>1. longer = [i \in 1..2 |-> longer[i]] /\ longer[1] = "Proposed" /\ longer[2] = s
      OBVIOUS
    <2> HIDE DEF longer
    <2>2. longer = <<"Proposed", s>>
      BY <2>1
    <2> QED
      BY <2>2 DEF longer
  <1>3. Append(<<"Proposed", "Executing">>, s) = <<"Proposed", "Executing", s>>
    <2> DEFINE longer == Append(<<"Proposed", "Executing">>, s)
    <2>1. /\ longer = [i \in 1..3 |-> longer[i]]
          /\ longer[1] = "Proposed" /\ longer[2] = "Executing" /\ longer[3] = s
      OBVIOUS
    <2> HIDE DEF longer
    <2>2. longer = <<"Proposed", "Executing", s>>
      BY <2>1
    <2> QED
      BY <2>2 DEF longer
  <1> QED
    BY <1>1, <1>2, <1>3

LEMMA HistoryLengths ==
    ASSUME NEW s, NEW t
    PROVE  Len(<<>>) = 0 /\ Len(<<s>>) = 1 /\ Len(<<s, t>>) = 2
  OBVIOUS

LEMMA StatesOfHistories ==
    ASSUME NEW u \in Undo, history[u] \in ValidHistories
    PROVE  /\ StateOf(u) = "Proposed" => history[u] = <<"Proposed">>
           /\ StateOf(u) = "Executing" => history[u] = <<"Proposed", "Executing">>
  <1>1. CASE history[u] = <<>>
    BY <1>1 DEF StateOf
  <1>2. CASE history[u] = <<"Proposed">>
    BY <1>2 DEF StateOf
  <1>3. CASE \E s \in UndoState \ {"Proposed", "Committed"} : history[u] = <<"Proposed", s>>
    <2>1. PICK s \in UndoState \ {"Proposed", "Committed"} : history[u] = <<"Proposed", s>>
      BY <1>3
    <2>2. StateOf(u) = s
      BY <2>1 DEF StateOf
    <2> QED
      BY <2>1, <2>2
  <1>4. CASE \E s \in Terminal : history[u] = <<"Proposed", "Executing", s>>
    <2>1. PICK s \in Terminal : history[u] = <<"Proposed", "Executing", s>>
      BY <1>4
    <2>2. StateOf(u) = s
      BY <2>1 DEF StateOf
    <2> QED
      BY <2>2 DEF Terminal
  <1> QED
    BY <1>1, <1>2, <1>3, <1>4 DEF ValidHistories

(* The histories that a record makes. *)
LEMMA LongerHistories ==
    /\ <<"Proposed">> \in ValidHistories
    /\ \A s \in {"Executing", "Failed", "Abandoned"} : <<"Proposed", s>> \in ValidHistories
    /\ \A s \in Terminal : <<"Proposed", "Executing", s>> \in ValidHistories
  BY DEF ValidHistories, UndoState, Terminal

(* Undo u alone takes a step, to one that fits its audit and the Vault. *)
LEMMA MovesFit ==
    ASSUME TypeOK, HistoryInvariant, NEW u \in Undo, NEW s \in Step,
           pc' = [pc EXCEPT ![u] = s], vault' = vault,
           \A w \in Undo \ {u} : history'[w] = history[w],
           Fits(s, history'[u]), Allowed(s, vault)
    PROVE  HistoryInvariant'
  <1>1. pc'[u] = s /\ \A w \in Undo \ {u} : pc'[w] = pc[w]
    BY DEF TypeOK
  <1>2. ASSUME NEW w \in Undo PROVE Fits(pc'[w], history'[w]) /\ Allowed(pc'[w], vault')
    <2>1. CASE w = u
      BY <1>1, <2>1
    <2>2. CASE w # u
      BY <1>1, <2>2 DEF HistoryInvariant
    <2> QED
      BY <2>1, <2>2
  <1> QED
    BY <1>2 DEF HistoryInvariant

(* The program stops, or a reconciliation gives up. *)
LEMMA HaltFits ==
    ASSUME TypeOK, HistoryInvariant, history' = history,
           vault' \in {"closed", "refused"}, pc' \in {Halted, Ended}
    PROVE  HistoryInvariant'
  <1> SUFFICES ASSUME NEW w \in Undo
               PROVE  Fits(pc'[w], history[w]) /\ Allowed(pc'[w], vault')
    BY DEF HistoryInvariant
  <1>1. pc'[w] \in AtRest
    BY HaltedRests DEF TypeOK
  <1>2. \/ pc'[w] = "planned" /\ pc[w] \in Kept
        \/ pc'[w] = pc[w] /\ pc[w] \in AtRest
        \/ pc'[w] = "stopped"
    BY DEF Halted, Ended
  <1>3. Fits(pc[w], history[w])
    BY DEF HistoryInvariant
  <1>4. Fits(pc'[w], history[w])
    BY <1>2, <1>3 DEF Fits, Kept, Unrecorded, Unexecuted, Abandoning, Underway
  <1>5. Allowed(pc'[w], vault')
    BY <1>1 DEF Allowed, AtRest, RecoveryOnly, Abandoning
  <1> QED
    BY <1>4, <1>5

LEMMA StillFits ==
    ASSUME HistoryInvariant, history' = history, vault' = vault, pc' = pc
    PROVE  HistoryInvariant'
  BY DEF HistoryInvariant

LEMMA HistoryInit == Init => HistoryInvariant
  BY DEF Init, HistoryInvariant, Fits, Allowed, ValidHistories, Unrecorded, Unexecuted,
         Abandoning, Underway, RecoveryOnly, AtRest

(* HistoryInvariant is inductive. *)
LEMMA HistoryStep == TypeOK /\ HistoryInvariant /\ [Next]_vars => HistoryInvariant'
  <1> SUFFICES ASSUME TypeOK, HistoryInvariant, [Next]_vars PROVE HistoryInvariant'
    OBVIOUS
  <1> USE DEF audit, links, registers, user, budget
  <1> USE StepLiterals
  <1>f. ASSUME NEW u \in Undo PROVE Fits(pc[u], history[u]) /\ Allowed(pc[u], vault)
    BY DEF HistoryInvariant
  <1>Create. ASSUME NEW u \in Undo, Create(u) PROVE HistoryInvariant'
    <2>1. CASE pc' = [pc EXCEPT ![u] = "createAudit"] /\ vault' = vault
      <3>1. history' = history
        BY <2>1, <1>Create DEF Create, Live, GoTo
      <3>2. Fits("createAudit", history[u]) /\ Allowed("createAudit", vault)
        BY <2>1, <1>Create, <1>f DEF Create, Live, GoTo, Fits, Allowed, Unrecorded, Unexecuted, Abandoning, Underway, RecoveryOnly, RecoveryStep, AtRest
      <3> QED
        BY <2>1, <3>1, <3>2, MovesFit
    <2> QED
      BY <1>Create, <2>1 DEF Create, Live, GoTo
  <1>CreateAudit. ASSUME NEW u \in Undo, CreateAudit(u) PROVE HistoryInvariant'
    <2>1. CASE pc' = [pc EXCEPT ![u] = "recordProposed"] /\ vault' = vault
      <3>1. history' = history
        BY <2>1, <1>CreateAudit DEF CreateAudit, Live, GoTo
      <3>2. Fits("recordProposed", history[u]) /\ Allowed("recordProposed", vault)
        BY <2>1, <1>CreateAudit, <1>f DEF CreateAudit, Live, GoTo, Fits, Allowed, Unrecorded, Unexecuted, Abandoning, Underway, RecoveryOnly, RecoveryStep, AtRest
      <3> QED
        BY <2>1, <3>1, <3>2, MovesFit
    <2> QED
      BY <1>CreateAudit, <2>1 DEF CreateAudit, Live, GoTo
  <1>Confirm. ASSUME NEW u \in Undo, Confirm(u) PROVE HistoryInvariant'
    <2>1. CASE pc' = [pc EXCEPT ![u] = "reverify"] /\ vault' = vault
      <3>1. history' = history
        BY <2>1, <1>Confirm DEF Confirm, Live, GoTo
      <3>2. Fits("reverify", history[u]) /\ Allowed("reverify", vault)
        BY <2>1, <1>Confirm, <1>f DEF Confirm, Live, GoTo, Fits, Allowed, Unrecorded, Unexecuted, Abandoning, Underway, RecoveryOnly, RecoveryStep, AtRest
      <3> QED
        BY <2>1, <3>1, <3>2, MovesFit
    <2> QED
      BY <1>Confirm, <2>1 DEF Confirm, Live, GoTo
  <1>Expire. ASSUME NEW u \in Undo, Expire(u) PROVE HistoryInvariant'
    <2>1. CASE pc' = [pc EXCEPT ![u] = "expired"] /\ vault' = vault
      <3>1. history' = history
        BY <2>1, <1>Expire DEF Expire, GoTo
      <3>2. Fits("expired", history[u]) /\ Allowed("expired", vault)
        BY <2>1, <1>Expire, <1>f DEF Expire, GoTo, Fits, Allowed, Unrecorded, Unexecuted, Abandoning, Underway, RecoveryOnly, RecoveryStep, AtRest
      <3> QED
        BY <2>1, <3>1, <3>2, MovesFit
    <2> QED
      BY <1>Expire, <2>1 DEF Expire, GoTo
  <1>WriteRecord. ASSUME NEW u \in Undo, WriteRecord(u) PROVE HistoryInvariant'
    <2>1. /\ history'[u] = Append(history[u], RecordedState[pc[u]])
          /\ \A w \in Undo \ {u} : history'[w] = history[w]
          /\ pc' = [pc EXCEPT ![u] = AfterRecord(u)] /\ vault' = vault
          /\ pc[u] \in RecordStep /\ Numbered(u) /\ vault \in {"open", "reconciling"}
      BY <1>WriteRecord DEF WriteRecord, GoTo, TypeOK
    <2> SUFFICES Fits(AfterRecord(u), history'[u]) /\ Allowed(AfterRecord(u), vault)
      BY <2>1, MovesFit, FollowingSteps
    <2>2. CASE pc[u] = "recordProposed"
      <3>1. history[u] = <<>>
        BY <2>2, <1>f DEF Fits, Unrecorded
      <3>2. history'[u] = <<"Proposed">>
        BY <2>1, <2>2, <3>1, Appended DEF RecordedState
      <3>3. AfterRecord(u) = "planned"
        BY <2>2 DEF AfterRecord
      <3> QED
        BY <2>1, <3>2, <3>3, LongerHistories DEF Fits, Allowed, Unrecorded, Unexecuted, Abandoning, Underway, RecoveryOnly, RecoveryStep, AtRest
    <2>3. CASE pc[u] \in {"recordExecuting", "recordRefused"}
      <3>1. vault = "open"
        BY <2>1, <2>3, <1>f DEF Allowed, AtRest, RecoveryStep, RecoveryOnly, Abandoning
      <3>2. Len(history[u]) <= 1
        BY <2>1, <2>3, <3>1 DEF Numbered, SequenceOf
      <3>3. history[u] = <<"Proposed">>
        BY <2>3, <3>2, <1>f, HistoryLengths DEF Fits, Unexecuted
      <3>4. history'[u] = <<"Proposed", RecordedState[pc[u]]>>
        BY <2>1, <3>3, Appended
      <3>5. /\ pc[u] = "recordExecuting" => RecordedState[pc[u]] = "Executing" /\ AfterRecord(u) = "quarantine"
            /\ pc[u] = "recordRefused" => RecordedState[pc[u]] = "Failed" /\ AfterRecord(u) = "done"
        BY DEF RecordedState, AfterRecord
      <3> QED
        BY <2>3, <3>1, <3>4, <3>5, LongerHistories DEF Fits, Allowed, Unrecorded, Unexecuted, Abandoning, Underway, RecoveryOnly, RecoveryStep, AtRest
    <2>4. CASE pc[u] \in {"abandonPlan", "abandonKept"}
      <3>1. history[u] = <<"Proposed">> /\ vault # "open"
        BY <2>4, <1>f DEF Fits, Allowed, Abandoning, RecoveryOnly
      <3>2. history'[u] = <<"Proposed", "Abandoned">>
        BY <2>1, <2>4, <3>1, Appended DEF RecordedState
      <3>3. AfterRecord(u) = IF pc[u] = "abandonKept" THEN "planned" ELSE "done"
        BY <2>4 DEF AfterRecord
      <3> QED
        BY <2>1, <3>1, <3>2, <3>3, LongerHistories DEF Fits, Allowed, Unrecorded, Unexecuted, Abandoning, Underway, RecoveryOnly, RecoveryStep, AtRest
    <2>5. CASE pc[u] \in {"recordFailed", "recordRestored", "recordCommitted", "recordAbandoned"}
      <3>1. history[u] = <<"Proposed", "Executing">>
        BY <2>5, <1>f DEF Fits, Underway
      <3>2. RecordedState[pc[u]] \in Terminal
        BY <2>5 DEF RecordedState, Terminal
      <3>3. history'[u] = <<"Proposed", "Executing", RecordedState[pc[u]]>>
        BY <2>1, <3>1, Appended
      <3>4. AfterRecord(u) \in {"done", "dropRestored", "dropStaging"}
        BY <2>5 DEF AfterRecord
      <3>5. Fits(AfterRecord(u), history'[u])
        BY <3>2, <3>3, <3>4, LongerHistories DEF Fits, Unrecorded, Unexecuted, Abandoning, Underway
      <3>6. vault # "open" => AfterRecord(u) # "dropRestored"
        BY <2>5 DEF AfterRecord
      <3>7. Allowed(AfterRecord(u), vault)
        BY <2>1, <3>4, <3>6 DEF Allowed, RecoveryOnly, RecoveryStep, Abandoning, AtRest
      <3> QED
        BY <3>5, <3>7
    <2> QED
      BY <2>1, <2>2, <2>3, <2>4, <2>5 DEF RecordStep, RecordedState
  <1>a. ASSUME NEW u \in Undo, vault = "open", vault' = vault, history' = history,
                pc[u] \in DOMAIN AfterFault, pc' = [pc EXCEPT ![u] = AfterFault[pc[u]]]
        PROVE  HistoryInvariant'
    <2>1. AfterFault[pc[u]] \in Step
      BY <1>a, FollowingSteps
    <2>2. Allowed(AfterFault[pc[u]], vault)
      BY <1>a DEF AfterFault, Allowed, RecoveryOnly, Abandoning
    <2>3. Fits(AfterFault[pc[u]], history[u])
      BY <1>a, <1>f DEF AfterFault, Fits, Unrecorded, Unexecuted, Abandoning, Underway
    <2> QED
      BY <1>a, <2>1, <2>2, <2>3, MovesFit
  <1>RecordExists. ASSUME NEW u \in Undo, RecordExists(u) PROVE HistoryInvariant'
    <2>1. pc[u] \in DOMAIN AfterFault
      BY <1>RecordExists DEF RecordExists, SequenceOf, AfterFault
    <2> QED
      BY <1>RecordExists, <2>1, <1>a DEF RecordExists, GoTo
  <1>Reverify. ASSUME NEW u \in Undo, Reverify(u) PROVE HistoryInvariant'
    <2>1. CASE pc' = [pc EXCEPT ![u] = "stage"] /\ vault' = vault
      <3>1. history' = history
        BY <2>1, <1>Reverify DEF Reverify, Live, GoTo
      <3>2. Fits("stage", history[u]) /\ Allowed("stage", vault)
        BY <2>1, <1>Reverify, <1>f DEF Reverify, Live, GoTo, Fits, Allowed, Unrecorded, Unexecuted, Abandoning, Underway, RecoveryOnly, RecoveryStep, AtRest
      <3> QED
        BY <2>1, <3>1, <3>2, MovesFit
    <2>2. CASE pc' = [pc EXCEPT ![u] = "recordRefused"] /\ vault' = vault
      <3>1. history' = history
        BY <2>2, <1>Reverify DEF Reverify, Live, GoTo
      <3>2. Fits("recordRefused", history[u]) /\ Allowed("recordRefused", vault)
        BY <2>2, <1>Reverify, <1>f DEF Reverify, Live, GoTo, Fits, Allowed, Unrecorded, Unexecuted, Abandoning, Underway, RecoveryOnly, RecoveryStep, AtRest
      <3> QED
        BY <2>2, <3>1, <3>2, MovesFit
    <2> QED
      BY <1>Reverify, <2>1, <2>2 DEF Reverify, Live, GoTo
  <1>Stage. ASSUME NEW u \in Undo, Stage(u) PROVE HistoryInvariant'
    <2>1. CASE pc' = [pc EXCEPT ![u] = "recordExecuting"] /\ vault' = vault
      <3>1. history' = history
        BY <2>1, <1>Stage DEF Stage, Live, GoTo
      <3>2. Fits("recordExecuting", history[u]) /\ Allowed("recordExecuting", vault)
        BY <2>1, <1>Stage, <1>f DEF Stage, Live, GoTo, Fits, Allowed, Unrecorded, Unexecuted, Abandoning, Underway, RecoveryOnly, RecoveryStep, AtRest
      <3> QED
        BY <2>1, <3>1, <3>2, MovesFit
    <2>2. CASE pc' = [pc EXCEPT ![u] = "discard"] /\ vault' = vault
      <3>1. history' = history
        BY <2>2, <1>Stage DEF Stage, Live, GoTo
      <3>2. Fits("discard", history[u]) /\ Allowed("discard", vault)
        BY <2>2, <1>Stage, <1>f DEF Stage, Live, GoTo, Fits, Allowed, Unrecorded, Unexecuted, Abandoning, Underway, RecoveryOnly, RecoveryStep, AtRest
      <3> QED
        BY <2>2, <3>1, <3>2, MovesFit
    <2> QED
      BY <1>Stage, <2>1, <2>2 DEF Stage, Live, GoTo
  <1>Discard. ASSUME NEW u \in Undo, Discard(u) PROVE HistoryInvariant'
    <2>1. CASE pc' = [pc EXCEPT ![u] = "done"] /\ vault' = vault
      <3>1. history' = history
        BY <2>1, <1>Discard DEF Discard, Live, GoTo
      <3>2. Fits("done", history[u]) /\ Allowed("done", vault)
        BY <2>1, <1>Discard, <1>f DEF Discard, Live, GoTo, Fits, Allowed, Unrecorded, Unexecuted, Abandoning, Underway, RecoveryOnly, RecoveryStep, AtRest
      <3> QED
        BY <2>1, <3>1, <3>2, MovesFit
    <2> QED
      BY <1>Discard, <2>1 DEF Discard, Live, GoTo
  <1>Quarantine. ASSUME NEW u \in Undo, Quarantine(u) PROVE HistoryInvariant'
    <2>1. CASE pc' = [pc EXCEPT ![u] = "trash"] /\ vault' = vault
      <3>1. history' = history
        BY <2>1, <1>Quarantine DEF Quarantine, Live, GoTo
      <3>2. Fits("trash", history[u]) /\ Allowed("trash", vault)
        BY <2>1, <1>Quarantine, <1>f DEF Quarantine, Live, GoTo, Fits, Allowed, Unrecorded, Unexecuted, Abandoning, Underway, RecoveryOnly, RecoveryStep, AtRest
      <3> QED
        BY <2>1, <3>1, <3>2, MovesFit
    <2>2. CASE pc' = [pc EXCEPT ![u] = "rollback"] /\ vault' = vault
      <3>1. history' = history
        BY <2>2, <1>Quarantine DEF Quarantine, Live, GoTo
      <3>2. Fits("rollback", history[u]) /\ Allowed("rollback", vault)
        BY <2>2, <1>Quarantine, <1>f DEF Quarantine, Live, GoTo, Fits, Allowed, Unrecorded, Unexecuted, Abandoning, Underway, RecoveryOnly, RecoveryStep, AtRest
      <3> QED
        BY <2>2, <3>1, <3>2, MovesFit
    <2> QED
      BY <1>Quarantine, <2>1, <2>2 DEF Quarantine, Live, GoTo
  <1>MoveToTrash. ASSUME NEW u \in Undo, MoveToTrash(u) PROVE HistoryInvariant'
    <2>1. CASE pc' = [pc EXCEPT ![u] = "finalize"] /\ vault' = vault
      <3>1. history' = history
        BY <2>1, <1>MoveToTrash DEF MoveToTrash, Live, GoTo
      <3>2. Fits("finalize", history[u]) /\ Allowed("finalize", vault)
        BY <2>1, <1>MoveToTrash, <1>f DEF MoveToTrash, Live, GoTo, Fits, Allowed, Unrecorded, Unexecuted, Abandoning, Underway, RecoveryOnly, RecoveryStep, AtRest
      <3> QED
        BY <2>1, <3>1, <3>2, MovesFit
    <2> QED
      BY <1>MoveToTrash, <2>1 DEF MoveToTrash, Live, GoTo
  <1>Finalize. ASSUME NEW u \in Undo, Finalize(u) PROVE HistoryInvariant'
    <2>1. CASE pc' = [pc EXCEPT ![u] = "deactivate"] /\ vault' = vault
      <3>1. history' = history
        BY <2>1, <1>Finalize DEF Finalize, Live, GoTo
      <3>2. Fits("deactivate", history[u]) /\ Allowed("deactivate", vault)
        BY <2>1, <1>Finalize, <1>f DEF Finalize, Live, GoTo, Fits, Allowed, Unrecorded, Unexecuted, Abandoning, Underway, RecoveryOnly, RecoveryStep, AtRest
      <3> QED
        BY <2>1, <3>1, <3>2, MovesFit
    <2>2. CASE pc' = [pc EXCEPT ![u] = "restore"] /\ vault' = vault
      <3>1. history' = history
        BY <2>2, <1>Finalize DEF Finalize, Live, GoTo
      <3>2. Fits("restore", history[u]) /\ Allowed("restore", vault)
        BY <2>2, <1>Finalize, <1>f DEF Finalize, Live, GoTo, Fits, Allowed, Unrecorded, Unexecuted, Abandoning, Underway, RecoveryOnly, RecoveryStep, AtRest
      <3> QED
        BY <2>2, <3>1, <3>2, MovesFit
    <2> QED
      BY <1>Finalize, <2>1, <2>2 DEF Finalize, Live, GoTo
  <1>Recheck. ASSUME NEW u \in Undo, Recheck(u) PROVE HistoryInvariant'
    <2>1. CASE pc' = [pc EXCEPT ![u] = "recordCommitted"] /\ vault' = vault
      <3>1. history' = history
        BY <2>1, <1>Recheck DEF Recheck, Live, GoTo
      <3>2. Fits("recordCommitted", history[u]) /\ Allowed("recordCommitted", vault)
        BY <2>1, <1>Recheck, <1>f DEF Recheck, Live, GoTo, Fits, Allowed, Unrecorded, Unexecuted, Abandoning, Underway, RecoveryOnly, RecoveryStep, AtRest
      <3> QED
        BY <2>1, <3>1, <3>2, MovesFit
    <2>2. CASE pc' = [pc EXCEPT ![u] = "restore"] /\ vault' = vault
      <3>1. history' = history
        BY <2>2, <1>Recheck DEF Recheck, Live, GoTo
      <3>2. Fits("restore", history[u]) /\ Allowed("restore", vault)
        BY <2>2, <1>Recheck, <1>f DEF Recheck, Live, GoTo, Fits, Allowed, Unrecorded, Unexecuted, Abandoning, Underway, RecoveryOnly, RecoveryStep, AtRest
      <3> QED
        BY <2>2, <3>1, <3>2, MovesFit
    <2> QED
      BY <1>Recheck, <2>1, <2>2 DEF Recheck, Live, GoTo
  <1>Deactivate. ASSUME NEW u \in Undo, Deactivate(u) PROVE HistoryInvariant'
    <2>1. CASE pc' = [pc EXCEPT ![u] = "recheck"] /\ vault' = vault
      <3>1. history' = history
        BY <2>1, <1>Deactivate DEF Deactivate, Running, GoTo, Otherwise, Refuse
      <3>2. Fits("recheck", history[u]) /\ Allowed("recheck", vault)
        BY <2>1, <1>Deactivate, <1>f DEF Deactivate, Running, GoTo, Otherwise, Refuse, TypeOK, Fits, Allowed, Unrecorded, Unexecuted, Abandoning, Underway, RecoveryOnly, RecoveryStep, AtRest
      <3> QED
        BY <2>1, <3>1, <3>2, MovesFit
    <2>2. CASE pc' = [pc EXCEPT ![u] = "recordCommitted"] /\ vault' = vault
      <3>1. history' = history
        BY <2>2, <1>Deactivate DEF Deactivate, Running, GoTo, Otherwise, Refuse
      <3>2. Fits("recordCommitted", history[u]) /\ Allowed("recordCommitted", vault)
        BY <2>2, <1>Deactivate, <1>f DEF Deactivate, Running, GoTo, Otherwise, Refuse, TypeOK, Fits, Allowed, Unrecorded, Unexecuted, Abandoning, Underway, RecoveryOnly, RecoveryStep, AtRest
      <3> QED
        BY <2>2, <3>1, <3>2, MovesFit
    <2>3. CASE pc' = [pc EXCEPT ![u] = "recordRestored"] /\ vault' = vault
      <3>1. history' = history
        BY <2>3, <1>Deactivate DEF Deactivate, Running, GoTo, Otherwise, Refuse
      <3>2. Fits("recordRestored", history[u]) /\ Allowed("recordRestored", vault)
        BY <2>3, <1>Deactivate, <1>f DEF Deactivate, Running, GoTo, Otherwise, Refuse, TypeOK, Fits, Allowed, Unrecorded, Unexecuted, Abandoning, Underway, RecoveryOnly, RecoveryStep, AtRest
      <3> QED
        BY <2>3, <3>1, <3>2, MovesFit
    <2>4. CASE pc' = Ended /\ vault' = "refused"
      BY <2>4, <1>Deactivate, HaltFits DEF Deactivate, Running, GoTo, Otherwise, Refuse
    <2> QED
      BY <1>Deactivate, <2>1, <2>2, <2>3, <2>4 DEF Deactivate, Running, GoTo, Otherwise, Refuse
  <1>Rollback. ASSUME NEW u \in Undo, Rollback(u) PROVE HistoryInvariant'
    <2>1. CASE pc' = [pc EXCEPT ![u] = "unstage"] /\ vault' = vault
      <3>1. history' = history
        BY <2>1, <1>Rollback DEF Rollback, Running, GoTo, Refuse
      <3>2. Fits("unstage", history[u]) /\ Allowed("unstage", vault)
        BY <2>1, <1>Rollback, <1>f DEF Rollback, Running, GoTo, Refuse, TypeOK, Fits, Allowed, Unrecorded, Unexecuted, Abandoning, Underway, RecoveryOnly, RecoveryStep, AtRest
      <3> QED
        BY <2>1, <3>1, <3>2, MovesFit
    <2>2. CASE pc' = [pc EXCEPT ![u] = "recordAbandoned"] /\ vault' = vault
      <3>1. history' = history
        BY <2>2, <1>Rollback DEF Rollback, Running, GoTo, Refuse
      <3>2. Fits("recordAbandoned", history[u]) /\ Allowed("recordAbandoned", vault)
        BY <2>2, <1>Rollback, <1>f DEF Rollback, Running, GoTo, Refuse, TypeOK, Fits, Allowed, Unrecorded, Unexecuted, Abandoning, Underway, RecoveryOnly, RecoveryStep, AtRest
      <3> QED
        BY <2>2, <3>1, <3>2, MovesFit
    <2>3. CASE pc' = Ended /\ vault' = "refused"
      BY <2>3, <1>Rollback, HaltFits DEF Rollback, Running, GoTo, Refuse
    <2> QED
      BY <1>Rollback, <2>1, <2>2, <2>3 DEF Rollback, Running, GoTo, Refuse
  <1>Unstage. ASSUME NEW u \in Undo, Unstage(u) PROVE HistoryInvariant'
    <2>1. CASE pc' = [pc EXCEPT ![u] = "recordFailed"] /\ vault' = vault
      <3>1. history' = history
        BY <2>1, <1>Unstage DEF Unstage, Live, GoTo
      <3>2. Fits("recordFailed", history[u]) /\ Allowed("recordFailed", vault)
        BY <2>1, <1>Unstage, <1>f DEF Unstage, Live, GoTo, Fits, Allowed, Unrecorded, Unexecuted, Abandoning, Underway, RecoveryOnly, RecoveryStep, AtRest
      <3> QED
        BY <2>1, <3>1, <3>2, MovesFit
    <2> QED
      BY <1>Unstage, <2>1 DEF Unstage, Live, GoTo
  <1>Restore. ASSUME NEW u \in Undo, Restore(u) PROVE HistoryInvariant'
    <2>1. CASE pc' = [pc EXCEPT ![u] = "restoreRegistration"] /\ vault' = vault
      <3>1. history' = history
        BY <2>1, <1>Restore DEF Restore, Running, GoTo
      <3>2. Fits("restoreRegistration", history[u]) /\ Allowed("restoreRegistration", vault)
        BY <2>1, <1>Restore, <1>f DEF Restore, Running, GoTo, Fits, Allowed, Unrecorded, Unexecuted, Abandoning, Underway, RecoveryOnly, RecoveryStep, AtRest
      <3> QED
        BY <2>1, <3>1, <3>2, MovesFit
    <2> QED
      BY <1>Restore, <2>1 DEF Restore, Running, GoTo
  <1>RestoreRegistration. ASSUME NEW u \in Undo, RestoreRegistration(u) PROVE HistoryInvariant'
    <2>1. CASE pc' = [pc EXCEPT ![u] = "recordRestored"] /\ vault' = vault
      <3>1. history' = history
        BY <2>1, <1>RestoreRegistration DEF RestoreRegistration, Running, GoTo, Otherwise, Refuse
      <3>2. Fits("recordRestored", history[u]) /\ Allowed("recordRestored", vault)
        BY <2>1, <1>RestoreRegistration, <1>f DEF RestoreRegistration, Running, GoTo, Otherwise, Refuse, TypeOK, Fits, Allowed, Unrecorded, Unexecuted, Abandoning, Underway, RecoveryOnly, RecoveryStep, AtRest
      <3> QED
        BY <2>1, <3>1, <3>2, MovesFit
    <2>2. CASE pc' = Ended /\ vault' = "refused"
      BY <2>2, <1>RestoreRegistration, HaltFits DEF RestoreRegistration, Running, GoTo, Otherwise, Refuse
    <2> QED
      BY <1>RestoreRegistration, <2>1, <2>2 DEF RestoreRegistration, Running, GoTo, Otherwise, Refuse
  <1>DropRestored. ASSUME NEW u \in Undo, DropRestored(u) PROVE HistoryInvariant'
    <2>1. CASE pc' = [pc EXCEPT ![u] = "dropStaging"] /\ vault' = vault
      <3>1. history' = history
        BY <2>1, <1>DropRestored DEF DropRestored, Live, GoTo
      <3>2. Fits("dropStaging", history[u]) /\ Allowed("dropStaging", vault)
        BY <2>1, <1>DropRestored, <1>f DEF DropRestored, Live, GoTo, Fits, Allowed, Unrecorded, Unexecuted, Abandoning, Underway, RecoveryOnly, RecoveryStep, AtRest
      <3> QED
        BY <2>1, <3>1, <3>2, MovesFit
    <2>2. CASE pc' = [pc EXCEPT ![u] = "done"] /\ vault' = vault
      <3>1. history' = history
        BY <2>2, <1>DropRestored DEF DropRestored, Live, GoTo
      <3>2. Fits("done", history[u]) /\ Allowed("done", vault)
        BY <2>2, <1>DropRestored, <1>f DEF DropRestored, Live, GoTo, Fits, Allowed, Unrecorded, Unexecuted, Abandoning, Underway, RecoveryOnly, RecoveryStep, AtRest
      <3> QED
        BY <2>2, <3>1, <3>2, MovesFit
    <2> QED
      BY <1>DropRestored, <2>1, <2>2 DEF DropRestored, Live, GoTo
  <1>DropStaging. ASSUME NEW u \in Undo, DropStaging(u) PROVE HistoryInvariant'
    <2>1. CASE pc' = [pc EXCEPT ![u] = "done"] /\ vault' = vault
      <3>1. history' = history
        BY <2>1, <1>DropStaging DEF DropStaging, Running, GoTo
      <3>2. Fits("done", history[u]) /\ Allowed("done", vault)
        BY <2>1, <1>DropStaging, <1>f DEF DropStaging, Running, GoTo, Fits, Allowed, Unrecorded, Unexecuted, Abandoning, Underway, RecoveryOnly, RecoveryStep, AtRest
      <3> QED
        BY <2>1, <3>1, <3>2, MovesFit
    <2> QED
      BY <1>DropStaging, <2>1 DEF DropStaging, Running, GoTo
  <1>Inspect. ASSUME NEW u \in Undo, Inspect(u) PROVE HistoryInvariant'
    <2>1. /\ history' = history /\ vault = "reconciling"
          /\ pc[u] \in {"inspect", "inspectKept"}
          /\ Fits(pc[u], history[u])
          /\ StateOf(u) = "Proposed" => history[u] = <<"Proposed">>
          /\ StateOf(u) = "Executing" => history[u] = <<"Proposed", "Executing">>
      BY <1>Inspect, <1>f, StatesOfHistories DEF Inspect, Fits
    <2>2. CASE pc' = Ended /\ vault' = "refused"
      BY <2>1, <2>2, HaltFits
    <2>3. ASSUME NEW s \in Step, pc' = [pc EXCEPT ![u] = s], vault' = vault,
                 Fits(s, history[u]), s \in AtRest \cup RecoveryStep
          PROVE  HistoryInvariant'
      BY <2>1, <2>3, MovesFit DEF Allowed
    <2>4. CASE StateOf(u) = "Proposed" /\ vault' = vault
      <3>1. \E s \in Abandoning : pc' = [pc EXCEPT ![u] = s]
        BY <1>Inspect, <2>4 DEF Inspect, GoTo, Abandoning, Refuse, Terminal
      <3>2. PICK s \in Abandoning : pc' = [pc EXCEPT ![u] = s]
        BY <3>1
      <3>3. Fits(s, history[u])
        BY <2>1, <2>4 DEF Fits, Abandoning, Unrecorded, Unexecuted, Underway
      <3> QED
        BY <2>3, <2>4, <3>2, <3>3 DEF RecoveryStep, RecoveryOnly, Abandoning
    <2>5. CASE StateOf(u) = "Executing" /\ vault' = vault
      <3>1. \E s \in {"rollback", "recordAbandoned", "restore", "deactivate", "recordCommitted"} :
               pc' = [pc EXCEPT ![u] = s]
        BY <1>Inspect, <2>5 DEF Inspect, GoTo, RecoverExecuting, Refuse, Terminal
      <3>2. PICK s \in {"rollback", "recordAbandoned", "restore", "deactivate", "recordCommitted"} :
               pc' = [pc EXCEPT ![u] = s]
        BY <3>1
      <3>3. Fits(s, history[u])
        BY <2>1, <2>5 DEF Fits, Abandoning, Unrecorded, Unexecuted, Underway
      <3> QED
        BY <2>3, <2>5, <3>2, <3>3 DEF RecoveryStep, RecoveryOnly
    <2>6. CASE StateOf(u) \in Terminal /\ vault' = vault
      <3>1. pc' = [pc EXCEPT ![u] = IF pc[u] = "inspect" THEN "done" ELSE "planned"]
        BY <1>Inspect, <2>6 DEF Inspect, GoTo, Refuse, Terminal
      <3>2. CASE pc[u] = "inspect"
        <4>1. Fits("done", history[u])
          BY <2>1 DEF Fits, Abandoning, Unrecorded, Unexecuted, Underway
        <4> QED
          BY <2>3, <2>6, <3>1, <3>2, <4>1 DEF AtRest
      <3>3. CASE pc[u] = "inspectKept"
        <4>1. Fits("planned", history[u])
          BY <2>1, <3>3 DEF Fits, Abandoning, Unrecorded, Unexecuted, Underway
        <4> QED
          BY <2>3, <2>6, <3>1, <3>3, <4>1 DEF AtRest
      <3> QED
        BY <2>1, <3>2, <3>3
    <2> QED
      BY <1>Inspect, <2>1, <2>2, <2>4, <2>5, <2>6 DEF Inspect, GoTo, RecoverExecuting, Refuse
  <1>StepFails. ASSUME NEW u \in Undo, StepFails(u) PROVE HistoryInvariant'
    BY <1>StepFails, <1>a DEF StepFails, GoTo
  <1>VerificationFails. ASSUME NEW u \in Undo, VerificationFails(u) PROVE HistoryInvariant'
    <2>1. CASE pc' = [pc EXCEPT ![u] = "rollback"] /\ vault' = vault
      <3>1. history' = history
        BY <2>1, <1>VerificationFails DEF VerificationFails, GoTo, Fault
      <3>2. Fits("rollback", history[u]) /\ Allowed("rollback", vault)
        BY <2>1, <1>VerificationFails, <1>f DEF VerificationFails, GoTo, Fault, Fits, Allowed, Unrecorded, Unexecuted, Abandoning, Underway, RecoveryOnly, RecoveryStep, AtRest
      <3> QED
        BY <2>1, <3>1, <3>2, MovesFit
    <2>2. CASE pc' = [pc EXCEPT ![u] = "unstage"] /\ vault' = vault
      <3>1. history' = history
        BY <2>2, <1>VerificationFails DEF VerificationFails, GoTo, Fault
      <3>2. Fits("unstage", history[u]) /\ Allowed("unstage", vault)
        BY <2>2, <1>VerificationFails, <1>f DEF VerificationFails, GoTo, Fault, Fits, Allowed, Unrecorded, Unexecuted, Abandoning, Underway, RecoveryOnly, RecoveryStep, AtRest
      <3> QED
        BY <2>2, <3>1, <3>2, MovesFit
    <2>3. CASE pc' = [pc EXCEPT ![u] = "recordRestored"] /\ vault' = vault
      <3>1. history' = history
        BY <2>3, <1>VerificationFails DEF VerificationFails, GoTo, Fault
      <3>2. Fits("recordRestored", history[u]) /\ Allowed("recordRestored", vault)
        BY <2>3, <1>VerificationFails, <1>f DEF VerificationFails, GoTo, Fault, Fits, Allowed, Unrecorded, Unexecuted, Abandoning, Underway, RecoveryOnly, RecoveryStep, AtRest
      <3> QED
        BY <2>3, <3>1, <3>2, MovesFit
    <2>4. CASE pc' = [pc EXCEPT ![u] = "restore"] /\ vault' = vault
      <3>1. history' = history
        BY <2>4, <1>VerificationFails DEF VerificationFails, GoTo, Fault
      <3>2. Fits("restore", history[u]) /\ Allowed("restore", vault)
        BY <2>4, <1>VerificationFails, <1>f DEF VerificationFails, GoTo, Fault, Fits, Allowed, Unrecorded, Unexecuted, Abandoning, Underway, RecoveryOnly, RecoveryStep, AtRest
      <3> QED
        BY <2>4, <3>1, <3>2, MovesFit
    <2> QED
      BY <1>VerificationFails, <2>1, <2>2, <2>3, <2>4 DEF VerificationFails, GoTo, Fault
  <1>RecoveryFails. ASSUME NEW u \in Undo, RecoveryFails(u) PROVE HistoryInvariant'
    BY <1>RecoveryFails, HaltFits DEF RecoveryFails, Refuse
  <1>BeginReconcile. ASSUME BeginReconcile PROVE HistoryInvariant'
    <2> SUFFICES ASSUME NEW w \in Undo PROVE Fits(pc'[w], history[w]) /\ Allowed(pc'[w], vault')
      BY <1>BeginReconcile DEF BeginReconcile, HistoryInvariant
    <2>1. /\ pc[w] \in AtRest /\ vault' = "reconciling"
          /\ \/ pc'[w] = pc[w]
             \/ pc'[w] = "inspect"
             \/ pc[w] = "planned" /\ pc'[w] = "inspectKept"
      BY <1>BeginReconcile, <1>f DEF BeginReconcile, Allowed
    <2>2. Fits(pc'[w], history[w])
      BY <2>1, <1>f DEF Fits, Abandoning, Unrecorded, Unexecuted, Underway
    <2>3. Allowed(pc'[w], vault')
      BY <2>1 DEF Allowed, RecoveryStep, RecoveryOnly
    <2> QED
      BY <2>2, <2>3
  <1>r. ASSUME history' = history, pc' = pc, \A w \in Undo : pc[w] \in AtRest
        PROVE  HistoryInvariant'
    <2> SUFFICES ASSUME NEW w \in Undo PROVE Fits(pc[w], history[w]) /\ Allowed(pc[w], vault')
      BY <1>r DEF HistoryInvariant
    <2>1. Allowed(pc[w], vault')
      BY <1>r DEF Allowed, AtRest, RecoveryOnly, Abandoning
    <2> QED
      BY <2>1, <1>f
  <1>FinishReconcile. ASSUME FinishReconcile PROVE HistoryInvariant'
    BY <1>FinishReconcile, <1>r, HaltFits DEF FinishReconcile, Refuse
  <1>TransferAway. ASSUME TransferAway PROVE HistoryInvariant'
    BY <1>TransferAway, <1>r DEF TransferAway
  <1>Quit. ASSUME Quit PROVE HistoryInvariant'
    BY <1>Quit, HaltFits DEF Quit
  <1>Crash. ASSUME Crash PROVE HistoryInvariant'
    BY <1>Crash, HaltFits DEF Crash
  <1>Other. ASSUME NEW o \in Op,
                   Archive(o) \/ VerifyForSave(o) \/ WriteKnowledge(o) \/ SourceChanges(o)
            PROVE  HistoryInvariant'
    BY <1>Other, StillFits DEF Archive, VerifyForSave, WriteKnowledge, SourceChanges
  <1>Stutter. ASSUME UNCHANGED vars PROVE HistoryInvariant'
    BY <1>Stutter, StillFits DEF vars
  <1> QED
    BY <1>Create, <1>CreateAudit, <1>Confirm, <1>Expire,
       <1>WriteRecord, <1>RecordExists, <1>TransferAway, <1>Reverify, <1>Stage, <1>Discard,
       <1>Quarantine, <1>MoveToTrash, <1>Finalize, <1>Recheck,
       <1>Deactivate, <1>Rollback, <1>Unstage, <1>Restore,
       <1>RestoreRegistration, <1>DropRestored, <1>DropStaging, <1>Inspect,
       <1>StepFails, <1>VerificationFails, <1>RecoveryFails, <1>Other,
       <1>BeginReconcile, <1>FinishReconcile, <1>Quit, <1>Crash, <1>Stutter
       DEF Next, Execute, Failure

(* A record is never written past the number its writer expects. *)
LEMMA RecordsInOrder ==
    ASSUME NEW u \in Undo, HistoryInvariant, vault = "open", pc[u] \in RecordStep
    PROVE  Len(history[u]) >= SequenceOf[pc[u]]
  <1>1. Fits(pc[u], history[u]) /\ pc[u] \notin RecoveryOnly
    BY DEF HistoryInvariant, Allowed
  <1>2. CASE pc[u] = "recordProposed"
    BY <1>1, <1>2, HistoryLengths DEF Fits, Unrecorded, SequenceOf
  <1>3. CASE pc[u] \in {"recordExecuting", "recordRefused"}
    <2>1. Len(history[u]) \in {1, 2}
      BY <1>1, <1>3, HistoryLengths DEF Fits, Unexecuted
    <2> QED
      BY <1>3, <2>1 DEF SequenceOf
  <1>4. CASE pc[u] \in {"recordFailed", "recordRestored", "recordCommitted"}
    <2>1. Len(history[u]) = 2
      BY <1>1, <1>4, HistoryLengths DEF Fits, Underway
    <2> QED
      BY <1>4, <2>1 DEF SequenceOf
  <1> QED
    BY <1>1, <1>2, <1>3, <1>4 DEF RecordStep, RecordedState, RecoveryOnly, Abandoning

(* However undos, reconciliations that abandon plans the registry keeps,       *)
(* failed file operations and crashes interleave, the audit of every undo is   *)
(* one that validate_history accepts, and a live record never skips a number.  *)
THEOREM AuditsStayReadable == Spec => []HistoriesAreReadable
  <1>1. Init => TypeOK /\ HistoryInvariant
    BY TypeInit, HistoryInit
  <1>2. TypeOK /\ HistoryInvariant /\ [Next]_vars => TypeOK' /\ HistoryInvariant'
    BY TypeStep, HistoryStep
  <1>3. HistoryInvariant => HistoriesAreReadable
    BY RecordsInOrder DEF HistoriesAreReadable, HistoryInvariant, Fits
  <1> QED
    BY <1>1, <1>2, <1>3, PTL DEF Spec

-----------------------------------------------------------------------------
(* What an undo reports is what became of the archive. *)

(* No file operation fails, and the plans take back different operations with *)
(* destinations of their own: what the run UndoCrash assumes.                  *)
UndosApart ==
    /\ MaxFaults = 0
    /\ \A o, p \in Op : DestOf[o] = DestOf[p] => o = p
    /\ \A u, w \in Undo : TargetOf[u] = TargetOf[w] => u = w

(* What the step of an undo tells of the state that its audit records. *)
LEMMA StateAtStep ==
    ASSUME HistoryInvariant, NEW u \in Undo
    PROVE  /\ pc[u] \in Unrecorded => StateOf(u) = "None"
           /\ pc[u] \in Unexecuted => StateOf(u) \in {"Proposed", "Abandoned"}
           /\ pc[u] \in Abandoning => StateOf(u) = "Proposed"
           /\ pc[u] \in Underway => StateOf(u) = "Executing"
           /\ StateOf(u) \in UndoState \cup {"None"}
           /\ StateOf(u) = "None" <=> history[u] = <<>>
  <1>1. Fits(pc[u], history[u])
    BY DEF HistoryInvariant
  <1>2. /\ history[u] = <<>> => StateOf(u) = "None"
        /\ \A s : history[u] = <<s>> => StateOf(u) = s
        /\ \A s, t : history[u] = <<s, t>> => StateOf(u) = t
        /\ \A s, t, r : history[u] = <<s, t, r>> => StateOf(u) = r
    <2>1. history[u] = <<>> => StateOf(u) = "None"
      BY DEF StateOf
    <2>2. ASSUME NEW s, history[u] = <<s>> PROVE StateOf(u) = s
      BY <2>2 DEF StateOf
    <2>3. ASSUME NEW s, NEW t, history[u] = <<s, t>> PROVE StateOf(u) = t
      BY <2>3 DEF StateOf
    <2>4. ASSUME NEW s, NEW t, NEW r, history[u] = <<s, t, r>> PROVE StateOf(u) = r
      BY <2>4 DEF StateOf
    <2> QED
      BY <2>1, <2>2, <2>3, <2>4
  <1>3. /\ StateOf(u) \in UndoState \cup {"None"}
        /\ StateOf(u) = "None" <=> history[u] = <<>>
    BY <1>1, <1>2 DEF Fits, ValidHistories, UndoState, Terminal
  <1> QED
    BY <1>1, <1>2, <1>3 DEF Fits, Unrecorded, Unexecuted, Abandoning, Underway

(* Undo u, of an operation that was archived, takes a step alone. *)
Alone(u) ==
    /\ archived' = archived /\ vault' = vault /\ archived[TargetOf[u]]
    /\ \A w \in Undo \ {u} : /\ pc'[w] = pc[w] /\ history'[w] = history[w]
                             /\ auditDir'[w] = auditDir[w] /\ staging'[w] = staging[w]
                             /\ quarantine'[w] = quarantine[w]
    /\ \A d \in Dest \ {D(u)} : dest'[d] = dest[d]
    /\ \A o \in Op \ {TargetOf[u]} : registration'[o] = registration[o] /\ tombstone'[o] = tombstone[o]

(* Undos of other operations find their archive as they left it. *)
LEMMA AloneKeeps ==
    ASSUME UndosApart, OutcomeInvariant, NEW u \in Undo, Alone(u), UndoInvariant(u)'
    PROVE  OutcomeInvariant'
  <1>1. ASSUME NEW w \in Undo, w # u PROVE UndoInvariant(w)'
    <2>1. /\ UndoInvariant(w) /\ TargetOf[w] \in Op /\ D(w) \in Dest
          /\ TargetOf[w] # TargetOf[u] /\ D(w) # D(u)
      BY <1>1, PlanAssumption DEF OutcomeInvariant, UndosApart, D
    <2>2. /\ pc'[w] = pc[w] /\ history'[w] = history[w] /\ auditDir'[w] = auditDir[w]
          /\ staging'[w] = staging[w] /\ quarantine'[w] = quarantine[w]
          /\ dest'[D(w)] = dest[D(w)] /\ archived' = archived /\ vault' = vault
          /\ registration'[TargetOf[w]] = registration[TargetOf[w]]
          /\ tombstone'[TargetOf[w]] = tombstone[TargetOf[w]]
      BY <1>1, <2>1 DEF Alone
    <2>3. StateOf(w)' = StateOf(w)
      BY <2>2 DEF StateOf
    <2> QED
      BY <2>1, <2>2, <2>3 DEF UndoInvariant, Executed, AsArchived, AsUndone, D
  <1>2. ASSUME NEW o \in Op PROVE ArchiveInvariant(o)'
    <2>1. CASE o = TargetOf[u]
      BY <2>1 DEF ArchiveInvariant, Alone
    <2>2. CASE o # TargetOf[u]
      <3>1. ArchiveInvariant(o) /\ DestOf[o] \in Dest /\ DestOf[o] # D(u)
        BY <2>2, PlanAssumption DEF OutcomeInvariant, UndosApart, D
      <3>2. /\ dest'[DestOf[o]] = dest[DestOf[o]] /\ archived' = archived
            /\ registration'[o] = registration[o] /\ tombstone'[o] = tombstone[o]
        BY <2>2, <3>1 DEF Alone
      <3>3. \A w \in Undo : TargetOf[w] = o =>
                /\ pc'[w] = pc[w] /\ history'[w] = history[w]
                /\ auditDir'[w] = auditDir[w] /\ quarantine'[w] = quarantine[w]
        BY <2>2 DEF Alone
      <3> QED
        BY <3>1, <3>2, <3>3 DEF ArchiveInvariant
    <2> QED
      BY <2>1, <2>2
  <1> QED
    BY <1>1, <1>2 DEF OutcomeInvariant

(* A plan whose audit or whose thread exists takes back an archived operation. *)
LEMMA BegunIsArchived ==
    ASSUME OutcomeInvariant, NEW u \in Undo, pc[u] # "idle" \/ auditDir[u]
    PROVE  archived[TargetOf[u]]
  BY PlanAssumption DEF OutcomeInvariant, ArchiveInvariant

(* The program stops, gives up, or does nothing to an undo: what is on disk    *)
(* stays as it is.                                                             *)
LEMMA RestKeeps ==
    ASSUME TypeOK, OutcomeInvariant, pc' \in {Halted, Ended}, vault' # "reconciling",
           UNCHANGED <<history, auditDir, links, registers, archived>>
    PROVE  OutcomeInvariant'
  <1> USE DEF links, registers
  <1>1. \A w \in Undo : pc'[w] \in AtRest /\ (pc[w] = "idle" => pc'[w] = "idle")
    BY DEF Halted, Ended, Kept, AtRest
  <1>2. ASSUME NEW w \in Undo PROVE UndoInvariant(w)'
    <2>1. UndoInvariant(w) /\ StateOf(w)' = StateOf(w) /\ pc'[w] \in AtRest
      BY <1>1 DEF OutcomeInvariant, StateOf
    <2> QED
      BY <2>1 DEF UndoInvariant, Executed, AsArchived, AsUndone, D, AtRest
  <1>3. ASSUME NEW o \in Op PROVE ArchiveInvariant(o)'
    BY <1>1, <1>3 DEF OutcomeInvariant, ArchiveInvariant
  <1> QED
    BY <1>2, <1>3 DEF OutcomeInvariant

LEMMA StillOutcome ==
    ASSUME OutcomeInvariant,
           UNCHANGED <<vault, pc, history, auditDir, links, registers, archived>>
    PROVE  OutcomeInvariant'
  BY DEF OutcomeInvariant, UndoInvariant, ArchiveInvariant, Executed, AsArchived, AsUndone,
         StateOf, links, registers

LEMMA OutcomeInit == Init => OutcomeInvariant
  BY PlanAssumption DEF Init, OutcomeInvariant, UndoInvariant, ArchiveInvariant, StateOf

(* Undo u, which does not execute, leaves the archive as it stands. *)
LEMMA QuietStep ==
    ASSUME UndosApart, OutcomeInvariant, NEW u \in Undo, Alone(u), StateOf(u) # "Executing",
           history'[u] = history[u], auditDir'[u] = auditDir[u], quarantine'[u] = quarantine[u],
           dest'[D(u)] = dest[D(u)], registration'[TargetOf[u]] = registration[TargetOf[u]],
           tombstone'[TargetOf[u]] = tombstone[TargetOf[u]],
           pc'[u] \notin {"unstage", "recordFailed", "recordProposed", "rollback"}
    PROVE  OutcomeInvariant'
  <1>1. UndoInvariant(u) /\ StateOf(u)' = StateOf(u) /\ archived' = archived
    BY DEF OutcomeInvariant, StateOf, Alone
  <1>2. UndoInvariant(u)'
    BY <1>1 DEF UndoInvariant, AsArchived, AsUndone, D
  <1> QED
    BY <1>2, AloneKeeps

(* Undo u executes and goes on to a step that its archive stands for. *)
LEMMA ExecutingStep ==
    ASSUME UndosApart, OutcomeInvariant, NEW u \in Undo, Alone(u), StateOf(u) = "Executing",
           history'[u] = history[u], auditDir'[u] = auditDir[u], Executed(u)',
           pc'[u] \notin AtRest \cup {"recordFailed"}, history[u] # <<>>,
           pc'[u] = "rollback" => vault = "reconciling"
    PROVE  OutcomeInvariant'
  <1>1. UndoInvariant(u) /\ StateOf(u)' = StateOf(u) /\ vault' = vault
    BY DEF OutcomeInvariant, StateOf, Alone
  <1>2. pc'[u] # "unstage"
    BY DEF Executed
  <1>3. UndoInvariant(u)'
    BY <1>1, <1>2 DEF UndoInvariant
  <1> QED
    BY <1>3, AloneKeeps

(* A record tells what has become of the archive. *)
LEMMA RecordStepKeeps ==
    ASSUME UndosApart, TypeOK, HoldInvariant, HistoryInvariant, OutcomeInvariant,
           NEW u \in Undo, WriteRecord(u)
    PROVE  OutcomeInvariant'
  <1> USE DEF links, registers, user, budget
  <1>1. /\ UndoInvariant(u) /\ Fits(pc[u], history[u]) /\ Allowed(pc[u], vault)
        /\ archived[TargetOf[u]] /\ TargetOf[u] \in Op /\ D(u) \in Dest
        /\ pc[u] = "recordExecuting" => staging[u]
    BY BegunIsArchived, PlanAssumption DEF WriteRecord, RecordStep, RecordedState, OutcomeInvariant,
       HistoryInvariant, HoldInvariant, StagedLinksOwned, Staged, D
  <1>2. /\ Alone(u) /\ pc[u] \in RecordStep /\ Numbered(u) /\ vault \in {"open", "reconciling"}
        /\ pc'[u] = AfterRecord(u)
        /\ history'[u] = Append(history[u], RecordedState[pc[u]])
        /\ UNCHANGED <<vault, auditDir, links, registers, archived>>
    BY <1>1 DEF WriteRecord, Alone, GoTo, TypeOK
  <1>3. StateOf(u)' = RecordedState[pc[u]] /\ history'[u] # <<>>
    <2>1. history[u] \in Seq(UndoState) /\ RecordedState[pc[u]] \in UndoState
      BY <1>2, RecordedType DEF TypeOK
    <2>2. PICK old \in Seq(UndoState) : old = history[u]
      BY <2>1
    <2>3. PICK r \in UndoState : r = RecordedState[pc[u]]
      BY <2>1
    <2>4. /\ Append(old, r) # <<>>
          /\ Append(old, r)[Len(Append(old, r))] = r
      OBVIOUS
    <2> QED
      BY <1>2, <2>2, <2>3, <2>4 DEF StateOf
  <1> USE StateAtStep
  <1>4. AfterRecord(u) \in {"planned", "quarantine", "done", "dropRestored", "dropStaging"}
    BY DEF AfterRecord
  <1>5. auditDir[u]
    BY <1>1, <1>2 DEF UndoInvariant, RecordStep, RecordedState, Fits, Unrecorded, Unexecuted,
       Abandoning, Underway
  <1>6. CASE pc[u] = "recordExecuting"
    <2>1. StateOf(u) \in {"Proposed", "Abandoned"} /\ AsArchived(u) /\ staging[u]
      BY <1>1, <1>6 DEF Unexecuted, UndoInvariant
    <2>2. StateOf(u)' = "Executing" /\ pc'[u] = "quarantine" /\ vault = "open"
      BY <1>1, <1>2, <1>3, <1>6 DEF RecordedState, AfterRecord, Allowed, AtRest, RecoveryStep,
         RecoveryOnly, Abandoning
    <2>3. Executed(u)'
      BY <1>2, <2>1, <2>2, <1>1 DEF Executed, AsArchived, AsUndone, D, TypeOK
    <2>4. UndoInvariant(u)'
      BY <1>2, <1>5, <2>2, <2>3 DEF UndoInvariant
    <2> QED
      BY <1>2, <2>4, AloneKeeps
  <1>7. CASE pc[u] # "recordExecuting"
    <2>1. pc'[u] # "quarantine"
      BY <1>2, <1>7 DEF AfterRecord
    <2>2. pc[u] = "recordCommitted" => AsUndone(u)
      BY <1>1 DEF UndoInvariant, Executed, Underway
    <2>3. pc[u] # "recordCommitted" => AsArchived(u)
      BY <1>1, <1>2, <1>7 DEF UndoInvariant, Executed, RecordStep, RecordedState, Underway,
         Unrecorded, Unexecuted, Abandoning
    <2>4. /\ StateOf(u)' \in {"Proposed", "Failed", "Abandoned", "Committed"}
          /\ StateOf(u)' = "Committed" <=> pc[u] = "recordCommitted"
      BY <1>2, <1>3, <1>7 DEF RecordStep, RecordedState
    <2>5. (AsArchived(u) => AsArchived(u)') /\ (AsUndone(u) => AsUndone(u)')
      BY <1>2 DEF AsArchived, AsUndone
    <2>6. UndoInvariant(u)'
      BY <1>2, <1>4, <1>5, <2>1, <2>2, <2>3, <2>4, <2>5 DEF UndoInvariant
    <2> QED
      BY <1>2, <2>6, AloneKeeps
  <1> QED
    BY <1>6, <1>7

(* OutcomeInvariant is inductive, with the two strengthenings before it. *)
LEMMA OutcomeStep ==
    ASSUME UndosApart, TypeOK, HoldInvariant, HistoryInvariant, OutcomeInvariant, [Next]_vars
    PROVE  OutcomeInvariant'
  <1> USE DEF audit, links, registers, user, budget
  <1>u. ASSUME NEW u \in Undo
        PROVE  /\ UndoInvariant(u) /\ Fits(pc[u], history[u]) /\ Allowed(pc[u], vault)
               /\ pc[u] \in Unrecorded => StateOf(u) = "None"
               /\ pc[u] \in Unexecuted => StateOf(u) \in {"Proposed", "Abandoned"}
               /\ pc[u] \in Underway => StateOf(u) = "Executing" /\ history[u] # <<>>
               /\ StateOf(u) = "Executing" => history[u] # <<>> /\ Executed(u)
               /\ pc[u] \in Staged => staging[u]
               /\ TargetOf[u] \in Op /\ D(u) \in Dest
    BY StateAtStep, PlanAssumption DEF OutcomeInvariant, UndoInvariant, HistoryInvariant,
       HoldInvariant, StagedLinksOwned, D
  <1>Create. ASSUME NEW u \in Undo, Create(u) PROVE OutcomeInvariant'
    <2>1. archived[TargetOf[u]] /\ StateOf(u) # "Executing"
      BY <1>Create, <1>u DEF Create, Live, Reviewed, Registered, Executed, UndoInvariant, AsArchived,
         Fits, Unrecorded
    <2>2. Alone(u)
      BY <1>Create, <2>1, <1>u DEF Create, Live, GoTo, Alone, TypeOK
    <2> QED
      BY <1>Create, <2>1, <2>2, <1>u, QuietStep DEF Create, GoTo, TypeOK
  <1>CreateAudit. ASSUME NEW u \in Undo, CreateAudit(u) PROVE OutcomeInvariant'
    <2>1. archived[TargetOf[u]] /\ StateOf(u) = "None"
      BY <1>CreateAudit, <1>u, BegunIsArchived DEF CreateAudit, Live, Unrecorded
    <2>2. /\ Alone(u) /\ pc'[u] = "recordProposed" /\ auditDir'[u]
          /\ UNCHANGED <<vault, history, links, registers, archived>>
      BY <1>CreateAudit, <2>1, <1>u DEF CreateAudit, Live, GoTo, Alone, TypeOK
    <2>3. StateOf(u)' = StateOf(u)
      BY <2>2 DEF StateOf
    <2>4. UndoInvariant(u)'
      BY <2>1, <2>2, <2>3, <1>u DEF UndoInvariant, AsArchived
    <2> QED
      BY <2>2, <2>4, AloneKeeps
  <1>Confirm. ASSUME NEW u \in Undo, Confirm(u) PROVE OutcomeInvariant'
    <2>1. archived[TargetOf[u]] /\ StateOf(u) # "Executing"
      BY <1>Confirm, <1>u, BegunIsArchived DEF Confirm, Live, Unexecuted
    <2>2. Alone(u)
      BY <1>Confirm, <2>1, <1>u DEF Confirm, Live, GoTo, Alone, TypeOK
    <2>3. pc'[u] \notin {"unstage", "recordFailed", "recordProposed", "rollback"}
      BY <1>Confirm, <1>u DEF Confirm, Live, GoTo, TypeOK
    <2> QED
      BY <1>Confirm, <2>1, <2>2, <2>3, <1>u, QuietStep DEF Confirm, TypeOK
  <1>Expire. ASSUME NEW u \in Undo, Expire(u) PROVE OutcomeInvariant'
    <2>1. archived[TargetOf[u]] /\ StateOf(u) # "Executing"
      BY <1>Expire, <1>u, BegunIsArchived DEF Expire, GoTo, Unexecuted
    <2>2. Alone(u)
      BY <1>Expire, <2>1, <1>u DEF Expire, GoTo, GoTo, Alone, TypeOK
    <2>3. pc'[u] \notin {"unstage", "recordFailed", "recordProposed", "rollback"}
      BY <1>Expire, <1>u DEF Expire, GoTo, GoTo, TypeOK
    <2> QED
      BY <1>Expire, <2>1, <2>2, <2>3, <1>u, QuietStep DEF Expire, TypeOK
  <1>Reverify. ASSUME NEW u \in Undo, Reverify(u) PROVE OutcomeInvariant'
    <2>1. archived[TargetOf[u]] /\ StateOf(u) # "Executing"
      BY <1>Reverify, <1>u, BegunIsArchived DEF Reverify, Live, Unexecuted
    <2>2. Alone(u)
      BY <1>Reverify, <2>1, <1>u DEF Reverify, Live, GoTo, Alone, TypeOK
    <2>3. pc'[u] \notin {"unstage", "recordFailed", "recordProposed", "rollback"}
      BY <1>Reverify, <1>u DEF Reverify, Live, GoTo, TypeOK
    <2> QED
      BY <1>Reverify, <2>1, <2>2, <2>3, <1>u, QuietStep DEF Reverify, TypeOK
  <1>Stage. ASSUME NEW u \in Undo, Stage(u) PROVE OutcomeInvariant'
    <2>1. archived[TargetOf[u]] /\ StateOf(u) # "Executing"
      BY <1>Stage, <1>u, BegunIsArchived DEF Stage, Live, Unexecuted
    <2>2. Alone(u)
      BY <1>Stage, <2>1, <1>u DEF Stage, Live, GoTo, Alone, TypeOK
    <2>3. pc'[u] \notin {"unstage", "recordFailed", "recordProposed", "rollback"}
      BY <1>Stage, <1>u DEF Stage, Live, GoTo, TypeOK
    <2> QED
      BY <1>Stage, <2>1, <2>2, <2>3, <1>u, QuietStep DEF Stage, TypeOK
  <1>Discard. ASSUME NEW u \in Undo, Discard(u) PROVE OutcomeInvariant'
    <2>1. archived[TargetOf[u]] /\ StateOf(u) # "Executing"
      BY <1>Discard, <1>u, BegunIsArchived DEF Discard, Live, Executed
    <2>2. Alone(u)
      BY <1>Discard, <2>1, <1>u DEF Discard, Live, GoTo, Alone, TypeOK
    <2>3. pc'[u] \notin {"unstage", "recordFailed", "recordProposed", "rollback"}
      BY <1>Discard, <1>u DEF Discard, Live, GoTo, TypeOK
    <2> QED
      BY <1>Discard, <2>1, <2>2, <2>3, <1>u, QuietStep DEF Discard, TypeOK
  <1>DropRestored. ASSUME NEW u \in Undo, DropRestored(u) PROVE OutcomeInvariant'
    <2>1. archived[TargetOf[u]] /\ StateOf(u) # "Executing"
      BY <1>DropRestored, <1>u, BegunIsArchived DEF DropRestored, Live, Executed
    <2>2. Alone(u)
      BY <1>DropRestored, <2>1, <1>u DEF DropRestored, Live, GoTo, Alone, TypeOK
    <2>3. pc'[u] \notin {"unstage", "recordFailed", "recordProposed", "rollback"}
      BY <1>DropRestored, <1>u DEF DropRestored, Live, GoTo, TypeOK
    <2> QED
      BY <1>DropRestored, <2>1, <2>2, <2>3, <1>u, QuietStep DEF DropRestored, TypeOK
  <1>DropStaging. ASSUME NEW u \in Undo, DropStaging(u) PROVE OutcomeInvariant'
    <2>1. archived[TargetOf[u]] /\ StateOf(u) # "Executing"
      BY <1>DropStaging, <1>u, BegunIsArchived DEF DropStaging, Running, Executed
    <2>2. Alone(u)
      BY <1>DropStaging, <2>1, <1>u DEF DropStaging, Running, GoTo, Alone, TypeOK
    <2>3. pc'[u] \notin {"unstage", "recordFailed", "recordProposed", "rollback"}
      BY <1>DropStaging, <1>u DEF DropStaging, Running, GoTo, TypeOK
    <2> QED
      BY <1>DropStaging, <2>1, <2>2, <2>3, <1>u, QuietStep DEF DropStaging, TypeOK
  <1>Unstage. ASSUME NEW u \in Undo, Unstage(u) PROVE FALSE
    BY <1>Unstage, <1>u DEF Unstage, Live, UndoInvariant
  <1>RecordExists. ASSUME NEW u \in Undo, RecordExists(u) PROVE OutcomeInvariant'
    <2>1. pc[u] \in {"recordExecuting", "recordRefused"}
      <3>1. /\ pc[u] \in Unrecorded => Len(history[u]) = 0
            /\ pc[u] \in Underway => Len(history[u]) = 2
        BY <1>u, HistoryLengths DEF Fits
      <3>2. pc[u] \in DOMAIN SequenceOf /\ ~(Len(history[u]) <= SequenceOf[pc[u]])
        BY <1>RecordExists DEF RecordExists, Numbered
      <3>3. pc[u] \in {"recordProposed", "recordRefused", "recordExecuting", "recordFailed",
                      "recordRestored", "recordCommitted"}
        BY <3>2 DEF SequenceOf
      <3>4. pc[u] # "recordProposed"
        BY <3>1, <3>2 DEF SequenceOf, Unrecorded
      <3>5. pc[u] \notin {"recordFailed", "recordRestored", "recordCommitted"}
        <4>1. ASSUME pc[u] \in {"recordFailed", "recordRestored", "recordCommitted"} PROVE FALSE
          <5>1. SequenceOf[pc[u]] = 2
            BY <4>1 DEF SequenceOf
          <5>2. Len(history[u]) = 2
            BY <4>1, <3>1 DEF Underway
          <5> QED
            BY <5>1, <5>2, <3>2
        <4> QED
          BY <4>1
      <3> QED
        BY <3>3, <3>4, <3>5
    <2>2. archived[TargetOf[u]] /\ StateOf(u) # "Executing" /\ pc'[u] \in {"discard", "done"}
      <3>1. archived[TargetOf[u]] /\ StateOf(u) # "Executing"
        BY <2>1, <1>u, BegunIsArchived DEF Unexecuted
      <3>2. AfterFault[pc[u]] \in {"discard", "done"}
        BY <2>1 DEF AfterFault
      <3> QED
        BY <1>RecordExists, <3>1, <3>2 DEF RecordExists, GoTo, TypeOK
    <2>3. Alone(u)
      BY <1>RecordExists, <2>2, <1>u DEF RecordExists, GoTo, Alone, TypeOK
    <2> QED
      BY <1>RecordExists, <2>2, <2>3, <1>u, QuietStep DEF RecordExists, TypeOK
  <1>Quarantine. ASSUME NEW u \in Undo, Quarantine(u) PROVE OutcomeInvariant'
    <2>1. archived[TargetOf[u]] /\ StateOf(u) = "Executing" /\ Executed(u) /\ history[u] # <<>>
      BY <1>Quarantine, <1>u, BegunIsArchived DEF Quarantine, Live, Underway
    <2>2. Alone(u)
      BY <1>Quarantine, <2>1, <1>u DEF Quarantine, Live, GoTo, Alone, TypeOK, Executed, AsArchived, AsUndone, EnterQuarantine
    <2>3. StateOf(u)' = "Executing"
      BY <1>Quarantine, <2>1 DEF Quarantine, StateOf
    <2>4. Executed(u)'
      BY <1>Quarantine, <2>1, <2>3, <1>u DEF Quarantine, Live, GoTo, TypeOK, Executed, AsArchived, AsUndone, D, EnterQuarantine
    <2>5. pc'[u] \notin AtRest \cup {"recordFailed", "rollback"}
      BY <1>Quarantine, <2>1, <1>u DEF Quarantine, Live, GoTo, TypeOK, Executed, AsArchived, AsUndone, AtRest, EnterQuarantine
    <2> QED
      BY <1>Quarantine, <2>1, <2>2, <2>4, <2>5, ExecutingStep DEF Quarantine
  <1>MoveToTrash. ASSUME NEW u \in Undo, MoveToTrash(u) PROVE OutcomeInvariant'
    <2>1. archived[TargetOf[u]] /\ StateOf(u) = "Executing" /\ Executed(u) /\ history[u] # <<>>
      BY <1>MoveToTrash, <1>u, BegunIsArchived DEF MoveToTrash, Live, Underway
    <2>2. Alone(u)
      BY <1>MoveToTrash, <2>1, <1>u DEF MoveToTrash, Live, GoTo, Alone, TypeOK, Executed, AsArchived, AsUndone
    <2>3. StateOf(u)' = "Executing"
      BY <1>MoveToTrash, <2>1 DEF MoveToTrash, StateOf
    <2>4. Executed(u)'
      BY <1>MoveToTrash, <2>1, <2>3, <1>u DEF MoveToTrash, Live, GoTo, TypeOK, Executed, AsArchived, AsUndone, D
    <2>5. pc'[u] \notin AtRest \cup {"recordFailed", "rollback"}
      BY <1>MoveToTrash, <2>1, <1>u DEF MoveToTrash, Live, GoTo, TypeOK, Executed, AsArchived, AsUndone, AtRest
    <2> QED
      BY <1>MoveToTrash, <2>1, <2>2, <2>4, <2>5, ExecutingStep DEF MoveToTrash
  <1>Finalize. ASSUME NEW u \in Undo, Finalize(u) PROVE OutcomeInvariant'
    <2>1. archived[TargetOf[u]] /\ StateOf(u) = "Executing" /\ Executed(u) /\ history[u] # <<>>
      BY <1>Finalize, <1>u, BegunIsArchived DEF Finalize, Live, Underway
    <2>2. Alone(u)
      BY <1>Finalize, <2>1, <1>u DEF Finalize, Live, GoTo, Alone, TypeOK, Executed, AsArchived, AsUndone
    <2>3. StateOf(u)' = "Executing"
      BY <1>Finalize, <2>1 DEF Finalize, StateOf
    <2>4. Executed(u)'
      BY <1>Finalize, <2>1, <2>3, <1>u DEF Finalize, Live, GoTo, TypeOK, Executed, AsArchived, AsUndone, D
    <2>5. pc'[u] \notin AtRest \cup {"recordFailed", "rollback"}
      BY <1>Finalize, <2>1, <1>u DEF Finalize, Live, GoTo, TypeOK, Executed, AsArchived, AsUndone, AtRest
    <2> QED
      BY <1>Finalize, <2>1, <2>2, <2>4, <2>5, ExecutingStep DEF Finalize
  <1>Recheck. ASSUME NEW u \in Undo, Recheck(u) PROVE OutcomeInvariant'
    <2>1. archived[TargetOf[u]] /\ StateOf(u) = "Executing" /\ Executed(u) /\ history[u] # <<>>
      BY <1>Recheck, <1>u, BegunIsArchived DEF Recheck, Live, Underway
    <2>2. Alone(u)
      BY <1>Recheck, <2>1, <1>u DEF Recheck, Live, GoTo, Alone, TypeOK, Executed, AsArchived, AsUndone
    <2>3. StateOf(u)' = "Executing"
      BY <1>Recheck, <2>1 DEF Recheck, StateOf
    <2>4. Executed(u)'
      BY <1>Recheck, <2>1, <2>3, <1>u DEF Recheck, Live, GoTo, TypeOK, Executed, AsArchived, AsUndone, D
    <2>5. pc'[u] \notin AtRest \cup {"recordFailed", "rollback"}
      BY <1>Recheck, <2>1, <1>u DEF Recheck, Live, GoTo, TypeOK, Executed, AsArchived, AsUndone, AtRest
    <2> QED
      BY <1>Recheck, <2>1, <2>2, <2>4, <2>5, ExecutingStep DEF Recheck
  <1>Deactivate. ASSUME NEW u \in Undo, Deactivate(u) PROVE OutcomeInvariant'
    <2>1. archived[TargetOf[u]] /\ StateOf(u) = "Executing" /\ Executed(u) /\ history[u] # <<>>
      BY <1>Deactivate, <1>u, BegunIsArchived DEF Deactivate, Running, Underway
    <2>2. Alone(u)
      BY <1>Deactivate, <2>1, <1>u DEF Deactivate, Running, GoTo, Alone, TypeOK, Executed, AsArchived, AsUndone, Retire, Otherwise, Refuse
    <2>3. StateOf(u)' = "Executing"
      BY <1>Deactivate, <2>1 DEF Deactivate, StateOf
    <2>4. Executed(u)'
      BY <1>Deactivate, <2>1, <2>3, <1>u DEF Deactivate, Running, GoTo, TypeOK, Executed, AsArchived, AsUndone, D, Retire, Otherwise, Refuse
    <2>5. pc'[u] \notin AtRest \cup {"recordFailed", "rollback"}
      BY <1>Deactivate, <2>1, <1>u DEF Deactivate, Running, GoTo, TypeOK, Executed, AsArchived, AsUndone, AtRest, Retire, Otherwise, Refuse
    <2> QED
      BY <1>Deactivate, <2>1, <2>2, <2>4, <2>5, ExecutingStep DEF Deactivate
  <1>Rollback. ASSUME NEW u \in Undo, Rollback(u) PROVE OutcomeInvariant'
    <2>1. archived[TargetOf[u]] /\ StateOf(u) = "Executing" /\ Executed(u) /\ history[u] # <<>>
      BY <1>Rollback, <1>u, BegunIsArchived DEF Rollback, Running, Underway
    <2>2. Alone(u)
      BY <1>Rollback, <2>1, <1>u DEF Rollback, Running, GoTo, Alone, TypeOK, Executed, AsArchived, AsUndone, Refuse, UndoInvariant
    <2>3. StateOf(u)' = "Executing"
      BY <1>Rollback, <2>1 DEF Rollback, StateOf
    <2>4. Executed(u)'
      BY <1>Rollback, <2>1, <2>3, <1>u DEF Rollback, Running, GoTo, TypeOK, Executed, AsArchived, AsUndone, D, Refuse, UndoInvariant
    <2>5. pc'[u] \notin AtRest \cup {"recordFailed", "rollback"}
      BY <1>Rollback, <2>1, <1>u DEF Rollback, Running, GoTo, TypeOK, Executed, AsArchived, AsUndone, AtRest, Refuse, UndoInvariant
    <2> QED
      BY <1>Rollback, <2>1, <2>2, <2>4, <2>5, ExecutingStep DEF Rollback
  <1>Restore. ASSUME NEW u \in Undo, Restore(u) PROVE OutcomeInvariant'
    <2>1. archived[TargetOf[u]] /\ StateOf(u) = "Executing" /\ Executed(u) /\ history[u] # <<>>
      BY <1>Restore, <1>u, BegunIsArchived DEF Restore, Running, Underway
    <2>2. Alone(u)
      BY <1>Restore, <2>1, <1>u DEF Restore, Running, GoTo, Alone, TypeOK, Executed, AsArchived, AsUndone
    <2>3. StateOf(u)' = "Executing"
      BY <1>Restore, <2>1 DEF Restore, StateOf
    <2>4. Executed(u)'
      BY <1>Restore, <2>1, <2>3, <1>u DEF Restore, Running, GoTo, TypeOK, Executed, AsArchived, AsUndone, D
    <2>5. pc'[u] \notin AtRest \cup {"recordFailed", "rollback"}
      BY <1>Restore, <2>1, <1>u DEF Restore, Running, GoTo, TypeOK, Executed, AsArchived, AsUndone, AtRest
    <2> QED
      BY <1>Restore, <2>1, <2>2, <2>4, <2>5, ExecutingStep DEF Restore
  <1>RestoreRegistration. ASSUME NEW u \in Undo, RestoreRegistration(u) PROVE OutcomeInvariant'
    <2>1. archived[TargetOf[u]] /\ StateOf(u) = "Executing" /\ Executed(u) /\ history[u] # <<>>
      BY <1>RestoreRegistration, <1>u, BegunIsArchived DEF RestoreRegistration, Running, Underway
    <2>2. Alone(u)
      BY <1>RestoreRegistration, <2>1, <1>u DEF RestoreRegistration, Running, GoTo, Alone, TypeOK, Executed, AsArchived, AsUndone, Otherwise, Refuse
    <2>3. StateOf(u)' = "Executing"
      BY <1>RestoreRegistration, <2>1 DEF RestoreRegistration, StateOf
    <2>4. Executed(u)'
      BY <1>RestoreRegistration, <2>1, <2>3, <1>u DEF RestoreRegistration, Running, GoTo, TypeOK, Executed, AsArchived, AsUndone, D, Otherwise, Refuse
    <2>5. pc'[u] \notin AtRest \cup {"recordFailed", "rollback"}
      BY <1>RestoreRegistration, <2>1, <1>u DEF RestoreRegistration, Running, GoTo, TypeOK, Executed, AsArchived, AsUndone, AtRest, Otherwise, Refuse
    <2> QED
      BY <1>RestoreRegistration, <2>1, <2>2, <2>4, <2>5, ExecutingStep DEF RestoreRegistration
  <1>Inspect. ASSUME NEW u \in Undo, Inspect(u) PROVE OutcomeInvariant'
    <2>1. /\ archived[TargetOf[u]] /\ vault = "reconciling"
          /\ UNCHANGED <<history, auditDir, links, registers, archived>>
      BY <1>Inspect, <1>u, BegunIsArchived DEF Inspect
    <2>2. CASE Refuse
      BY <2>1, <2>2, RestKeeps DEF Refuse
    <2>3. CASE ~Refuse /\ StateOf(u) # "Executing"
      <3>1. \E s \in {"abandonPlan", "abandonKept", "done", "planned"} : GoTo(u, s) /\ vault' = vault
        BY <1>Inspect, <2>3 DEF Inspect
      <3>2. /\ Alone(u)
            /\ pc'[u] \notin {"unstage", "recordFailed", "recordProposed", "rollback"}
        BY <3>1, <2>1, <1>u DEF GoTo, Alone, TypeOK
      <3> QED
        BY <2>1, <2>3, <3>2, <1>u, QuietStep DEF TypeOK
    <2>4. CASE ~Refuse /\ StateOf(u) = "Executing"
      <3>1. RecoverExecuting(u) /\ Executed(u) /\ history[u] # <<>>
        BY <1>Inspect, <2>4, <1>u DEF Inspect, Terminal
      <3>2. \E s \in {"rollback", "recordAbandoned", "restore", "deactivate", "recordCommitted"} :
                GoTo(u, s) /\ vault' = vault
        BY <3>1, <2>4 DEF RecoverExecuting
      <3>3. /\ Alone(u)
            /\ pc'[u] \notin AtRest \cup {"recordFailed"}
        BY <3>2, <2>1, <1>u DEF GoTo, Alone, TypeOK, AtRest
      <3>4. /\ pc'[u] = "rollback" => quarantine[u]
            /\ pc'[u] = "recordAbandoned" => ~quarantine[u] /\ dest[D(u)] /\ registration[TargetOf[u]]
            /\ pc'[u] \in {"restore", "deactivate", "recordCommitted"} => ~quarantine[u] /\ ~dest[D(u)]
            /\ pc'[u] = "deactivate" => registration[TargetOf[u]]
            /\ pc'[u] = "recordCommitted" => ~registration[TargetOf[u]] /\ tombstone[TargetOf[u]]
            /\ pc'[u] \in {"rollback", "recordAbandoned", "restore", "deactivate", "recordCommitted"}
        BY <3>1, <3>2, <2>4 DEF RecoverExecuting, GoTo, TypeOK
      <3>5. Executed(u)'
        <4>1. registration[TargetOf[u]] \in BOOLEAN /\ tombstone[TargetOf[u]] \in BOOLEAN
          BY <1>u DEF TypeOK
        <4>2. (AsArchived(u)' <=> AsArchived(u)) /\ (AsUndone(u)' <=> AsUndone(u))
          BY <2>1 DEF AsArchived, AsUndone
        <4>3. pc'[u] = "recordAbandoned" => AsArchived(u)
          BY <3>1, <3>4, <4>1 DEF Executed, AsArchived
        <4>4. pc'[u] = "recordCommitted" => AsUndone(u)
          BY <3>4, <4>1 DEF AsUndone
        <4> QED
          BY <3>1, <3>4, <2>1, <4>2, <4>3, <4>4 DEF Executed, D
      <3> QED
        BY <2>1, <2>4, <3>1, <3>3, <3>5, ExecutingStep
    <2> QED
      BY <2>2, <2>3, <2>4
  <1>WriteRecord. ASSUME NEW u \in Undo, WriteRecord(u) PROVE OutcomeInvariant'
    BY <1>WriteRecord, RecordStepKeeps
  <1>Failure. ASSUME NEW u \in Undo, Failure(u) PROVE FALSE
    BY <1>Failure DEF Failure, StepFails, VerificationFails, RecoveryFails, Fault, UndosApart, TypeOK
  <1>BeginReconcile. ASSUME BeginReconcile PROVE OutcomeInvariant'
    <2>1. ASSUME NEW w \in Undo
          PROVE  /\ pc'[w] \in AtRest \cup {"inspect", "inspectKept"}
                 /\ auditDir[w] => pc'[w] \in {"inspect", "inspectKept"}
                 /\ ~auditDir[w] => pc'[w] = pc[w]
      BY <1>BeginReconcile, <1>u DEF BeginReconcile, Allowed
    <2>2. ASSUME NEW w \in Undo PROVE UndoInvariant(w)'
      <3>1. /\ UndoInvariant(w) /\ StateOf(w)' = StateOf(w)
            /\ UNCHANGED <<history, auditDir, links, registers, archived>>
        BY <1>BeginReconcile, <1>u DEF BeginReconcile, StateOf
      <3>2. StateOf(w) = "Executing" => Executed(w)' /\ pc'[w] \notin AtRest
        BY <2>1, <3>1, <1>u DEF UndoInvariant, Executed, AsArchived, AsUndone, D, AtRest
      <3> QED
        BY <2>1, <3>1, <3>2, <1>u DEF UndoInvariant, AsArchived, AsUndone, D, AtRest
    <2>3. ASSUME NEW o \in Op PROVE ArchiveInvariant(o)'
      BY <2>1, <1>BeginReconcile DEF BeginReconcile, OutcomeInvariant, ArchiveInvariant
    <2> QED
      BY <2>2, <2>3 DEF OutcomeInvariant
  <1>r. ASSUME \A w \in Undo : pc[w] \in AtRest, vault' # "reconciling", pc' = pc,
               UNCHANGED <<history, auditDir, links, registers, archived>>
        PROVE  OutcomeInvariant'
    <2>1. ASSUME NEW w \in Undo PROVE UndoInvariant(w)'
      <3>1. UndoInvariant(w) /\ StateOf(w)' = StateOf(w)
        BY <1>r, <1>u DEF StateOf
      <3> QED
        BY <1>r, <3>1 DEF UndoInvariant, Executed, AsArchived, AsUndone, D, AtRest
    <2>2. ASSUME NEW o \in Op PROVE ArchiveInvariant(o)'
      BY <1>r DEF OutcomeInvariant, ArchiveInvariant
    <2> QED
      BY <2>1, <2>2 DEF OutcomeInvariant
  <1>FinishReconcile. ASSUME FinishReconcile PROVE OutcomeInvariant'
    BY <1>FinishReconcile, <1>r, RestKeeps DEF FinishReconcile, Refuse
  <1>Quit. ASSUME Quit PROVE OutcomeInvariant'
    BY <1>Quit, RestKeeps DEF Quit
  <1>TransferAway. ASSUME TransferAway PROVE OutcomeInvariant'
    BY <1>TransferAway, <1>r DEF TransferAway
  <1>Crash. ASSUME Crash PROVE OutcomeInvariant'
    BY <1>Crash, RestKeeps DEF Crash
  <1>Archive. ASSUME NEW o \in Op, Archive(o) PROVE OutcomeInvariant'
    <2>1. ArchiveInvariant(o) /\ ~archived[o] /\ DestOf[o] \in Dest
      BY <1>Archive, PlanAssumption DEF Archive, OutcomeInvariant
    <2>2. /\ archived'[o] /\ dest'[DestOf[o]] /\ registration'[o] /\ ~tombstone'[o]
          /\ \A p \in Op \ {o} : archived'[p] = archived[p] /\ registration'[p] = registration[p]
          /\ \A d \in Dest \ {DestOf[o]} : dest'[d] = dest[d]
          /\ UNCHANGED <<vault, pc, history, auditDir, staging, quarantine, tombstone>>
      BY <1>Archive, <2>1 DEF Archive, ArchiveInvariant, TypeOK
    <2>3. ASSUME NEW w \in Undo PROVE UndoInvariant(w)'
      <3>1. UndoInvariant(w) /\ StateOf(w)' = StateOf(w) /\ TargetOf[w] \in Op /\ D(w) \in Dest
        BY <2>2, <1>u DEF StateOf
      <3>2. CASE TargetOf[w] = o
        <4>1. pc[w] = "idle" /\ history[w] = <<>> /\ ~quarantine[w] /\ StateOf(w) = "None"
          BY <2>1, <3>2 DEF ArchiveInvariant, StateOf
        <4> QED
          BY <2>2, <3>1, <3>2, <4>1 DEF UndoInvariant, AsArchived, D
      <3>3. CASE TargetOf[w] # o
        <4>1. D(w) # DestOf[o]
          BY <3>1, <3>3 DEF D, UndosApart
        <4>2. /\ dest'[D(w)] = dest[D(w)] /\ archived'[TargetOf[w]] = archived[TargetOf[w]]
              /\ registration'[TargetOf[w]] = registration[TargetOf[w]]
          BY <2>2, <3>1, <3>3, <4>1
        <4> QED
          BY <2>2, <3>1, <4>2 DEF UndoInvariant, Executed, AsArchived, AsUndone, D
      <3> QED
        BY <3>2, <3>3
    <2>4. ASSUME NEW p \in Op PROVE ArchiveInvariant(p)'
      <3>1. CASE p = o
        BY <2>2, <3>1 DEF ArchiveInvariant
      <3>2. CASE p # o
        <4>1. DestOf[p] \in Dest /\ DestOf[p] # DestOf[o] /\ ArchiveInvariant(p)
          BY <3>2, PlanAssumption DEF UndosApart, OutcomeInvariant
        <4> QED
          BY <2>2, <3>2, <4>1 DEF ArchiveInvariant
      <3> QED
        BY <3>1, <3>2
    <2> QED
      BY <2>3, <2>4 DEF OutcomeInvariant
  <1>Other. ASSUME NEW o \in Op, VerifyForSave(o) \/ WriteKnowledge(o) \/ SourceChanges(o)
            PROVE  OutcomeInvariant'
    BY <1>Other, StillOutcome DEF VerifyForSave, WriteKnowledge, SourceChanges
  <1>Stutter. ASSUME UNCHANGED vars PROVE OutcomeInvariant'
    BY <1>Stutter, StillOutcome DEF vars
  <1>1. CASE \E u \in Undo : Create(u) \/ Confirm(u) \/ Expire(u) \/ Execute(u) \/ Failure(u)
    BY <1>1, <1>Create, <1>CreateAudit, <1>Confirm, <1>Expire, <1>WriteRecord, <1>RecordExists,
       <1>Reverify, <1>Stage, <1>Discard, <1>Quarantine, <1>MoveToTrash, <1>Finalize, <1>Recheck,
       <1>Deactivate, <1>Rollback, <1>Unstage, <1>Restore, <1>RestoreRegistration,
       <1>DropRestored, <1>DropStaging, <1>Inspect, <1>Failure DEF Execute
  <1> QED
    BY <1>1, <1>BeginReconcile, <1>FinishReconcile, <1>Quit, <1>TransferAway, <1>Crash,
       <1>Archive, <1>Other, <1>Stutter DEF Next

(* A reconciliation that has found out how far an undo went completes it. *)
LEMMA RecoveriesGoOn ==
    ASSUME TypeOK, HistoryInvariant, OutcomeInvariant, NEW u \in Undo,
           Deactivate(u) \/ Rollback(u) \/ RestoreRegistration(u)
    PROVE  vault' = vault
  <1>1. /\ Executed(u) /\ TargetOf[u] \in Op /\ D(u) \in Dest
        /\ registration[TargetOf[u]] \in BOOLEAN /\ tombstone[TargetOf[u]] \in BOOLEAN
        /\ registration[TargetOf[u]] # tombstone[TargetOf[u]]
    <2>1. StateOf(u) = "Executing"
      BY StateAtStep DEF Deactivate, Rollback, RestoreRegistration, Running, Underway
    <2>2. Executed(u) /\ TargetOf[u] \in Op /\ D(u) \in Dest
      BY <2>1, PlanAssumption DEF OutcomeInvariant, UndoInvariant, D
    <2> QED
      BY <2>2 DEF Executed, TypeOK
  <1>2. CASE Deactivate(u)
    BY <1>1, <1>2 DEF Deactivate, Running, Executed, GoTo
  <1>3. CASE Rollback(u)
    BY <1>1, <1>3 DEF Rollback, Running, Executed, GoTo
  <1>4. CASE RestoreRegistration(u)
    BY <1>1, <1>4 DEF RestoreRegistration, Running, GoTo
  <1> QED
    BY <1>2, <1>3, <1>4

(* Once each undo is at rest, the archive verifies every operation. *)
LEMMA RestingIsVerified ==
    ASSUME HistoryInvariant, OutcomeInvariant, vault = "reconciling",
           \A u \in Undo : pc[u] \in AtRest, NEW o \in Op, archived[o], UndosApart
    PROVE  OperationVerified(o)
  <1>1. CASE \A u \in Undo : TargetOf[u] # o
    BY <1>1 DEF OutcomeInvariant, ArchiveInvariant, OperationVerified, Undone
  <1>2. CASE \E u \in Undo : TargetOf[u] = o
    <2>1. PICK u \in Undo : TargetOf[u] = o
      BY <1>2
    <2>2. /\ UndoInvariant(u) /\ StateOf(u) # "Executing" /\ D(u) = DestOf[o]
          /\ StateOf(u) \in UndoState \cup {"None"}
      BY <2>1, StateAtStep DEF OutcomeInvariant, UndoInvariant, D
    <2>3. Undone(o) <=> StateOf(u) = "Committed"
      BY <2>1 DEF Undone, UndosApart
    <2>4. CASE StateOf(u) = "Committed"
      BY <2>1, <2>2, <2>3, <2>4 DEF UndoInvariant, AsUndone, OperationVerified
    <2>5. CASE StateOf(u) # "Committed"
      BY <2>1, <2>2, <2>3, <2>5 DEF UndoInvariant, AsArchived, OperationVerified, UndoState, Terminal
    <2> QED
      BY <2>4, <2>5
  <1> QED
    BY <1>1, <1>2

(* A Vault that refuses to open stays as the refusal found it. *)
LEMMA RefusedIsFrozen ==
    ASSUME UndosApart, TypeOK, [Next]_vars, vault = "refused", vault' = "refused"
    PROVE  UNCHANGED <<audit, staging, dest, registration>>
  <1> USE DEF audit, links, registers, user, budget
  <1>1. ASSUME NEW u \in Undo, Create(u) \/ Confirm(u) \/ Expire(u)
        PROVE  UNCHANGED <<audit, staging, dest, registration>>
    BY <1>1 DEF Create, Confirm, Expire, Live
  <1>2. ASSUME NEW u \in Undo, Execute(u) PROVE FALSE
    BY <1>2 DEF Execute, CreateAudit, WriteRecord, RecordExists, Reverify, Stage, Discard, Quarantine,
       MoveToTrash, Finalize, Deactivate, Recheck, Rollback, Unstage, Restore, RestoreRegistration,
       DropRestored, DropStaging, Inspect, Live, Running
  <1>3. ASSUME NEW u \in Undo, Failure(u) PROVE FALSE
    BY <1>3 DEF Failure, StepFails, VerificationFails, RecoveryFails
  <1>4. ASSUME NEW o \in Op, Archive(o) \/ VerifyForSave(o) \/ WriteKnowledge(o) \/ SourceChanges(o)
        PROVE  UNCHANGED <<audit, staging, dest, registration>>
    BY <1>4 DEF Archive, VerifyForSave, WriteKnowledge, SourceChanges
  <1>5. CASE BeginReconcile \/ FinishReconcile \/ Quit \/ TransferAway \/ Crash
    BY <1>5 DEF BeginReconcile, FinishReconcile, Quit, TransferAway, Crash
  <1> QED
    BY <1>1, <1>2, <1>3, <1>4, <1>5 DEF Next, vars

(* Audits come one by one, and only a beginning reconciliation has them read. *)
LEMMA AuditsStep ==
    ASSUME TypeOK, HistoryInvariant, AuditsCounted, [Next]_vars
    PROVE  AuditsCounted'
  <1> USE DEF audit, links, registers, user, budget
  <1> DEFINE Reading == {"inspect", "inspectKept"}
  <1>s. ASSUME UNCHANGED auditDir, \A u \in Undo : pc'[u] \in Reading => pc[u] \in Reading
        PROVE  AuditsCounted'
    BY <1>s DEF AuditsCounted, Audited
  <1>g. ASSUME UNCHANGED auditDir, NEW u \in Undo, NEW s \in Step, GoTo(u, s), s \notin Reading
        PROVE  AuditsCounted'
    BY <1>g, <1>s DEF GoTo, TypeOK
  <1>r. ASSUME UNCHANGED auditDir, pc' \in {Halted, Ended}
        PROVE  AuditsCounted'
    BY <1>r, <1>s, HaltedRests DEF AtRest, TypeOK
  <1>1. ASSUME NEW u \in Undo, CreateAudit(u) PROVE AuditsCounted'
    <2>1. Audited' = Audited \cup {u}
      BY <1>1 DEF CreateAudit, Audited, TypeOK
    <2>2. IsFiniteSet(Audited')
      BY <2>1, FS_AddElement DEF AuditsCounted
    <2> QED
      BY <1>1, <2>2 DEF CreateAudit, GoTo, AuditsCounted, TypeOK
  <1>2. ASSUME NEW u \in Undo, Create(u) \/ Confirm(u) \/ Expire(u) PROVE AuditsCounted'
    BY <1>2, <1>g, StepLiterals DEF Create, Confirm, Expire
  <1>3. ASSUME NEW u \in Undo, WriteRecord(u) \/ RecordExists(u) \/ StepFails(u)
        PROVE  AuditsCounted'
    <2>1. /\ AfterRecord(u) \in Step \ Reading
          /\ \A s \in DOMAIN AfterFault : AfterFault[s] \in Step \ Reading
      BY FollowingSteps DEF AfterRecord, AfterFault
    <2>2. DOMAIN SequenceOf \subseteq DOMAIN AfterFault
      BY DEF SequenceOf, AfterFault
    <2> QED
      BY <1>3, <1>g, <2>1, <2>2 DEF WriteRecord, RecordExists, StepFails
  <1>4. ASSUME NEW u \in Undo,
               \/ Reverify(u) \/ Stage(u) \/ Discard(u) \/ Quarantine(u) \/ MoveToTrash(u)
               \/ Finalize(u) \/ Recheck(u) \/ Unstage(u) \/ Restore(u) \/ DropRestored(u)
               \/ DropStaging(u) \/ VerificationFails(u)
        PROVE  AuditsCounted'
    <2>1. \E s \in Step \ Reading : GoTo(u, s)
      BY <1>4, StepLiterals DEF Reverify, Stage, Discard, Quarantine, MoveToTrash, Finalize, Recheck,
         Unstage, Restore, DropRestored, DropStaging, VerificationFails
    <2>2. UNCHANGED auditDir
      BY <1>4 DEF Reverify, Stage, Discard, Quarantine, MoveToTrash, Finalize, Recheck,
         Unstage, Restore, DropRestored, DropStaging, VerificationFails
    <2> QED
      BY <1>g, <2>1, <2>2
  <1>5. ASSUME NEW u \in Undo, Deactivate(u) \/ Rollback(u) \/ RestoreRegistration(u)
        PROVE  AuditsCounted'
    <2>1. pc' = Ended \/ \E s \in Step \ Reading : GoTo(u, s)
      BY <1>5, StepLiterals DEF Deactivate, Rollback, RestoreRegistration, Otherwise, Refuse
    <2>2. UNCHANGED auditDir
      BY <1>5 DEF Deactivate, Rollback, RestoreRegistration
    <2> QED
      BY <1>g, <1>r, <2>1, <2>2
  <1>6. ASSUME NEW u \in Undo, Inspect(u) PROVE AuditsCounted'
    <2>1. pc' = Ended \/ \E s \in Step \ Reading : GoTo(u, s)
      BY <1>6, StepLiterals DEF Inspect, RecoverExecuting, Refuse
    <2> QED
      BY <1>6, <1>g, <1>r, <2>1 DEF Inspect
  <1>7. ASSUME NEW u \in Undo, RecoveryFails(u) PROVE AuditsCounted'
    BY <1>7, <1>r DEF RecoveryFails, Refuse
  <1>8. ASSUME NEW o \in Op, Archive(o) \/ VerifyForSave(o) \/ WriteKnowledge(o) \/ SourceChanges(o)
        PROVE  AuditsCounted'
    BY <1>8, <1>s DEF Archive, VerifyForSave, WriteKnowledge, SourceChanges
  <1>9. CASE BeginReconcile
    <2>1. UNCHANGED auditDir /\ \A u \in Undo : ~auditDir[u] => pc'[u] = pc[u]
      BY <1>9 DEF BeginReconcile
    <2> QED
      BY <2>1 DEF AuditsCounted, Audited
  <1>10. CASE FinishReconcile \/ Quit \/ TransferAway \/ Crash
    BY <1>10, <1>s, <1>r DEF FinishReconcile, Quit, TransferAway, Crash, Refuse
  <1>11. CASE UNCHANGED vars
    BY <1>11, <1>s DEF vars
  <1> QED
    BY <1>1, <1>2, <1>3, <1>4, <1>5, <1>6, <1>7, <1>8, <1>9, <1>10, <1>11
    DEF Next, Execute, Failure

(* A scan that has reached its limit has one audit more before it. *)
LEMMA LimitIsPassed ==
    ASSUME AuditsCounted, NEW u \in Undo, pc[u] \in {"inspect", "inspectKept"}, ~Accepts(u)
    PROVE  Cardinality(Audited) > MaxUndoOperations \/ ~Readable(u)
  <1> SUFFICES ASSUME ~(Cardinality(Passed) < MaxUndoOperations)
               PROVE  Cardinality(Audited) > MaxUndoOperations
    BY DEF Accepts
  <1>1. /\ Passed \subseteq Audited \ {u} /\ u \in Audited
        /\ IsFiniteSet(Audited) /\ IsFiniteSet(Audited \ {u})
    BY FS_RemoveElement DEF Passed, Audited, AuditsCounted
  <1>2. Cardinality(Audited \ {u}) = Cardinality(Audited) - 1 /\ Cardinality(Audited) \in Nat
    BY <1>1, FS_RemoveElement, FS_CardinalityType
  <1>3. Cardinality(Passed) <= Cardinality(Audited \ {u}) /\ IsFiniteSet(Passed)
    BY <1>1, FS_Subset
  <1>4. Cardinality(Passed) \in Nat
    BY <1>3, FS_CardinalityType
  <1> QED
    BY <1>2, <1>3, <1>4, LimitAssumption

(* Only too many audits, or one that cannot be told, or told apart, refuse a  *)
(* Vault.                                                                     *)
LEMMA RefusalStep ==
    ASSUME UndosApart, TypeOK, HistoryInvariant, OutcomeInvariant, AuditsCounted,
           RefusalHasCause, [Next]_vars
    PROVE  RefusalHasCause'
  <1> USE DEF audit, links, registers, user, budget
  <1> SUFFICES ASSUME vault' = "refused" PROVE RefusalHasCause'
    BY DEF RefusalHasCause
  <1>s. ASSUME UNCHANGED <<audit, staging, dest, registration>>
        PROVE  /\ Audited' = Audited
               /\ \A u \in Undo : /\ StateOf(u)' = StateOf(u) /\ Readable(u)' = Readable(u)
                                  /\ HalfRestored(u)' = HalfRestored(u)
    BY <1>s DEF StateOf, Readable, HalfRestored, D, Audited
  <1>1. CASE vault = "refused"
    <2>1. UNCHANGED <<audit, staging, dest, registration>>
      BY <1>1, RefusedIsFrozen
    <2> QED
      BY <1>1, <2>1, <1>s DEF RefusalHasCause
  <1>2. CASE vault # "refused"
    <2>1. ASSUME NEW u \in Undo, Inspect(u) PROVE RefusalHasCause'
      <3>1. UNCHANGED <<audit, staging, dest, registration>> /\ vault # "refused"
        BY <2>1 DEF Inspect
      <3>2. ~Accepts(u) \/ (StateOf(u) = "Executing" /\ RecoverExecuting(u))
        BY <1>2, <2>1 DEF Inspect
      <3>3. CASE ~Accepts(u)
        <4>1. Cardinality(Audited) > MaxUndoOperations \/ ~Readable(u)
          BY <2>1, <3>3, LimitIsPassed DEF Inspect
        <4> QED
          BY <3>1, <4>1, <1>s DEF RefusalHasCause
      <3>4. CASE StateOf(u) = "Executing" /\ RecoverExecuting(u)
        <4>1. Executed(u) /\ TargetOf[u] \in Op
          BY <3>4, PlanAssumption DEF OutcomeInvariant, UndoInvariant
        <4>2. /\ staging[u] /\ registration[TargetOf[u]] # tombstone[TargetOf[u]]
              /\ registration[TargetOf[u]] \in BOOLEAN /\ tombstone[TargetOf[u]] \in BOOLEAN
          BY <4>1 DEF Executed, TypeOK
        <4>3. HalfRestored(u)
          BY <1>2, <3>4, <4>2 DEF RecoverExecuting, HalfRestored
        <4> QED
          BY <3>1, <3>4, <4>3, <1>s DEF RefusalHasCause
      <3> QED
        BY <3>2, <3>3, <3>4
    <2>2. ASSUME FinishReconcile PROVE FALSE
      BY <1>2, <2>2, RestingIsVerified DEF FinishReconcile
    <2>3. ASSUME NEW u \in Undo, Deactivate(u) \/ Rollback(u) \/ RestoreRegistration(u)
          PROVE  FALSE
      BY <1>2, <2>3, RecoveriesGoOn
    <2>4. ASSUME NEW u \in Undo, Failure(u) PROVE FALSE
      BY <2>4 DEF Failure, StepFails, VerificationFails, RecoveryFails, Fault, UndosApart, TypeOK
    <2>5. ASSUME NEW u \in Undo, Create(u) \/ Confirm(u) \/ Expire(u) PROVE FALSE
      BY <1>2, <2>5 DEF Create, Confirm, Expire
    <2>6. ASSUME NEW u \in Undo, Execute(u), ~Inspect(u), ~Deactivate(u), ~Rollback(u),
                 ~RestoreRegistration(u)
          PROVE  FALSE
      BY <1>2, <2>6 DEF Execute, CreateAudit, WriteRecord, RecordExists, Reverify, Stage, Discard,
         Quarantine, MoveToTrash, Finalize, Recheck, Unstage, Restore, DropRestored, DropStaging
    <2>7. ASSUME NEW o \in Op, Archive(o) \/ VerifyForSave(o) \/ WriteKnowledge(o) \/ SourceChanges(o)
          PROVE  FALSE
      BY <1>2, <2>7 DEF Archive, VerifyForSave, WriteKnowledge, SourceChanges
    <2>8. ASSUME BeginReconcile \/ Quit \/ TransferAway \/ Crash PROVE FALSE
      BY <2>8 DEF BeginReconcile, Quit, TransferAway, Crash
    <2>9. ASSUME UNCHANGED vars PROVE FALSE
      BY <1>2, <2>9 DEF vars
    <2> QED
      BY <2>1, <2>2, <2>3, <2>4, <2>5, <2>6, <2>7, <2>8, <2>9 DEF Next
  <1> QED
    BY <1>1, <1>2

(* All the strengthenings together. *)
UndoSafe ==
    /\ TypeOK /\ HoldInvariant /\ HistoryInvariant
    /\ OutcomeInvariant /\ AuditsCounted /\ RefusalHasCause

LEMMA UndoSafeAlways == UndosApart => (Spec => []UndoSafe)
  <1> SUFFICES ASSUME UndosApart PROVE Spec => []UndoSafe
    OBVIOUS
  <1>1. Init => UndoSafe
    <2>1. Init => RefusalHasCause
      BY DEF Init, RefusalHasCause
    <2>2. Init => AuditsCounted
      <3>1. Init => Audited = {}
        BY DEF Init, Audited
      <3> QED
        BY <3>1, FS_EmptySet DEF Init, AuditsCounted
    <2> QED
      BY <2>1, <2>2, TypeInit, HoldInit, HistoryInit, OutcomeInit DEF UndoSafe
  <1>2. UndoSafe /\ [Next]_vars => UndoSafe'
    BY TypeStep, HoldStep, HistoryStep, OutcomeStep, AuditsStep, RefusalStep DEF UndoSafe
  <1> QED
    BY <1>1, <1>2, PTL DEF Spec

(* Whatever crashes and reconciliations interleave with it, an undo that ended *)
(* Failed or Abandoned has left its original at its destination and            *)
(* registered, and one recorded Committed has taken it back as a whole.        *)
THEOREM OutcomesAreTrue == UndosApart => (Spec => []OutcomesHold)
  <1>1. UndoSafe => OutcomesHold
    <2> SUFFICES ASSUME UndoSafe PROVE OutcomesHold
      OBVIOUS
    <2>1. FailedUndoKeepsArchive
      <3> SUFFICES ASSUME NEW u \in Undo, pc[u] = "done", StateOf(u) \in {"Failed", "Abandoned"}
                   PROVE  dest[D(u)] /\ registration[TargetOf[u]]
        BY DEF FailedUndoKeepsArchive
      <3>1. UndoInvariant(u) /\ archived[TargetOf[u]]
        BY BegunIsArchived DEF UndoSafe, OutcomeInvariant
      <3> QED
        BY <3>1 DEF UndoInvariant, AsArchived
    <2>2. CommittedUndoIsRetired
      BY DEF CommittedUndoIsRetired, UndoSafe, OutcomeInvariant, UndoInvariant, AsUndone
    <2> QED
      BY <2>1, <2>2 DEF OutcomesHold
  <1> QED
    BY <1>1, UndoSafeAlways, PTL

(* A Vault refuses to open only over more undo audits than a scan may pass,    *)
(* over one that cannot be read, or over an archive that was restored without  *)
(* its registration; every other crash point is recovered.                     *)
THEOREM RefusalsAreExplained == UndosApart => (Spec => []RefusalHasCause)
  <1>1. UndoSafe => RefusalHasCause
    BY DEF UndoSafe
  <1> QED
    BY <1>1, UndoSafeAlways, PTL
=============================================================================
