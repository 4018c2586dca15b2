------------------------ MODULE SourceCleanupProofs ------------------------
(***************************************************************************)
(* Proofs about SourceCleanup, for any number of operations, sources and   *)
(* requests, any sharing of sources by operations, any selections, and any *)
(* bounds on failed file operations and crashes.                           *)
(***************************************************************************)
EXTENDS SourceCleanup, TLAPS

TrashPlan(r) == <<r, "trash">>
DeletionPlan(r) == <<r, "permanentDelete">>

(***************************************************************************)
(* The invariant.  Steps belong to the state of the Vault; a plan's step   *)
(* tells how far its audit has come; an audit that has come as far as      *)
(* Executing is what a removal needs.                                      *)
(***************************************************************************)
ExecutionStep == {"createAudit", "recordProposed", "review", "recordSuperseded", "reverify",
                  "recordRefused", "recordExecuting", "remove", "recordFailed", "recordCommitted"}
RecoveryStep == Inspecting \cup {"recordFailed", "recordCommitted", "recordAbandoned",
                                 "abandonPlan", "abandonKept"}
StepsOf(v) == CASE v = "open" -> AtRest \cup ExecutionStep
                [] v = "reconciling" -> AtRest \cup RecoveryStep
                [] OTHER -> AtRest

\* No plan is underway but where the Vault lets it.
StepsMatchVault == \A p \in Plan : pc[p] \in StepsOf(vault)

\* An audit is Proposed, then what became of the plan, then how its execution ended.
Lifecycle(h) ==
    /\ h # <<>> => h[1] = "Proposed"
    /\ Len(h) >= 2 => h[2] \in CleanupState \ {"Proposed", "Committed"}
    /\ Len(h) >= 3 => h[2] = "Executing" /\ Len(h) = 3 /\ h[3] \in {"Committed", "Failed", "Abandoned"}

Executing(h) == Len(h) = 2 /\ h[2] = "Executing"

\* What a step relies on of the audit of its plan.
Follows(step, h) ==
    /\ step \in {"idle", "createAudit", "recordProposed"} => h = <<>>
    /\ step \in {"planned", "inspectKept", "review", "reverify", "recordSuperseded",
                 "recordRefused", "recordExecuting"} => h # <<>>
    /\ step \in {"abandonPlan", "abandonKept"} => Len(h) = 1
    /\ step \in {"remove", "recordFailed", "recordCommitted", "recordAbandoned"} => Executing(h)

StepsFollowAudits == \A p \in Plan : Lifecycle(history[p]) /\ Follows(pc[p], history[p])

\* A plan to delete exists because its trash plan was superseded; neither changes its items.
PlansAreMadeOnce ==
    /\ \A p \in Plan : IF pc[p] = "idle" THEN ~auditDir[p] ELSE items[p[1]] \in Selection
    /\ \A r \in Request : pc[DeletionPlan(r)] # "idle" =>
          Len(history[TrashPlan(r)]) = 2 /\ history[TrashPlan(r)][2] = "Superseded"

\* Only an execution removes; it has removed the items before the next one.
RemovalsAreExecuted ==
    \A p \in Plan :
        /\ removed[p] # {} \/ next[p] # 1 => Len(history[p]) >= 2 /\ history[p][2] = "Executing"
        /\ removed[p] \subseteq SourcesOf(p)
        /\ pc[p] = "remove" =>
              /\ next[p] \in DOMAIN items[p[1]]
              /\ \A i \in DOMAIN items[p[1]] : i < next[p] => SourceOf[items[p[1]][i]] \in gone
        /\ pc[p] = "recordCommitted" \/ StateOf(p) = "Committed" => SourcesOf(p) \subseteq gone

\* The history variables know of what is absent, and of what came back.
ReturnsAreKnown ==
    /\ \A f \in Path : source[f] = "absent" => f \in gone
    /\ \A p \in Plan : \A f \in removed[p] : source[f] = "absent" \/ f \in putBack

\* What a recovery is about to record holds already, and still does once it is recorded.
RecoveriesAreVerified ==
    \A p \in Plan :
        /\ pc[p] = "recordAbandoned" \/ StateOf(p) = "Abandoned" => removed[p] \subseteq putBack
        /\ vault = "reconciling" /\ pc[p] = "recordCommitted" =>
              \A o \in OriginalsOf(p) : retained[o]

CleanupInv == /\ StepsMatchVault /\ StepsFollowAudits /\ PlansAreMadeOnce
              /\ RemovalsAreExecuted /\ ReturnsAreKnown /\ RecoveriesAreVerified

-----------------------------------------------------------------------------
(* The steps after a record, a failed one, or a halt are steps.              *)
LEMMA StepLiterals ==
    {"idle", "refused", "planned", "lapsed", "stopped", "done", "createAudit", "review",
     "reverify", "remove", "inspect", "inspectKept", "recordProposed", "recordSuperseded",
     "recordExecuting", "recordRefused", "recordCommitted", "recordFailed", "abandonPlan",
     "abandonKept", "recordAbandoned"} \subseteq Step
  BY DEF Step, AtRest, Inspecting, RecordStep, RecordedState

LEMMA FollowingSteps ==
    /\ \A s \in RecordStep : RecordedState[s] \in CleanupState /\ AfterRecord[s] \in Step
    /\ \A s \in DOMAIN AfterFault : AfterFault[s] \in Step
  <1>1. \A s \in RecordStep : RecordedState[s] \in CleanupState
    BY DEF RecordStep, RecordedState, CleanupState, Terminal
  <1>2. \A s \in RecordStep : AfterRecord[s] \in Step
    BY StepLiterals DEF RecordStep, RecordedState, AfterRecord
  <1>3. \A s \in DOMAIN AfterFault : AfterFault[s] \in Step
    BY StepLiterals DEF AfterFault
  <1> QED
    BY <1>1, <1>2, <1>3

(* Halting, or giving up a reconciliation, leaves each plan at rest.         *)
LEMMA HaltedRests ==
    ASSUME pc \in [Plan -> Step]
    PROVE  /\ Halted \in [Plan -> Step] /\ Ended \in [Plan -> Step]
           /\ \A p \in Plan : /\ Halted[p] \in AtRest /\ Ended[p] \in AtRest
                              /\ Halted[p] \in {pc[p], "stopped"}
                              /\ Ended[p] \in {pc[p], "stopped", "planned"}
                              /\ Ended[p] = "planned" => pc[p] \in Kept
                              /\ Halted[p] # "planned"
                              /\ Halted[p] = "idle" <=> pc[p] = "idle"
                              /\ Ended[p] = "idle" <=> pc[p] = "idle"
  <1>1. /\ Halted \in [Plan -> Step]
        /\ \A p \in Plan : /\ Halted[p] \in AtRest /\ Halted[p] # "planned"
                           /\ Halted[p] \in {pc[p], "stopped"}
    BY StepLiterals DEF Halted, AtRest
  <1>2. "planned" \in Step /\ "planned" \in AtRest
    BY StepLiterals DEF AtRest
  <1>3. \A p \in Plan : Halted[p] = "idle" <=> pc[p] = "idle"
    BY DEF Halted, AtRest
  <1>4. \A p \in Plan : Ended[p] = "idle" <=> pc[p] = "idle"
    BY <1>3 DEF Ended, Kept
  <1> QED
    BY <1>1, <1>2, <1>3, <1>4 DEF Ended

LEMMA ItemsAreSequences ==
    ASSUME TypeOK, NEW p \in Plan
    PROVE  /\ p[1] \in Request /\ items[p[1]] \in Seq(Op)
           /\ DOMAIN items[p[1]] = 1 .. Len(items[p[1]]) /\ Len(items[p[1]]) \in Nat
           /\ \A i \in DOMAIN items[p[1]] : items[p[1]][i] \in Op /\ SourceOf[items[p[1]][i]] \in Path
  <1>1. p[1] \in Request
    BY DEF Plan
  <1>2. items[p[1]] \in Seq(Op)
    <2>1. items[p[1]] \in Selection \cup {<<>>}
      BY <1>1 DEF TypeOK
    <2>2. <<>> \in Seq(Op) /\ \A s \in Selection : s \in Seq(Op)
      BY SelectionAssumption
    <2> QED
      BY <2>1, <2>2
  <1> QED
    BY <1>1, <1>2, SourceAssumption

-----------------------------------------------------------------------------
(* Type correctness.                                                         *)

LEMMA TypeInit == Init => TypeOK
  <1> SUFFICES ASSUME Init PROVE TypeOK
    OBVIOUS
  <1>1. history \in [Plan -> Seq(CleanupState)]
    BY DEF Init
  <1> QED
    BY <1>1, StepLiterals, LimitAssumption DEF Init, TypeOK

LEMMA TypeStep == TypeOK /\ CleanupInv /\ [Next]_vars => TypeOK'
  <1> SUFFICES ASSUME TypeOK, CleanupInv, [Next]_vars PROVE TypeOK'
    OBVIOUS
  <1> USE LimitAssumption, HaltedRests, StepLiterals, FollowingSteps
  <1> USE DEF audit, files, trail, budget
  <1>Create. ASSUME NEW r \in Request, Create(r) PROVE TypeOK'
    <2>1. pc' \in [Plan -> Step]
      BY <1>Create DEF Create, TypeOK, GoTo
    <2> QED
      BY <1>Create, <2>1 DEF Create, TypeOK
  <1>Authorize. ASSUME NEW r \in Request, Authorize(r) PROVE TypeOK'
    BY <1>Authorize DEF Authorize, TypeOK, GoTo
  <1>CreateAudit. ASSUME NEW p \in Plan, CreateAudit(p) PROVE TypeOK'
    BY <1>CreateAudit DEF CreateAudit, TypeOK, GoTo
  <1>Confirm. ASSUME NEW p \in Plan, Confirm(p) PROVE TypeOK'
    BY <1>Confirm DEF Confirm, TypeOK, GoTo
  <1>Expire. ASSUME NEW p \in Plan, Expire(p) PROVE TypeOK'
    BY <1>Expire DEF Expire, TypeOK, GoTo
  <1>Review. ASSUME NEW p \in Plan, Review(p) PROVE TypeOK'
    <2>1. pc' \in [Plan -> Step]
      BY <1>Review DEF Review, TypeOK, GoTo
    <2> QED
      BY <1>Review, <2>1 DEF Review, TypeOK
  <1>Reverify. ASSUME NEW p \in Plan, Reverify(p) PROVE TypeOK'
    <2>1. pc' \in [Plan -> Step]
      BY <1>Reverify DEF Reverify, TypeOK, GoTo
    <2> QED
      BY <1>Reverify, <2>1 DEF Reverify, TypeOK
  <1>WriteRecord. ASSUME NEW p \in Plan, WriteRecord(p) PROVE TypeOK'
    <2>1. Append(history[p], RecordedState[pc[p]]) \in Seq(CleanupState)
      BY <1>WriteRecord DEF WriteRecord, TypeOK
    <2>2. history' \in [Plan -> Seq(CleanupState)]
      BY <1>WriteRecord, <2>1 DEF WriteRecord, TypeOK
    <2>3. pc' \in [Plan -> Step]
      BY <1>WriteRecord DEF WriteRecord, TypeOK
    <2> QED
      BY <1>WriteRecord, <2>2, <2>3 DEF WriteRecord, TypeOK
  <1>RecordExists. ASSUME NEW p \in Plan, RecordExists(p) PROVE TypeOK'
    <2>1. pc[p] \in DOMAIN AfterFault
      BY <1>RecordExists DEF RecordExists, SequenceOf, AfterFault
    <2> QED
      BY <1>RecordExists, <2>1 DEF RecordExists, TypeOK, GoTo
  <1>Remove. ASSUME NEW p \in Plan, Remove(p) PROVE TypeOK'
    <2> DEFINE f == SourceOf[items[p[1]][next[p]]]
    <2>0. f \in Path
      <3>1. next[p] \in DOMAIN items[p[1]]
        BY <1>Remove DEF Remove, Live, CleanupInv, RemovalsAreExecuted
      <3> QED
        BY <3>1, ItemsAreSequences
    <2>1. \/ /\ pc' = [pc EXCEPT ![p] = "recordFailed"]
             /\ UNCHANGED <<next, source, trash, removed, gone>>
          \/ /\ source[f] # "absent"
             /\ pc' \in {pc, [pc EXCEPT ![p] = "recordCommitted"]}
             /\ next' = [next EXCEPT ![p] = @ + 1]
             /\ source' = [source EXCEPT ![f] = "absent"]
             /\ trash' \in {trash, [trash EXCEPT ![f] = source[f]]}
             /\ removed' = [removed EXCEPT ![p] = @ \cup {f}]
             /\ gone' = gone \cup {f}
      BY <1>Remove DEF Remove, GoTo
    <2> HIDE DEF f
    <2>2. UNCHANGED <<vault, items, history, auditDir, torn, retained, putBack, faults, crashes>>
      BY <1>Remove DEF Remove
    <2>3. pc' \in [Plan -> Step]
      <3>1. \/ pc' = pc \/ pc' = [pc EXCEPT ![p] = "recordFailed"]
            \/ pc' = [pc EXCEPT ![p] = "recordCommitted"]
        BY <2>1
      <3> QED
        BY <3>1 DEF TypeOK
    <2>4. next' \in [Plan -> Nat \ {0}]
      <3>1. next[p] \in Nat \ {0} /\ next[p] + 1 \in Nat \ {0}
        BY DEF TypeOK
      <3> QED
        BY <2>1, <3>1 DEF TypeOK
    <2>5. source' \in [Path -> {"match", "changed", "absent"}]
      BY <2>1 DEF TypeOK
    <2>6. trash' \in [Path -> {"match", "changed", "none"}]
      <3>1. source[f] # "absent" => source[f] \in {"match", "changed", "none"}
        BY <2>0 DEF TypeOK
      <3> QED
        BY <2>1, <3>1 DEF TypeOK
    <2>7. removed' \in [Plan -> SUBSET Path]
      <3> DEFINE more == removed[p] \cup {f}
      <3>1. more \in SUBSET Path
        BY <2>0 DEF TypeOK
      <3>2. removed' = removed \/ removed' = [removed EXCEPT ![p] = more]
        BY <2>1
      <3> HIDE DEF more
      <3> QED
        BY <3>1, <3>2 DEF TypeOK
    <2>8. gone' \in SUBSET Path
      BY <2>0, <2>1 DEF TypeOK
    <2> QED
      BY <2>2, <2>3, <2>4, <2>5, <2>6, <2>7, <2>8 DEF TypeOK
  <1>Inspect. ASSUME NEW p \in Plan, Inspect(p) PROVE TypeOK'
    <2>1. CASE ~Accepts(p)
      BY <1>Inspect, <2>1 DEF Inspect, TypeOK, Refuse
    <2>2. CASE Accepts(p)
      <3>1. RecoveredOutcome(p) \in Step /\ Abandoning(p) \in Step /\ Passing(p) \in Step
        BY DEF RecoveredOutcome, Abandoning, Passing
      <3>2. pc' \in [Plan -> Step]
        <4>1. \E s \in Step : GoTo(p, s)
          BY <1>Inspect, <2>2, <3>1 DEF Inspect
        <4> QED
          BY <4>1 DEF TypeOK, GoTo
      <3> QED
        BY <1>Inspect, <2>2, <3>2 DEF Inspect, TypeOK
    <2> QED
      BY <2>1, <2>2
  <1>StepFails. ASSUME NEW p \in Plan, StepFails(p) PROVE TypeOK'
    BY <1>StepFails DEF StepFails, TypeOK, GoTo, Fault
  <1>RecoveryFails. ASSUME NEW p \in Plan, RecoveryFails(p) PROVE TypeOK'
    BY <1>RecoveryFails DEF RecoveryFails, TypeOK, Fault, Refuse
  <1>TakeBack. ASSUME NEW o \in Op, TakeBack(o) PROVE TypeOK'
    BY <1>TakeBack DEF TakeBack, TypeOK
  <1>EditSource. ASSUME NEW f \in Path, EditSource(f) PROVE TypeOK'
    BY <1>EditSource DEF EditSource, TypeOK
  <1>PutBackFromTrash. ASSUME NEW f \in Path, PutBackFromTrash(f) PROVE TypeOK'
    BY <1>PutBackFromTrash DEF PutBackFromTrash, TypeOK
  <1>BeginReconcile. ASSUME BeginReconcile PROVE TypeOK'
    BY <1>BeginReconcile DEF BeginReconcile, TypeOK
  <1>FinishReconcile. ASSUME FinishReconcile PROVE TypeOK'
    BY <1>FinishReconcile DEF FinishReconcile, TypeOK
  <1>Quit. ASSUME Quit PROVE TypeOK'
    BY <1>Quit DEF Quit, TypeOK
  <1>TransferAway. ASSUME TransferAway PROVE TypeOK'
    BY <1>TransferAway DEF TransferAway, TypeOK
  <1>Crash. ASSUME Crash PROVE TypeOK'
    BY <1>Crash DEF Crash, TypeOK
  <1>Stutter. ASSUME UNCHANGED vars PROVE TypeOK'
    BY <1>Stutter DEF vars, TypeOK
  <1> QED
    BY <1>Create, <1>Authorize, <1>CreateAudit, <1>Confirm, <1>Expire, <1>Review, <1>Reverify,
       <1>WriteRecord, <1>RecordExists, <1>Remove, <1>Inspect, <1>StepFails, <1>RecoveryFails,
       <1>TakeBack, <1>EditSource, <1>PutBackFromTrash, <1>BeginReconcile, <1>FinishReconcile,
       <1>Quit, <1>TransferAway, <1>Crash, <1>Stutter
       DEF Next, Execute

-----------------------------------------------------------------------------
(* The invariant holds initially, and every action keeps it.                 *)

LEMMA PlanNames ==
    /\ \A r \in Request : /\ TrashPlan(r) \in Plan /\ DeletionPlan(r) \in Plan
                          /\ TrashPlan(r) # DeletionPlan(r)
                          /\ TrashPlan(r)[1] = r /\ DeletionPlan(r)[1] = r
    /\ \A p \in Plan : /\ p[1] \in Request
                       /\ p = TrashPlan(p[1]) \/ p = DeletionPlan(p[1])
  BY DEF Plan, TrashPlan, DeletionPlan

LEMMA HistoryType ==
    ASSUME TypeOK, NEW p \in Plan
    PROVE  history[p] \in Seq(CleanupState) /\ Len(history[p]) \in Nat
  BY DEF TypeOK

LEMMA CleanupInit == Init => CleanupInv
  <1> SUFFICES ASSUME Init PROVE CleanupInv
    OBVIOUS
  <1>1. StepsMatchVault
    BY DEF Init, StepsMatchVault, StepsOf, AtRest
  <1>2. StepsFollowAudits
    BY DEF Init, StepsFollowAudits, Lifecycle, Follows
  <1>3. PlansAreMadeOnce
    BY PlanNames DEF Init, PlansAreMadeOnce
  <1>4. \A p \in Plan : StateOf(p) = "None"
    BY DEF Init, StateOf
  <1>5. RemovalsAreExecuted
    BY <1>4 DEF Init, RemovalsAreExecuted
  <1>6. ReturnsAreKnown
    BY DEF Init, ReturnsAreKnown
  <1>7. RecoveriesAreVerified
    BY <1>4 DEF Init, RecoveriesAreVerified
  <1> QED
    BY <1>1, <1>2, <1>3, <1>5, <1>6, <1>7 DEF CleanupInv

(* A transition that changes the steps of plans and nothing else but audit   *)
(* directories and the state of the Vault.                                   *)
LEMMA StepsKeepInv ==
    ASSUME TypeOK, CleanupInv,
           UNCHANGED <<items, next, history, source, retained, removed, gone, putBack>>,
           \A q \in Plan :
              /\ pc'[q] \in StepsOf(vault')
              /\ Follows(pc'[q], history[q])
              /\ pc'[q] = "idle" <=> pc[q] = "idle"
              /\ auditDir'[q] = auditDir[q] \/ pc[q] # "idle"
              /\ pc'[q] = "remove" => pc[q] = "remove"
              /\ pc'[q] = "recordCommitted" =>
                    /\ SourcesOf(q) \subseteq gone
                    /\ vault' = "reconciling" => \A o \in OriginalsOf(q) : retained[o]
              /\ pc'[q] = "recordAbandoned" => removed[q] \subseteq putBack
    PROVE  CleanupInv'
  <1>1. StepsMatchVault'
    BY DEF StepsMatchVault
  <1>2. StepsFollowAudits'
    BY DEF CleanupInv, StepsFollowAudits
  <1>3. PlansAreMadeOnce'
    BY PlanNames DEF CleanupInv, PlansAreMadeOnce
  <1>4. \A q \in Plan : /\ StateOf(q)' = StateOf(q) /\ SourcesOf(q)' = SourcesOf(q)
                        /\ OriginalsOf(q)' = OriginalsOf(q)
    BY DEF StateOf, SourcesOf, OriginalsOf
  <1>5. RemovalsAreExecuted'
    BY <1>4 DEF CleanupInv, RemovalsAreExecuted
  <1>6. ReturnsAreKnown'
    BY DEF CleanupInv, ReturnsAreKnown
  <1>7. RecoveriesAreVerified'
    BY <1>4 DEF CleanupInv, RecoveriesAreVerified
  <1> QED
    BY <1>1, <1>2, <1>3, <1>5, <1>6, <1>7 DEF CleanupInv

(* One plan moves on.                                                        *)
LEMMA MoveKeepsInv ==
    ASSUME TypeOK, CleanupInv, NEW p \in Plan, NEW s \in Step,
           pc' = [pc EXCEPT ![p] = s],
           UNCHANGED <<vault, items, next, history, source, retained, removed, gone, putBack>>,
           \A q \in Plan \ {p} : auditDir'[q] = auditDir[q],
           pc[p] # "idle", s \notin {"idle", "remove"},
           s \in StepsOf(vault), Follows(s, history[p]),
           s = "recordCommitted" => /\ SourcesOf(p) \subseteq gone
                                    /\ vault = "reconciling" => \A o \in OriginalsOf(p) : retained[o],
           s = "recordAbandoned" => removed[p] \subseteq putBack
    PROVE  CleanupInv'
  <1>1. pc'[p] = s /\ \A q \in Plan \ {p} : pc'[q] = pc[q]
    BY DEF TypeOK
  <1>2. \A q \in Plan : pc'[q] \in StepsOf(vault') /\ Follows(pc'[q], history[q])
    BY <1>1 DEF CleanupInv, StepsMatchVault, StepsFollowAudits
  <1>3. \A q \in Plan : /\ pc[q] = "recordCommitted" => SourcesOf(q) \subseteq gone
                        /\ vault = "reconciling" /\ pc[q] = "recordCommitted" =>
                              \A o \in OriginalsOf(q) : retained[o]
                        /\ pc[q] = "recordAbandoned" => removed[q] \subseteq putBack
    BY DEF CleanupInv, RemovalsAreExecuted, RecoveriesAreVerified
  <1> QED
    BY <1>1, <1>2, <1>3, StepsKeepInv

(* The plans come to rest, and the Vault is open, closed or refused.         *)
LEMMA RestKeepsInv ==
    ASSUME TypeOK, CleanupInv,
           \A q \in Plan : /\ pc'[q] \in AtRest
                           /\ pc'[q] = "idle" <=> pc[q] = "idle"
                           /\ pc'[q] \in {pc[q], "stopped", "planned"}
                           /\ pc'[q] = "planned" => pc[q] \in Kept,
           UNCHANGED <<items, next, history, auditDir, source, retained, removed, gone, putBack>>
    PROVE  CleanupInv'
  <1>1. \A q \in Plan : pc'[q] \in StepsOf(vault')
    BY DEF StepsOf
  <1>2. \A q \in Plan : Follows(pc[q], history[q]) /\ history[q] \in Seq(CleanupState)
    BY HistoryType DEF CleanupInv, StepsFollowAudits
  <1>3. \A q \in Plan : Follows(pc'[q], history[q])
    <2> SUFFICES ASSUME NEW q \in Plan PROVE Follows(pc'[q], history[q])
      OBVIOUS
    <2>1. CASE pc'[q] = pc[q]
      BY <1>2, <2>1
    <2>2. CASE pc'[q] = "stopped"
      BY <2>2 DEF Follows
    <2>3. CASE pc'[q] = "planned"
      <3>1. history[q] # <<>>
        <4>1. pc[q] \in {"planned", "inspectKept"} \/ pc[q] = "abandonKept"
          BY <2>3 DEF Kept
        <4>2. pc[q] = "abandonKept" => Len(history[q]) = 1
          BY <1>2 DEF Follows
        <4>3. pc[q] \in {"planned", "inspectKept"} => history[q] # <<>>
          BY <1>2 DEF Follows
        <4>4. Len(<<>>) = 0
          OBVIOUS
        <4> QED
          BY <4>1, <4>2, <4>3, <4>4
      <3> QED
        BY <2>3, <3>1 DEF Follows
    <2> QED
      BY <2>1, <2>2, <2>3
  <1>4. \A q \in Plan : pc'[q] \notin {"remove", "recordCommitted", "recordAbandoned"}
    BY DEF AtRest
  <1> QED
    BY <1>1, <1>3, <1>4, StepsKeepInv

(* What a record makes of an audit, wherever the code writes one.            *)
LEMMA RecordFits ==
    ASSUME NEW h \in Seq(CleanupState), NEW s \in RecordStep,
           Lifecycle(h), Follows(s, h),
           \/ s \in ExecutionStep /\ Len(h) <= SequenceOf[s]
           \/ s \in RecoveryStep
    PROVE  LET more == Append(h, RecordedState[s])
           IN  /\ Lifecycle(more) /\ Follows(AfterRecord[s], more)
               /\ Len(h) = 2 => Executing(h)
               /\ \A i \in 1 .. Len(h) : more[i] = h[i]
               /\ more[Len(more)] = RecordedState[s] /\ Len(more) = Len(h) + 1
               /\ s \in {"abandonPlan", "abandonKept", "recordExecuting", "recordSuperseded"} =>
                     Len(h) = 1
  <1> DEFINE more == Append(h, RecordedState[s])
  <1>1. RecordedState[s] \in CleanupState
    BY FollowingSteps
  <1>2. /\ Len(more) = Len(h) + 1 /\ Len(h) \in Nat /\ h \in [1 .. Len(h) -> CleanupState]
        /\ \A i \in 1 .. Len(h) : more[i] = h[i]
        /\ more[Len(h) + 1] = RecordedState[s]
        /\ Len(h) = 0 <=> h = <<>>
        /\ more # <<>>
    BY <1>1
  <1>3. s \in {"recordProposed", "recordSuperseded", "recordExecuting", "recordRefused",
               "recordCommitted", "recordFailed", "abandonPlan", "abandonKept", "recordAbandoned"}
    BY DEF RecordStep, RecordedState
  <1> HIDE DEF more
  <1>4. CASE s = "recordProposed"
    <2>1. RecordedState[s] = "Proposed" /\ AfterRecord[s] = "planned" /\ h = <<>>
      BY <1>4 DEF RecordedState, AfterRecord, Follows
    <2> QED
      BY <1>2, <1>4, <2>1 DEF Lifecycle, Follows, more
  <1>5. CASE s \in {"recordSuperseded", "recordExecuting", "recordRefused"}
    <2>1. h # <<>>
      BY <1>5 DEF Follows
    <2>2. Len(h) <= SequenceOf[s]
      BY <1>5 DEF RecoveryStep, Inspecting
    <2>3. Len(h) = 1
      BY <1>2, <1>5, <2>1, <2>2 DEF SequenceOf
    <2>4. /\ RecordedState[s] \in CleanupState \ {"Proposed", "Committed"}
          /\ AfterRecord[s] \in {"done", "remove"}
          /\ AfterRecord[s] = "remove" => RecordedState[s] = "Executing"
      BY <1>5 DEF RecordedState, AfterRecord, CleanupState, Terminal
    <2>5. Lifecycle(more)
      BY <1>2, <2>3, <2>4 DEF Lifecycle
    <2>6. Follows(AfterRecord[s], more)
      BY <1>2, <2>3, <2>4 DEF Follows, Executing
    <2> QED
      BY <1>2, <2>3, <2>5, <2>6 DEF more
  <1>6. CASE s \in {"recordCommitted", "recordFailed", "recordAbandoned"}
    <2>1. Executing(h)
      BY <1>6 DEF Follows
    <2>2. RecordedState[s] \in {"Committed", "Failed", "Abandoned"} /\ AfterRecord[s] = "done"
      BY <1>6 DEF RecordedState, AfterRecord
    <2>3. Lifecycle(more)
      BY <1>2, <2>1, <2>2 DEF Lifecycle, Executing
    <2>4. Follows(AfterRecord[s], more)
      BY <2>2 DEF Follows
    <2> QED
      BY <1>2, <1>6, <2>1, <2>3, <2>4 DEF more
  <1>7. CASE s \in {"abandonPlan", "abandonKept"}
    <2>1. Len(h) = 1
      BY <1>7 DEF Follows
    <2>2. RecordedState[s] = "Abandoned" /\ AfterRecord[s] \in {"planned", "done"}
      BY <1>7 DEF RecordedState, AfterRecord
    <2>3. Lifecycle(more)
      BY <1>2, <2>1, <2>2 DEF Lifecycle, CleanupState, Terminal
    <2>4. Follows(AfterRecord[s], more)
      BY <1>2, <2>2 DEF Follows
    <2> QED
      BY <1>2, <2>1, <2>3, <2>4 DEF more
  <1> QED
    BY <1>3, <1>4, <1>5, <1>6, <1>7

LEMMA CreateKeepsInv ==
    ASSUME TypeOK, CleanupInv, NEW r \in Request, Create(r)
    PROVE  CleanupInv'
  <1> DEFINE p == TrashPlan(r)
  <1>1. /\ vault = "open" /\ pc[p] = "idle" /\ pc' = [pc EXCEPT ![p] = "createAudit"]
        /\ UNCHANGED <<vault, next, history, auditDir, source, retained, removed, gone, putBack>>
    BY DEF Create, Live, GoTo, TrashPlan, audit, files, trail
  <1>2. PICK s \in Selection : items' = [items EXCEPT ![r] = s]
    BY DEF Create
  <1>3. /\ p \in Plan /\ pc'[p] = "createAudit" /\ \A q \in Plan \ {p} : pc'[q] = pc[q]
        /\ items'[r] = s /\ \A q \in Plan : q[1] # r => items'[q[1]] = items[q[1]]
    BY <1>1, <1>2, PlanNames DEF TypeOK
  <1>4. pc[DeletionPlan(r)] = "idle"
    BY <1>1, PlanNames, HistoryType DEF CleanupInv, PlansAreMadeOnce, StepsFollowAudits, Follows
  <1>5. \A q \in Plan : q[1] = r => /\ history[q] = <<>> /\ removed[q] = {} /\ next[q] = 1
                                    /\ pc[q] = "idle" /\ StateOf(q) = "None"
    <2>1. \A q \in Plan : q[1] = r => pc[q] = "idle"
      BY <1>1, <1>4, PlanNames
    <2>2. \A q \in Plan : q[1] = r => history[q] = <<>>
      BY <2>1 DEF CleanupInv, StepsFollowAudits, Follows
    <2>3. \A q \in Plan : history[q] = <<>> => Len(history[q]) = 0
      OBVIOUS
    <2> QED
      BY <2>1, <2>2, <2>3 DEF CleanupInv, RemovalsAreExecuted, StateOf
  <1>6. \A q \in Plan : /\ StateOf(q)' = StateOf(q)
                        /\ q[1] # r => SourcesOf(q)' = SourcesOf(q) /\ OriginalsOf(q)' = OriginalsOf(q)
    BY <1>1, <1>3 DEF StateOf, SourcesOf, OriginalsOf
  <1>7. StepsMatchVault'
    BY <1>1, <1>3 DEF CleanupInv, StepsMatchVault, StepsOf, ExecutionStep
  <1>8. StepsFollowAudits'
    BY <1>1, <1>3, <1>5 DEF CleanupInv, StepsFollowAudits, Follows
  <1>9. PlansAreMadeOnce'
    BY <1>1, <1>3, <1>4, PlanNames DEF CleanupInv, PlansAreMadeOnce
  <1>10. RemovalsAreExecuted'
    <2> SUFFICES ASSUME NEW q \in Plan
                 PROVE  /\ removed[q] # {} \/ next[q] # 1 =>
                              Len(history[q]) >= 2 /\ history[q][2] = "Executing"
                        /\ removed[q] \subseteq SourcesOf(q)'
                        /\ pc'[q] = "remove" =>
                              /\ next[q] \in DOMAIN items'[q[1]]
                              /\ \A i \in DOMAIN items'[q[1]] :
                                    i < next[q] => SourceOf[items'[q[1]][i]] \in gone
                        /\ pc'[q] = "recordCommitted" \/ StateOf(q) = "Committed" =>
                              SourcesOf(q)' \subseteq gone
      BY <1>1, <1>6 DEF RemovalsAreExecuted
    <2>1. CASE q[1] = r
      BY <1>3, <1>5, <2>1
    <2>2. CASE q[1] # r
      BY <1>3, <1>6, <2>2, PlanNames DEF CleanupInv, RemovalsAreExecuted
    <2> QED
      BY <2>1, <2>2
  <1>11. ReturnsAreKnown'
    BY <1>1 DEF CleanupInv, ReturnsAreKnown
  <1>12. RecoveriesAreVerified'
    BY <1>1, <1>3, <1>5, <1>6 DEF CleanupInv, RecoveriesAreVerified
  <1> QED
    BY <1>7, <1>8, <1>9, <1>10, <1>11, <1>12 DEF CleanupInv

LEMMA WriteRecordKeepsInv ==
    ASSUME TypeOK, CleanupInv, NEW p \in Plan, WriteRecord(p)
    PROVE  CleanupInv'
  <1> DEFINE more == Append(history[p], RecordedState[pc[p]])
             escalates(q) == q # p /\ pc[p] = "recordSuperseded" /\ q = DeletionPlan(p[1])
  <1>1. /\ vault \in {"open", "reconciling"} /\ pc[p] \in RecordStep /\ Numbered(p)
        /\ history' = [history EXCEPT ![p] = more]
        /\ UNCHANGED <<vault, items, next, auditDir, source, retained, removed, gone, putBack>>
    BY DEF WriteRecord, files, trail
  <1>2. /\ pc'[p] = AfterRecord[pc[p]]
        /\ \A q \in Plan : escalates(q) => pc'[q] = "createAudit"
        /\ \A q \in Plan \ {p} : ~escalates(q) => pc'[q] = pc[q]
        /\ history'[p] = more /\ \A q \in Plan \ {p} : history'[q] = history[q]
    BY <1>1 DEF WriteRecord, DeletionPlan, TypeOK
  <1>3. history[p] \in Seq(CleanupState) /\ Lifecycle(history[p]) /\ Follows(pc[p], history[p])
    BY HistoryType DEF CleanupInv, StepsFollowAudits
  <1>4. \/ vault = "open" /\ pc[p] \in ExecutionStep /\ Len(history[p]) <= SequenceOf[pc[p]]
        \/ vault = "reconciling" /\ pc[p] \in RecoveryStep
    <2>1. pc[p] \in StepsOf(vault) /\ pc[p] \notin AtRest
      BY <1>1 DEF CleanupInv, StepsMatchVault, RecordStep, RecordedState, AtRest
    <2> QED
      BY <1>1, <2>1 DEF StepsOf, Numbered
  <1>5. /\ Lifecycle(more) /\ Follows(AfterRecord[pc[p]], more)
        /\ Len(history[p]) = 2 => Executing(history[p])
        /\ \A i \in 1 .. Len(history[p]) : more[i] = history[p][i]
        /\ more[Len(more)] = RecordedState[pc[p]] /\ Len(more) = Len(history[p]) + 1
        /\ pc[p] \in {"abandonPlan", "abandonKept", "recordExecuting", "recordSuperseded"} =>
              Len(history[p]) = 1
    BY <1>1, <1>3, <1>4, RecordFits
  <1> HIDE DEF more
  <1>6. /\ StateOf(p)' = RecordedState[pc[p]] /\ \A q \in Plan \ {p} : StateOf(q)' = StateOf(q)
        /\ \A q \in Plan : SourcesOf(q)' = SourcesOf(q) /\ OriginalsOf(q)' = OriginalsOf(q)
    BY <1>1, <1>2, <1>3, <1>5 DEF StateOf, SourcesOf, OriginalsOf
  <1>7. /\ pc[p] # "idle" /\ pc'[p] # "idle" /\ pc'[p] \in AtRest \cup {"remove"}
        /\ pc'[p] = "remove" <=> pc[p] = "recordExecuting"
    BY <1>1, <1>2 DEF RecordStep, RecordedState, AfterRecord, AtRest
  <1>8. \A q \in Plan : escalates(q) =>
            /\ vault = "open" /\ p = TrashPlan(q[1]) /\ pc[q] = "idle" /\ history[q] = <<>>
    <2> SUFFICES ASSUME NEW q \in Plan, escalates(q)
                 PROVE  vault = "open" /\ p = TrashPlan(q[1]) /\ pc[q] = "idle" /\ history[q] = <<>>
      OBVIOUS
    <2>1. vault = "open"
      BY <1>4 DEF RecoveryStep, Inspecting
    <2>2. q[1] = p[1] /\ p = TrashPlan(p[1])
      BY PlanNames
    <2>3. Len(history[p]) = 1
      BY <1>5
    <2>4. pc[q] = "idle"
      BY <2>2, <2>3, PlanNames DEF CleanupInv, PlansAreMadeOnce
    <2> QED
      BY <2>1, <2>2, <2>4 DEF CleanupInv, StepsFollowAudits, Follows
  <1>9. StepsMatchVault'
    <2>1. pc[p] = "recordExecuting" => vault = "open"
      BY <1>4 DEF RecoveryStep, Inspecting
    <2>2. pc'[p] \in StepsOf(vault)
      BY <1>1, <1>7, <2>1 DEF StepsOf, ExecutionStep
    <2>3. \A q \in Plan : escalates(q) => pc'[q] \in StepsOf(vault)
      BY <1>2, <1>8 DEF StepsOf, ExecutionStep
    <2> HIDE DEF escalates
    <2> QED
      BY <1>1, <1>2, <2>2, <2>3 DEF CleanupInv, StepsMatchVault
  <1>10. StepsFollowAudits'
    <2>1. \A q \in Plan : escalates(q) => Follows(pc'[q], history[q])
      BY <1>2, <1>8 DEF Follows
    <2>2. \A q \in Plan \ {p} : Follows(pc'[q], history[q])
      BY <1>2, <2>1 DEF CleanupInv, StepsFollowAudits
    <2> QED
      BY <1>2, <1>5, <2>2 DEF CleanupInv, StepsFollowAudits
  <1>11. PlansAreMadeOnce'
    <2>1. \A q \in Plan : IF pc'[q] = "idle" THEN ~auditDir[q] ELSE items[q[1]] \in Selection
      <3>1. items[p[1]] \in Selection
        BY <1>7 DEF CleanupInv, PlansAreMadeOnce
      <3>2. \A q \in Plan : escalates(q) => items[q[1]] \in Selection /\ pc'[q] # "idle"
        BY <1>2, <3>1, PlanNames
      <3> HIDE DEF escalates
      <3> QED
        BY <1>2, <1>7, <3>1, <3>2 DEF CleanupInv, PlansAreMadeOnce
    <2>2. ASSUME NEW r \in Request, pc'[DeletionPlan(r)] # "idle"
          PROVE  Len(history'[TrashPlan(r)]) = 2 /\ history'[TrashPlan(r)][2] = "Superseded"
      <3>1. CASE p = TrashPlan(r) /\ pc[p] = "recordSuperseded"
        <4>1. RecordedState[pc[p]] = "Superseded"
          BY <3>1 DEF RecordedState
        <4>2. Len(more) = 2 /\ more[2] = "Superseded"
          <5>1. Len(history[p]) = 1
            BY <1>5, <3>1
          <5>2. Len(more) = 2
            BY <1>5, <5>1
          <5>3. more[2] = RecordedState[pc[p]]
            BY <1>5, <5>2
          <5> QED
            BY <4>1, <5>2, <5>3
        <4>3. history'[TrashPlan(r)] = more
          BY <1>2, <3>1
        <4> QED
          BY <4>2, <4>3
      <3>2. CASE p = TrashPlan(r) /\ pc[p] # "recordSuperseded"
        <4>1. pc'[DeletionPlan(r)] = pc[DeletionPlan(r)]
          BY <1>2, <3>2, PlanNames
        <4>2. Len(history[p]) = 2 /\ history[p][2] = "Superseded"
          BY <2>2, <3>2, <4>1 DEF CleanupInv, PlansAreMadeOnce
        <4> QED
          BY <1>5, <4>2 DEF Executing
      <3>3. CASE p # TrashPlan(r)
        <4>1. pc[DeletionPlan(r)] # "idle"
          BY <1>2, <1>7, <1>8, <2>2, <3>3, PlanNames
        <4> QED
          BY <1>2, <3>3, <4>1, PlanNames DEF CleanupInv, PlansAreMadeOnce
      <3> QED
        BY <3>1, <3>2, <3>3
    <2> QED
      BY <1>1, <2>1, <2>2 DEF PlansAreMadeOnce
  <1>12. RemovalsAreExecuted'
    <2> SUFFICES ASSUME NEW q \in Plan
                 PROVE  /\ removed[q] # {} \/ next[q] # 1 =>
                              Len(history'[q]) >= 2 /\ history'[q][2] = "Executing"
                        /\ removed[q] \subseteq SourcesOf(q)
                        /\ pc'[q] = "remove" =>
                              /\ next[q] \in DOMAIN items[q[1]]
                              /\ \A i \in DOMAIN items[q[1]] :
                                    i < next[q] => SourceOf[items[q[1]][i]] \in gone
                        /\ pc'[q] = "recordCommitted" \/ StateOf(q)' = "Committed" =>
                              SourcesOf(q) \subseteq gone
      BY <1>1, <1>6 DEF RemovalsAreExecuted
    <2>1. CASE q # p
      <3>1. pc'[q] \in {"remove", "recordCommitted"} => pc'[q] = pc[q]
        BY <1>2, <2>1
      <3> QED
        BY <1>2, <1>6, <2>1, <3>1 DEF CleanupInv, RemovalsAreExecuted
    <2>2. CASE q = p
      <3>1. removed[p] # {} \/ next[p] # 1 => Len(history'[p]) >= 2 /\ history'[p][2] = "Executing"
        BY <1>2, <1>3, <1>5 DEF CleanupInv, RemovalsAreExecuted
      <3>2. ASSUME pc'[p] = "remove"
            PROVE  next[p] = 1 /\ 1 \in DOMAIN items[p[1]]
        <4>1. Len(history[p]) = 1
          BY <1>5, <1>7, <3>2
        <4>2. next[p] = 1
          BY <4>1 DEF CleanupInv, RemovalsAreExecuted
        <4>3. items[p[1]] \in Selection
          BY <1>7 DEF CleanupInv, PlansAreMadeOnce
        <4> QED
          BY <4>2, <4>3, SelectionAssumption
      <3>3. \A i \in DOMAIN items[p[1]] : i >= 1
        BY ItemsAreSequences
      <3>4. StateOf(p)' = "Committed" => pc[p] = "recordCommitted"
        BY <1>1, <1>6 DEF RecordStep, RecordedState
      <3>5. pc'[p] # "recordCommitted"
        BY <1>7 DEF AtRest
      <3> QED
        BY <2>2, <3>1, <3>2, <3>3, <3>4, <3>5, ItemsAreSequences DEF CleanupInv, RemovalsAreExecuted
    <2> QED
      BY <2>1, <2>2
  <1>13. ReturnsAreKnown'
    BY <1>1 DEF CleanupInv, ReturnsAreKnown
  <1>14. RecoveriesAreVerified'
    <2>1. \A q \in Plan : pc'[q] \in {"recordAbandoned", "recordCommitted"} => pc'[q] = pc[q]
      BY <1>2, <1>7 DEF AtRest
    <2>2. StateOf(p)' = "Abandoned" => removed[p] \subseteq putBack
      <3>1. StateOf(p)' = "Abandoned" => pc[p] \in {"abandonPlan", "abandonKept", "recordAbandoned"}
        BY <1>1, <1>6 DEF RecordStep, RecordedState
      <3>2. Len(history[p]) = 1 => removed[p] = {}
        BY DEF CleanupInv, RemovalsAreExecuted
      <3> QED
        BY <1>5, <3>1, <3>2 DEF CleanupInv, RecoveriesAreVerified
    <2> QED
      BY <1>1, <1>6, <2>1, <2>2 DEF CleanupInv, RecoveriesAreVerified
  <1> QED
    BY <1>9, <1>10, <1>11, <1>12, <1>13, <1>14 DEF CleanupInv

LEMMA RemoveKeepsInv ==
    ASSUME TypeOK, CleanupInv, NEW p \in Plan, Remove(p)
    PROVE  CleanupInv'
  <1> DEFINE f == SourceOf[items[p[1]][next[p]]]
             last == next[p] = Len(items[p[1]])
  <1>1. /\ vault = "open" /\ pc[p] = "remove"
        /\ UNCHANGED <<vault, items, history, auditDir, retained, putBack>>
    BY DEF Remove, Live, audit
  <1>2. \/ /\ pc' = [pc EXCEPT ![p] = "recordFailed"]
           /\ UNCHANGED <<next, source, removed, gone>>
        \/ /\ pc' = IF last THEN [pc EXCEPT ![p] = "recordCommitted"] ELSE pc
           /\ next' = [next EXCEPT ![p] = @ + 1]
           /\ source' = [source EXCEPT ![f] = "absent"]
           /\ removed' = [removed EXCEPT ![p] = @ \cup {f}]
           /\ gone' = gone \cup {f}
    BY DEF Remove, GoTo
  <1>3. /\ next[p] \in DOMAIN items[p[1]] /\ f \in Path /\ f \in SourcesOf(p)
        /\ \A i \in DOMAIN items[p[1]] : i < next[p] => SourceOf[items[p[1]][i]] \in gone
        /\ Executing(history[p])
    <2>1. next[p] \in DOMAIN items[p[1]]
      BY <1>1 DEF CleanupInv, RemovalsAreExecuted
    <2> QED
      BY <1>1, <2>1, ItemsAreSequences
      DEF SourcesOf, CleanupInv, RemovalsAreExecuted, StepsFollowAudits, Follows
  <1>4. CASE /\ pc' = [pc EXCEPT ![p] = "recordFailed"]
             /\ UNCHANGED <<next, source, removed, gone>>
    <2>1. "recordFailed" \in StepsOf(vault) /\ Follows("recordFailed", history[p])
      BY <1>1, <1>3 DEF StepsOf, ExecutionStep, Follows
    <2> QED
      BY <1>1, <1>4, <2>1, StepLiterals, MoveKeepsInv
  <1>5. CASE /\ pc' = IF last THEN [pc EXCEPT ![p] = "recordCommitted"] ELSE pc
             /\ next' = [next EXCEPT ![p] = @ + 1]
             /\ source' = [source EXCEPT ![f] = "absent"]
             /\ removed' = [removed EXCEPT ![p] = @ \cup {f}]
             /\ gone' = gone \cup {f}
    <2> HIDE DEF f
    <2>1. /\ pc'[p] = IF last THEN "recordCommitted" ELSE "remove"
          /\ \A q \in Plan \ {p} : pc'[q] = pc[q] /\ next'[q] = next[q] /\ removed'[q] = removed[q]
          /\ next'[p] = next[p] + 1 /\ removed'[p] = removed[p] \cup {f}
          /\ \A g \in Path : source'[g] = IF g = f THEN "absent" ELSE source[g]
      BY <1>1, <1>5 DEF TypeOK
    <2>2. \A q \in Plan : /\ StateOf(q)' = StateOf(q) /\ SourcesOf(q)' = SourcesOf(q)
                          /\ OriginalsOf(q)' = OriginalsOf(q)
      BY <1>1 DEF StateOf, SourcesOf, OriginalsOf
    <2>3. StepsMatchVault'
      BY <1>1, <2>1 DEF CleanupInv, StepsMatchVault, StepsOf, ExecutionStep
    <2>4. StepsFollowAudits'
      BY <1>1, <1>3, <2>1 DEF CleanupInv, StepsFollowAudits, Follows
    <2>5. PlansAreMadeOnce'
      <3>1. \A q \in Plan : pc'[q] = "idle" <=> pc[q] = "idle"
        BY <1>1, <2>1
      <3> QED
        BY <1>1, <3>1, PlanNames DEF CleanupInv, PlansAreMadeOnce
    <2>6. RemovalsAreExecuted'
      <3> SUFFICES ASSUME NEW q \in Plan
                   PROVE  /\ removed'[q] # {} \/ next'[q] # 1 =>
                                Len(history[q]) >= 2 /\ history[q][2] = "Executing"
                          /\ removed'[q] \subseteq SourcesOf(q)
                          /\ pc'[q] = "remove" =>
                                /\ next'[q] \in DOMAIN items[q[1]]
                                /\ \A i \in DOMAIN items[q[1]] :
                                      i < next'[q] => SourceOf[items[q[1]][i]] \in gone'
                          /\ pc'[q] = "recordCommitted" \/ StateOf(q) = "Committed" =>
                                SourcesOf(q) \subseteq gone'
        BY <1>1, <2>2 DEF RemovalsAreExecuted
      <3>1. CASE q # p
        BY <1>5, <2>1, <3>1 DEF CleanupInv, RemovalsAreExecuted
      <3>2. CASE q = p
        <4>1. \A i \in DOMAIN items[p[1]] : i < next[p] + 1 => SourceOf[items[p[1]][i]] \in gone'
          <5> SUFFICES ASSUME NEW i \in DOMAIN items[p[1]], i < next[p] + 1
                       PROVE  SourceOf[items[p[1]][i]] \in gone'
            OBVIOUS
          <5>1. i \in Nat /\ next[p] \in Nat
            BY <1>3, ItemsAreSequences
          <5>2. CASE i = next[p]
            BY <1>5, <5>2 DEF f
          <5>3. CASE i < next[p]
            BY <1>3, <1>5, <5>3
          <5> QED
            BY <5>1, <5>2, <5>3
        <4>2. last => SourcesOf(p) \subseteq gone'
          BY <4>1, ItemsAreSequences DEF SourcesOf
        <4>3. ~last => next[p] + 1 \in DOMAIN items[p[1]]
          BY <1>3, ItemsAreSequences
        <4>4. StateOf(p) = "Committed" => SourcesOf(p) \subseteq gone'
          BY <1>5 DEF CleanupInv, RemovalsAreExecuted
        <4>5. removed'[p] \subseteq SourcesOf(p)
          BY <1>3, <2>1 DEF CleanupInv, RemovalsAreExecuted
        <4> QED
          BY <1>3, <2>1, <3>2, <4>1, <4>2, <4>3, <4>4, <4>5 DEF Executing
      <3> QED
        BY <3>1, <3>2
    <2>7. ReturnsAreKnown'
      <3>1. \A g \in Path : source'[g] = "absent" => g \in gone'
        BY <1>5, <2>1 DEF CleanupInv, ReturnsAreKnown
      <3>2. \A q \in Plan : removed[q] \subseteq Path
        BY DEF TypeOK
      <3>3. ASSUME NEW q \in Plan, NEW g \in removed'[q]
            PROVE  source'[g] = "absent" \/ g \in putBack
        <4>1. g = f \/ g \in removed[q]
          BY <2>1, <3>3
        <4>2. g \in Path
          BY <1>3, <3>2, <4>1
        <4> QED
          BY <2>1, <4>1, <4>2 DEF CleanupInv, ReturnsAreKnown
      <3> QED
        BY <1>1, <3>1, <3>3 DEF ReturnsAreKnown
    <2>8. RecoveriesAreVerified'
      <3>1. StateOf(p) = "Executing"
        BY <1>3 DEF Executing, StateOf
      <3>2. \A q \in Plan : pc'[q] = "recordAbandoned" => q # p
        BY <2>1
      <3> QED
        BY <1>1, <2>1, <2>2, <3>1, <3>2 DEF CleanupInv, RecoveriesAreVerified
    <2> QED
      BY <2>3, <2>4, <2>5, <2>6, <2>7, <2>8 DEF CleanupInv
  <1> QED
    BY <1>2, <1>4, <1>5

(* The rest of the program and the user: files change, and no plan moves.    *)
LEMMA FilesKeepInv ==
    ASSUME TypeOK, CleanupInv,
           UNCHANGED <<vault, pc, items, next, history, auditDir, removed, gone>>,
           retained' # retained => vault = "open",
           \A f \in Path : source'[f] = "absent" => source[f] = "absent",
           \A f \in Path : source[f] = "absent" => source'[f] = "absent" \/ f \in putBack',
           putBack \subseteq putBack'
    PROVE  CleanupInv'
  <1>1. \A q \in Plan : /\ StateOf(q)' = StateOf(q) /\ SourcesOf(q)' = SourcesOf(q)
                        /\ OriginalsOf(q)' = OriginalsOf(q)
    BY DEF StateOf, SourcesOf, OriginalsOf
  <1>2. StepsMatchVault' /\ StepsFollowAudits' /\ PlansAreMadeOnce'
    BY DEF CleanupInv, StepsMatchVault, StepsFollowAudits, PlansAreMadeOnce
  <1>3. RemovalsAreExecuted'
    BY <1>1 DEF CleanupInv, RemovalsAreExecuted
  <1>4. ReturnsAreKnown'
    <2>1. \A q \in Plan : removed[q] \subseteq Path
      BY DEF TypeOK
    <2> QED
      BY <2>1 DEF CleanupInv, ReturnsAreKnown
  <1>5. RecoveriesAreVerified'
    BY <1>1 DEF CleanupInv, RecoveriesAreVerified
  <1> QED
    BY <1>2, <1>3, <1>4, <1>5 DEF CleanupInv

(* How long an audit is, from its last record.                               *)
LEMMA LastState ==
    ASSUME NEW h \in Seq(CleanupState), Lifecycle(h), Len(h) \in Nat \ {0}
    PROVE  /\ h[Len(h)] = "Executing" => Executing(h)
           /\ h[Len(h)] = "Proposed" => Len(h) = 1
  <1>1. CASE Len(h) = 1
    BY <1>1 DEF Lifecycle
  <1>2. CASE Len(h) = 2
    BY <1>2 DEF Lifecycle, Executing
  <1>3. CASE Len(h) >= 3
    <2>1. Len(h) = 3 /\ h[3] \in {"Committed", "Failed", "Abandoned"}
      BY <1>3 DEF Lifecycle
    <2> QED
      BY <2>1
  <1>4. \A n \in Nat \ {0} : n = 1 \/ n = 2 \/ n >= 3
    OBVIOUS
  <1> QED
    BY <1>1, <1>2, <1>3, <1>4

(* Where a recovery takes a plan that it inspects.                           *)
LEMMA InspectFits ==
    ASSUME TypeOK, CleanupInv, NEW p \in Plan, pc[p] \in Inspecting, vault = "reconciling",
           NEW s, s = IF StateOf(p) = "Executing" THEN RecoveredOutcome(p)
                      ELSE IF StateOf(p) = "Proposed" THEN Abandoning(p) ELSE Passing(p)
    PROVE  /\ s \in Step /\ s \in StepsOf(vault) /\ Follows(s, history[p])
           /\ s \notin {"idle", "remove"}
           /\ s = "recordCommitted" => /\ SourcesOf(p) \subseteq gone
                                       /\ \A o \in OriginalsOf(p) : retained[o]
           /\ s = "recordAbandoned" => removed[p] \subseteq putBack
  <1>1. /\ history[p] \in Seq(CleanupState) /\ Lifecycle(history[p]) /\ Follows(pc[p], history[p])
        /\ StateOf(p) \in {"Executing", "Proposed"} =>
              Len(history[p]) \in Nat \ {0} /\ StateOf(p) = history[p][Len(history[p])]
    BY HistoryType DEF CleanupInv, StepsFollowAudits, StateOf
  <1>2. CASE StateOf(p) = "Executing"
    <2>1. Executing(history[p])
      BY <1>1, <1>2, LastState
    <2>2. s = RecoveredOutcome(p) /\ s \in {"recordFailed", "recordCommitted", "recordAbandoned"}
      BY <1>2 DEF RecoveredOutcome
    <2>3. s \in Step /\ s \in StepsOf(vault) /\ Follows(s, history[p])
      BY <2>1, <2>2, StepLiterals DEF StepsOf, RecoveryStep, Follows
    <2>4. /\ s = "recordCommitted" => Absent(p) = SourcesOf(p) /\ \A o \in OriginalsOf(p) : retained[o]
          /\ s = "recordAbandoned" => Absent(p) = {}
      BY <2>2 DEF RecoveredOutcome
    <2>5. SourcesOf(p) \subseteq Path /\ removed[p] \subseteq SourcesOf(p)
      BY ItemsAreSequences DEF SourcesOf, CleanupInv, RemovalsAreExecuted
    <2>6. Absent(p) \subseteq gone
      BY <2>5 DEF Absent, CleanupInv, ReturnsAreKnown
    <2>7. Absent(p) = {} => removed[p] \subseteq putBack
      BY <2>5 DEF Absent, CleanupInv, ReturnsAreKnown
    <2> QED
      BY <2>2, <2>3, <2>4, <2>6, <2>7
  <1>3. CASE StateOf(p) = "Proposed"
    <2>1. Len(history[p]) = 1
      BY <1>1, <1>3, LastState
    <2>2. s \in {"abandonPlan", "abandonKept"}
      BY <1>3 DEF Abandoning
    <2> QED
      BY <2>1, <2>2, StepLiterals DEF StepsOf, RecoveryStep, Follows
  <1>4. CASE StateOf(p) \notin {"Executing", "Proposed"}
    <2>1. s \in {"planned", "done"} /\ (s = "planned" => pc[p] = "inspectKept")
      BY <1>4 DEF Passing
    <2> QED
      BY <1>1, <2>1, StepLiterals DEF StepsOf, AtRest, Follows
  <1> QED
    BY <1>2, <1>3, <1>4

LEMMA InspectKeepsInv ==
    ASSUME TypeOK, CleanupInv, NEW p \in Plan, Inspect(p)
    PROVE  CleanupInv'
  <1>1. /\ vault = "reconciling" /\ pc[p] \in Inspecting /\ Busy = {}
        /\ UNCHANGED <<items, next, history, auditDir, source, retained, removed, gone, putBack>>
    BY DEF Inspect, audit, files, trail
  <1>2. CASE ~Accepts(p)
    <2>1. pc' = Ended
      BY <1>2 DEF Inspect, Refuse
    <2> QED
      BY <1>1, <2>1, HaltedRests, RestKeepsInv DEF TypeOK
  <1>3. CASE Accepts(p)
    <2>1. PICK s : s = IF StateOf(p) = "Executing" THEN RecoveredOutcome(p)
                       ELSE IF StateOf(p) = "Proposed" THEN Abandoning(p) ELSE Passing(p)
      OBVIOUS
    <2>2. UNCHANGED vault /\ pc' = [pc EXCEPT ![p] = s]
      BY <1>3, <2>1 DEF Inspect, GoTo
    <2>3. pc[p] # "idle"
      BY <1>1 DEF Inspecting
    <2> QED
      BY <1>1, <2>1, <2>2, <2>3, InspectFits, MoveKeepsInv
  <1> QED
    BY <1>2, <1>3

LEMMA BeginReconcileKeepsInv ==
    ASSUME TypeOK, CleanupInv, BeginReconcile
    PROVE  CleanupInv'
  <1>1. /\ vault \in {"closed", "refused"} /\ vault' = "reconciling"
        /\ \A q \in Plan : pc'[q] = IF ~auditDir[q] THEN pc[q]
                                    ELSE IF pc[q] = "planned" THEN "inspectKept" ELSE "inspect"
        /\ UNCHANGED <<items, next, history, auditDir, source, retained, removed, gone, putBack>>
    BY DEF BeginReconcile, audit, files, trail
  <1>2. \A q \in Plan : pc[q] \in AtRest /\ Follows(pc[q], history[q])
    BY <1>1 DEF CleanupInv, StepsMatchVault, StepsOf, StepsFollowAudits
  <1>3. \A q \in Plan : pc'[q] \in StepsOf(vault')
    BY <1>1, <1>2 DEF StepsOf, RecoveryStep, Inspecting
  <1>4. \A q \in Plan : Follows(pc'[q], history[q])
    BY <1>1, <1>2 DEF Follows
  <1>5. \A q \in Plan : pc'[q] = "idle" <=> pc[q] = "idle"
    BY <1>1 DEF CleanupInv, PlansAreMadeOnce
  <1>6. \A q \in Plan : pc'[q] \notin {"remove", "recordCommitted", "recordAbandoned"}
    BY <1>1, <1>2 DEF AtRest
  <1> QED
    BY <1>1, <1>3, <1>4, <1>5, <1>6, StepsKeepInv

LEMMA CleanupStep == TypeOK /\ CleanupInv /\ [Next]_vars => CleanupInv'
  <1> SUFFICES ASSUME TypeOK, CleanupInv, [Next]_vars PROVE CleanupInv'
    OBVIOUS
  <1> USE DEF audit, files, trail
  <1>a. \A p \in Plan : pc[p] \in StepsOf(vault) /\ Follows(pc[p], history[p])
    BY DEF CleanupInv, StepsMatchVault, StepsFollowAudits
  <1>Create. ASSUME NEW r \in Request, Create(r) PROVE CleanupInv'
    BY <1>Create, CreateKeepsInv
  <1>Authorize. ASSUME NEW r \in Request, Authorize(r) PROVE CleanupInv'
    <2>1. \E p \in Plan, s \in {"review", "lapsed"} :
             pc[p] = "planned" /\ pc' = [pc EXCEPT ![p] = s] /\ vault = "open"
      BY <1>Authorize, PlanNames DEF Authorize, Live, GoTo, TrashPlan, DeletionPlan
    <2>2. PICK p \in Plan, s \in {"review", "lapsed"} :
             pc[p] = "planned" /\ pc' = [pc EXCEPT ![p] = s] /\ vault = "open"
      BY <2>1
    <2>3. s \in StepsOf(vault) /\ Follows(s, history[p])
      BY <1>a, <2>2 DEF StepsOf, AtRest, ExecutionStep, Follows
    <2> QED
      BY <1>Authorize, <2>2, <2>3, StepLiterals, MoveKeepsInv DEF Authorize
  <1>CreateAudit. ASSUME NEW p \in Plan, CreateAudit(p) PROVE CleanupInv'
    <2>1. /\ "recordProposed" \in StepsOf(vault) /\ Follows("recordProposed", history[p])
          /\ \A q \in Plan \ {p} : auditDir'[q] = auditDir[q]
      BY <1>CreateAudit, <1>a DEF CreateAudit, Live, StepsOf, ExecutionStep, Follows, TypeOK
    <2> QED
      BY <1>CreateAudit, <2>1, StepLiterals, MoveKeepsInv DEF CreateAudit, Live, GoTo
  <1>Confirm. ASSUME NEW p \in Plan, Confirm(p) PROVE CleanupInv'
    <2>1. "reverify" \in StepsOf(vault) /\ Follows("reverify", history[p])
      BY <1>Confirm, <1>a DEF Confirm, Live, StepsOf, ExecutionStep, Follows
    <2> QED
      BY <1>Confirm, <2>1, StepLiterals, MoveKeepsInv DEF Confirm, Live, GoTo
  <1>Expire. ASSUME NEW p \in Plan, Expire(p) PROVE CleanupInv'
    <2>1. "lapsed" \in StepsOf(vault) /\ Follows("lapsed", history[p])
      BY DEF StepsOf, AtRest, Follows
    <2> QED
      BY <1>Expire, <2>1, StepLiterals, MoveKeepsInv DEF Expire, GoTo
  <1>Review. ASSUME NEW p \in Plan, Review(p) PROVE CleanupInv'
    <2>1. PICK s \in {"recordSuperseded", "lapsed"} : pc' = [pc EXCEPT ![p] = s]
      BY <1>Review DEF Review, GoTo
    <2>2. s \in StepsOf(vault) /\ Follows(s, history[p])
      BY <1>Review, <1>a DEF Review, Live, StepsOf, AtRest, ExecutionStep, Follows
    <2> QED
      BY <1>Review, <2>1, <2>2, StepLiterals, MoveKeepsInv DEF Review, Live
  <1>Reverify. ASSUME NEW p \in Plan, Reverify(p) PROVE CleanupInv'
    <2>1. PICK s \in {"recordExecuting", "recordRefused"} : pc' = [pc EXCEPT ![p] = s]
      BY <1>Reverify DEF Reverify, GoTo
    <2>2. s \in StepsOf(vault) /\ Follows(s, history[p])
      BY <1>Reverify, <1>a DEF Reverify, Live, StepsOf, AtRest, ExecutionStep, Follows
    <2> QED
      BY <1>Reverify, <2>1, <2>2, StepLiterals, MoveKeepsInv DEF Reverify, Live
  <1>WriteRecord. ASSUME NEW p \in Plan, WriteRecord(p) PROVE CleanupInv'
    BY <1>WriteRecord, WriteRecordKeepsInv
  <1>AfterFault. ASSUME NEW p \in Plan, vault = "open", pc[p] \in DOMAIN AfterFault,
                        GoTo(p, AfterFault[pc[p]]),
                        UNCHANGED <<vault, items, next, audit, files, trail>>
                 PROVE  CleanupInv'
    <2> DEFINE s == AfterFault[pc[p]]
    <2>1. /\ s \in {"refused", "lapsed", "recordRefused", "done", "recordFailed"}
          /\ s = "recordRefused" => pc[p] = "reverify"
          /\ s = "recordFailed" => pc[p] = "remove"
          /\ pc[p] # "idle"
      BY <1>AfterFault DEF AfterFault
    <2> HIDE DEF s
    <2>2. s \in StepsOf(vault) /\ Follows(s, history[p])
      BY <1>AfterFault, <1>a, <2>1 DEF StepsOf, AtRest, ExecutionStep, Follows
    <2>3. pc' = [pc EXCEPT ![p] = s]
      BY <1>AfterFault DEF GoTo, s
    <2> QED
      BY <1>AfterFault, <2>1, <2>2, <2>3, StepLiterals, MoveKeepsInv
  <1>RecordExists. ASSUME NEW p \in Plan, RecordExists(p) PROVE CleanupInv'
    <2>1. pc[p] \in DOMAIN AfterFault
      BY <1>RecordExists DEF RecordExists, SequenceOf, AfterFault
    <2> QED
      BY <1>RecordExists, <2>1, <1>AfterFault DEF RecordExists
  <1>StepFails. ASSUME NEW p \in Plan, StepFails(p) PROVE CleanupInv'
    BY <1>StepFails, <1>AfterFault DEF StepFails
  <1>Remove. ASSUME NEW p \in Plan, Remove(p) PROVE CleanupInv'
    BY <1>Remove, RemoveKeepsInv
  <1>Inspect. ASSUME NEW p \in Plan, Inspect(p) PROVE CleanupInv'
    BY <1>Inspect, InspectKeepsInv
  <1>RecoveryFails. ASSUME NEW p \in Plan, RecoveryFails(p) PROVE CleanupInv'
    BY <1>RecoveryFails, HaltedRests, RestKeepsInv DEF RecoveryFails, Refuse, TypeOK
  <1>TakeBack. ASSUME NEW o \in Op, TakeBack(o) PROVE CleanupInv'
    BY <1>TakeBack, FilesKeepInv DEF TakeBack
  <1>EditSource. ASSUME NEW f \in Path, EditSource(f) PROVE CleanupInv'
    BY <1>EditSource, FilesKeepInv DEF EditSource, TypeOK
  <1>PutBackFromTrash. ASSUME NEW f \in Path, PutBackFromTrash(f) PROVE CleanupInv'
    <2>1. /\ \A g \in Path : source'[g] = IF g = f THEN trash[f] ELSE source[g]
          /\ trash[f] # "absent" /\ putBack' = putBack \cup {f}
      BY <1>PutBackFromTrash DEF PutBackFromTrash, TypeOK
    <2> QED
      BY <1>PutBackFromTrash, <2>1, FilesKeepInv DEF PutBackFromTrash
  <1>BeginReconcile. ASSUME BeginReconcile PROVE CleanupInv'
    BY <1>BeginReconcile, BeginReconcileKeepsInv
  <1>FinishReconcile. ASSUME FinishReconcile PROVE CleanupInv'
    <2>1. \A q \in Plan : pc[q] = "planned" => pc[q] \in Kept
      BY DEF Kept
    <2> QED
      BY <1>FinishReconcile, <2>1, RestKeepsInv DEF FinishReconcile
  <1>TransferAway. ASSUME TransferAway PROVE CleanupInv'
    <2>1. \A q \in Plan : pc[q] = "planned" => pc[q] \in Kept
      BY DEF Kept
    <2> QED
      BY <1>TransferAway, <2>1, RestKeepsInv DEF TransferAway
  <1>Quit. ASSUME Quit PROVE CleanupInv'
    BY <1>Quit, HaltedRests, RestKeepsInv DEF Quit, TypeOK
  <1>Crash. ASSUME Crash PROVE CleanupInv'
    BY <1>Crash, HaltedRests, RestKeepsInv DEF Crash, TypeOK
  <1>Stutter. ASSUME UNCHANGED vars PROVE CleanupInv'
    BY <1>Stutter, FilesKeepInv DEF vars
  <1> QED
    BY <1>Create, <1>Authorize, <1>CreateAudit, <1>Confirm, <1>Expire, <1>Review, <1>Reverify,
       <1>WriteRecord, <1>RecordExists, <1>Remove, <1>Inspect, <1>StepFails, <1>RecoveryFails,
       <1>TakeBack, <1>EditSource, <1>PutBackFromTrash, <1>BeginReconcile, <1>FinishReconcile,
       <1>Quit, <1>TransferAway, <1>Crash, <1>Stutter
       DEF Next, Execute

LEMMA Invariance == Spec => [](TypeOK /\ CleanupInv)
  <1>1. Init => TypeOK /\ CleanupInv
    BY TypeInit, CleanupInit
  <1>2. TypeOK /\ CleanupInv /\ [Next]_vars => (TypeOK /\ CleanupInv)'
    BY TypeStep, CleanupStep
  <1> QED
    BY <1>1, <1>2, PTL DEF Spec

-----------------------------------------------------------------------------
(* Every variable of a cleanup holds a value that the code can give it.      *)
THEOREM TypeCorrect == Spec => []TypeOK
  BY Invariance, PTL

(* What the audit of a cleanup says is what happened to its sources: only an  *)
(* execution that was recorded removes, a recorded commit has seen every     *)
(* source gone, and an abandoned execution left nothing removed that the     *)
(* user did not put back (execute_with, reconcile_executing).                *)
THEOREM AuditsTellRemovals == Spec => []AuditTellsRemovals
  <1>1. TypeOK /\ CleanupInv => AuditTellsRemovals
    <2> SUFFICES ASSUME TypeOK, CleanupInv PROVE AuditTellsRemovals
      OBVIOUS
    <2>1. UnexecutedPlansRemoveNothing
      BY DEF CleanupInv, RemovalsAreExecuted, UnexecutedPlansRemoveNothing
    <2>2. CommittedSourcesAreGone
      BY DEF CleanupInv, RemovalsAreExecuted, CommittedSourcesAreGone
    <2>3. AbandonedSourcesArePresent
      BY DEF CleanupInv, RecoveriesAreVerified, AbandonedSourcesArePresent
    <2> QED
      BY <2>1, <2>2, <2>3 DEF AuditTellsRemovals
  <1> QED
    BY <1>1, Invariance, PTL

(* One confirmation never serves two dispositions: what a plan to delete     *)
(* removed was superseded in its trash plan, which removed nothing           *)
(* (escalate_at, consume_at).                                                *)
THEOREM DeletionsAreReviewedTwice == Spec => []PermanentDeletionReviewedTwice
  <1>1. TypeOK /\ CleanupInv => PermanentDeletionReviewedTwice
    <2> SUFFICES ASSUME TypeOK, CleanupInv, NEW r \in Request, removed[DeletionPlan(r)] # {}
                 PROVE  StateOf(TrashPlan(r)) = "Superseded" /\ removed[TrashPlan(r)] = {}
      BY DEF PermanentDeletionReviewedTwice, TrashPlan, DeletionPlan
    <2>1. pc[DeletionPlan(r)] # "idle"
      <3>1. Len(history[DeletionPlan(r)]) >= 2
        BY PlanNames DEF CleanupInv, RemovalsAreExecuted
      <3>2. Len(<<>>) = 0
        OBVIOUS
      <3> QED
        BY <3>1, <3>2, PlanNames DEF CleanupInv, StepsFollowAudits, Follows
    <2>2. Len(history[TrashPlan(r)]) = 2 /\ history[TrashPlan(r)][2] = "Superseded"
      BY <2>1 DEF CleanupInv, PlansAreMadeOnce
    <2>3. history[TrashPlan(r)] # <<>>
      BY <2>2
    <2> QED
      BY <2>2, <2>3, PlanNames DEF StateOf, CleanupInv, RemovalsAreExecuted
  <1> QED
    BY <1>1, Invariance, PTL

(* A recovery records a commit only while the registered original of every   *)
(* item is verified: nothing can retire an original between the look and the *)
(* record, because the Vault is not open (verify_retained_originals).        *)
THEOREM RecoveriesKeepOriginals == Spec => RecoveredCommitsKeepOriginals
  <1>1. TypeOK /\ CleanupInv /\ [Next]_vars =>
           \A p \in Plan : vault = "reconciling" /\ StateOf(p) # "Committed" /\ StateOf(p)' = "Committed"
              => \A o \in OriginalsOf(p) : retained[o]
    <2> SUFFICES ASSUME TypeOK, CleanupInv, [Next]_vars, NEW p \in Plan, vault = "reconciling",
                        StateOf(p) # "Committed", StateOf(p)' = "Committed"
                 PROVE  \A o \in OriginalsOf(p) : retained[o]
      OBVIOUS
    <2>1. history'[p] # history[p]
      BY DEF StateOf
    <2>2. PICK q \in Plan : WriteRecord(q)
      BY <2>1 DEF Next, Execute, vars, Create, Authorize, CreateAudit, Confirm, Expire, Review,
                  RecordExists, Reverify, Remove, Inspect, StepFails, RecoveryFails, TakeBack,
                  EditSource, PutBackFromTrash, BeginReconcile, FinishReconcile, Quit,
                  TransferAway, Crash, audit
    <2>3. q = p /\ history'[p] = Append(history[p], RecordedState[pc[p]])
      BY <2>1, <2>2 DEF WriteRecord, TypeOK
    <2>4. StateOf(p)' = RecordedState[pc[p]]
      <3>1. /\ history'[p] # <<>> /\ Len(history'[p]) = Len(history[p]) + 1
            /\ history'[p][Len(history[p]) + 1] = RecordedState[pc[p]]
        BY <2>3, HistoryType
      <3> QED
        BY <3>1 DEF StateOf
    <2>5. pc[p] = "recordCommitted"
      BY <2>2, <2>3, <2>4 DEF WriteRecord, RecordStep, RecordedState
    <2> QED
      BY <2>5 DEF CleanupInv, RecoveriesAreVerified
  <1> QED
    BY <1>1, Invariance, PTL DEF Spec, RecoveredCommitsKeepOriginals

(* A short sequence is its elements.                                         *)
LEMMA ShortSequences ==
    ASSUME NEW S, NEW h \in Seq(S)
    PROVE  /\ Len(h) = 0 => h = <<>>
           /\ Len(h) = 1 => h = <<h[1]>>
           /\ Len(h) = 2 => h = <<h[1], h[2]>>
           /\ Len(h) = 3 => h = <<h[1], h[2], h[3]>>
  OBVIOUS

(* Executions, escalations and recoveries extend one audit in the order that *)
(* the next opening accepts (validate_history).                              *)
THEOREM AuditsStayReadable == Spec => []HistoriesAreReadable
  <1>1. TypeOK /\ CleanupInv => HistoriesAreReadable
    <2> SUFFICES ASSUME TypeOK, CleanupInv, NEW p \in Plan
                 PROVE  /\ history[p] \in ValidHistories
                        /\ vault = "open" /\ pc[p] \in DOMAIN SequenceOf =>
                              Len(history[p]) >= SequenceOf[pc[p]]
      BY DEF HistoriesAreReadable
    <2>1. PICK h \in Seq(CleanupState) : h = history[p]
      BY HistoryType
    <2>2. Lifecycle(h) /\ Follows(pc[p], h) /\ Len(h) \in Nat
      BY <2>1 DEF CleanupInv, StepsFollowAudits
    <2>3. h \in ValidHistories
      <3>1. /\ Len(h) = 0 \/ Len(h) = 1 \/ Len(h) = 2 \/ Len(h) = 3
            /\ Len(h) > 0 => h[1] = "Proposed"
        <4>0. \A n \in Nat : n = 0 \/ n = 1 \/ n = 2 \/ n >= 3
          OBVIOUS
        <4>1. Len(h) = 0 \/ Len(h) = 1 \/ Len(h) = 2 \/ Len(h) >= 3
          BY <2>2, <4>0
        <4>2. Len(h) > 0 => h # <<>>
          OBVIOUS
        <4> QED
          BY <2>2, <4>1, <4>2 DEF Lifecycle
      <3>2. Len(h) = 2 => h[2] \in CleanupState \ {"Proposed", "Committed"}
        BY <2>2 DEF Lifecycle
      <3>3. Len(h) = 3 => h[2] = "Executing" /\ h[3] \in {"Committed", "Failed", "Abandoned"}
        BY <2>2 DEF Lifecycle
      <3>4. /\ Len(h) = 0 => h = <<>>
            /\ Len(h) = 1 => h = <<h[1]>>
            /\ Len(h) = 2 => h = <<h[1], h[2]>>
            /\ Len(h) = 3 => h = <<h[1], h[2], h[3]>>
        BY ShortSequences
      <3>5. CASE Len(h) = 0
        BY <3>4, <3>5 DEF ValidHistories
      <3>6. CASE Len(h) = 1
        BY <3>1, <3>4, <3>6 DEF ValidHistories
      <3>7. CASE Len(h) = 2
        BY <3>1, <3>2, <3>4, <3>7 DEF ValidHistories
      <3>8. CASE Len(h) = 3
        BY <3>1, <3>3, <3>4, <3>8 DEF ValidHistories
      <3> QED
        BY <3>1, <3>5, <3>6, <3>7, <3>8
    <2>4. ASSUME pc[p] \in DOMAIN SequenceOf PROVE Len(h) >= SequenceOf[pc[p]]
      <3>1. h # <<>> => Len(h) >= 1
        BY <2>2
      <3> QED
        BY <2>2, <2>4, <3>1 DEF SequenceOf, Follows, Executing
    <2> QED
      BY <2>1, <2>3, <2>4
  <1> QED
    BY <1>1, Invariance, PTL
=============================================================================
