---------------------- MODULE ArchiveTransactionProofs ----------------------
(***************************************************************************)
(* Proofs about ArchiveTransaction, for any number of operations,          *)
(* destinations and readers and for any bounds on faults and crashes.      *)
(***************************************************************************)
EXTENDS ArchiveTransaction, TLAPS

(* Halting leaves every step counter a step. *)
LEMMA HaltedType ==
    ASSUME pc \in [Op -> Step]
    PROVE  Halted \in [Op -> Step]
  BY DEF Halted, Step

(* Every step that an operation goes to is one of the program's. *)
LEMMA GoToType ==
    ASSUME TypeOK, NEW o \in Op, NEW s \in Step, GoTo(o, s)
    PROVE  pc' \in [Op -> Step]
  BY DEF TypeOK, GoTo

(* The record in memory moves on to a well-formed record. *)
LEMMA AdvanceType ==
    ASSUME TypeOK, NEW o \in Op, NEW s \in State, Advance(o, s)
    PROVE  memory' \in [Op -> Record]
  <1>1. AdvancedRecord(o, s) \in Record
    BY DEF TypeOK, AdvancedRecord, Record
  <1> QED
    BY <1>1 DEF TypeOK, Advance

(* Recording a state appends one well-formed record. *)
LEMMA PersistType ==
    ASSUME TypeOK, NEW o \in Op, NEW s \in State, Persist(o, s)
    PROVE  memory' \in [Op -> Record] /\ journal' \in [Op -> Seq(Record)]
  <1>1. AdvancedRecord(o, s) \in Record
    BY DEF TypeOK, AdvancedRecord, Record
  <1>2. Append(journal[o], AdvancedRecord(o, s)) \in Seq(Record)
    BY <1>1 DEF TypeOK
  <1> QED
    BY <1>1, <1>2 DEF TypeOK, Persist, Advance

(* The last record of a started stream is a record. *)
LEMMA LatestType ==
    ASSUME TypeOK, NEW o \in Op, Started(o)
    PROVE  Latest(o) \in Record /\ Len(journal[o]) \in Nat \ {0}
  BY DEF TypeOK, Started, Latest

(* The literals of the sets that TypeOK names, so that they can stay folded. *)
LEMMA Literals ==
    /\ {"idle", "stopped", "done", "verifySource", "recordCopying",
        "createStaging", "copy", "verifyStaging", "recordVerified",
        "writePending", "expose", "promote", "recordCommitted",
        "anchor", "writeAnchor", "dropStaging", "removeWork",
        "removeRegistration", "removeDestination", "recordFailed",
        "load", "writeLoaded", "loaded", "recordAbandoned",
        "recordRecovered"} \subseteq Step
    /\ {"Proposed", "Copying", "Verified", "Committed", "Failed", "Abandoned"} \subseteq State
    /\ {"absent", "good", "bad"} \subseteq Content
  BY DEF Step, CommitStep, AnchorStep, RejectStep, RecoverStep, State,
     Terminal, Content

(* TypeOK holds initially and every action keeps it. *)
LEMMA TypeInit == Init => TypeOK
  <1> SUFFICES ASSUME Init PROVE TypeOK
    OBVIOUS
  <1>1. [seq |-> 0, state |-> "Proposed"] \in Record
    BY Literals DEF Record
  <1>2. journal \in [Op -> Seq(Record)]
    BY DEF Init
  <1> QED
    BY <1>1, <1>2, Literals, BoundsAssumption DEF Init, TypeOK

LEMMA TypeStep == TypeOK /\ [Next]_vars => TypeOK'
  <1> SUFFICES ASSUME TypeOK, [Next]_vars PROVE TypeOK'
    OBVIOUS
  <1> USE BoundsAssumption, HaltedType, Literals
  <1> USE DEF files, audit, budget
  <1>Start. ASSUME NEW o \in Op, Start(o) PROVE TypeOK'
    BY <1>Start DEF TypeOK, Start, Live, GoTo
  <1>VerifySource. ASSUME NEW o \in Op, VerifySource(o) PROVE TypeOK'
    <2>1. pc' \in [Op -> Step]
      <3>1. GoTo(o, "recordCopying") \/ GoTo(o, "removeWork")
        BY <1>VerifySource DEF VerifySource, Reject
      <3> QED
        BY <3>1, GoToType
    <2> QED
      BY <1>VerifySource, <2>1 DEF TypeOK, VerifySource, Live, GoTo, Reject
  <1>RecordCopying. ASSUME NEW o \in Op, RecordCopying(o) PROVE TypeOK'
    <2>1. memory' \in [Op -> Record] /\ journal' \in [Op -> Seq(Record)]
      BY <1>RecordCopying, PersistType DEF RecordCopying
    <2> QED
      BY <1>RecordCopying, <2>1 DEF TypeOK, RecordCopying, Live, GoTo
  <1>CreateStaging. ASSUME NEW o \in Op, CreateStaging(o) PROVE TypeOK'
    BY <1>CreateStaging DEF TypeOK, CreateStaging, Live, GoTo
  <1>Copy. ASSUME NEW o \in Op, Copy(o) PROVE TypeOK'
    BY <1>Copy DEF TypeOK, Copy, Live, GoTo
  <1>VerifyStaging. ASSUME NEW o \in Op, VerifyStaging(o) PROVE TypeOK'
    <2>1. pc' \in [Op -> Step]
      BY <1>VerifyStaging DEF TypeOK, VerifyStaging, Live, GoTo, Reject
    <2> QED
      BY <1>VerifyStaging, <2>1 DEF TypeOK, VerifyStaging, Live, GoTo, Reject
  <1>RecordVerified. ASSUME NEW o \in Op, RecordVerified(o) PROVE TypeOK'
    <2>1. memory' \in [Op -> Record] /\ journal' \in [Op -> Seq(Record)]
      BY <1>RecordVerified, PersistType DEF RecordVerified
    <2> QED
      BY <1>RecordVerified, <2>1 DEF TypeOK, RecordVerified, Live, GoTo
  <1>WritePending. ASSUME NEW o \in Op, WritePending(o) PROVE TypeOK'
    BY <1>WritePending DEF TypeOK, WritePending, Live, GoTo
  <1>Expose. ASSUME NEW o \in Op, Expose(o) PROVE TypeOK'
    <2>1. pc' \in [Op -> Step]
      <3>1. GoTo(o, "promote") \/ GoTo(o, "removeWork")
        BY <1>Expose DEF Expose, Reject
      <3> QED
        BY <3>1, GoToType
    <2>2. dest' \in [Dest -> Content]
      <3>1. dest' = dest \/ dest' = [dest EXCEPT ![DestOf[o]] = staging[o]]
        BY <1>Expose DEF Expose
      <3>2. staging[o] \in Content /\ dest \in [Dest -> Content]
        BY DEF TypeOK
      <3> QED
        BY <3>1, <3>2
    <2>3. exposed' \in [Op -> BOOLEAN]
      BY <1>Expose DEF TypeOK, Expose, Live, GoTo, Reject
    <2> QED
      BY <1>Expose, <2>1, <2>2, <2>3 DEF TypeOK, Expose, Live, GoTo, Reject
  <1>Promote. ASSUME NEW o \in Op, Promote(o) PROVE TypeOK'
    BY <1>Promote DEF TypeOK, Promote, Live, GoTo
  <1>RecordCommitted. ASSUME NEW o \in Op, RecordCommitted(o) PROVE TypeOK'
    <2>1. memory' \in [Op -> Record] /\ journal' \in [Op -> Seq(Record)]
      BY <1>RecordCommitted, PersistType DEF RecordCommitted
    <2> QED
      BY <1>RecordCommitted, <2>1 DEF TypeOK, RecordCommitted, Live, GoTo
  <1>InspectAnchor. ASSUME NEW o \in Op, InspectAnchor(o) PROVE TypeOK'
    <2>1. pc' \in [Op -> Step]
      BY <1>InspectAnchor DEF TypeOK, InspectAnchor, GoTo, Anchored,
         AnchorRejected, Reject, Refuse
    <2>2. result' \in [Op -> {"none", "committed", "failed"}]
      BY <1>InspectAnchor DEF TypeOK, InspectAnchor, GoTo, Anchored,
         AnchorRejected, Reject, Refuse
    <2>3. vault' \in {"closed", "reconciling", "open", "refused"}
      BY <1>InspectAnchor DEF TypeOK, InspectAnchor, GoTo, Anchored,
         AnchorRejected, Reject, Refuse
    <2> QED
      BY <1>InspectAnchor, <2>1, <2>2, <2>3 DEF TypeOK, InspectAnchor,
         GoTo, Anchored, AnchorRejected, Reject, Refuse
  <1>WriteAnchor. ASSUME NEW o \in Op, WriteAnchor(o) PROVE TypeOK'
    <2>1. pc' \in [Op -> Step]
      BY <1>WriteAnchor DEF TypeOK, WriteAnchor, GoTo, Anchored,
         AnchorRejected, Reject, Refuse
    <2>2. result' \in [Op -> {"none", "committed", "failed"}]
      BY <1>WriteAnchor DEF TypeOK, WriteAnchor, GoTo, Anchored,
         AnchorRejected, Reject, Refuse
    <2>3. vault' \in {"closed", "reconciling", "open", "refused"}
      BY <1>WriteAnchor DEF TypeOK, WriteAnchor, GoTo, Anchored,
         AnchorRejected, Reject, Refuse
    <2>4. anchor' \in [Op -> Record \cup {NoAnchor}]
      <3>1. memory[o] \in Record
        BY DEF TypeOK
      <3>2. anchor' = [anchor EXCEPT ![o] = memory[o]] \/ anchor' = anchor
        BY <1>WriteAnchor DEF WriteAnchor
      <3> QED
        BY <3>1, <3>2 DEF TypeOK
    <2> QED
      BY <1>WriteAnchor, <2>1, <2>2, <2>3, <2>4 DEF TypeOK, WriteAnchor,
         GoTo, Anchored, AnchorRejected, Reject, Refuse
  <1>DropStaging. ASSUME NEW o \in Op, DropStaging(o) PROVE TypeOK'
    BY <1>DropStaging DEF TypeOK, DropStaging, GoTo
  <1>RemoveWork. ASSUME NEW o \in Op, RemoveWork(o) PROVE TypeOK'
    BY <1>RemoveWork DEF TypeOK, RemoveWork, Live, GoTo
  <1>RemoveRegistration. ASSUME NEW o \in Op, RemoveRegistration(o) PROVE TypeOK'
    BY <1>RemoveRegistration DEF TypeOK, RemoveRegistration, Live, GoTo
  <1>RemoveDestination. ASSUME NEW o \in Op, RemoveDestination(o) PROVE TypeOK'
    BY <1>RemoveDestination DEF TypeOK, RemoveDestination, Live, GoTo
  <1>RecordFailed. ASSUME NEW o \in Op, RecordFailed(o) PROVE TypeOK'
    <2>1. memory' \in [Op -> Record] /\ journal' \in [Op -> Seq(Record)]
      BY <1>RecordFailed, PersistType DEF RecordFailed
    <2> QED
      BY <1>RecordFailed, <2>1 DEF TypeOK, RecordFailed, Live, GoTo
  <1>LoadStream. ASSUME NEW o \in Op, LoadStream(o) PROVE TypeOK'
    <2>1. pc' \in [Op -> Step]
      BY <1>LoadStream DEF TypeOK, LoadStream, Recovering, GoTo, Refuse, Started
    <2>2. memory' \in [Op -> Record]
      <3>1. \/ memory' = [memory EXCEPT ![o] = Latest(o)] /\ Started(o)
           \/ memory' = memory
        BY <1>LoadStream DEF LoadStream
      <3>2. memory \in [Op -> Record]
        BY DEF TypeOK
      <3>3. Started(o) => Latest(o) \in Record
        BY LatestType
      <3> QED
        BY <3>1, <3>2, <3>3
    <2>3. vault' \in {"closed", "reconciling", "open", "refused"}
      BY <1>LoadStream DEF TypeOK, LoadStream, Recovering, GoTo, Refuse, Started
    <2> QED
      BY <1>LoadStream, <2>1, <2>2, <2>3 DEF TypeOK, LoadStream,
         Recovering, GoTo, Refuse, Started
  <1>WriteLoadedAnchor. ASSUME NEW o \in Op, WriteLoadedAnchor(o) PROVE TypeOK'
    <2>1. pc' \in [Op -> Step]
      BY <1>WriteLoadedAnchor DEF TypeOK, WriteLoadedAnchor, Recovering,
         GoTo, Refuse
    <2>2. vault' \in {"closed", "reconciling", "open", "refused"}
      BY <1>WriteLoadedAnchor DEF TypeOK, WriteLoadedAnchor, Recovering,
         GoTo, Refuse
    <2>3. anchor' \in [Op -> Record \cup {NoAnchor}]
      <3>1. memory[o] \in Record
        BY DEF TypeOK
      <3>2. anchor' = [anchor EXCEPT ![o] = memory[o]] \/ anchor' = anchor
        BY <1>WriteLoadedAnchor DEF WriteLoadedAnchor
      <3> QED
        BY <3>1, <3>2 DEF TypeOK
    <2> QED
      BY <1>WriteLoadedAnchor, <2>1, <2>2, <2>3 DEF TypeOK,
         WriteLoadedAnchor, Recovering, GoTo, Refuse
  <1>RecoverTerminal. ASSUME NEW o \in Op, RecoverTerminal(o) PROVE TypeOK'
    <2>1. pc' \in [Op -> Step]
      BY <1>RecoverTerminal DEF TypeOK, RecoverTerminal, CanRecover,
         Recovering, RemoveLeftovers, GoTo, Refuse
    <2>2. vault' \in {"closed", "reconciling", "open", "refused"}
      BY <1>RecoverTerminal DEF TypeOK, RecoverTerminal, CanRecover,
         Recovering, RemoveLeftovers, GoTo, Refuse
    <2>3. staging' \in [Op -> Content]
      BY <1>RecoverTerminal DEF TypeOK, RecoverTerminal, CanRecover,
         Recovering, RemoveLeftovers, GoTo, Refuse
    <2>4. pending' \in [Op -> BOOLEAN]
      BY <1>RecoverTerminal DEF TypeOK, RecoverTerminal, CanRecover,
         Recovering, RemoveLeftovers, GoTo, Refuse
    <2> QED
      BY <1>RecoverTerminal, <2>1, <2>2, <2>3, <2>4 DEF TypeOK,
         RecoverTerminal, CanRecover, Recovering, RemoveLeftovers, GoTo,
         Refuse
  <1>RecoverUnexposed. ASSUME NEW o \in Op, RecoverUnexposed(o) PROVE TypeOK'
    <2>1. pc' \in [Op -> Step]
      BY <1>RecoverUnexposed DEF TypeOK, RecoverUnexposed, CanRecover,
         Recovering, RemoveLeftovers, GoTo
    <2>2. vault' \in {"closed", "reconciling", "open", "refused"}
      BY <1>RecoverUnexposed DEF TypeOK, RecoverUnexposed, CanRecover,
         Recovering, RemoveLeftovers, GoTo
    <2> QED
      BY <1>RecoverUnexposed, <2>1, <2>2 DEF TypeOK, RecoverUnexposed,
         CanRecover, Recovering, RemoveLeftovers, GoTo
  <1>RecoverExposed. ASSUME NEW o \in Op, RecoverExposed(o) PROVE TypeOK'
    <2>1. pc' \in [Op -> Step]
      <3>1. GoTo(o, "recordRecovered") \/ pc' = Halted
        BY <1>RecoverExposed DEF RecoverExposed, Refuse
      <3>2. pc \in [Op -> Step]
        BY DEF TypeOK
      <3> QED
        BY <3>1, <3>2, GoToType, HaltedType
    <2>2. vault' \in {"closed", "reconciling", "open", "refused"}
      BY <1>RecoverExposed DEF TypeOK, RecoverExposed, CanRecover,
         Recovering, GoTo, Refuse
    <2>3. registration' \in [Op -> BOOLEAN]
      BY <1>RecoverExposed DEF TypeOK, RecoverExposed, CanRecover,
         Recovering, GoTo, Refuse
    <2>4. pending' \in [Op -> BOOLEAN]
      BY <1>RecoverExposed DEF TypeOK, RecoverExposed, CanRecover,
         Recovering, GoTo, Refuse
    <2> QED
      BY <1>RecoverExposed, <2>1, <2>2, <2>3, <2>4 DEF TypeOK,
         RecoverExposed, CanRecover, Recovering, GoTo, Refuse
  <1>RecordRecovery. ASSUME NEW o \in Op, RecordRecovery(o) PROVE TypeOK'
    <2>1. PICK s \in State : Persist(o, s)
      BY <1>RecordRecovery DEF RecordRecovery
    <2>2. memory' \in [Op -> Record] /\ journal' \in [Op -> Seq(Record)]
      BY <2>1, PersistType
    <2> QED
      BY <1>RecordRecovery, <2>2 DEF TypeOK, RecordRecovery, Recovering, GoTo
  <1>StartFails. ASSUME NEW o \in Op, StartFails(o) PROVE TypeOK'
    BY <1>StartFails DEF TypeOK, StartFails, Live, Fault, Finish, GoTo
  <1>CommitFails. ASSUME NEW o \in Op, CommitFails(o) PROVE TypeOK'
    <2>1. memory' \in [Op -> Record]
      <3>1. (\E s \in State : Advance(o, s)) \/ memory' = memory
        BY <1>CommitFails DEF CommitFails, RecordedState
      <3> QED
        BY <3>1, AdvanceType DEF TypeOK
    <2>2. pc' \in [Op -> Step]
      BY <1>CommitFails DEF TypeOK, CommitFails, Fault, Reject, GoTo, Advance
    <2> QED
      BY <1>CommitFails, <2>1, <2>2 DEF TypeOK, CommitFails, Fault,
         Reject, GoTo, Advance
  <1>AnchorFails. ASSUME NEW o \in Op, AnchorFails(o) PROVE TypeOK'
    <2>1. pc' \in [Op -> Step]
      <3>1. GoTo(o, "removeWork") \/ GoTo(o, "done") \/ pc' = Halted
        BY <1>AnchorFails DEF AnchorFails, AnchorRejected, Reject, Refuse
      <3>2. pc \in [Op -> Step]
        BY DEF TypeOK
      <3> QED
        BY <3>1, <3>2, GoToType, HaltedType
    <2>2. result' \in [Op -> {"none", "committed", "failed"}]
      BY <1>AnchorFails DEF TypeOK, AnchorFails, Fault, AnchorRejected,
         Reject, GoTo, Refuse
    <2>3. vault' \in {"closed", "reconciling", "open", "refused"}
      BY <1>AnchorFails DEF TypeOK, AnchorFails, Fault, AnchorRejected,
         Reject, GoTo, Refuse
    <2> QED
      BY <1>AnchorFails, <2>1, <2>2, <2>3 DEF TypeOK, AnchorFails, Fault,
         AnchorRejected, Reject, GoTo, Refuse
  <1>RemovalFails. ASSUME NEW o \in Op, RemovalFails(o) PROVE TypeOK'
    <2>1. pc' \in [Op -> Step]
      BY <1>RemovalFails DEF TypeOK, RemovalFails, Fault, GoTo, AfterRemoval
    <2> QED
      BY <1>RemovalFails, <2>1 DEF TypeOK, RemovalFails, Fault, GoTo, AfterRemoval
  <1>LastStepFails. ASSUME NEW o \in Op, LastStepFails(o) PROVE TypeOK'
    <2>1. memory' \in [Op -> Record]
      <3>1. Advance(o, "Failed") \/ memory' = memory
        BY <1>LastStepFails DEF LastStepFails
      <3>2. "Failed" \in State
        BY DEF State
      <3> QED
        BY <3>1, <3>2, AdvanceType DEF TypeOK
    <2>2. pc' \in [Op -> Step]
      <3>1. GoTo(o, "done")
        BY <1>LastStepFails DEF LastStepFails, Finish
      <3> QED
        BY <3>1, GoToType
    <2>3. result' \in [Op -> {"none", "committed", "failed"}]
      BY <1>LastStepFails DEF TypeOK, LastStepFails, Fault, Live, Finish,
         GoTo, Advance
    <2> QED
      BY <1>LastStepFails, <2>1, <2>2, <2>3 DEF TypeOK, LastStepFails,
         Fault, Live, Finish, GoTo, Advance
  <1>RecoveryFails. ASSUME NEW o \in Op, RecoveryFails(o) PROVE TypeOK'
    BY <1>RecoveryFails DEF TypeOK, RecoveryFails, Fault, Refuse
  <1>SourceChanges. ASSUME NEW o \in Op, SourceChanges(o) PROVE TypeOK'
    BY <1>SourceChanges DEF TypeOK, SourceChanges
  <1>ReadStream. ASSUME NEW r \in Reader, NEW o \in Op, ReadStream(r, o) PROVE TypeOK'
    <2>1. Latest(o) \in Record
      BY <1>ReadStream, LatestType DEF ReadStream
    <2> QED
      BY <1>ReadStream, <2>1 DEF ReadStream, TypeOK
  <1>AnchorRead. ASSUME NEW r \in Reader, AnchorRead(r) PROVE TypeOK'
    BY <1>AnchorRead DEF AnchorRead, TypeOK
  <1>BeginReconcile. ASSUME BeginReconcile PROVE TypeOK'
    BY <1>BeginReconcile DEF BeginReconcile, Refuse, TypeOK
  <1>FinishReconcile. ASSUME FinishReconcile PROVE TypeOK'
    BY <1>FinishReconcile DEF FinishReconcile, TypeOK
  <1>Crash. ASSUME Crash PROVE TypeOK'
    BY <1>Crash DEF Crash, TypeOK
  <1>Damage. ASSUME Damage PROVE TypeOK'
    <2>1. dest' \in [Dest -> Content]
      <3>1. dest \in [Dest -> Content]
        BY DEF TypeOK
      <3>2. \/ dest' = dest
            \/ \E d \in Dest : \E content \in Content : dest' = [dest EXCEPT ![d] = content]
        BY <1>Damage DEF Damage
      <3> QED
        BY <3>1, <3>2
    <2>2. registration' \in [Op -> BOOLEAN]
      BY <1>Damage DEF Damage, TypeOK
    <2> QED
      BY <1>Damage, <2>1, <2>2 DEF Damage, TypeOK
  <1>Stutter. ASSUME UNCHANGED vars PROVE TypeOK'
    BY <1>Stutter DEF vars, TypeOK
  <1> QED
    BY <1>Start, <1>VerifySource, <1>RecordCopying, <1>CreateStaging,
       <1>Copy, <1>VerifyStaging, <1>RecordVerified, <1>WritePending,
       <1>Expose, <1>Promote, <1>RecordCommitted, <1>InspectAnchor,
       <1>WriteAnchor, <1>DropStaging, <1>RemoveWork,
       <1>RemoveRegistration, <1>RemoveDestination, <1>RecordFailed,
       <1>LoadStream, <1>WriteLoadedAnchor, <1>RecoverTerminal,
       <1>RecoverUnexposed, <1>RecoverExposed, <1>RecordRecovery,
       <1>StartFails, <1>CommitFails, <1>AnchorFails, <1>RemovalFails,
       <1>LastStepFails, <1>RecoveryFails, <1>SourceChanges,
       <1>ReadStream, <1>AnchorRead, <1>BeginReconcile,
       <1>FinishReconcile, <1>Crash, <1>Damage, <1>Stutter
       DEF Next, Commit, Rejection, Recovery, Failure

(* Every reachable state is well typed. *)
THEOREM TypeCorrect == Spec => []TypeOK
  BY TypeInit, TypeStep, PTL DEF Spec

(* A recorded state is the last of its stream and the one in memory; the other *)
(* streams are as they were.                                                   *)
LEMMA PersistLatest ==
    ASSUME TypeOK, NEW o \in Op, NEW s \in State, Persist(o, s)
    PROVE  /\ Started(o)' /\ Latest(o)' = memory'[o] /\ memory'[o].state = s
           /\ \A p \in Op : p # o => /\ journal'[p] = journal[p]
                                     /\ memory'[p] = memory[p]
                                     /\ Started(p)' = Started(p)
                                     /\ Latest(p)' = Latest(p)
  <1>1. AdvancedRecord(o, s) \in Record
    BY DEF TypeOK, AdvancedRecord, Record
  <1>2. journal'[o] = Append(journal[o], AdvancedRecord(o, s))
    BY DEF TypeOK, Persist
  <1>3. journal[o] \in Seq(Record)
    BY DEF TypeOK
  <1>4. Len(journal'[o]) = Len(journal[o]) + 1 /\ journal'[o][Len(journal[o]) + 1] = AdvancedRecord(o, s)
    BY <1>1, <1>2, <1>3
  <1>5. Started(o)' /\ Latest(o)' = AdvancedRecord(o, s)
    BY <1>3, <1>4 DEF Started, Latest
  <1>6. memory'[o] = AdvancedRecord(o, s) /\ memory'[o].state = s
    BY DEF Persist, Advance, TypeOK, AdvancedRecord
  <1>7. \A p \in Op : p # o => journal'[p] = journal[p] /\ memory'[p] = memory[p]
    BY DEF Persist, Advance, TypeOK
  <1> QED
    BY <1>5, <1>6, <1>7 DEF Started, Latest

(* Only the user damages the Vault's files, and what is damaged stays counted. *)
LEMMA DamageOnlyGrows ==
    ASSUME TypeOK, [Next]_vars
    PROVE  damage' = damage \/ damage' = damage + 1
  <1>1. CASE Damage
    BY <1>1 DEF Damage
  <1>2. CASE \E o \in Op : Start(o) \/ Commit(o)
    <2>1. CASE \E o \in Op : \/ Start(o) \/ VerifySource(o) \/ RecordCopying(o)
                             \/ CreateStaging(o) \/ Copy(o) \/ VerifyStaging(o)
      BY <2>1 DEF budget, Start, VerifySource, RecordCopying, CreateStaging, Copy, VerifyStaging
    <2>2. CASE \E o \in Op : \/ RecordVerified(o) \/ WritePending(o) \/ Expose(o)
                             \/ Promote(o) \/ RecordCommitted(o)
      BY <2>2 DEF budget, RecordVerified, WritePending, Expose, Promote, RecordCommitted
    <2>3. CASE \E o \in Op : InspectAnchor(o) \/ WriteAnchor(o) \/ DropStaging(o)
      BY <2>3 DEF budget, InspectAnchor, WriteAnchor, DropStaging
    <2> QED
      BY <1>2, <2>1, <2>2, <2>3 DEF Commit
  <1>3. CASE \E o \in Op : Rejection(o)
    BY <1>3 DEF Rejection, budget, RemoveWork, RemoveRegistration, RemoveDestination,
       RecordFailed
  <1>4. CASE \E o \in Op : Recovery(o)
    BY <1>4 DEF Recovery, budget, LoadStream, WriteLoadedAnchor, RecoverTerminal,
       RecoverUnexposed, RecoverExposed, RecordRecovery
  <1>5. CASE \E o \in Op : Failure(o) \/ SourceChanges(o)
    BY <1>5 DEF Failure, budget, StartFails, CommitFails, AnchorFails, RemovalFails,
       LastStepFails, RecoveryFails, SourceChanges
  <1>6. CASE \/ \E r \in Reader : AnchorRead(r) \/ \E o \in Op : ReadStream(r, o)
             \/ BeginReconcile \/ FinishReconcile \/ Crash \/ UNCHANGED vars
    BY <1>6 DEF vars, budget, ReadStream, AnchorRead, BeginReconcile, FinishReconcile, Crash
  <1> QED
    BY <1>1, <1>2, <1>3, <1>4, <1>5, <1>6 DEF Next

(* The strengthening holds initially. *)
LEMMA CommitInit == Init => CommitInvariant
  BY DestOfAssumption DEF Init, CommitInvariant, VerifiedDestinations,
     OwnedOriginals,
     Owner, Committing, CommitsComplete, RecordsCurrent, ReportsFinal, RejectStep, AnchorStep, CommitStep

(* No step of the program, of a reader or of a crash breaks the strengthening, *)
(* as long as nobody but the program touches the Vault's files.               *)
LEMMA CommitInductive ==
    ASSUME TypeOK, CommitInvariant, [Next]_vars, damage' = 0
    PROVE  CommitInvariant'
  <1> USE DestOfAssumption, SentinelAssumption, LatestType
  <1> USE DEF files, audit, budget, CommitInvariant
  <1>Start. ASSUME NEW o \in Op, Start(o) PROVE CommitInvariant'
    <2>1. VerifiedDestinations'
      BY <1>Start DEF Start, Live, GoTo, TypeOK, VerifiedDestinations,
         CommitsComplete
    <2>2. OwnedOriginals'
      BY <1>Start DEF Start, Live, GoTo, TypeOK, OwnedOriginals, Owner,
         Committing, CommitsComplete, ReportsFinal, RecordsCurrent,
         RejectStep, CommitStep
    <2>3. CommitsComplete'
      BY <1>Start DEF Start, Live, GoTo, TypeOK, CommitsComplete,
         Committing, CommitStep, RecordsCurrent, AnchorStep, ReportsFinal
    <2>4. RecordsCurrent'
      BY <1>Start DEF Start, Live, GoTo, TypeOK, RecordsCurrent,
         AnchorStep, Started, Latest, CommitStep
    <2>5. ReportsFinal'
      BY <1>Start DEF Start, Live, GoTo, TypeOK, ReportsFinal,
         RecordsCurrent, CommitsComplete, Committing, Started, Latest,
         AnchorStep, CommitStep
    <2> QED
      BY <2>1, <2>2, <2>3, <2>4, <2>5
  <1>VerifySource. ASSUME NEW o \in Op, VerifySource(o) PROVE CommitInvariant'
    <2>1. VerifiedDestinations'
      BY <1>VerifySource DEF VerifySource, Live, GoTo, Reject, TypeOK,
         VerifiedDestinations, CommitsComplete
    <2>2. OwnedOriginals'
      <3>1. \A p \in Op : Owner(p)' => Owner(p)
        BY <1>VerifySource DEF VerifySource, Live, GoTo, Reject, TypeOK,
           OwnedOriginals, Owner, Committing, CommitsComplete,
           ReportsFinal, RecordsCurrent, RejectStep, CommitStep
      <3>2. dest' = dest
        BY <1>VerifySource DEF VerifySource
      <3> QED
        BY <3>1, <3>2 DEF OwnedOriginals
    <2>3. CommitsComplete'
      <3>1. pc'[o] \in {"recordCopying", "removeWork"} /\ \A p \in Op : p # o => pc'[p] = pc[p]
        BY <1>VerifySource DEF VerifySource, Live, GoTo, Reject, TypeOK
      <3>2. vault = "open" /\ ~exposed[o]
        BY <1>VerifySource DEF VerifySource, Live, CommitsComplete, CommitStep
      <3> QED
        BY <1>VerifySource, <3>1, <3>2 DEF VerifySource,
           CommitsComplete, Committing, CommitStep
    <2>4. RecordsCurrent'
      BY <1>VerifySource DEF VerifySource, Live, GoTo, Reject, TypeOK,
         RecordsCurrent, AnchorStep, Started, Latest, CommitStep
    <2>5. ReportsFinal'
      <3>1. \A p \in Op : result'[p] = "committed" => result[p] = "committed"
        BY <1>VerifySource DEF VerifySource, Live, GoTo, Reject, TypeOK
      <3>2. \A p \in Op : result[p] = "committed" =>
               pc'[p] \in {"done", "stopped", "load", "writeLoaded", "loaded"}
        BY <1>VerifySource DEF VerifySource, Live, GoTo, Reject, TypeOK,
           ReportsFinal
      <3>3. \A p \in Op : result[p] = "committed" => registration'[p] /\ anchor'[p] = anchor[p]
        BY <1>VerifySource DEF VerifySource, Live, GoTo, Reject, TypeOK,
           ReportsFinal
      <3>4. journal' = journal
        BY <1>VerifySource DEF VerifySource
      <3> QED
        BY <3>1, <3>2, <3>3, <3>4 DEF ReportsFinal, Started, Latest
    <2> QED
      BY <2>1, <2>2, <2>3, <2>4, <2>5
  <1>RecordCopying. ASSUME NEW o \in Op, RecordCopying(o) PROVE CommitInvariant'
    <2>0. PICK s \in State : Persist(o, s) /\ s = "Copying"
      BY <1>RecordCopying, Literals DEF RecordCopying
    <2> USE <2>0, PersistLatest
    <2>1. VerifiedDestinations'
      BY <1>RecordCopying DEF RecordCopying, Live, GoTo, TypeOK,
         VerifiedDestinations, CommitsComplete
    <2>2. OwnedOriginals'
      BY SMTT(40), <1>RecordCopying DEF RecordCopying, Live, GoTo, TypeOK,
         OwnedOriginals, Owner, Committing, CommitsComplete, ReportsFinal,
         RecordsCurrent, RejectStep, CommitStep
    <2>3. CommitsComplete'
      BY <1>RecordCopying DEF RecordCopying, Live, GoTo, TypeOK,
         CommitsComplete, Committing, CommitStep, RecordsCurrent,
         AnchorStep, ReportsFinal
    <2>4. RecordsCurrent'
      BY <1>RecordCopying DEF RecordCopying, Live, GoTo, TypeOK,
         RecordsCurrent, AnchorStep, Started, Latest, CommitStep
    <2>5. ReportsFinal'
      <3>1. result[o] # "committed"
        BY <1>RecordCopying DEF RecordCopying, Live, ReportsFinal
      <3>2. \A p \in Op : p # o => pc'[p] = pc[p]
        BY <1>RecordCopying DEF RecordCopying, GoTo, TypeOK
      <3>3. result' = result /\ anchor' = anchor /\ registration' = registration
        BY <1>RecordCopying DEF RecordCopying, files
      <3>4. \A p \in Op : p # o => Started(p)' = Started(p) /\ Latest(p)' = Latest(p)
        BY <2>0
      <3> HIDE <2>0
      <3> QED
        BY <3>1, <3>2, <3>3, <3>4 DEF ReportsFinal
    <2> QED
      BY <2>1, <2>2, <2>3, <2>4, <2>5
  <1>CreateStaging. ASSUME NEW o \in Op, CreateStaging(o) PROVE CommitInvariant'
    <2>1. VerifiedDestinations'
      BY <1>CreateStaging DEF CreateStaging, Live, GoTo, TypeOK,
         VerifiedDestinations, CommitsComplete
    <2>2. OwnedOriginals'
      BY <1>CreateStaging DEF CreateStaging, Live, GoTo, TypeOK,
         OwnedOriginals, Owner, Committing, CommitsComplete, ReportsFinal,
         RecordsCurrent, RejectStep, CommitStep
    <2>3. CommitsComplete'
      BY <1>CreateStaging DEF CreateStaging, Live, GoTo, TypeOK,
         CommitsComplete, Committing, CommitStep, RecordsCurrent,
         AnchorStep, ReportsFinal
    <2>4. RecordsCurrent'
      BY <1>CreateStaging DEF CreateStaging, Live, GoTo, TypeOK,
         RecordsCurrent, AnchorStep, Started, Latest, CommitStep
    <2>5. ReportsFinal'
      BY <1>CreateStaging DEF CreateStaging, Live, GoTo, TypeOK,
         ReportsFinal, RecordsCurrent, CommitsComplete, Committing,
         Started, Latest, AnchorStep, CommitStep
    <2> QED
      BY <2>1, <2>2, <2>3, <2>4, <2>5
  <1>Copy. ASSUME NEW o \in Op, Copy(o) PROVE CommitInvariant'
    <2>1. VerifiedDestinations'
      BY <1>Copy DEF Copy, Live, GoTo, TypeOK, VerifiedDestinations,
         CommitsComplete
    <2>2. OwnedOriginals'
      BY <1>Copy DEF Copy, Live, GoTo, TypeOK, OwnedOriginals, Owner,
         Committing, CommitsComplete, ReportsFinal, RecordsCurrent,
         RejectStep, CommitStep
    <2>3. CommitsComplete'
      BY <1>Copy DEF Copy, Live, GoTo, TypeOK, CommitsComplete,
         Committing, CommitStep, RecordsCurrent, AnchorStep, ReportsFinal
    <2>4. RecordsCurrent'
      BY <1>Copy DEF Copy, Live, GoTo, TypeOK, RecordsCurrent, AnchorStep,
         Started, Latest, CommitStep
    <2>5. ReportsFinal'
      BY <1>Copy DEF Copy, Live, GoTo, TypeOK, ReportsFinal,
         RecordsCurrent, CommitsComplete, Committing, Started, Latest,
         AnchorStep, CommitStep
    <2> QED
      BY <2>1, <2>2, <2>3, <2>4, <2>5
  <1>VerifyStaging. ASSUME NEW o \in Op, VerifyStaging(o) PROVE CommitInvariant'
    <2>1. VerifiedDestinations'
      BY <1>VerifyStaging DEF VerifyStaging, Live, GoTo, Reject, TypeOK,
         VerifiedDestinations, CommitsComplete
    <2>2. OwnedOriginals'
      <3>1. \A p \in Op : Owner(p)' => Owner(p)
        BY <1>VerifyStaging DEF VerifyStaging, Live, GoTo, Reject,
           TypeOK, OwnedOriginals, Owner, Committing, CommitsComplete,
           ReportsFinal, RecordsCurrent, RejectStep, CommitStep
      <3>2. dest' = dest
        BY <1>VerifyStaging DEF VerifyStaging
      <3> QED
        BY <3>1, <3>2 DEF OwnedOriginals
    <2>3. CommitsComplete'
      BY <1>VerifyStaging DEF VerifyStaging, Live, GoTo, Reject, TypeOK,
         CommitsComplete, Committing, CommitStep, RecordsCurrent,
         AnchorStep, ReportsFinal
    <2>4. RecordsCurrent'
      BY <1>VerifyStaging DEF VerifyStaging, Live, GoTo, Reject, TypeOK,
         RecordsCurrent, AnchorStep, Started, Latest, CommitStep
    <2>5. ReportsFinal'
      <3>1. \A p \in Op : result'[p] = "committed" => result[p] = "committed"
        BY <1>VerifyStaging DEF VerifyStaging, Live, GoTo, Reject, TypeOK
      <3>2. \A p \in Op : result[p] = "committed" =>
               pc'[p] \in {"done", "stopped", "load", "writeLoaded", "loaded"}
        <4>1. \A p \in Op : pc'[p] = pc[p] \/ (p = o /\ pc[p] = "verifyStaging")
          BY <1>VerifyStaging DEF VerifyStaging, Live, GoTo, Reject, TypeOK
        <4> QED
          BY <4>1 DEF ReportsFinal
      <3>3. \A p \in Op : result[p] = "committed" => registration'[p] /\ anchor'[p] = anchor[p]
        BY <1>VerifyStaging DEF VerifyStaging, Live, GoTo, Reject,
           TypeOK, ReportsFinal
      <3>4. journal' = journal
        BY <1>VerifyStaging DEF VerifyStaging
      <3> QED
        BY <3>1, <3>2, <3>3, <3>4 DEF ReportsFinal, Started, Latest
    <2> QED
      BY <2>1, <2>2, <2>3, <2>4, <2>5
  <1>RecordVerified. ASSUME NEW o \in Op, RecordVerified(o) PROVE CommitInvariant'
    <2>0. PICK s \in State : Persist(o, s) /\ s = "Verified"
      BY <1>RecordVerified, Literals DEF RecordVerified
    <2> USE <2>0, PersistLatest
    <2>1. VerifiedDestinations'
      BY <1>RecordVerified DEF RecordVerified, Live, GoTo, TypeOK,
         VerifiedDestinations, CommitsComplete
    <2>2. OwnedOriginals'
      BY <1>RecordVerified DEF RecordVerified, Live, GoTo, TypeOK,
         OwnedOriginals, Owner, Committing, CommitsComplete, ReportsFinal,
         RecordsCurrent, RejectStep, CommitStep
    <2>3. CommitsComplete'
      BY <1>RecordVerified DEF RecordVerified, Live, GoTo, TypeOK,
         CommitsComplete, Committing, CommitStep, RecordsCurrent,
         AnchorStep, ReportsFinal
    <2>4. RecordsCurrent'
      BY <1>RecordVerified DEF RecordVerified, Live, GoTo, TypeOK,
         RecordsCurrent, AnchorStep, Started, Latest, CommitStep
    <2>5. ReportsFinal'
      BY <1>RecordVerified DEF RecordVerified, Live, GoTo, TypeOK,
         ReportsFinal, RecordsCurrent, CommitsComplete, Committing,
         Started, Latest, AnchorStep, CommitStep
    <2> QED
      BY <2>1, <2>2, <2>3, <2>4, <2>5
  <1>WritePending. ASSUME NEW o \in Op, WritePending(o) PROVE CommitInvariant'
    <2>1. VerifiedDestinations'
      BY <1>WritePending DEF WritePending, Live, GoTo, TypeOK,
         VerifiedDestinations, CommitsComplete
    <2>2. OwnedOriginals'
      BY <1>WritePending DEF WritePending, Live, GoTo, TypeOK,
         OwnedOriginals, Owner, Committing, CommitsComplete, ReportsFinal,
         RecordsCurrent, RejectStep, CommitStep
    <2>3. CommitsComplete'
      BY <1>WritePending DEF WritePending, Live, GoTo, TypeOK,
         CommitsComplete, Committing, CommitStep, RecordsCurrent,
         AnchorStep, ReportsFinal
    <2>4. RecordsCurrent'
      BY <1>WritePending DEF WritePending, Live, GoTo, TypeOK,
         RecordsCurrent, AnchorStep, Started, Latest, CommitStep
    <2>5. ReportsFinal'
      BY <1>WritePending DEF WritePending, Live, GoTo, TypeOK,
         ReportsFinal, RecordsCurrent, CommitsComplete, Committing,
         Started, Latest, AnchorStep, CommitStep
    <2> QED
      BY <2>1, <2>2, <2>3, <2>4, <2>5
  <1>Expose. ASSUME NEW o \in Op, Expose(o) PROVE CommitInvariant'
    <2>1. VerifiedDestinations'
      BY <1>Expose DEF Expose, Live, GoTo, Reject, TypeOK,
         VerifiedDestinations, CommitsComplete
    <2>2. OwnedOriginals'
      <3>1. CASE dest[DestOf[o]] = "absent"
        <4>1. \A p \in Op : p # o => (Owner(p)' => Owner(p))
          BY <1>Expose DEF Expose, Live, GoTo, Reject, TypeOK, Owner,
             Committing, RejectStep
        <4>2. \A p \in Op : Owner(p) => DestOf[p] # DestOf[o]
          BY <3>1 DEF OwnedOriginals
        <4>3. dest' = [dest EXCEPT ![DestOf[o]] = "good"]
          BY <1>Expose, <3>1 DEF Expose, Live, CommitsComplete
        <4> QED
          BY <4>1, <4>2, <4>3 DEF OwnedOriginals, TypeOK
      <3>2. CASE dest[DestOf[o]] # "absent"
        <4>1. \A p \in Op : Owner(p)' => Owner(p)
          BY <1>Expose, <3>2 DEF Expose, Live, GoTo, Reject, TypeOK,
             Owner, Committing,
             RejectStep, CommitsComplete, CommitStep
        <4>2. dest' = dest
          BY <1>Expose, <3>2 DEF Expose
        <4> QED
          BY <4>1, <4>2 DEF OwnedOriginals
      <3> QED
        BY <3>1, <3>2
    <2>3. CommitsComplete'
      BY <1>Expose DEF Expose, Live, GoTo, Reject, TypeOK,
         CommitsComplete, Committing, CommitStep, RecordsCurrent,
         AnchorStep, ReportsFinal
    <2>4. RecordsCurrent'
      BY <1>Expose DEF Expose, Live, GoTo, Reject, TypeOK, RecordsCurrent,
         AnchorStep, Started, Latest, CommitStep
    <2>5. ReportsFinal'
      <3>1. \A p \in Op : result'[p] = "committed" => result[p] = "committed"
        BY <1>Expose DEF Expose, Live, GoTo, Reject, TypeOK
      <3>2. \A p \in Op : result[p] = "committed" =>
               pc'[p] \in {"done", "stopped", "load", "writeLoaded", "loaded"}
        <4>1. \A p \in Op : pc'[p] = pc[p] \/ (p = o /\ pc[p] = "expose")
          BY <1>Expose DEF Expose, Live, GoTo, Reject, TypeOK
        <4> QED
          BY <4>1 DEF ReportsFinal
      <3>3. \A p \in Op : result[p] = "committed" => registration'[p] /\ anchor'[p] = anchor[p]
        BY <1>Expose DEF Expose, Live, GoTo, Reject, TypeOK, ReportsFinal
      <3>4. journal' = journal
        BY <1>Expose DEF Expose
      <3> QED
        BY <3>1, <3>2, <3>3, <3>4 DEF ReportsFinal, Started, Latest
    <2> QED
      BY <2>1, <2>2, <2>3, <2>4, <2>5
  <1>Promote. ASSUME NEW o \in Op, Promote(o) PROVE CommitInvariant'
    <2>1. VerifiedDestinations'
      BY <1>Promote DEF Promote, Live, GoTo, TypeOK,
         VerifiedDestinations, CommitsComplete
    <2>2. OwnedOriginals'
      BY <1>Promote DEF Promote, Live, GoTo, TypeOK, OwnedOriginals,
         Owner, Committing, CommitsComplete, ReportsFinal, RecordsCurrent,
         RejectStep, CommitStep
    <2>3. CommitsComplete'
      BY <1>Promote DEF Promote, Live, GoTo, TypeOK, CommitsComplete,
         Committing, CommitStep, RecordsCurrent, AnchorStep, ReportsFinal
    <2>4. RecordsCurrent'
      BY <1>Promote DEF Promote, Live, GoTo, TypeOK, RecordsCurrent,
         AnchorStep, Started, Latest, CommitStep
    <2>5. ReportsFinal'
      BY <1>Promote DEF Promote, Live, GoTo, TypeOK, ReportsFinal,
         RecordsCurrent, CommitsComplete, Committing, Started, Latest,
         AnchorStep, CommitStep
    <2> QED
      BY <2>1, <2>2, <2>3, <2>4, <2>5
  <1>RecordCommitted. ASSUME NEW o \in Op, RecordCommitted(o) PROVE CommitInvariant'
    <2>0. PICK s \in State : Persist(o, s) /\ s = "Committed"
      BY <1>RecordCommitted, Literals DEF RecordCommitted
    <2> USE <2>0, PersistLatest
    <2>1. VerifiedDestinations'
      BY <1>RecordCommitted DEF RecordCommitted, Live, GoTo, TypeOK,
         VerifiedDestinations, CommitsComplete
    <2>2. OwnedOriginals'
      BY <1>RecordCommitted DEF RecordCommitted, Live, GoTo, TypeOK,
         OwnedOriginals, Owner, Committing, CommitsComplete, ReportsFinal,
         RecordsCurrent, RejectStep, CommitStep
    <2>3. CommitsComplete'
      BY <1>RecordCommitted DEF RecordCommitted, Live, GoTo, TypeOK,
         CommitsComplete, Committing, CommitStep, RecordsCurrent,
         AnchorStep, ReportsFinal
    <2>4. RecordsCurrent'
      BY <1>RecordCommitted DEF RecordCommitted, Live, GoTo, TypeOK,
         RecordsCurrent, AnchorStep, Started, Latest, CommitStep
    <2>5. ReportsFinal'
      BY <1>RecordCommitted DEF RecordCommitted, Live, GoTo, TypeOK,
         ReportsFinal, RecordsCurrent, CommitsComplete, Committing,
         Started, Latest, AnchorStep, CommitStep
    <2> QED
      BY <2>1, <2>2, <2>3, <2>4, <2>5
  <1>InspectAnchor. ASSUME NEW o \in Op, InspectAnchor(o) PROVE CommitInvariant'
    <2>1. VerifiedDestinations'
      BY <1>InspectAnchor DEF InspectAnchor, GoTo, Anchored,
         AnchorRejected, Reject, Refuse, TypeOK, Halted,
         VerifiedDestinations, CommitsComplete
    <2>2. OwnedOriginals'
      <3>1. \A p \in Op : Owner(p)' => Owner(p)
        BY <1>InspectAnchor DEF InspectAnchor, GoTo, Anchored,
           AnchorRejected, Reject, Refuse, TypeOK, Halted,
           OwnedOriginals, Owner, Committing, CommitsComplete,
           ReportsFinal, RecordsCurrent, RejectStep, CommitStep
      <3>2. dest' = dest
        BY <1>InspectAnchor DEF InspectAnchor
      <3> QED
        BY <3>1, <3>2 DEF OwnedOriginals
    <2>3. CommitsComplete'
      BY <1>InspectAnchor DEF InspectAnchor, GoTo, Anchored,
         AnchorRejected, Reject, Refuse, TypeOK, Halted, CommitsComplete,
         Committing, CommitStep, RecordsCurrent, AnchorStep, ReportsFinal
    <2>4. RecordsCurrent'
      BY <1>InspectAnchor DEF InspectAnchor, GoTo, Anchored,
         AnchorRejected, Reject, Refuse, TypeOK, Halted, RecordsCurrent,
         AnchorStep, Started, Latest, CommitStep
    <2>5. ReportsFinal'
      <3>1. \A p \in Op : result'[p] = "committed" => result[p] = "committed"
        BY <1>InspectAnchor DEF InspectAnchor, GoTo, Anchored,
           AnchorRejected, Reject, Refuse, TypeOK, Halted
      <3>2. \A p \in Op : result[p] = "committed" =>
               pc'[p] \in {"done", "stopped", "load", "writeLoaded", "loaded"}
        <4>1. \A p \in Op : \/ pc'[p] \in {pc[p], "done", "stopped"}
                            \/ (p = o /\ pc[p] = "anchor")
          BY <1>InspectAnchor DEF InspectAnchor, GoTo, Anchored,
             AnchorRejected, Reject, Refuse, TypeOK, Halted
        <4> QED
          BY <4>1 DEF ReportsFinal
      <3>3. \A p \in Op : result[p] = "committed" => registration'[p] /\ anchor'[p] = anchor[p]
        BY <1>InspectAnchor DEF InspectAnchor, GoTo, Anchored,
           AnchorRejected, Reject, Refuse, TypeOK, Halted, ReportsFinal
      <3>4. journal' = journal
        BY <1>InspectAnchor DEF InspectAnchor
      <3> QED
        BY <3>1, <3>2, <3>3, <3>4 DEF ReportsFinal, Started, Latest
    <2> QED
      BY <2>1, <2>2, <2>3, <2>4, <2>5
  <1>WriteAnchor. ASSUME NEW o \in Op, WriteAnchor(o) PROVE CommitInvariant'
    <2>1. VerifiedDestinations'
      BY <1>WriteAnchor DEF WriteAnchor, GoTo, Anchored, AnchorRejected,
         Reject, Refuse, TypeOK, Halted, VerifiedDestinations,
         CommitsComplete
    <2>2. OwnedOriginals'
      <3>1. \A p \in Op : Owner(p)' => Owner(p)
        BY <1>WriteAnchor DEF WriteAnchor, GoTo, Anchored,
           AnchorRejected, Reject, Refuse, TypeOK, Halted,
           OwnedOriginals, Owner, Committing, CommitsComplete,
           ReportsFinal, RecordsCurrent, RejectStep, CommitStep
      <3>2. dest' = dest
        BY <1>WriteAnchor DEF WriteAnchor
      <3> QED
        BY <3>1, <3>2 DEF OwnedOriginals
    <2>3. CommitsComplete'
      BY <1>WriteAnchor DEF WriteAnchor, GoTo, Anchored, AnchorRejected,
         Reject, Refuse, TypeOK, Halted, CommitsComplete, Committing,
         CommitStep, RecordsCurrent, AnchorStep, ReportsFinal
    <2>4. RecordsCurrent'
      BY <1>WriteAnchor DEF WriteAnchor, GoTo, Anchored, AnchorRejected,
         Reject, Refuse, TypeOK, Halted, RecordsCurrent, AnchorStep,
         Started, Latest, CommitStep
    <2>5. ReportsFinal'
      <3>1. \A p \in Op : result'[p] = "committed" => result[p] = "committed"
        BY <1>WriteAnchor DEF WriteAnchor, GoTo, Anchored,
           AnchorRejected, Reject, Refuse, TypeOK, Halted
      <3>2. \A p \in Op : result[p] = "committed" =>
               pc'[p] \in {"done", "stopped", "load", "writeLoaded", "loaded"}
        BY <1>WriteAnchor DEF WriteAnchor, GoTo, Anchored,
           AnchorRejected, Reject, Refuse, TypeOK, Halted, ReportsFinal
      <3>3. \A p \in Op : result[p] = "committed" => registration'[p] /\ anchor'[p] = anchor[p]
        BY <1>WriteAnchor DEF WriteAnchor, GoTo, Anchored,
           AnchorRejected, Reject, Refuse, TypeOK, Halted, ReportsFinal
      <3>4. journal' = journal
        BY <1>WriteAnchor DEF WriteAnchor
      <3> QED
        BY <3>1, <3>2, <3>3, <3>4 DEF ReportsFinal, Started, Latest
    <2> QED
      BY <2>1, <2>2, <2>3, <2>4, <2>5
  <1>DropStaging. ASSUME NEW o \in Op, DropStaging(o) PROVE CommitInvariant'
    <2>1. VerifiedDestinations'
      BY <1>DropStaging DEF DropStaging, GoTo, TypeOK,
         VerifiedDestinations, CommitsComplete
    <2>2. OwnedOriginals'
      BY <1>DropStaging DEF DropStaging, GoTo, TypeOK, OwnedOriginals,
         Owner, Committing, CommitsComplete, ReportsFinal, RecordsCurrent,
         RejectStep, CommitStep
    <2>3. CommitsComplete'
      BY <1>DropStaging DEF DropStaging, GoTo, TypeOK, CommitsComplete,
         Committing, CommitStep, RecordsCurrent, AnchorStep, ReportsFinal
    <2>4. RecordsCurrent'
      BY <1>DropStaging DEF DropStaging, GoTo, TypeOK, RecordsCurrent,
         AnchorStep, Started, Latest, CommitStep
    <2>5. ReportsFinal'
      BY <1>DropStaging DEF DropStaging, GoTo, TypeOK, ReportsFinal,
         RecordsCurrent, CommitsComplete, Committing, Started, Latest,
         AnchorStep, CommitStep
    <2> QED
      BY <2>1, <2>2, <2>3, <2>4, <2>5
  <1>RemoveWork. ASSUME NEW o \in Op, RemoveWork(o) PROVE CommitInvariant'
    <2>1. VerifiedDestinations'
      BY <1>RemoveWork DEF RemoveWork, Live, GoTo, TypeOK,
         VerifiedDestinations, CommitsComplete
    <2>2. OwnedOriginals'
      BY <1>RemoveWork DEF RemoveWork, Live, GoTo, TypeOK, OwnedOriginals,
         Owner, Committing, CommitsComplete, ReportsFinal, RecordsCurrent,
         RejectStep, CommitStep
    <2>3. CommitsComplete'
      BY <1>RemoveWork DEF RemoveWork, Live, GoTo, TypeOK,
         CommitsComplete, Committing, CommitStep, RecordsCurrent,
         AnchorStep, ReportsFinal
    <2>4. RecordsCurrent'
      BY <1>RemoveWork DEF RemoveWork, Live, GoTo, TypeOK, RecordsCurrent,
         AnchorStep, Started, Latest, CommitStep
    <2>5. ReportsFinal'
      BY <1>RemoveWork DEF RemoveWork, Live, GoTo, TypeOK, ReportsFinal,
         RecordsCurrent, CommitsComplete, Committing, Started, Latest,
         AnchorStep, CommitStep
    <2> QED
      BY <2>1, <2>2, <2>3, <2>4, <2>5
  <1>RemoveRegistration. ASSUME NEW o \in Op, RemoveRegistration(o) PROVE CommitInvariant'
    <2>1. VerifiedDestinations'
      BY <1>RemoveRegistration DEF RemoveRegistration, Live, GoTo, TypeOK,
         VerifiedDestinations, CommitsComplete
    <2>2. OwnedOriginals'
      BY <1>RemoveRegistration DEF RemoveRegistration, Live, GoTo, TypeOK,
         OwnedOriginals, Owner, Committing, CommitsComplete, ReportsFinal,
         RecordsCurrent, RejectStep, CommitStep
    <2>3. CommitsComplete'
      BY <1>RemoveRegistration DEF RemoveRegistration, Live, GoTo, TypeOK,
         CommitsComplete, Committing, CommitStep, RecordsCurrent,
         AnchorStep, ReportsFinal
    <2>4. RecordsCurrent'
      BY <1>RemoveRegistration DEF RemoveRegistration, Live, GoTo, TypeOK,
         RecordsCurrent, AnchorStep, Started, Latest, CommitStep
    <2>5. ReportsFinal'
      BY <1>RemoveRegistration DEF RemoveRegistration, Live, GoTo, TypeOK,
         ReportsFinal, RecordsCurrent, CommitsComplete, Committing,
         Started, Latest, AnchorStep, CommitStep
    <2> QED
      BY <2>1, <2>2, <2>3, <2>4, <2>5
  <1>RemoveDestination. ASSUME NEW o \in Op, RemoveDestination(o) PROVE CommitInvariant'
    <2>1. VerifiedDestinations'
      BY <1>RemoveDestination DEF RemoveDestination, Live, GoTo, TypeOK,
         VerifiedDestinations, CommitsComplete
    <2>2. OwnedOriginals'
      <3>1. \A p \in Op : Owner(p)' => Owner(p) /\ p # o
        BY <1>RemoveDestination DEF RemoveDestination, Live, GoTo,
           TypeOK, Owner, Committing,
           RejectStep, ReportsFinal
      <3>2. exposed[o] => Owner(o)
        BY <1>RemoveDestination DEF RemoveDestination, Live, Owner, RejectStep
      <3>3. \A p \in Op : Owner(p)' => dest'[DestOf[p]] = dest[DestOf[p]]
        BY <1>RemoveDestination, <3>1, <3>2 DEF RemoveDestination,
           OwnedOriginals, TypeOK
      <3> QED
        BY <3>1, <3>3 DEF OwnedOriginals
    <2>3. CommitsComplete'
      BY <1>RemoveDestination DEF RemoveDestination, Live, GoTo, TypeOK,
         CommitsComplete, Committing, CommitStep, RecordsCurrent,
         AnchorStep, ReportsFinal
    <2>4. RecordsCurrent'
      BY <1>RemoveDestination DEF RemoveDestination, Live, GoTo, TypeOK,
         RecordsCurrent, AnchorStep, Started, Latest, CommitStep
    <2>5. ReportsFinal'
      BY <1>RemoveDestination DEF RemoveDestination, Live, GoTo, TypeOK,
         ReportsFinal, RecordsCurrent, CommitsComplete, Committing,
         Started, Latest, AnchorStep, CommitStep
    <2> QED
      BY <2>1, <2>2, <2>3, <2>4, <2>5
  <1>RecordFailed. ASSUME NEW o \in Op, RecordFailed(o) PROVE CommitInvariant'
    <2>0. PICK s \in State : Persist(o, s) /\ s = "Failed"
      BY <1>RecordFailed, Literals DEF RecordFailed
    <2> USE <2>0, PersistLatest
    <2>1. VerifiedDestinations'
      BY <1>RecordFailed DEF RecordFailed, Live, GoTo, TypeOK,
         VerifiedDestinations, CommitsComplete
    <2>2. OwnedOriginals'
      BY <1>RecordFailed DEF RecordFailed, Live, GoTo, TypeOK,
         OwnedOriginals, Owner, Committing, CommitsComplete, ReportsFinal,
         RecordsCurrent, RejectStep, CommitStep
    <2>3. CommitsComplete'
      BY <1>RecordFailed DEF RecordFailed, Live, GoTo, TypeOK,
         CommitsComplete, Committing, CommitStep, RecordsCurrent,
         AnchorStep, ReportsFinal
    <2>4. RecordsCurrent'
      BY <1>RecordFailed DEF RecordFailed, Live, GoTo, TypeOK,
         RecordsCurrent, AnchorStep, Started, Latest, CommitStep
    <2>5. ReportsFinal'
      BY <1>RecordFailed DEF RecordFailed, Live, GoTo, TypeOK,
         ReportsFinal, RecordsCurrent, CommitsComplete, Committing,
         Started, Latest, AnchorStep, CommitStep
    <2> QED
      BY <2>1, <2>2, <2>3, <2>4, <2>5
  <1>LoadStream. ASSUME NEW o \in Op, LoadStream(o) PROVE CommitInvariant'
    <2>1. VerifiedDestinations'
      BY <1>LoadStream DEF LoadStream, Recovering, GoTo, Refuse, Started,
         TypeOK, Halted, VerifiedDestinations, CommitsComplete
    <2>2. OwnedOriginals'
      BY <1>LoadStream DEF LoadStream, Recovering, GoTo, Refuse, Started,
         TypeOK, Halted, OwnedOriginals, Owner, Committing,
         CommitsComplete, ReportsFinal, RecordsCurrent, RejectStep,
         CommitStep
    <2>3. CommitsComplete'
      BY <1>LoadStream DEF LoadStream, Recovering, GoTo, Refuse, Started,
         TypeOK, Halted, CommitsComplete, Committing, CommitStep,
         RecordsCurrent, AnchorStep, ReportsFinal
    <2>4. RecordsCurrent'
      BY <1>LoadStream DEF LoadStream, Recovering, GoTo, Refuse, Started,
         TypeOK, Halted, RecordsCurrent, AnchorStep, Started, Latest,
         CommitStep
    <2>5. ReportsFinal'
      BY <1>LoadStream DEF LoadStream, Recovering, GoTo, Refuse, Started,
         TypeOK, Halted, ReportsFinal, RecordsCurrent, CommitsComplete,
         Committing, Started, Latest, AnchorStep, CommitStep
    <2> QED
      BY <2>1, <2>2, <2>3, <2>4, <2>5
  <1>WriteLoadedAnchor. ASSUME NEW o \in Op, WriteLoadedAnchor(o) PROVE CommitInvariant'
    <2>1. VerifiedDestinations'
      BY <1>WriteLoadedAnchor DEF WriteLoadedAnchor, Recovering, GoTo,
         Refuse, TypeOK, Halted, VerifiedDestinations, CommitsComplete
    <2>2. OwnedOriginals'
      BY <1>WriteLoadedAnchor DEF WriteLoadedAnchor, Recovering, GoTo,
         Refuse, TypeOK, Halted, OwnedOriginals, Owner, Committing,
         CommitsComplete, ReportsFinal, RecordsCurrent, RejectStep,
         CommitStep
    <2>3. CommitsComplete'
      BY <1>WriteLoadedAnchor DEF WriteLoadedAnchor, Recovering, GoTo,
         Refuse, TypeOK, Halted, CommitsComplete, Committing, CommitStep,
         RecordsCurrent, AnchorStep, ReportsFinal
    <2>4. RecordsCurrent'
      <3>1. \A p \in Op : pc'[p] \in AnchorStep \cup {"writeLoaded", "loaded"} =>
               pc[p] \in AnchorStep \cup {"writeLoaded", "loaded"}
        BY <1>WriteLoadedAnchor DEF WriteLoadedAnchor, Recovering, GoTo,
           Refuse, Halted,
           TypeOK, AnchorStep
      <3>2. \A p \in Op : pc'[p] = "dropStaging" => pc[p] = "dropStaging" /\ p # o
        BY <1>WriteLoadedAnchor DEF WriteLoadedAnchor, Recovering, GoTo,
           Refuse, Halted, TypeOK
      <3>3. \A p \in Op : p # o => anchor'[p] = anchor[p]
        BY <1>WriteLoadedAnchor DEF WriteLoadedAnchor, TypeOK
      <3>4. memory' = memory /\ journal' = journal
        BY <1>WriteLoadedAnchor DEF WriteLoadedAnchor
      <3> QED
        BY <3>1, <3>2, <3>3, <3>4 DEF RecordsCurrent, Started, Latest
    <2>5. ReportsFinal'
      <3>1. \A p \in Op : result'[p] = "committed" => result[p] = "committed"
        BY <1>WriteLoadedAnchor DEF WriteLoadedAnchor, Recovering, GoTo,
           Refuse, TypeOK, Halted
      <3>2. \A p \in Op : result[p] = "committed" =>
               pc'[p] \in {"done", "stopped", "load", "writeLoaded", "loaded"}
        BY <1>WriteLoadedAnchor DEF WriteLoadedAnchor, Recovering, GoTo,
           Refuse, TypeOK, Halted, ReportsFinal
      <3>3. \A p \in Op : result[p] = "committed" => registration'[p] /\ anchor'[p] = anchor[p]
        BY <1>WriteLoadedAnchor DEF WriteLoadedAnchor, Recovering, GoTo,
           Refuse, TypeOK, Halted, ReportsFinal
      <3>4. journal' = journal
        BY <1>WriteLoadedAnchor DEF WriteLoadedAnchor
      <3> QED
        BY <3>1, <3>2, <3>3, <3>4 DEF ReportsFinal, Started, Latest
    <2> QED
      BY <2>1, <2>2, <2>3, <2>4, <2>5
  <1>RecoverTerminal. ASSUME NEW o \in Op, RecoverTerminal(o) PROVE CommitInvariant'
    <2>1. VerifiedDestinations'
      BY <1>RecoverTerminal DEF RecoverTerminal, CanRecover, Recovering,
         RemoveLeftovers, GoTo, Refuse, TypeOK, Halted,
         VerifiedDestinations, CommitsComplete
    <2>2. OwnedOriginals'
      BY <1>RecoverTerminal DEF RecoverTerminal, CanRecover, Recovering,
         RemoveLeftovers, GoTo, Refuse, TypeOK, Halted, OwnedOriginals,
         Owner, Committing, CommitsComplete, ReportsFinal, RecordsCurrent,
         RejectStep, CommitStep
    <2>3. CommitsComplete'
      BY <1>RecoverTerminal DEF RecoverTerminal, CanRecover, Recovering,
         RemoveLeftovers, GoTo, Refuse, TypeOK, Halted, CommitsComplete,
         Committing, CommitStep, RecordsCurrent, AnchorStep, ReportsFinal
    <2>4. RecordsCurrent'
      BY <1>RecoverTerminal DEF RecoverTerminal, CanRecover, Recovering,
         RemoveLeftovers, GoTo, Refuse, TypeOK, Halted, RecordsCurrent,
         AnchorStep, Started, Latest, CommitStep
    <2>5. ReportsFinal'
      BY <1>RecoverTerminal DEF RecoverTerminal, CanRecover, Recovering,
         RemoveLeftovers, GoTo, Refuse, TypeOK, Halted, ReportsFinal,
         RecordsCurrent, CommitsComplete, Committing, Started, Latest,
         AnchorStep, CommitStep
    <2> QED
      BY <2>1, <2>2, <2>3, <2>4, <2>5
  <1>RecoverUnexposed. ASSUME NEW o \in Op, RecoverUnexposed(o) PROVE CommitInvariant'
    <2>1. VerifiedDestinations'
      BY <1>RecoverUnexposed DEF RecoverUnexposed, CanRecover, Recovering,
         RemoveLeftovers, GoTo, TypeOK, VerifiedDestinations,
         CommitsComplete
    <2>2. OwnedOriginals'
      BY <1>RecoverUnexposed DEF RecoverUnexposed, CanRecover, Recovering,
         RemoveLeftovers, GoTo, TypeOK, OwnedOriginals, Owner, Committing,
         CommitsComplete, ReportsFinal, RecordsCurrent, RejectStep,
         CommitStep
    <2>3. CommitsComplete'
      BY <1>RecoverUnexposed DEF RecoverUnexposed, CanRecover, Recovering,
         RemoveLeftovers, GoTo, TypeOK, CommitsComplete, Committing,
         CommitStep, RecordsCurrent, AnchorStep, ReportsFinal
    <2>4. RecordsCurrent'
      BY <1>RecoverUnexposed DEF RecoverUnexposed, CanRecover, Recovering,
         RemoveLeftovers, GoTo, TypeOK, RecordsCurrent, AnchorStep,
         Started, Latest, CommitStep
    <2>5. ReportsFinal'
      BY <1>RecoverUnexposed DEF RecoverUnexposed, CanRecover, Recovering,
         RemoveLeftovers, GoTo, TypeOK, ReportsFinal, RecordsCurrent,
         CommitsComplete, Committing, Started, Latest, AnchorStep,
         CommitStep
    <2> QED
      BY <2>1, <2>2, <2>3, <2>4, <2>5
  <1>RecoverExposed. ASSUME NEW o \in Op, RecoverExposed(o) PROVE CommitInvariant'
    <2>1. VerifiedDestinations'
      BY <1>RecoverExposed DEF RecoverExposed, CanRecover, Recovering,
         GoTo, Refuse, TypeOK, Halted, VerifiedDestinations,
         CommitsComplete
    <2>2. OwnedOriginals'
      BY <1>RecoverExposed DEF RecoverExposed, CanRecover, Recovering,
         GoTo, Refuse, TypeOK, Halted, OwnedOriginals, Owner, Committing,
         CommitsComplete, ReportsFinal, RecordsCurrent, RejectStep,
         CommitStep
    <2>3. CommitsComplete'
      BY <1>RecoverExposed DEF RecoverExposed, CanRecover, Recovering,
         GoTo, Refuse, TypeOK, Halted, CommitsComplete, Committing,
         CommitStep, RecordsCurrent, AnchorStep, ReportsFinal
    <2>4. RecordsCurrent'
      BY <1>RecoverExposed DEF RecoverExposed, CanRecover, Recovering,
         GoTo, Refuse, TypeOK, Halted, RecordsCurrent, AnchorStep,
         Started, Latest, CommitStep
    <2>5. ReportsFinal'
      <3>1. result[o] # "committed"
        BY <1>RecoverExposed DEF RecoverExposed, CanRecover, Recovering,
           RecordsCurrent, ReportsFinal
      <3>2. \A p \in Op : p # o =>
               registration'[p] = registration[p] /\ pc'[p] \in {pc[p], Halted[p]}
        BY <1>RecoverExposed DEF RecoverExposed, GoTo, Refuse, TypeOK
      <3>3. \A p \in Op : result[p] = "committed" =>
               Halted[p] \in {"done", "stopped", "load", "writeLoaded", "loaded"}
        BY DEF Halted, ReportsFinal
      <3>4. UNCHANGED <<result, journal, anchor>>
        BY <1>RecoverExposed DEF RecoverExposed
      <3> QED
        BY <3>1, <3>2, <3>3, <3>4 DEF ReportsFinal, Started, Latest
    <2> QED
      BY <2>1, <2>2, <2>3, <2>4, <2>5
  <1>RecordRecovery. ASSUME NEW o \in Op, RecordRecovery(o) PROVE CommitInvariant'
    <2>0. PICK s \in State : Persist(o, s)
      BY <1>RecordRecovery, Literals DEF RecordRecovery
    <2> USE <2>0, PersistLatest
    <2>1. VerifiedDestinations'
      BY <1>RecordRecovery DEF RecordRecovery, Recovering, GoTo, TypeOK,
         VerifiedDestinations, CommitsComplete
    <2>2. OwnedOriginals'
      BY <1>RecordRecovery DEF RecordRecovery, Recovering, GoTo, TypeOK,
         OwnedOriginals, Owner, Committing, CommitsComplete, ReportsFinal,
         RecordsCurrent, RejectStep, CommitStep
    <2>3. CommitsComplete'
      BY <1>RecordRecovery DEF RecordRecovery, Recovering, GoTo, TypeOK,
         CommitsComplete, Committing, CommitStep, RecordsCurrent,
         AnchorStep, ReportsFinal
    <2>4. RecordsCurrent'
      BY <1>RecordRecovery DEF RecordRecovery, Recovering, GoTo, TypeOK,
         RecordsCurrent, AnchorStep, Started, Latest, CommitStep
    <2>5. ReportsFinal'
      BY <1>RecordRecovery DEF RecordRecovery, Recovering, GoTo, TypeOK,
         ReportsFinal, RecordsCurrent, CommitsComplete, Committing,
         Started, Latest, AnchorStep, CommitStep
    <2> QED
      BY <2>1, <2>2, <2>3, <2>4, <2>5
  <1>StartFails. ASSUME NEW o \in Op, StartFails(o) PROVE CommitInvariant'
    <2>1. VerifiedDestinations'
      BY <1>StartFails DEF StartFails, Live, Fault, Finish, GoTo, TypeOK,
         VerifiedDestinations, CommitsComplete
    <2>2. OwnedOriginals'
      BY <1>StartFails DEF StartFails, Live, Fault, Finish, GoTo, TypeOK,
         OwnedOriginals, Owner, Committing, CommitsComplete, ReportsFinal,
         RecordsCurrent, RejectStep, CommitStep
    <2>3. CommitsComplete'
      BY <1>StartFails DEF StartFails, Live, Fault, Finish, GoTo, TypeOK,
         CommitsComplete, Committing, CommitStep, RecordsCurrent,
         AnchorStep, ReportsFinal
    <2>4. RecordsCurrent'
      BY <1>StartFails DEF StartFails, Live, Fault, Finish, GoTo, TypeOK,
         RecordsCurrent, AnchorStep, Started, Latest, CommitStep
    <2>5. ReportsFinal'
      BY <1>StartFails DEF StartFails, Live, Fault, Finish, GoTo, TypeOK,
         ReportsFinal, RecordsCurrent, CommitsComplete, Committing,
         Started, Latest, AnchorStep, CommitStep
    <2> QED
      BY <2>1, <2>2, <2>3, <2>4, <2>5
  <1>CommitFails. ASSUME NEW o \in Op, CommitFails(o) PROVE CommitInvariant'
    <2>1. VerifiedDestinations'
      BY <1>CommitFails DEF CommitFails, Fault, Reject, GoTo, Advance,
         TypeOK, VerifiedDestinations, CommitsComplete
    <2>2. OwnedOriginals'
      <3>1. \A p \in Op : Owner(p)' => Owner(p)
        BY <1>CommitFails DEF CommitFails, Fault, Reject, GoTo, Advance,
           TypeOK, OwnedOriginals, Owner, Committing, CommitsComplete,
           ReportsFinal, RecordsCurrent, RejectStep, CommitStep
      <3>2. dest' = dest
        BY <1>CommitFails DEF CommitFails
      <3> QED
        BY <3>1, <3>2 DEF OwnedOriginals
    <2>3. CommitsComplete'
      BY <1>CommitFails DEF CommitFails, Fault, Reject, GoTo, Advance,
         TypeOK, CommitsComplete, Committing, CommitStep, RecordsCurrent,
         AnchorStep, ReportsFinal
    <2>4. RecordsCurrent'
      BY <1>CommitFails DEF CommitFails, Fault, Reject, GoTo, Advance,
         TypeOK, RecordsCurrent, AnchorStep, Started, Latest, CommitStep
    <2>5. ReportsFinal'
      <3>1. \A p \in Op : result'[p] = "committed" => result[p] = "committed"
        BY <1>CommitFails DEF CommitFails, Fault, Reject, GoTo, Advance, TypeOK
      <3>2. \A p \in Op : result[p] = "committed" =>
               pc'[p] \in {"done", "stopped", "load", "writeLoaded", "loaded"}
        BY <1>CommitFails DEF CommitFails, Fault, Reject, GoTo, Advance,
           TypeOK, ReportsFinal, CommitStep, AnchorStep, RecoverStep
      <3>3. \A p \in Op : result[p] = "committed" => registration'[p] /\ anchor'[p] = anchor[p]
        BY <1>CommitFails DEF CommitFails, Fault, Reject, GoTo, Advance,
           TypeOK, ReportsFinal, CommitStep, AnchorStep, RecoverStep
      <3>4. journal' = journal
        BY <1>CommitFails DEF CommitFails
      <3> QED
        BY <3>1, <3>2, <3>3, <3>4 DEF ReportsFinal, Started, Latest
    <2> QED
      BY <2>1, <2>2, <2>3, <2>4, <2>5
  <1>AnchorFails. ASSUME NEW o \in Op, AnchorFails(o) PROVE CommitInvariant'
    <2>1. VerifiedDestinations'
      BY <1>AnchorFails DEF AnchorFails, Fault, AnchorRejected, Reject,
         GoTo, Refuse, TypeOK, Halted, VerifiedDestinations,
         CommitsComplete
    <2>2. OwnedOriginals'
      <3>1. \A p \in Op : Owner(p)' => Owner(p)
        BY <1>AnchorFails DEF AnchorFails, Fault, AnchorRejected,
           Reject, GoTo, Refuse, TypeOK, Halted, OwnedOriginals, Owner,
           Committing, CommitsComplete, ReportsFinal, RecordsCurrent,
           RejectStep, CommitStep
      <3>2. dest' = dest
        BY <1>AnchorFails DEF AnchorFails
      <3> QED
        BY <3>1, <3>2 DEF OwnedOriginals
    <2>3. CommitsComplete'
      <3>1. vault = "open" /\ vault' = vault
        BY <1>AnchorFails DEF AnchorFails, AnchorRejected
      <3>2. /\ pc' = [pc EXCEPT ![o] = pc'[o]]
            /\ pc'[o] \in {"removeWork", "done"}
        BY <1>AnchorFails, <3>1 DEF AnchorFails, AnchorRejected, Reject, GoTo,
           TypeOK
      <3>3. UNCHANGED <<memory, exposed, staging, registration>>
        BY <1>AnchorFails DEF AnchorFails
      <3>4. \A p \in Op : pc'[p] = pc[p] \/ pc'[p] \in {"removeWork", "done"}
        BY <3>2 DEF TypeOK
      <3> QED
        BY <3>1, <3>3, <3>4 DEF CommitsComplete, Committing, CommitStep
    <2>4. RecordsCurrent'
      BY <1>AnchorFails DEF AnchorFails, Fault, AnchorRejected, Reject,
         GoTo, Refuse, TypeOK, Halted, RecordsCurrent, AnchorStep,
         Started, Latest, CommitStep
    <2>5. ReportsFinal'
      <3>1. \A p \in Op : result'[p] = "committed" => result[p] = "committed"
        BY <1>AnchorFails DEF AnchorFails, Fault, AnchorRejected,
           Reject, GoTo, Refuse, TypeOK, Halted
      <3>2. \A p \in Op : result[p] = "committed" =>
               pc'[p] \in {"done", "stopped", "load", "writeLoaded", "loaded"}
        BY <1>AnchorFails DEF AnchorFails, Fault, AnchorRejected,
           Reject, GoTo, Refuse, TypeOK, Halted, ReportsFinal
      <3>3. \A p \in Op : result[p] = "committed" => registration'[p] /\ anchor'[p] = anchor[p]
        BY <1>AnchorFails DEF AnchorFails, Fault, AnchorRejected,
           Reject, GoTo, Refuse, TypeOK, Halted, ReportsFinal
      <3>4. journal' = journal
        BY <1>AnchorFails DEF AnchorFails
      <3> QED
        BY <3>1, <3>2, <3>3, <3>4 DEF ReportsFinal, Started, Latest
    <2> QED
      BY <2>1, <2>2, <2>3, <2>4, <2>5
  <1>RemovalFails. ASSUME NEW o \in Op, RemovalFails(o) PROVE CommitInvariant'
    <2>1. VerifiedDestinations'
      BY <1>RemovalFails DEF RemovalFails, Fault, GoTo, AfterRemoval,
         TypeOK, VerifiedDestinations, CommitsComplete
    <2>2. OwnedOriginals'
      BY <1>RemovalFails DEF RemovalFails, Fault, GoTo, AfterRemoval,
         TypeOK, OwnedOriginals, Owner, Committing, CommitsComplete,
         ReportsFinal, RecordsCurrent, RejectStep, CommitStep
    <2>3. CommitsComplete'
      BY <1>RemovalFails DEF RemovalFails, Fault, GoTo, AfterRemoval,
         TypeOK, CommitsComplete, Committing, CommitStep, RecordsCurrent,
         AnchorStep, ReportsFinal
    <2>4. RecordsCurrent'
      BY <1>RemovalFails DEF RemovalFails, Fault, GoTo, AfterRemoval,
         TypeOK, RecordsCurrent, AnchorStep, Started, Latest, CommitStep
    <2>5. ReportsFinal'
      BY <1>RemovalFails DEF RemovalFails, Fault, GoTo, AfterRemoval,
         TypeOK, ReportsFinal, RecordsCurrent, CommitsComplete,
         Committing, Started, Latest, AnchorStep, CommitStep
    <2> QED
      BY <2>1, <2>2, <2>3, <2>4, <2>5
  <1>LastStepFails. ASSUME NEW o \in Op, LastStepFails(o) PROVE CommitInvariant'
    <2>1. VerifiedDestinations'
      BY <1>LastStepFails DEF LastStepFails, Fault, Live, Finish, GoTo,
         Advance, TypeOK, VerifiedDestinations, CommitsComplete
    <2>2. OwnedOriginals'
      <3>1. \A p \in Op : Owner(p)' => Owner(p)
        BY <1>LastStepFails DEF LastStepFails, Fault, Live, Finish,
           GoTo, Advance, TypeOK, OwnedOriginals, Owner, Committing,
           CommitsComplete, ReportsFinal, RecordsCurrent, RejectStep,
           CommitStep
      <3>2. dest' = dest
        BY <1>LastStepFails DEF LastStepFails
      <3> QED
        BY <3>1, <3>2 DEF OwnedOriginals
    <2>3. CommitsComplete'
      <3>1. \A p \in Op : p # o => pc'[p] = pc[p] /\ memory'[p] = memory[p]
        BY <1>LastStepFails DEF LastStepFails, Finish, GoTo, Advance, TypeOK
      <3>2. pc'[o] = "done"
        BY <1>LastStepFails DEF LastStepFails, Finish, GoTo, TypeOK
      <3>3. UNCHANGED <<vault, exposed, registration, staging>>
        BY <1>LastStepFails DEF LastStepFails
      <3>4. vault = "open"
        BY <1>LastStepFails DEF LastStepFails, Live
      <3> QED
        BY <3>1, <3>2, <3>3, <3>4 DEF CommitsComplete, Committing, CommitStep
    <2>4. RecordsCurrent'
      <3>1. \A p \in Op : p # o => pc'[p] = pc[p] /\ memory'[p] = memory[p]
        BY <1>LastStepFails DEF LastStepFails, Finish, GoTo, Advance, TypeOK
      <3>2. pc'[o] = "done"
        BY <1>LastStepFails DEF LastStepFails, Finish, GoTo, TypeOK
      <3>3. UNCHANGED <<journal, anchor>>
        BY <1>LastStepFails DEF LastStepFails
      <3> QED
        BY <3>1, <3>2, <3>3 DEF RecordsCurrent, AnchorStep, Started, Latest
    <2>5. ReportsFinal'
      BY <1>LastStepFails DEF LastStepFails, Fault, Live, Finish, GoTo,
         Advance, TypeOK, ReportsFinal, RecordsCurrent, CommitsComplete,
         Committing, Started, Latest, AnchorStep, CommitStep
    <2> QED
      BY <2>1, <2>2, <2>3, <2>4, <2>5
  <1>RecoveryFails. ASSUME NEW o \in Op, RecoveryFails(o) PROVE CommitInvariant'
    <2>1. VerifiedDestinations'
      BY <1>RecoveryFails DEF RecoveryFails, Fault, Refuse, TypeOK,
         Halted, VerifiedDestinations, CommitsComplete
    <2>2. OwnedOriginals'
      BY <1>RecoveryFails DEF RecoveryFails, Fault, Refuse, TypeOK,
         Halted, OwnedOriginals, Owner, Committing, CommitsComplete,
         ReportsFinal, RecordsCurrent, RejectStep, CommitStep
    <2>3. CommitsComplete'
      BY <1>RecoveryFails DEF RecoveryFails, Fault, Refuse, TypeOK,
         Halted, CommitsComplete, Committing, CommitStep, RecordsCurrent,
         AnchorStep, ReportsFinal
    <2>4. RecordsCurrent'
      BY <1>RecoveryFails DEF RecoveryFails, Fault, Refuse, TypeOK,
         Halted, RecordsCurrent, AnchorStep, Started, Latest, CommitStep
    <2>5. ReportsFinal'
      BY <1>RecoveryFails DEF RecoveryFails, Fault, Refuse, TypeOK,
         Halted, ReportsFinal, RecordsCurrent, CommitsComplete,
         Committing, Started, Latest, AnchorStep, CommitStep
    <2> QED
      BY <2>1, <2>2, <2>3, <2>4, <2>5
  <1>SourceChanges. ASSUME NEW o \in Op, SourceChanges(o) PROVE CommitInvariant'
    <2>1. VerifiedDestinations'
      BY <1>SourceChanges DEF SourceChanges, TypeOK,
         VerifiedDestinations, CommitsComplete
    <2>2. OwnedOriginals'
      BY <1>SourceChanges DEF SourceChanges, TypeOK, OwnedOriginals,
         Owner, Committing, CommitsComplete, ReportsFinal, RecordsCurrent,
         RejectStep, CommitStep
    <2>3. CommitsComplete'
      BY <1>SourceChanges DEF SourceChanges, TypeOK, CommitsComplete,
         Committing, CommitStep, RecordsCurrent, AnchorStep, ReportsFinal
    <2>4. RecordsCurrent'
      BY <1>SourceChanges DEF SourceChanges, TypeOK, RecordsCurrent,
         AnchorStep, Started, Latest, CommitStep
    <2>5. ReportsFinal'
      BY <1>SourceChanges DEF SourceChanges, TypeOK, ReportsFinal,
         RecordsCurrent, CommitsComplete, Committing, Started, Latest,
         AnchorStep, CommitStep
    <2> QED
      BY <2>1, <2>2, <2>3, <2>4, <2>5
  <1>ReadStream. ASSUME NEW r \in Reader, NEW o \in Op, ReadStream(r, o) PROVE CommitInvariant'
    BY <1>ReadStream DEF ReadStream, VerifiedDestinations,
       OwnedOriginals, Owner, Committing, CommitsComplete, RecordsCurrent,
       ReportsFinal, Started, Latest, CommitStep
  <1>AnchorRead. ASSUME NEW r \in Reader, AnchorRead(r) PROVE CommitInvariant'
    BY <1>AnchorRead DEF AnchorRead, TypeOK, VerifiedDestinations,
       OwnedOriginals, Owner, Committing, CommitsComplete, RecordsCurrent,
       ReportsFinal, Started, Latest, CommitStep
  <1>BeginReconcile. ASSUME BeginReconcile PROVE CommitInvariant'
    BY <1>BeginReconcile DEF BeginReconcile, Refuse, Halted, TypeOK,
       VerifiedDestinations, OwnedOriginals, Owner, Committing,
       CommitsComplete, RecordsCurrent, ReportsFinal, Started, Latest,
       CommitStep, AnchorStep, RejectStep
  <1>FinishReconcile. ASSUME FinishReconcile PROVE CommitInvariant'
    BY <1>FinishReconcile DEF FinishReconcile, TypeOK,
       VerifiedDestinations, OwnedOriginals, Owner, Committing,
       CommitsComplete, RecordsCurrent, ReportsFinal, Started, Latest,
       CommitStep, AnchorStep, RejectStep
  <1>Crash. ASSUME Crash PROVE CommitInvariant'
    BY <1>Crash DEF Crash, Halted, TypeOK, VerifiedDestinations,
       OwnedOriginals, Owner, Committing, CommitsComplete, RecordsCurrent,
       ReportsFinal, Started, Latest, CommitStep, AnchorStep, RejectStep
  <1>Damage. ASSUME Damage PROVE CommitInvariant'
    BY <1>Damage DEF Damage, TypeOK
  <1>Stutter. ASSUME UNCHANGED vars PROVE CommitInvariant'
    BY <1>Stutter DEF vars, VerifiedDestinations, OwnedOriginals, Owner,
       Committing, CommitsComplete, RecordsCurrent, ReportsFinal, Started,
       Latest, CommitStep
  <1> QED
    BY <1>Start, <1>VerifySource, <1>RecordCopying, <1>CreateStaging,
       <1>Copy, <1>VerifyStaging, <1>RecordVerified, <1>WritePending,
       <1>Expose, <1>Promote, <1>RecordCommitted, <1>InspectAnchor,
       <1>WriteAnchor, <1>DropStaging, <1>RemoveWork,
       <1>RemoveRegistration, <1>RemoveDestination, <1>RecordFailed,
       <1>LoadStream, <1>WriteLoadedAnchor, <1>RecoverTerminal,
       <1>RecoverUnexposed, <1>RecoverExposed, <1>RecordRecovery,
       <1>StartFails, <1>CommitFails, <1>AnchorFails, <1>RemovalFails,
       <1>LastStepFails, <1>RecoveryFails, <1>SourceChanges,
       <1>ReadStream, <1>AnchorRead, <1>BeginReconcile,
       <1>FinishReconcile, <1>Crash, <1>Damage, <1>Stutter
       DEF Next, Commit, Rejection, Recovery, Failure

(* The strengthening is an invariant until the first damage.                  *)
LEMMA UntilDamage ==
    ASSUME TypeOK, damage = 0 => CommitInvariant, [Next]_vars
    PROVE  damage' = 0 => CommitInvariant'
  <1> SUFFICES ASSUME damage' = 0 PROVE CommitInvariant'
    OBVIOUS
  <1>1. damage = 0
    BY DamageOnlyGrows DEF TypeOK
  <1> QED
    BY <1>1, CommitInductive

(* A reported commit keeps its original, registration and record (commit_one, *)
(* cleanup_rejected_operation, reconcile_vault).                              *)
THEOREM ReportedCommitsArePreserved == Spec => []ReportedCommitIsPreserved
  <1>1. Init => TypeOK /\ (damage = 0 => CommitInvariant)
    BY TypeInit, CommitInit
  <1>2. TypeOK /\ (damage = 0 => CommitInvariant) /\ [Next]_vars
            => TypeOK' /\ (damage = 0 => CommitInvariant)'
    BY TypeStep, UntilDamage
  <1>3. (damage = 0 => CommitInvariant) => ReportedCommitIsPreserved
    BY DEF CommitInvariant, OwnedOriginals, Owner, ReportsFinal,
       ReportedCommitIsPreserved, Preserved
  <1> QED
    BY <1>1, <1>2, <1>3, PTL DEF Spec

(* No step of the program puts bytes that were not verified at a destination  *)
(* (execute_operation).                                                       *)
THEOREM ExposedBytesAreVerified == Spec => []OnlyVerifiedBytesExposed
  <1>1. Init => TypeOK /\ (damage = 0 => CommitInvariant)
    BY TypeInit, CommitInit
  <1>2. TypeOK /\ (damage = 0 => CommitInvariant) /\ [Next]_vars
            => TypeOK' /\ (damage = 0 => CommitInvariant)'
    BY TypeStep, UntilDamage
  <1>3. (damage = 0 => CommitInvariant) => OnlyVerifiedBytesExposed
    BY DEF CommitInvariant, OnlyVerifiedBytesExposed
  <1> QED
    BY <1>1, <1>2, <1>3, PTL DEF Spec

-----------------------------------------------------------------------------
(* A reconciliation opens the Vault only over verified originals.              *)

(* The streams are what the journal makes them. *)
LEMMA SameStreams ==
    ASSUME NEW o \in Op, journal'[o] = journal[o]
    PROVE  /\ Started(o)' = Started(o) /\ Latest(o)' = Latest(o)
           /\ StateOf(o)' = StateOf(o)
  BY DEF Started, Latest, StateOf

(* What a record changes, as far as states go. *)
LEMMA PersistState ==
    ASSUME TypeOK, NEW o \in Op, NEW s \in State, Persist(o, s)
    PROVE  /\ Started(o)' /\ Latest(o)' = memory'[o]
           /\ memory'[o].state = s /\ StateOf(o)' = s
           /\ \A p \in Op \ {o} : memory'[p] = memory[p] /\ journal'[p] = journal[p]
  BY PersistLatest DEF StateOf

(* A halt leaves alone what never started or already ended. *)
LEMMA HaltedIdle ==
    ASSUME NEW o \in Op
    PROVE  /\ Halted[o] \in {"idle", "done", "stopped"}
           /\ Halted[o] \in {"idle", "done"} => Halted[o] = pc[o]
  BY DEF Halted

(* No reconciliation runs after the step, and no operation comes to be idle. *)
LEMMA OutsideReconciliation ==
    ASSUME OpeningInvariant, vault' # "reconciling",
           vault' = "open" \/ \A p \in Op : pc'[p] \in {"idle", "done", "stopped"},
           \A p \in Op : pc'[p] = "idle" => pc[p] = "idle" /\ journal'[p] = journal[p]
    PROVE  OpeningInvariant'
  BY SameStreams DEF OpeningInvariant

(* A reconciliation takes operation o one step further. *)
LEMMA Reconciles ==
    ASSUME OpeningInvariant, NEW o \in Op, vault = "reconciling", vault' = vault,
           dest' = dest,
           \A p \in Op \ {o} : /\ pc'[p] = pc[p] /\ memory'[p] = memory[p]
                               /\ journal'[p] = journal[p]
                               /\ registration'[p] = registration[p],
           pc'[o] # "idle",
           pc'[o] \in AnchorStep \cup {"writeLoaded", "loaded"} => memory'[o].state = StateOf(o)',
           \/ pc'[o] \in AnchorStep \cup {"done"} /\ StateOf(o)' = "Committed"
           \/ pc'[o] = "recordRecovered"
           => Preserved(o)'
    PROVE  OpeningInvariant'
  <1> SUFFICES ASSUME NEW p \in Op
               PROVE  /\ pc'[p] = "idle" => ~Started(p)'
                      /\ vault' \in {"closed", "refused"} => pc'[p] \in {"idle", "done", "stopped"}
                      /\ vault' = "reconciling" =>
                          /\ pc'[p] \in AnchorStep \cup {"writeLoaded", "loaded"} =>
                                memory'[p].state = StateOf(p)'
                          /\ \/ pc'[p] \in AnchorStep \cup {"done"} /\ StateOf(p)' = "Committed"
                             \/ pc'[p] = "recordRecovered"
                             => Preserved(p)'
    BY DEF OpeningInvariant
  <1>1. CASE p = o
    BY <1>1
  <1>2. CASE p # o
    <2>1. Preserved(p)' = Preserved(p)
      BY <1>2 DEF Preserved
    <2>2. Started(p)' = Started(p) /\ StateOf(p)' = StateOf(p)
      BY <1>2, SameStreams
    <2> QED
      BY <1>2, <2>1, <2>2 DEF OpeningInvariant
  <1> QED
    BY <1>1, <1>2

LEMMA OpeningInit == Init => OpeningInvariant
  BY DEF Init, OpeningInvariant, Started

(* OpeningInvariant is inductive, whatever the user damages. *)
LEMMA OpeningStep == TypeOK /\ OpeningInvariant /\ [Next]_vars => OpeningInvariant'
  <1> SUFFICES ASSUME TypeOK, OpeningInvariant, [Next]_vars PROVE OpeningInvariant'
    OBVIOUS
  <1> USE DEF files, audit, budget
  <1>live. ASSUME NEW o \in Op, vault' = "open", \E s \in Step \ {"idle"} : GoTo(o, s),
                  \A p \in Op \ {o} : journal'[p] = journal[p]
           PROVE  OpeningInvariant'
    <2>1. \A p \in Op : pc'[p] = "idle" => p # o /\ pc[p] = "idle"
      BY <1>live DEF GoTo, TypeOK
    <2> QED
      BY <1>live, <2>1, OutsideReconciliation
  <1>halt. ASSUME vault' # "reconciling", pc' = Halted, journal' = journal
           PROVE  OpeningInvariant'
    BY <1>halt, HaltedIdle, OutsideReconciliation
  <1>Start. ASSUME NEW o \in Op, Start(o) PROVE OpeningInvariant'
    BY <1>Start, <1>live, Literals DEF Start, Live, GoTo, TypeOK
  <1>Commit. ASSUME NEW o \in Op,
                    \/ VerifySource(o) \/ CreateStaging(o) \/ Copy(o) \/ VerifyStaging(o)
                    \/ WritePending(o) \/ Expose(o) \/ Promote(o)
             PROVE  OpeningInvariant'
    <2>1. vault' = "open" /\ journal' = journal /\ \E s \in Step \ {"idle"} : GoTo(o, s)
      BY <1>Commit, Literals DEF VerifySource, CreateStaging, Copy, VerifyStaging,
         WritePending, Expose, Promote, Live, Reject, GoTo
    <2> QED
      BY <2>1, <1>live
  <1>Record. ASSUME NEW o \in Op,
                    RecordCopying(o) \/ RecordVerified(o) \/ RecordCommitted(o) \/ RecordFailed(o)
             PROVE  OpeningInvariant'
    <2>1. /\ vault' = "open" /\ \E s \in Step \ {"idle"} : GoTo(o, s)
          /\ \E s \in State : Persist(o, s)
      BY <1>Record, Literals DEF RecordCopying, RecordVerified, RecordCommitted, RecordFailed, Live, GoTo
    <2>2. \A p \in Op \ {o} : journal'[p] = journal[p]
      BY <2>1, PersistState
    <2> QED
      BY <2>1, <2>2, <1>live
  <1>Rejection. ASSUME NEW o \in Op, RemoveWork(o) \/ RemoveRegistration(o) \/ RemoveDestination(o)
                PROVE  OpeningInvariant'
    <2>1. vault' = "open" /\ journal' = journal /\ \E s \in Step \ {"idle"} : GoTo(o, s)
      BY <1>Rejection, Literals DEF RemoveWork, RemoveRegistration, RemoveDestination, Live, GoTo
    <2> QED
      BY <2>1, <1>live
  <1>Failure. ASSUME NEW o \in Op,
                     \/ StartFails(o) \/ CommitFails(o) \/ AnchorFails(o) \/ RemovalFails(o)
                     \/ LastStepFails(o)
              PROVE  OpeningInvariant'
    <2>1. vault' = "open" /\ journal' = journal
      BY <1>Failure DEF StartFails, CommitFails, AnchorFails, AnchorRejected, RemovalFails,
         LastStepFails, Live
    <2>2. \E s \in Step \ {"idle"} : pc' = [pc EXCEPT ![o] = s]
      BY <1>Failure, Literals DEF StartFails, CommitFails, AnchorFails, AnchorRejected, RemovalFails,
         LastStepFails, Live, Finish, Reject, GoTo, AfterRemoval
    <2> QED
      BY <2>1, <2>2, <1>live DEF GoTo
  <1>RecoveryFails. ASSUME NEW o \in Op, RecoveryFails(o) PROVE OpeningInvariant'
    BY <1>RecoveryFails, <1>halt DEF RecoveryFails, Refuse
  (* A caller of persist_terminal_anchor goes on. *)
  <1>anchored. ASSUME NEW o \in Op, pc[o] \in {"anchor", "writeAnchor"}, vault \in {"open", "reconciling"},
                      Anchored(o) \/ AnchorRejected(o) \/ (GoTo(o, "writeAnchor") /\ UNCHANGED vault),
                      UNCHANGED <<memory, journal, registration, dest>>
               PROVE  OpeningInvariant'
    <2>1. CASE vault' = "refused"
      <3>1. pc' = Halted
        BY <2>1, <1>anchored DEF Anchored, AnchorRejected, Refuse, TypeOK
      <3> QED
        BY <2>1, <3>1, <1>anchored, <1>halt
    <2>2. CASE vault' = vault
      <3>1. PICK s \in {"writeAnchor", "dropStaging", "done", "removeWork"} : GoTo(o, s)
        BY <2>2, <1>anchored DEF Anchored, AnchorRejected, Reject, Refuse
      <3>2. s = "done" /\ vault = "reconciling" => memory[o].state # "Committed"
        BY <3>1, <2>2, <1>anchored DEF Anchored, AnchorRejected, Reject, Refuse, GoTo, TypeOK
      <3>2a. s = "removeWork" => vault = "open"
        BY <3>1, <2>2, <1>anchored DEF Anchored, AnchorRejected, Reject, Refuse, GoTo, TypeOK
      <3>3. CASE vault = "open"
        BY <3>1, <3>3, <2>2, <1>anchored, <1>live, Literals
      <3>4. CASE vault = "reconciling"
        <4>1. Preserved(o)' = Preserved(o) /\ StateOf(o)' = StateOf(o)
          BY <1>anchored, SameStreams DEF Preserved
        <4>2. pc'[o] = s /\ \A p \in Op \ {o} : pc'[p] = pc[p]
          BY <3>1 DEF GoTo, TypeOK
        <4>3. memory[o].state = StateOf(o) /\ (StateOf(o) = "Committed" => Preserved(o))
          BY <3>4, <1>anchored DEF OpeningInvariant, AnchorStep
        <4> QED
          BY <2>2, <3>1, <3>2, <3>2a, <3>4, <4>1, <4>2, <4>3, <1>anchored, Reconciles DEF AnchorStep
      <3> QED
        BY <1>anchored, <3>3, <3>4
    <2> QED
      BY <1>anchored, <2>1, <2>2 DEF Anchored, AnchorRejected, Refuse
  <1>InspectAnchor. ASSUME NEW o \in Op, InspectAnchor(o) PROVE OpeningInvariant'
    BY <1>InspectAnchor, <1>anchored DEF InspectAnchor
  <1>WriteAnchor. ASSUME NEW o \in Op, WriteAnchor(o) PROVE OpeningInvariant'
    BY <1>WriteAnchor, <1>anchored DEF WriteAnchor
  <1>DropStaging. ASSUME NEW o \in Op, DropStaging(o) PROVE OpeningInvariant'
    <2>1. CASE vault = "open"
      BY <2>1, <1>DropStaging, <1>live, Literals DEF DropStaging
    <2>2. CASE vault = "reconciling"
      <3>1. Preserved(o)' = Preserved(o) /\ StateOf(o)' = StateOf(o)
        BY <1>DropStaging, SameStreams DEF DropStaging, Preserved
      <3>2. pc'[o] = "done" /\ \A p \in Op \ {o} : pc'[p] = pc[p]
        BY <1>DropStaging DEF DropStaging, GoTo, TypeOK
      <3>3. StateOf(o) = "Committed" => Preserved(o)
        BY <2>2, <1>DropStaging DEF DropStaging, OpeningInvariant, AnchorStep
      <3> QED
        BY <2>2, <3>1, <3>2, <3>3, <1>DropStaging, Reconciles DEF DropStaging, AnchorStep
    <2> QED
      BY <1>DropStaging, <2>1, <2>2 DEF DropStaging
  <1>LoadStream. ASSUME NEW o \in Op, LoadStream(o) PROVE OpeningInvariant'
    <2>1. CASE vault' = "refused"
      BY <2>1, <1>LoadStream, <1>halt DEF LoadStream, Recovering, Refuse
    <2>2. CASE vault' = vault
      <3>1. /\ vault = "reconciling" /\ Started(o)
            /\ memory' = [memory EXCEPT ![o] = Latest(o)]
            /\ \/ pc' = [pc EXCEPT ![o] = "writeLoaded"]
               \/ pc' = [pc EXCEPT ![o] = "loaded"]
            /\ UNCHANGED <<journal, registration, dest>>
        BY <2>2, <1>LoadStream DEF LoadStream, Recovering, Refuse, GoTo
      <3>2. /\ pc'[o] \in {"writeLoaded", "loaded"} /\ memory'[o] = Latest(o)
            /\ \A p \in Op \ {o} : pc'[p] = pc[p] /\ memory'[p] = memory[p]
        BY <3>1 DEF TypeOK
      <3>3. StateOf(o)' = memory'[o].state
        BY <3>1, <3>2, SameStreams DEF StateOf
      <3> QED
        BY <2>2, <3>1, <3>2, <3>3, Reconciles DEF AnchorStep
    <2> QED
      BY <1>LoadStream, <2>1, <2>2 DEF LoadStream, Refuse
  <1>WriteLoadedAnchor. ASSUME NEW o \in Op, WriteLoadedAnchor(o) PROVE OpeningInvariant'
    <2>1. CASE vault' = "refused"
      BY <2>1, <1>WriteLoadedAnchor, <1>halt DEF WriteLoadedAnchor, Recovering, Refuse
    <2>2. CASE vault' = vault
      <3>1. /\ vault = "reconciling" /\ pc[o] = "writeLoaded"
            /\ pc' = [pc EXCEPT ![o] = "loaded"]
            /\ UNCHANGED <<memory, journal, registration, dest>>
        BY <2>2, <1>WriteLoadedAnchor DEF WriteLoadedAnchor, Recovering, Refuse, GoTo
      <3>2. pc'[o] = "loaded" /\ \A p \in Op \ {o} : pc'[p] = pc[p]
        BY <3>1 DEF TypeOK
      <3>3. StateOf(o)' = memory'[o].state
        BY <3>1, SameStreams DEF OpeningInvariant
      <3> QED
        BY <2>2, <3>1, <3>2, <3>3, Reconciles DEF AnchorStep
    <2> QED
      BY <1>WriteLoadedAnchor, <2>1, <2>2 DEF WriteLoadedAnchor, Refuse
  <1>RecoverTerminal. ASSUME NEW o \in Op, RecoverTerminal(o) PROVE OpeningInvariant'
    <2>1. CASE vault' = "refused"
      BY <2>1, <1>RecoverTerminal, <1>halt DEF RecoverTerminal, CanRecover, Recovering, Refuse
    <2>2. CASE vault' = vault
      <3>1. /\ vault = "reconciling" /\ pc[o] = "loaded"
            /\ memory[o].state = "Committed" => Preserved(o)
            /\ pc' = [pc EXCEPT ![o] = "done"]
            /\ UNCHANGED <<memory, journal, registration, dest>>
        BY <2>2, <1>RecoverTerminal DEF RecoverTerminal, CanRecover, Recovering, Refuse, GoTo, Preserved
      <3>2. pc'[o] = "done" /\ \A p \in Op \ {o} : pc'[p] = pc[p]
        BY <3>1 DEF TypeOK
      <3>3. StateOf(o)' = memory[o].state /\ Preserved(o)' = Preserved(o)
        BY <3>1, SameStreams DEF OpeningInvariant, Preserved
      <3> QED
        BY <2>2, <3>1, <3>2, <3>3, Reconciles DEF AnchorStep
    <2> QED
      BY <1>RecoverTerminal, <2>1, <2>2 DEF RecoverTerminal, Refuse
  <1>RecoverUnexposed. ASSUME NEW o \in Op, RecoverUnexposed(o) PROVE OpeningInvariant'
    <2>1. /\ vault = "reconciling" /\ vault' = vault
          /\ pc' = [pc EXCEPT ![o] = "recordAbandoned"]
          /\ UNCHANGED <<memory, journal, dest>>
          /\ registration' = [registration EXCEPT ![o] = FALSE]
      BY <1>RecoverUnexposed DEF RecoverUnexposed, CanRecover, Recovering, GoTo
    <2>2. /\ pc'[o] = "recordAbandoned"
          /\ \A p \in Op \ {o} : pc'[p] = pc[p] /\ registration'[p] = registration[p]
      BY <2>1 DEF TypeOK
    <2> QED
      BY <2>1, <2>2, Reconciles DEF AnchorStep
  <1>RecoverExposed. ASSUME NEW o \in Op, RecoverExposed(o) PROVE OpeningInvariant'
    <2>1. CASE vault' = "refused"
      BY <2>1, <1>RecoverExposed, <1>halt DEF RecoverExposed, CanRecover, Recovering, Refuse
    <2>2. CASE vault' = vault
      <3>1. /\ vault = "reconciling" /\ dest[DestOf[o]] = "good"
            /\ pc' = [pc EXCEPT ![o] = "recordRecovered"]
            /\ registration' = [registration EXCEPT ![o] = TRUE]
            /\ UNCHANGED <<memory, journal, dest>>
        BY <2>2, <1>RecoverExposed DEF RecoverExposed, CanRecover, Recovering, Refuse, GoTo
      <3>2. /\ pc'[o] = "recordRecovered" /\ registration'[o]
            /\ \A p \in Op \ {o} : pc'[p] = pc[p] /\ registration'[p] = registration[p]
        BY <3>1 DEF TypeOK
      <3>3. Preserved(o)'
        BY <3>1, <3>2 DEF Preserved
      <3> QED
        BY <2>2, <3>1, <3>2, <3>3, Reconciles DEF AnchorStep
    <2> QED
      BY <1>RecoverExposed, <2>1, <2>2 DEF RecoverExposed, Refuse
  <1>RecordRecovery. ASSUME NEW o \in Op, RecordRecovery(o) PROVE OpeningInvariant'
    <2>1. PICK s \in State : Persist(o, s) /\ (s = "Committed" => pc[o] = "recordRecovered")
      BY <1>RecordRecovery, Literals DEF RecordRecovery, Recovering
    <2>2. /\ vault = "reconciling" /\ vault' = vault
          /\ pc' = [pc EXCEPT ![o] = "anchor"]
          /\ UNCHANGED <<registration, dest>>
      BY <1>RecordRecovery DEF RecordRecovery, Recovering, GoTo
    <2>3. pc'[o] = "anchor" /\ \A p \in Op \ {o} : pc'[p] = pc[p]
      BY <2>2 DEF TypeOK
    <2>4. /\ memory'[o].state = s /\ StateOf(o)' = s
          /\ \A p \in Op \ {o} : memory'[p] = memory[p] /\ journal'[p] = journal[p]
      BY <2>1, PersistState
    <2>5. s = "Committed" => Preserved(o)'
      BY <2>1, <2>2 DEF OpeningInvariant, Preserved
    <2> QED
      BY <2>2, <2>3, <2>4, <2>5, Reconciles DEF AnchorStep
  <1>Other. ASSUME UNCHANGED <<vault, pc, memory, journal, registration, dest>>
            PROVE  OpeningInvariant'
    BY <1>Other, SameStreams DEF OpeningInvariant, Preserved
  <1>BeginReconcile. ASSUME BeginReconcile PROVE OpeningInvariant'
    <2>1. CASE vault' = "refused"
      BY <2>1, <1>BeginReconcile, <1>halt DEF BeginReconcile, Refuse
    <2>2. CASE vault' = "reconciling"
      <3> SUFFICES ASSUME NEW o \in Op
                   PROVE  /\ pc'[o] = "idle" => ~Started(o)'
                          /\ pc'[o] \notin AnchorStep \cup {"writeLoaded", "loaded", "recordRecovered"}
                          /\ pc'[o] = "done" => StateOf(o)' # "Committed"
        BY <2>2 DEF OpeningInvariant
      <3>1. Started(o)' = Started(o) /\ StateOf(o)' = StateOf(o)
        BY <1>BeginReconcile, SameStreams DEF BeginReconcile
      <3>2. CASE Started(o)
        <4>1. pc'[o] = "load"
          BY <2>2, <3>2, <1>BeginReconcile DEF BeginReconcile, Refuse
        <4> QED
          BY <4>1 DEF AnchorStep
      <3>3. CASE ~Started(o)
        <4>1. pc'[o] = pc[o] /\ StateOf(o) = "None"
          BY <2>2, <3>3, <1>BeginReconcile DEF BeginReconcile, Refuse, StateOf
        <4> QED
          BY <3>1, <3>3, <4>1, <1>BeginReconcile DEF BeginReconcile, OpeningInvariant, AnchorStep
      <3> QED
        BY <3>2, <3>3
    <2> QED
      BY <1>BeginReconcile, <2>1, <2>2 DEF BeginReconcile, Refuse
  <1>FinishReconcile. ASSUME FinishReconcile PROVE OpeningInvariant'
    BY <1>FinishReconcile, OutsideReconciliation DEF FinishReconcile
  <1>Crash. ASSUME Crash PROVE OpeningInvariant'
    BY <1>Crash, <1>halt DEF Crash
  <1>Damage. ASSUME Damage PROVE OpeningInvariant'
    BY <1>Damage, OutsideReconciliation DEF Damage, OpeningInvariant, TypeOK
  <1>SourceChanges. ASSUME NEW o \in Op, SourceChanges(o) PROVE OpeningInvariant'
    BY <1>SourceChanges, <1>Other DEF SourceChanges
  <1>Readers. ASSUME NEW r \in Reader, AnchorRead(r) \/ \E o \in Op : ReadStream(r, o)
              PROVE  OpeningInvariant'
    BY <1>Readers, <1>Other DEF AnchorRead, ReadStream
  <1>Stutter. ASSUME UNCHANGED vars PROVE OpeningInvariant'
    BY <1>Stutter, <1>Other DEF vars
  <1> QED
    BY <1>Start, <1>Commit, <1>Record, <1>Rejection, <1>Failure, <1>RecoveryFails,
       <1>InspectAnchor, <1>WriteAnchor, <1>DropStaging, <1>LoadStream, <1>WriteLoadedAnchor,
       <1>RecoverTerminal, <1>RecoverUnexposed, <1>RecoverExposed, <1>RecordRecovery,
       <1>SourceChanges, <1>Readers, <1>BeginReconcile, <1>FinishReconcile, <1>Crash,
       <1>Damage, <1>Stutter
       DEF Next, Commit, Rejection, Recovery, Failure

(* Only the end of a reconciliation opens the Vault. *)
LEMMA OnlyFinishOpens ==
    ASSUME TypeOK, [Next]_vars, vault = "reconciling", vault' = "open"
    PROVE  FinishReconcile
  BY DEF Next, Commit, Rejection, Recovery, Failure, vars,
     Start, VerifySource, RecordCopying, CreateStaging, Copy,
     VerifyStaging, RecordVerified, WritePending, Expose, Promote,
     RecordCommitted, InspectAnchor, WriteAnchor, DropStaging, RemoveWork,
     RemoveRegistration, RemoveDestination, RecordFailed, LoadStream,
     WriteLoadedAnchor, RecoverTerminal, RecoverUnexposed, RecoverExposed,
     RecordRecovery, StartFails, CommitFails, AnchorFails, RemovalFails,
     LastStepFails, RecoveryFails, SourceChanges, ReadStream, AnchorRead,
     BeginReconcile, Crash, Damage, Live, Recovering, Refuse, CanRecover, Anchored,
     AnchorRejected

(* Whatever crashes, failed file operations, readers and damage came before,  *)
(* a reconciliation opens the Vault only when every operation on record as     *)
(* Committed has its registration and its verified original.                   *)
THEOREM OpeningsAreVerified == Spec => OpeningVerifiesOriginals
  <1> DEFINE Opens == vault = "reconciling" /\ vault' = "open" =>
                          \A o \in Op : StateOf(o) = "Committed" => Preserved(o)
  <1>1. TypeOK /\ OpeningInvariant /\ [Next]_vars => Opens
    <2> SUFFICES ASSUME TypeOK, OpeningInvariant, [Next]_vars,
                        vault = "reconciling", vault' = "open",
                        NEW o \in Op, StateOf(o) = "Committed"
                 PROVE  Preserved(o)
      OBVIOUS
    <2>1. pc[o] \in {"idle", "done"}
      BY OnlyFinishOpens DEF FinishReconcile
    <2>2. pc[o] # "idle"
      BY DEF OpeningInvariant, StateOf
    <2> QED
      BY <2>1, <2>2 DEF OpeningInvariant
  <1>2. Init => TypeOK /\ OpeningInvariant
    BY TypeInit, OpeningInit
  <1>3. TypeOK /\ OpeningInvariant /\ [Next]_vars => TypeOK' /\ OpeningInvariant'
    BY TypeStep, OpeningStep
  <1> QED
    BY <1>1, <1>2, <1>3, PTL DEF Spec, OpeningVerifiesOriginals

-----------------------------------------------------------------------------
(* With crashes alone, the files of the Vault agree with the records.          *)

(* No file operation fails, nobody damages the Vault, and no thread reads its  *)
(* originals: what the run ArchiveCrash assumes.                               *)
CrashesAlone == MaxFaults = 0 /\ MaxDamage = 0 /\ Reader = {}

OperationSound(o) ==
    StreamFollowsStep(o) /\ AnchorIsLast(o) /\ CommitIsBacked(o) /\ LeftoversGone(o)

(* Operation o alone takes a step; it takes no original away, and puts one at  *)
(* its destination only to claim it.                                           *)
LEMMA OneSteps ==
    ASSUME CrashInvariant, NEW o \in Op,
           \A p \in Op \ {o} :
               /\ pc'[p] = pc[p] /\ memory'[p] = memory[p] /\ exposed'[p] = exposed[p]
               /\ journal'[p] = journal[p] /\ anchor'[p] = anchor[p]
               /\ staging'[p] = staging[p] /\ pending'[p] = pending[p]
               /\ registration'[p] = registration[p],
           \A d \in Dest : \/ dest'[d] = dest[d]
                           \/ dest[d] = "absent" /\ d = DestOf[o] /\ Claims(o)',
           Claims(o) /\ dest[DestOf[o]] # "absent" => Claims(o)',
           OperationSound(o)'
    PROVE  CrashInvariant'
  <1>1. ASSUME NEW p \in Op, p # o
        PROVE  OperationSound(p)' /\ (Claims(p) => Claims(p)')
    <2>1. Started(p)' = Started(p) /\ Latest(p)' = Latest(p) /\ StateOf(p)' = StateOf(p)
      BY <1>1, SameStreams
    <2>2. StreamFollowsStep(p) /\ AnchorIsLast(p) /\ CommitIsBacked(p) /\ LeftoversGone(p)
      BY DEF CrashInvariant
    <2>3. dest[DestOf[p]] = "good" => dest'[DestOf[p]] = "good"
      BY DestOfAssumption
    <2>4. StreamFollowsStep(p)' /\ AnchorIsLast(p)' /\ LeftoversGone(p)'
      BY <1>1, <2>1, <2>2 DEF StreamFollowsStep, AnchorIsLast, LeftoversGone
    <2>5. CommitIsBacked(p)'
      BY <1>1, <2>1, <2>2, <2>3 DEF CommitIsBacked, Preserved
    <2>6. Claims(p) => Claims(p)'
      BY <1>1, <2>1 DEF Claims
    <2> QED
      BY <2>4, <2>5, <2>6 DEF OperationSound
  <1>2. \A p \in Op : OperationSound(p)'
    BY <1>1
  <1>3. OriginalsAreClaimed'
    <2> SUFFICES ASSUME NEW d \in Dest, dest'[d] # "absent"
                 PROVE  \E p \in Op : DestOf[p] = d /\ Claims(p)'
      BY DEF OriginalsAreClaimed
    <2>1. CASE dest'[d] = dest[d]
      <3>1. PICK p \in Op : DestOf[p] = d /\ Claims(p)
        BY <2>1 DEF CrashInvariant, OriginalsAreClaimed
      <3>2. Claims(p)'
        BY <2>1, <3>1, <1>1
      <3> QED
        BY <3>1, <3>2
    <2>2. CASE d = DestOf[o] /\ Claims(o)'
      BY <2>2
    <2> QED
      BY <2>1, <2>2
  <1> QED
    BY <1>2, <1>3 DEF CrashInvariant, OperationSound

(* The process stops, or a reconciliation gives up. *)
LEMMA HaltSound ==
    ASSUME CrashInvariant, pc' = Halted,
           UNCHANGED <<memory, journal, anchor, staging, pending, registration, dest>>
    PROVE  CrashInvariant'
  <1>1. ASSUME NEW p \in Op PROVE OperationSound(p)' /\ (Claims(p) => Claims(p)')
    <2>1. Started(p)' = Started(p) /\ Latest(p)' = Latest(p) /\ StateOf(p)' = StateOf(p)
      BY SameStreams
    <2>2. StreamFollowsStep(p) /\ AnchorIsLast(p) /\ CommitIsBacked(p) /\ LeftoversGone(p)
      BY DEF CrashInvariant
    <2>3. pc'[p] = "stopped" \/ (pc[p] \in {"idle", "done"} /\ pc'[p] = pc[p])
      BY DEF Halted
    <2>4. StreamFollowsStep(p)' /\ AnchorIsLast(p)' /\ LeftoversGone(p)'
      BY <2>1, <2>2, <2>3 DEF StreamFollowsStep, AnchorIsLast, LeftoversGone, CommitStep,
         RejectStep, AnchorStep
    <2>5. CommitIsBacked(p)'
      BY <2>1, <2>2, <2>3 DEF CommitIsBacked, Preserved, CommitStep, RejectStep
    <2>6. Claims(p) => Claims(p)'
      BY <2>1, <2>3 DEF Claims, Exposing
    <2> QED
      BY <2>4, <2>5, <2>6 DEF OperationSound
  <1> QED
    BY <1>1 DEF CrashInvariant, OperationSound, OriginalsAreClaimed

LEMMA SameSound ==
    ASSUME CrashInvariant,
           UNCHANGED <<pc, memory, exposed, journal, anchor, staging, pending, registration, dest>>
    PROVE  CrashInvariant'
  BY SameStreams DEF CrashInvariant, StreamFollowsStep, AnchorIsLast, CommitIsBacked,
     LeftoversGone, OriginalsAreClaimed, Claims, Preserved

LEMMA CrashInit == Init => CrashInvariant
  BY DestOfAssumption DEF Init, CrashInvariant, StreamFollowsStep, AnchorIsLast, CommitIsBacked,
     LeftoversGone, OriginalsAreClaimed, Claims, Preserved, Started, StateOf, Terminal, CommitStep,
     RejectStep, AnchorStep

(* CrashInvariant is inductive, with CommitInvariant. *)
LEMMA CrashInductive ==
    ASSUME CrashesAlone, TypeOK, CommitInvariant, CrashInvariant, [Next]_vars
    PROVE  CrashInvariant'
  <1> USE DEF files, audit, budget
  <1>f. ASSUME NEW o \in Op
        PROVE  /\ StreamFollowsStep(o) /\ AnchorIsLast(o) /\ CommitIsBacked(o) /\ LeftoversGone(o)
               /\ StateOf(o) \notin Terminal => anchor[o] = NoAnchor
               /\ DestOf[o] \in Dest
    BY DestOfAssumption DEF CrashInvariant, AnchorIsLast
  (* Operation o takes a step that writes no record. *)
  <1>quiet. ASSUME NEW o \in Op, journal' = journal, memory' = memory,
                   \A p \in Op \ {o} :
                      /\ pc'[p] = pc[p] /\ exposed'[p] = exposed[p] /\ anchor'[p] = anchor[p]
                      /\ staging'[p] = staging[p] /\ pending'[p] = pending[p]
                      /\ registration'[p] = registration[p],
                   dest' = dest,
                   Claims(o) /\ dest[DestOf[o]] # "absent" => Claims(o)',
                   OperationSound(o)'
            PROVE  CrashInvariant'
    BY <1>quiet, OneSteps
  (* Operation o writes a record and goes on to step s. *)
  <1>record. ASSUME NEW o \in Op, NEW t \in State, NEW s \in Step, Persist(o, t), GoTo(o, s),
                    UNCHANGED <<exposed, anchor, staging, pending, registration, dest>>,
                    anchor[o] = NoAnchor, s \notin {"idle", "done", "loaded", "writeLoaded", "dropStaging",
                                                    "recordRecovered", "recordAbandoned"} \cup RejectStep,
                    s \in CommitStep => t \notin Terminal /\ ~registration[o],
                    s \in {"writePending", "expose", "promote", "recordCommitted"} => t = "Verified",
                    s \in {"anchor", "writeAnchor"} =>
                        /\ t \in Terminal
                        /\ t # "Committed" => staging[o] = "absent" /\ ~pending[o],
                    t = "Committed" => Preserved(o),
                    Claims(o) => t = "Committed"
             PROVE  CrashInvariant'
    <2>1. /\ Started(o)' /\ Latest(o)' = memory'[o] /\ memory'[o].state = t /\ StateOf(o)' = t
          /\ \A p \in Op \ {o} : memory'[p] = memory[p] /\ journal'[p] = journal[p]
      BY <1>record, PersistState
    <2>2. pc'[o] = s /\ \A p \in Op \ {o} : pc'[p] = pc[p]
      BY <1>record DEF GoTo, TypeOK
    <2>3. t # "None"
      BY DEF State, Terminal
    <2>4. StreamFollowsStep(o)' /\ AnchorIsLast(o)'
      BY <1>record, <2>1, <2>2, <2>3 DEF StreamFollowsStep, AnchorIsLast, AnchorStep, CommitStep, Terminal
    <2>5. CommitIsBacked(o)'
      BY <1>record, <1>f, <2>1, <2>2 DEF CommitIsBacked, Preserved, CommitStep
    <2>6. LeftoversGone(o)'
      BY <1>record, <2>1, <2>2 DEF LeftoversGone
    <2>7. Claims(o) => Claims(o)'
      BY <1>record, <2>1 DEF Claims
    <2> QED
      BY <1>record, <2>1, <2>2, <2>4, <2>5, <2>6, <2>7, OneSteps DEF OperationSound
  <1>Start. ASSUME NEW o \in Op, Start(o) PROVE CrashInvariant'
    <2>1. /\ pc[o] = "idle" /\ memory[o].state = "Proposed"
          /\ StateOf(o) = "None" /\ anchor[o] = NoAnchor
      BY <1>Start, <1>f DEF Start, Live, StreamFollowsStep, StateOf, Terminal
    <2>2. /\ pc'[o] = "verifySource" /\ journal'[o] = <<memory[o]>>
          /\ \A p \in Op \ {o} : pc'[p] = pc[p] /\ journal'[p] = journal[p]
          /\ UNCHANGED <<memory, exposed, anchor, staging, pending, registration, dest>>
      BY <1>Start DEF Start, Live, GoTo, TypeOK
    <2>3. Started(o)' /\ Latest(o)' = memory[o] /\ StateOf(o)' = "Proposed"
      <3>1. Len(<<memory[o]>>) = 1 /\ <<memory[o]>>[1] = memory[o] /\ <<memory[o]>> # <<>>
        OBVIOUS
      <3> QED
        BY <2>1, <2>2, <3>1 DEF Started, Latest, StateOf
    <2>4. StreamFollowsStep(o)' /\ AnchorIsLast(o)'
      BY <2>1, <2>2, <2>3 DEF StreamFollowsStep, AnchorIsLast, AnchorStep, CommitStep, RejectStep, Terminal
    <2>5. CommitIsBacked(o)'
      BY <2>1, <2>2, <2>3, <1>f DEF CommitIsBacked, Preserved, CommitStep, RejectStep
    <2>6. LeftoversGone(o)' /\ ~Claims(o)
      BY <2>1, <2>2 DEF LeftoversGone, RejectStep, Claims
    <2> QED
      BY <2>2, <2>4, <2>5, <2>6, OneSteps DEF OperationSound
  <1>cc. ASSUME NEW o \in Op
         PROVE  /\ vault = "open" /\ pc[o] = "promote" => dest[DestOf[o]] = "good"
                /\ vault = "open" /\ pc[o] = "recordCommitted" => Preserved(o)
                /\ pc[o] \in {"idle"} \cup (CommitStep \ {"promote", "recordCommitted"}) => ~exposed[o]
                /\ pc[o] = "expose" => staging[o] = "good"
                /\ pc[o] \in AnchorStep \cup {"writeLoaded", "loaded"} =>
                      Started(o) /\ memory[o] = Latest(o) /\ memory[o].state = StateOf(o)
                /\ pc[o] = "dropStaging" => memory[o].state = "Committed" /\ anchor[o] = memory[o]
                /\ memory[o] # NoAnchor /\ dest[DestOf[o]] \in {"absent", "good"}
    BY <1>f, SentinelAssumption DEF CommitInvariant, CommitsComplete, OwnedOriginals, Owner, Committing, RecordsCurrent,
       Preserved, StateOf, TypeOK, VerifiedDestinations, Content
  <1>VerifySource. ASSUME NEW o \in Op, VerifySource(o) PROVE CrashInvariant'
    <2>1. CASE pc' = [pc EXCEPT ![o] = "recordCopying"]
      <3>1. pc'[o] = "recordCopying" /\ \A p \in Op \ {o} : pc'[p] = pc[p]
        BY <2>1 DEF TypeOK
      <3>2. /\ journal' = journal /\ memory' = memory /\ dest' = dest
            /\ \A p \in Op \ {o} :
                  /\ exposed'[p] = exposed[p] /\ anchor'[p] = anchor[p]
                  /\ staging'[p] = staging[p] /\ pending'[p] = pending[p]
                  /\ registration'[p] = registration[p]
        BY <2>1, <1>VerifySource, <1>cc DEF VerifySource, Live, GoTo, Reject, TypeOK
      <3>3. Started(o)' = Started(o) /\ Latest(o)' = Latest(o) /\ StateOf(o)' = StateOf(o)
        BY <3>2, SameStreams
      <3>4. StreamFollowsStep(o)' /\ AnchorIsLast(o)'
        BY <3>1, <3>2, <3>3, <2>1, <1>VerifySource, <1>f, <1>cc DEF VerifySource, Live, GoTo, Reject, TypeOK, StreamFollowsStep, AnchorIsLast, CommitStep, RejectStep, AnchorStep, Terminal
      <3>5. CommitIsBacked(o)'
        BY <3>1, <3>2, <3>3, <2>1, <1>VerifySource, <1>f, <1>cc DEF VerifySource, Live, GoTo, Reject, TypeOK, StreamFollowsStep, CommitIsBacked, Preserved, CommitStep, RejectStep, AnchorStep, Terminal
      <3>6. LeftoversGone(o)'
        BY <3>1, <3>2, <3>3, <2>1, <1>VerifySource, <1>f, <1>cc DEF VerifySource, Live, GoTo, Reject, TypeOK, StreamFollowsStep, AnchorIsLast, LeftoversGone, CommitIsBacked, Preserved, CommitStep, RejectStep, AnchorStep, Terminal
      <3>7. Claims(o) /\ dest[DestOf[o]] # "absent" => Claims(o)'
        BY <3>1, <3>3, <2>1, <1>VerifySource, <1>f, <1>cc DEF VerifySource, Live, GoTo, Reject, StreamFollowsStep, Claims, Exposing, CommitStep, RejectStep, AnchorStep, Terminal
      <3> QED
        BY <3>1, <3>2, <3>4, <3>5, <3>6, <3>7, <1>quiet DEF OperationSound
    <2>2. CASE pc' = [pc EXCEPT ![o] = "removeWork"]
      <3>1. pc'[o] = "removeWork" /\ \A p \in Op \ {o} : pc'[p] = pc[p]
        BY <2>2 DEF TypeOK
      <3>2. /\ journal' = journal /\ memory' = memory /\ dest' = dest
            /\ \A p \in Op \ {o} :
                  /\ exposed'[p] = exposed[p] /\ anchor'[p] = anchor[p]
                  /\ staging'[p] = staging[p] /\ pending'[p] = pending[p]
                  /\ registration'[p] = registration[p]
        BY <2>2, <1>VerifySource, <1>cc DEF VerifySource, Live, GoTo, Reject, TypeOK
      <3>3. Started(o)' = Started(o) /\ Latest(o)' = Latest(o) /\ StateOf(o)' = StateOf(o)
        BY <3>2, SameStreams
      <3>4. StreamFollowsStep(o)' /\ AnchorIsLast(o)'
        BY <3>1, <3>2, <3>3, <2>2, <1>VerifySource, <1>f, <1>cc DEF VerifySource, Live, GoTo, Reject, TypeOK, StreamFollowsStep, AnchorIsLast, CommitStep, RejectStep, AnchorStep, Terminal
      <3>5. CommitIsBacked(o)'
        BY <3>1, <3>2, <3>3, <2>2, <1>VerifySource, <1>f, <1>cc DEF VerifySource, Live, GoTo, Reject, TypeOK, StreamFollowsStep, CommitIsBacked, Preserved, CommitStep, RejectStep, AnchorStep, Terminal
      <3>6. LeftoversGone(o)'
        BY <3>1, <3>2, <3>3, <2>2, <1>VerifySource, <1>f, <1>cc DEF VerifySource, Live, GoTo, Reject, TypeOK, StreamFollowsStep, AnchorIsLast, LeftoversGone, CommitIsBacked, Preserved, CommitStep, RejectStep, AnchorStep, Terminal
      <3>7. Claims(o) /\ dest[DestOf[o]] # "absent" => Claims(o)'
        BY <3>1, <3>3, <2>2, <1>VerifySource, <1>f, <1>cc DEF VerifySource, Live, GoTo, Reject, StreamFollowsStep, Claims, Exposing, CommitStep, RejectStep, AnchorStep, Terminal
      <3> QED
        BY <3>1, <3>2, <3>4, <3>5, <3>6, <3>7, <1>quiet DEF OperationSound
    <2> QED
      BY <1>VerifySource, <1>cc, <2>1, <2>2 DEF VerifySource, Live, GoTo, Reject
  <1>RecordCopying. ASSUME NEW o \in Op, RecordCopying(o) PROVE CrashInvariant'
    <2>1. /\ Persist(o, "Copying") /\ GoTo(o, "createStaging")
          /\ UNCHANGED <<exposed, anchor, staging, pending, registration, dest>>
      BY <1>RecordCopying DEF RecordCopying
    <2>2. /\ vault = "open" /\ pc[o] \in CommitStep \cup RejectStep
          /\ StateOf(o) \notin Terminal /\ anchor[o] = NoAnchor
          /\ pc[o] \in CommitStep \ {"recordCommitted"} => ~registration[o]
      BY <1>RecordCopying, <1>f DEF RecordCopying, Live, StreamFollowsStep, CommitIsBacked, CommitStep, RejectStep
    <2>3. Claims(o) => "Copying" = "Committed"
      BY <2>2, <1>RecordCopying DEF RecordCopying, Live, Claims, Exposing, Terminal
    <2>4. /\ "Copying" = "Failed" => staging[o] = "absent" /\ ~pending[o]
          /\ "Copying" = "Committed" => Preserved(o)
      BY <1>RecordCopying, <1>f, <1>cc DEF RecordCopying, Live, LeftoversGone, RejectStep
    <2> QED
      BY <1>RecordCopying, <2>1, <2>2, <2>3, <2>4, <1>record, Literals DEF RecordCopying, Live, CommitStep, RejectStep, Terminal
  <1>RecordVerified. ASSUME NEW o \in Op, RecordVerified(o) PROVE CrashInvariant'
    <2>1. /\ Persist(o, "Verified") /\ GoTo(o, "writePending")
          /\ UNCHANGED <<exposed, anchor, staging, pending, registration, dest>>
      BY <1>RecordVerified DEF RecordVerified
    <2>2. /\ vault = "open" /\ pc[o] \in CommitStep \cup RejectStep
          /\ StateOf(o) \notin Terminal /\ anchor[o] = NoAnchor
          /\ pc[o] \in CommitStep \ {"recordCommitted"} => ~registration[o]
      BY <1>RecordVerified, <1>f DEF RecordVerified, Live, StreamFollowsStep, CommitIsBacked, CommitStep, RejectStep
    <2>3. Claims(o) => "Verified" = "Committed"
      BY <2>2, <1>RecordVerified DEF RecordVerified, Live, Claims, Exposing, Terminal
    <2>4. /\ "Verified" = "Failed" => staging[o] = "absent" /\ ~pending[o]
          /\ "Verified" = "Committed" => Preserved(o)
      BY <1>RecordVerified, <1>f, <1>cc DEF RecordVerified, Live, LeftoversGone, RejectStep
    <2> QED
      BY <1>RecordVerified, <2>1, <2>2, <2>3, <2>4, <1>record, Literals DEF RecordVerified, Live, CommitStep, RejectStep, Terminal
  <1>RecordFailed. ASSUME NEW o \in Op, RecordFailed(o) PROVE CrashInvariant'
    <2>1. /\ Persist(o, "Failed") /\ GoTo(o, "anchor")
          /\ UNCHANGED <<exposed, anchor, staging, pending, registration, dest>>
      BY <1>RecordFailed DEF RecordFailed
    <2>2. /\ vault = "open" /\ pc[o] \in CommitStep \cup RejectStep
          /\ StateOf(o) \notin Terminal /\ anchor[o] = NoAnchor
          /\ pc[o] \in CommitStep \ {"recordCommitted"} => ~registration[o]
      BY <1>RecordFailed, <1>f DEF RecordFailed, Live, StreamFollowsStep, CommitIsBacked, CommitStep, RejectStep
    <2>3. Claims(o) => "Failed" = "Committed"
      BY <2>2, <1>RecordFailed DEF RecordFailed, Live, Claims, Exposing, Terminal
    <2>4. /\ "Failed" = "Failed" => staging[o] = "absent" /\ ~pending[o]
          /\ "Failed" = "Committed" => Preserved(o)
      BY <1>RecordFailed, <1>f, <1>cc DEF RecordFailed, Live, LeftoversGone, RejectStep
    <2> QED
      BY <1>RecordFailed, <2>1, <2>2, <2>3, <2>4, <1>record, Literals DEF RecordFailed, Live, CommitStep, RejectStep, Terminal
  <1>RecordCommitted. ASSUME NEW o \in Op, RecordCommitted(o) PROVE CrashInvariant'
    <2>1. /\ Persist(o, "Committed") /\ GoTo(o, "anchor")
          /\ UNCHANGED <<exposed, anchor, staging, pending, registration, dest>>
      BY <1>RecordCommitted DEF RecordCommitted
    <2>2. /\ vault = "open" /\ pc[o] \in CommitStep \cup RejectStep
          /\ StateOf(o) \notin Terminal /\ anchor[o] = NoAnchor
          /\ pc[o] \in CommitStep \ {"recordCommitted"} => ~registration[o]
      BY <1>RecordCommitted, <1>f DEF RecordCommitted, Live, StreamFollowsStep, CommitIsBacked, CommitStep, RejectStep
    <2>3. Claims(o) => "Committed" = "Committed"
      BY <2>2, <1>RecordCommitted DEF RecordCommitted, Live, Claims, Exposing, Terminal
    <2>4. /\ "Committed" = "Failed" => staging[o] = "absent" /\ ~pending[o]
          /\ "Committed" = "Committed" => Preserved(o)
      BY <1>RecordCommitted, <1>f, <1>cc DEF RecordCommitted, Live, LeftoversGone, RejectStep
    <2> QED
      BY <1>RecordCommitted, <2>1, <2>2, <2>3, <2>4, <1>record, Literals DEF RecordCommitted, Live, CommitStep, RejectStep, Terminal
  <1>CreateStaging. ASSUME NEW o \in Op, CreateStaging(o) PROVE CrashInvariant'
    <2>1. CASE pc' = [pc EXCEPT ![o] = "copy"]
      <3>1. pc'[o] = "copy" /\ \A p \in Op \ {o} : pc'[p] = pc[p]
        BY <2>1 DEF TypeOK
      <3>2. /\ journal' = journal /\ memory' = memory /\ dest' = dest
            /\ \A p \in Op \ {o} :
                  /\ exposed'[p] = exposed[p] /\ anchor'[p] = anchor[p]
                  /\ staging'[p] = staging[p] /\ pending'[p] = pending[p]
                  /\ registration'[p] = registration[p]
        BY <2>1, <1>CreateStaging, <1>cc DEF CreateStaging, Live, GoTo, TypeOK
      <3>3. Started(o)' = Started(o) /\ Latest(o)' = Latest(o) /\ StateOf(o)' = StateOf(o)
        BY <3>2, SameStreams
      <3>4. StreamFollowsStep(o)' /\ AnchorIsLast(o)'
        BY <3>1, <3>2, <3>3, <2>1, <1>CreateStaging, <1>f, <1>cc DEF CreateStaging, Live, GoTo, TypeOK, StreamFollowsStep, AnchorIsLast, CommitStep, RejectStep, AnchorStep, Terminal
      <3>5. CommitIsBacked(o)'
        BY <3>1, <3>2, <3>3, <2>1, <1>CreateStaging, <1>f, <1>cc DEF CreateStaging, Live, GoTo, TypeOK, StreamFollowsStep, CommitIsBacked, Preserved, CommitStep, RejectStep, AnchorStep, Terminal
      <3>6. LeftoversGone(o)'
        BY <3>1, <3>2, <3>3, <2>1, <1>CreateStaging, <1>f, <1>cc DEF CreateStaging, Live, GoTo, TypeOK, StreamFollowsStep, AnchorIsLast, LeftoversGone, CommitIsBacked, Preserved, CommitStep, RejectStep, AnchorStep, Terminal
      <3>7. Claims(o) /\ dest[DestOf[o]] # "absent" => Claims(o)'
        BY <3>1, <3>3, <2>1, <1>CreateStaging, <1>f, <1>cc DEF CreateStaging, Live, GoTo, StreamFollowsStep, Claims, Exposing, CommitStep, RejectStep, AnchorStep, Terminal
      <3> QED
        BY <3>1, <3>2, <3>4, <3>5, <3>6, <3>7, <1>quiet DEF OperationSound
    <2> QED
      BY <1>CreateStaging, <1>cc, <2>1 DEF CreateStaging, Live, GoTo
  <1>Copy. ASSUME NEW o \in Op, Copy(o) PROVE CrashInvariant'
    <2>1. CASE pc' = [pc EXCEPT ![o] = "verifyStaging"]
      <3>1. pc'[o] = "verifyStaging" /\ \A p \in Op \ {o} : pc'[p] = pc[p]
        BY <2>1 DEF TypeOK
      <3>2. /\ journal' = journal /\ memory' = memory /\ dest' = dest
            /\ \A p \in Op \ {o} :
                  /\ exposed'[p] = exposed[p] /\ anchor'[p] = anchor[p]
                  /\ staging'[p] = staging[p] /\ pending'[p] = pending[p]
                  /\ registration'[p] = registration[p]
        BY <2>1, <1>Copy, <1>cc DEF Copy, Live, GoTo, TypeOK
      <3>3. Started(o)' = Started(o) /\ Latest(o)' = Latest(o) /\ StateOf(o)' = StateOf(o)
        BY <3>2, SameStreams
      <3>4. StreamFollowsStep(o)' /\ AnchorIsLast(o)'
        BY <3>1, <3>2, <3>3, <2>1, <1>Copy, <1>f, <1>cc DEF Copy, Live, GoTo, TypeOK, StreamFollowsStep, AnchorIsLast, CommitStep, RejectStep, AnchorStep, Terminal
      <3>5. CommitIsBacked(o)'
        BY <3>1, <3>2, <3>3, <2>1, <1>Copy, <1>f, <1>cc DEF Copy, Live, GoTo, TypeOK, StreamFollowsStep, CommitIsBacked, Preserved, CommitStep, RejectStep, AnchorStep, Terminal
      <3>6. LeftoversGone(o)'
        BY <3>1, <3>2, <3>3, <2>1, <1>Copy, <1>f, <1>cc DEF Copy, Live, GoTo, TypeOK, StreamFollowsStep, AnchorIsLast, LeftoversGone, CommitIsBacked, Preserved, CommitStep, RejectStep, AnchorStep, Terminal
      <3>7. Claims(o) /\ dest[DestOf[o]] # "absent" => Claims(o)'
        BY <3>1, <3>3, <2>1, <1>Copy, <1>f, <1>cc DEF Copy, Live, GoTo, StreamFollowsStep, Claims, Exposing, CommitStep, RejectStep, AnchorStep, Terminal
      <3> QED
        BY <3>1, <3>2, <3>4, <3>5, <3>6, <3>7, <1>quiet DEF OperationSound
    <2> QED
      BY <1>Copy, <1>cc, <2>1 DEF Copy, Live, GoTo
  <1>VerifyStaging. ASSUME NEW o \in Op, VerifyStaging(o) PROVE CrashInvariant'
    <2>1. CASE pc' = [pc EXCEPT ![o] = "recordVerified"]
      <3>1. pc'[o] = "recordVerified" /\ \A p \in Op \ {o} : pc'[p] = pc[p]
        BY <2>1 DEF TypeOK
      <3>2. /\ journal' = journal /\ memory' = memory /\ dest' = dest
            /\ \A p \in Op \ {o} :
                  /\ exposed'[p] = exposed[p] /\ anchor'[p] = anchor[p]
                  /\ staging'[p] = staging[p] /\ pending'[p] = pending[p]
                  /\ registration'[p] = registration[p]
        BY <2>1, <1>VerifyStaging, <1>cc DEF VerifyStaging, Live, GoTo, Reject, TypeOK
      <3>3. Started(o)' = Started(o) /\ Latest(o)' = Latest(o) /\ StateOf(o)' = StateOf(o)
        BY <3>2, SameStreams
      <3>4. StreamFollowsStep(o)' /\ AnchorIsLast(o)'
        BY <3>1, <3>2, <3>3, <2>1, <1>VerifyStaging, <1>f, <1>cc DEF VerifyStaging, Live, GoTo, Reject, TypeOK, StreamFollowsStep, AnchorIsLast, CommitStep, RejectStep, AnchorStep, Terminal
      <3>5. CommitIsBacked(o)'
        BY <3>1, <3>2, <3>3, <2>1, <1>VerifyStaging, <1>f, <1>cc DEF VerifyStaging, Live, GoTo, Reject, TypeOK, StreamFollowsStep, CommitIsBacked, Preserved, CommitStep, RejectStep, AnchorStep, Terminal
      <3>6. LeftoversGone(o)'
        BY <3>1, <3>2, <3>3, <2>1, <1>VerifyStaging, <1>f, <1>cc DEF VerifyStaging, Live, GoTo, Reject, TypeOK, StreamFollowsStep, AnchorIsLast, LeftoversGone, CommitIsBacked, Preserved, CommitStep, RejectStep, AnchorStep, Terminal
      <3>7. Claims(o) /\ dest[DestOf[o]] # "absent" => Claims(o)'
        BY <3>1, <3>3, <2>1, <1>VerifyStaging, <1>f, <1>cc DEF VerifyStaging, Live, GoTo, Reject, StreamFollowsStep, Claims, Exposing, CommitStep, RejectStep, AnchorStep, Terminal
      <3> QED
        BY <3>1, <3>2, <3>4, <3>5, <3>6, <3>7, <1>quiet DEF OperationSound
    <2>2. CASE pc' = [pc EXCEPT ![o] = "removeWork"]
      <3>1. pc'[o] = "removeWork" /\ \A p \in Op \ {o} : pc'[p] = pc[p]
        BY <2>2 DEF TypeOK
      <3>2. /\ journal' = journal /\ memory' = memory /\ dest' = dest
            /\ \A p \in Op \ {o} :
                  /\ exposed'[p] = exposed[p] /\ anchor'[p] = anchor[p]
                  /\ staging'[p] = staging[p] /\ pending'[p] = pending[p]
                  /\ registration'[p] = registration[p]
        BY <2>2, <1>VerifyStaging, <1>cc DEF VerifyStaging, Live, GoTo, Reject, TypeOK
      <3>3. Started(o)' = Started(o) /\ Latest(o)' = Latest(o) /\ StateOf(o)' = StateOf(o)
        BY <3>2, SameStreams
      <3>4. StreamFollowsStep(o)' /\ AnchorIsLast(o)'
        BY <3>1, <3>2, <3>3, <2>2, <1>VerifyStaging, <1>f, <1>cc DEF VerifyStaging, Live, GoTo, Reject, TypeOK, StreamFollowsStep, AnchorIsLast, CommitStep, RejectStep, AnchorStep, Terminal
      <3>5. CommitIsBacked(o)'
        BY <3>1, <3>2, <3>3, <2>2, <1>VerifyStaging, <1>f, <1>cc DEF VerifyStaging, Live, GoTo, Reject, TypeOK, StreamFollowsStep, CommitIsBacked, Preserved, CommitStep, RejectStep, AnchorStep, Terminal
      <3>6. LeftoversGone(o)'
        BY <3>1, <3>2, <3>3, <2>2, <1>VerifyStaging, <1>f, <1>cc DEF VerifyStaging, Live, GoTo, Reject, TypeOK, StreamFollowsStep, AnchorIsLast, LeftoversGone, CommitIsBacked, Preserved, CommitStep, RejectStep, AnchorStep, Terminal
      <3>7. Claims(o) /\ dest[DestOf[o]] # "absent" => Claims(o)'
        BY <3>1, <3>3, <2>2, <1>VerifyStaging, <1>f, <1>cc DEF VerifyStaging, Live, GoTo, Reject, StreamFollowsStep, Claims, Exposing, CommitStep, RejectStep, AnchorStep, Terminal
      <3> QED
        BY <3>1, <3>2, <3>4, <3>5, <3>6, <3>7, <1>quiet DEF OperationSound
    <2> QED
      BY <1>VerifyStaging, <1>cc, <2>1, <2>2 DEF VerifyStaging, Live, GoTo, Reject
  <1>WritePending. ASSUME NEW o \in Op, WritePending(o) PROVE CrashInvariant'
    <2>1. CASE pc' = [pc EXCEPT ![o] = "expose"]
      <3>1. pc'[o] = "expose" /\ \A p \in Op \ {o} : pc'[p] = pc[p]
        BY <2>1 DEF TypeOK
      <3>2. /\ journal' = journal /\ memory' = memory /\ dest' = dest
            /\ \A p \in Op \ {o} :
                  /\ exposed'[p] = exposed[p] /\ anchor'[p] = anchor[p]
                  /\ staging'[p] = staging[p] /\ pending'[p] = pending[p]
                  /\ registration'[p] = registration[p]
        BY <2>1, <1>WritePending, <1>cc DEF WritePending, Live, GoTo, TypeOK
      <3>3. Started(o)' = Started(o) /\ Latest(o)' = Latest(o) /\ StateOf(o)' = StateOf(o)
        BY <3>2, SameStreams
      <3>4. StreamFollowsStep(o)' /\ AnchorIsLast(o)'
        BY <3>1, <3>2, <3>3, <2>1, <1>WritePending, <1>f, <1>cc DEF WritePending, Live, GoTo, TypeOK, StreamFollowsStep, AnchorIsLast, CommitStep, RejectStep, AnchorStep, Terminal
      <3>5. CommitIsBacked(o)'
        BY <3>1, <3>2, <3>3, <2>1, <1>WritePending, <1>f, <1>cc DEF WritePending, Live, GoTo, TypeOK, StreamFollowsStep, CommitIsBacked, Preserved, CommitStep, RejectStep, AnchorStep, Terminal
      <3>6. LeftoversGone(o)'
        BY <3>1, <3>2, <3>3, <2>1, <1>WritePending, <1>f, <1>cc DEF WritePending, Live, GoTo, TypeOK, StreamFollowsStep, AnchorIsLast, LeftoversGone, CommitIsBacked, Preserved, CommitStep, RejectStep, AnchorStep, Terminal
      <3>7. Claims(o) /\ dest[DestOf[o]] # "absent" => Claims(o)'
        BY <3>1, <3>3, <2>1, <1>WritePending, <1>f, <1>cc DEF WritePending, Live, GoTo, StreamFollowsStep, Claims, Exposing, CommitStep, RejectStep, AnchorStep, Terminal
      <3> QED
        BY <3>1, <3>2, <3>4, <3>5, <3>6, <3>7, <1>quiet DEF OperationSound
    <2> QED
      BY <1>WritePending, <1>cc, <2>1 DEF WritePending, Live, GoTo
  <1>Expose. ASSUME NEW o \in Op, Expose(o) PROVE CrashInvariant'
    <2>0. /\ pc[o] = "expose" /\ StateOf(o) = "Verified" /\ anchor[o] = NoAnchor /\ ~registration[o]
          /\ staging[o] = "good" /\ ~exposed[o]
          /\ journal' = journal /\ memory' = memory
          /\ UNCHANGED <<anchor, staging, pending, registration>>
      BY <1>Expose, <1>f, <1>cc DEF Expose, Live, StreamFollowsStep, CommitIsBacked, CommitStep, Terminal
    <2>1. Started(o)' = Started(o) /\ Latest(o)' = Latest(o) /\ StateOf(o)' = "Verified"
      BY <2>0, SameStreams
    <2>2. CASE dest[DestOf[o]] = "absent"
      <3>1. /\ pc'[o] = "promote" /\ \A p \in Op \ {o} : pc'[p] = pc[p] /\ exposed'[p] = exposed[p]
            /\ \A d \in Dest \ {DestOf[o]} : dest'[d] = dest[d]
        BY <2>2, <1>Expose DEF Expose, GoTo, TypeOK
      <3>2. Claims(o)'
        BY <2>1, <3>1 DEF Claims, Exposing
      <3>3. OperationSound(o)'
        BY <2>0, <2>1, <3>1, <1>f DEF OperationSound, StreamFollowsStep, AnchorIsLast, CommitIsBacked,
           LeftoversGone, Preserved, CommitStep, RejectStep, AnchorStep, Terminal
      <3> QED
        BY <2>0, <2>2, <3>1, <3>2, <3>3, OneSteps
    <2>3. CASE dest[DestOf[o]] # "absent"
      <3>1. /\ pc'[o] = "removeWork" /\ \A p \in Op \ {o} : pc'[p] = pc[p]
            /\ UNCHANGED <<exposed, dest>>
        BY <2>3, <1>Expose DEF Expose, Reject, GoTo, TypeOK
      <3>2. ~Claims(o)
        BY <2>0 DEF Claims, Exposing
      <3>3. OperationSound(o)'
        BY <2>0, <2>1, <3>1, <1>f DEF OperationSound, StreamFollowsStep, AnchorIsLast, CommitIsBacked,
           LeftoversGone, Preserved, CommitStep, RejectStep, AnchorStep, Terminal
      <3> QED
        BY <2>0, <3>1, <3>2, <3>3, <1>quiet
    <2> QED
      BY <2>2, <2>3
  <1>Promote. ASSUME NEW o \in Op, Promote(o) PROVE CrashInvariant'
    <2>1. CASE pc' = [pc EXCEPT ![o] = "recordCommitted"]
      <3>1. pc'[o] = "recordCommitted" /\ \A p \in Op \ {o} : pc'[p] = pc[p]
        BY <2>1 DEF TypeOK
      <3>2. /\ journal' = journal /\ memory' = memory /\ dest' = dest
            /\ \A p \in Op \ {o} :
                  /\ exposed'[p] = exposed[p] /\ anchor'[p] = anchor[p]
                  /\ staging'[p] = staging[p] /\ pending'[p] = pending[p]
                  /\ registration'[p] = registration[p]
        BY <2>1, <1>Promote, <1>cc DEF Promote, Live, GoTo, TypeOK
      <3>3. Started(o)' = Started(o) /\ Latest(o)' = Latest(o) /\ StateOf(o)' = StateOf(o)
        BY <3>2, SameStreams
      <3>4. StreamFollowsStep(o)' /\ AnchorIsLast(o)'
        BY <3>1, <3>2, <3>3, <2>1, <1>Promote, <1>f, <1>cc DEF Promote, Live, GoTo, TypeOK, StreamFollowsStep, AnchorIsLast, CommitStep, RejectStep, AnchorStep, Terminal
      <3>5. CommitIsBacked(o)'
        BY <3>1, <3>2, <3>3, <2>1, <1>Promote, <1>f, <1>cc DEF Promote, Live, GoTo, TypeOK, StreamFollowsStep, CommitIsBacked, Preserved, CommitStep, RejectStep, AnchorStep, Terminal
      <3>6. LeftoversGone(o)'
        BY <3>1, <3>2, <3>3, <2>1, <1>Promote, <1>f, <1>cc DEF Promote, Live, GoTo, TypeOK, StreamFollowsStep, AnchorIsLast, LeftoversGone, CommitIsBacked, Preserved, CommitStep, RejectStep, AnchorStep, Terminal
      <3>7. Claims(o) /\ dest[DestOf[o]] # "absent" => Claims(o)'
        BY <3>1, <3>3, <2>1, <1>Promote, <1>f, <1>cc DEF Promote, Live, GoTo, StreamFollowsStep, Claims, Exposing, CommitStep, RejectStep, AnchorStep, Terminal
      <3> QED
        BY <3>1, <3>2, <3>4, <3>5, <3>6, <3>7, <1>quiet DEF OperationSound
    <2> QED
      BY <1>Promote, <1>cc, <2>1 DEF Promote, Live, GoTo
  <1>na. ASSUME NEW o \in Op, pc[o] \in {"anchor", "writeAnchor"}
         PROVE  anchor[o] = NoAnchor /\ anchor[o] # memory[o]
    BY <1>na, <1>f, <1>cc DEF AnchorIsLast
  <1>InspectAnchor. ASSUME NEW o \in Op, InspectAnchor(o) PROVE CrashInvariant'
    <2>1. CASE pc' = [pc EXCEPT ![o] = "writeAnchor"]
      <3>1. pc'[o] = "writeAnchor" /\ \A p \in Op \ {o} : pc'[p] = pc[p]
        BY <2>1 DEF TypeOK
      <3>2. /\ journal' = journal /\ memory' = memory /\ dest' = dest
            /\ \A p \in Op \ {o} :
                  /\ exposed'[p] = exposed[p] /\ anchor'[p] = anchor[p]
                  /\ staging'[p] = staging[p] /\ pending'[p] = pending[p]
                  /\ registration'[p] = registration[p]
        BY <2>1, <1>InspectAnchor, <1>cc, <1>na DEF InspectAnchor, GoTo, TypeOK
      <3>3. Started(o)' = Started(o) /\ Latest(o)' = Latest(o) /\ StateOf(o)' = StateOf(o)
        BY <3>2, SameStreams
      <3>4. StreamFollowsStep(o)' /\ AnchorIsLast(o)'
        BY <3>1, <3>2, <3>3, <2>1, <1>InspectAnchor, <1>f, <1>cc, <1>na DEF InspectAnchor, GoTo, TypeOK, StreamFollowsStep, AnchorIsLast, CommitStep, RejectStep, AnchorStep, Terminal
      <3>5. CommitIsBacked(o)'
        BY <3>1, <3>2, <3>3, <2>1, <1>InspectAnchor, <1>f, <1>cc, <1>na DEF InspectAnchor, GoTo, TypeOK, StreamFollowsStep, CommitIsBacked, Preserved, CommitStep, RejectStep, AnchorStep, Terminal
      <3>6. LeftoversGone(o)'
        BY <3>1, <3>2, <3>3, <2>1, <1>InspectAnchor, <1>f, <1>cc, <1>na DEF InspectAnchor, GoTo, TypeOK, StreamFollowsStep, AnchorIsLast, LeftoversGone, CommitIsBacked, Preserved, CommitStep, RejectStep, AnchorStep, Terminal
      <3>7. Claims(o) /\ dest[DestOf[o]] # "absent" => Claims(o)'
        BY <3>1, <3>3, <2>1, <1>InspectAnchor, <1>f, <1>cc, <1>na DEF InspectAnchor, GoTo, StreamFollowsStep, Claims, Exposing, CommitStep, RejectStep, AnchorStep, Terminal
      <3> QED
        BY <3>1, <3>2, <3>4, <3>5, <3>6, <3>7, <1>quiet DEF OperationSound
    <2> QED
      BY <1>InspectAnchor, <1>cc, <1>na, <2>1 DEF InspectAnchor, GoTo
  <1>WriteAnchor. ASSUME NEW o \in Op, WriteAnchor(o) PROVE CrashInvariant'
    <2>1. CASE pc' = [pc EXCEPT ![o] = "dropStaging"]
      <3>1. pc'[o] = "dropStaging" /\ \A p \in Op \ {o} : pc'[p] = pc[p]
        BY <2>1 DEF TypeOK
      <3>2. /\ journal' = journal /\ memory' = memory /\ dest' = dest
            /\ \A p \in Op \ {o} :
                  /\ exposed'[p] = exposed[p] /\ anchor'[p] = anchor[p]
                  /\ staging'[p] = staging[p] /\ pending'[p] = pending[p]
                  /\ registration'[p] = registration[p]
        BY <2>1, <1>WriteAnchor, <1>cc, <1>na DEF WriteAnchor, Anchored, GoTo, TypeOK
      <3>3. Started(o)' = Started(o) /\ Latest(o)' = Latest(o) /\ StateOf(o)' = StateOf(o)
        BY <3>2, SameStreams
      <3>4. StreamFollowsStep(o)' /\ AnchorIsLast(o)'
        BY <3>1, <3>2, <3>3, <2>1, <1>WriteAnchor, <1>f, <1>cc, <1>na DEF WriteAnchor, Anchored, GoTo, TypeOK, StreamFollowsStep, AnchorIsLast, CommitStep, RejectStep, AnchorStep, Terminal
      <3>5. CommitIsBacked(o)'
        BY <3>1, <3>2, <3>3, <2>1, <1>WriteAnchor, <1>f, <1>cc, <1>na DEF WriteAnchor, Anchored, GoTo, TypeOK, StreamFollowsStep, CommitIsBacked, Preserved, CommitStep, RejectStep, AnchorStep, Terminal
      <3>6. LeftoversGone(o)'
        BY <3>1, <3>2, <3>3, <2>1, <1>WriteAnchor, <1>f, <1>cc, <1>na DEF WriteAnchor, Anchored, GoTo, TypeOK, StreamFollowsStep, AnchorIsLast, LeftoversGone, CommitIsBacked, Preserved, CommitStep, RejectStep, AnchorStep, Terminal
      <3>7. Claims(o) /\ dest[DestOf[o]] # "absent" => Claims(o)'
        BY <3>1, <3>3, <2>1, <1>WriteAnchor, <1>f, <1>cc, <1>na DEF WriteAnchor, Anchored, GoTo, StreamFollowsStep, Claims, Exposing, CommitStep, RejectStep, AnchorStep, Terminal
      <3> QED
        BY <3>1, <3>2, <3>4, <3>5, <3>6, <3>7, <1>quiet DEF OperationSound
    <2>2. CASE pc' = [pc EXCEPT ![o] = "done"]
      <3>1. pc'[o] = "done" /\ \A p \in Op \ {o} : pc'[p] = pc[p]
        BY <2>2 DEF TypeOK
      <3>2. /\ journal' = journal /\ memory' = memory /\ dest' = dest
            /\ \A p \in Op \ {o} :
                  /\ exposed'[p] = exposed[p] /\ anchor'[p] = anchor[p]
                  /\ staging'[p] = staging[p] /\ pending'[p] = pending[p]
                  /\ registration'[p] = registration[p]
        BY <2>2, <1>WriteAnchor, <1>cc, <1>na DEF WriteAnchor, Anchored, GoTo, TypeOK
      <3>3. Started(o)' = Started(o) /\ Latest(o)' = Latest(o) /\ StateOf(o)' = StateOf(o)
        BY <3>2, SameStreams
      <3>4. StreamFollowsStep(o)' /\ AnchorIsLast(o)'
        BY <3>1, <3>2, <3>3, <2>2, <1>WriteAnchor, <1>f, <1>cc, <1>na DEF WriteAnchor, Anchored, GoTo, TypeOK, StreamFollowsStep, AnchorIsLast, CommitStep, RejectStep, AnchorStep, Terminal
      <3>5. CommitIsBacked(o)'
        BY <3>1, <3>2, <3>3, <2>2, <1>WriteAnchor, <1>f, <1>cc, <1>na DEF WriteAnchor, Anchored, GoTo, TypeOK, StreamFollowsStep, CommitIsBacked, Preserved, CommitStep, RejectStep, AnchorStep, Terminal
      <3>6. LeftoversGone(o)'
        BY <3>1, <3>2, <3>3, <2>2, <1>WriteAnchor, <1>f, <1>cc, <1>na DEF WriteAnchor, Anchored, GoTo, TypeOK, StreamFollowsStep, AnchorIsLast, LeftoversGone, CommitIsBacked, Preserved, CommitStep, RejectStep, AnchorStep, Terminal
      <3>7. Claims(o) /\ dest[DestOf[o]] # "absent" => Claims(o)'
        BY <3>1, <3>3, <2>2, <1>WriteAnchor, <1>f, <1>cc, <1>na DEF WriteAnchor, Anchored, GoTo, StreamFollowsStep, Claims, Exposing, CommitStep, RejectStep, AnchorStep, Terminal
      <3> QED
        BY <3>1, <3>2, <3>4, <3>5, <3>6, <3>7, <1>quiet DEF OperationSound
    <2> QED
      BY <1>WriteAnchor, <1>cc, <1>na, <2>1, <2>2 DEF WriteAnchor, Anchored, GoTo
  <1>ds. ASSUME NEW o \in Op, pc[o] = "dropStaging"
         PROVE  /\ StateOf(o) = "Committed" /\ StateOf(o) \in Terminal
                /\ anchor[o] = Latest(o) /\ ~pending[o]
    <2>1. StateOf(o) = "Committed" /\ anchor[o] = Latest(o)
      BY <1>ds, <1>cc DEF AnchorStep
    <2> QED
      BY <2>1, <1>f DEF CommitIsBacked, Preserved, Terminal
  <1>DropStaging. ASSUME NEW o \in Op, DropStaging(o) PROVE CrashInvariant'
    <2>1. CASE pc' = [pc EXCEPT ![o] = "done"]
      <3>1. pc'[o] = "done" /\ \A p \in Op \ {o} : pc'[p] = pc[p]
        BY <2>1 DEF TypeOK
      <3>2. /\ journal' = journal /\ memory' = memory /\ dest' = dest
            /\ \A p \in Op \ {o} :
                  /\ exposed'[p] = exposed[p] /\ anchor'[p] = anchor[p]
                  /\ staging'[p] = staging[p] /\ pending'[p] = pending[p]
                  /\ registration'[p] = registration[p]
        BY <2>1, <1>DropStaging, <1>cc, <1>ds DEF DropStaging, GoTo, TypeOK
      <3>3. Started(o)' = Started(o) /\ Latest(o)' = Latest(o) /\ StateOf(o)' = StateOf(o)
        BY <3>2, SameStreams
      <3>4. StreamFollowsStep(o)' /\ AnchorIsLast(o)'
        BY <3>1, <3>2, <3>3, <2>1, <1>DropStaging, <1>f, <1>cc, <1>ds DEF DropStaging, GoTo, TypeOK, StreamFollowsStep, AnchorIsLast, CommitStep, RejectStep, AnchorStep, Terminal
      <3>5. CommitIsBacked(o)'
        BY <3>1, <3>2, <3>3, <2>1, <1>DropStaging, <1>f, <1>cc, <1>ds DEF DropStaging, GoTo, TypeOK, StreamFollowsStep, CommitIsBacked, Preserved, CommitStep, RejectStep, AnchorStep, Terminal
      <3>6. LeftoversGone(o)'
        BY <3>1, <3>2, <3>3, <2>1, <1>DropStaging, <1>f, <1>cc, <1>ds DEF DropStaging, GoTo, TypeOK, StreamFollowsStep, AnchorIsLast, LeftoversGone, CommitIsBacked, Preserved, CommitStep, RejectStep, AnchorStep, Terminal
      <3>7. Claims(o) /\ dest[DestOf[o]] # "absent" => Claims(o)'
        BY <3>1, <3>3, <2>1, <1>DropStaging, <1>f, <1>cc, <1>ds DEF DropStaging, GoTo, StreamFollowsStep, Claims, Exposing, CommitStep, RejectStep, AnchorStep, Terminal
      <3> QED
        BY <3>1, <3>2, <3>4, <3>5, <3>6, <3>7, <1>quiet DEF OperationSound
    <2> QED
      BY <1>DropStaging, <1>cc, <1>ds, <2>1 DEF DropStaging, GoTo
  <1>RemoveWork. ASSUME NEW o \in Op, RemoveWork(o) PROVE CrashInvariant'
    <2>1. CASE pc' = [pc EXCEPT ![o] = "removeRegistration"]
      <3>1. pc'[o] = "removeRegistration" /\ \A p \in Op \ {o} : pc'[p] = pc[p]
        BY <2>1 DEF TypeOK
      <3>2. /\ journal' = journal /\ memory' = memory /\ dest' = dest
            /\ \A p \in Op \ {o} :
                  /\ exposed'[p] = exposed[p] /\ anchor'[p] = anchor[p]
                  /\ staging'[p] = staging[p] /\ pending'[p] = pending[p]
                  /\ registration'[p] = registration[p]
        BY <2>1, <1>RemoveWork, <1>cc DEF RemoveWork, Live, GoTo, TypeOK
      <3>3. Started(o)' = Started(o) /\ Latest(o)' = Latest(o) /\ StateOf(o)' = StateOf(o)
        BY <3>2, SameStreams
      <3>4. StreamFollowsStep(o)' /\ AnchorIsLast(o)'
        BY <3>1, <3>2, <3>3, <2>1, <1>RemoveWork, <1>f, <1>cc DEF RemoveWork, Live, GoTo, TypeOK, StreamFollowsStep, AnchorIsLast, CommitStep, RejectStep, AnchorStep, Terminal
      <3>5. CommitIsBacked(o)'
        BY <3>1, <3>2, <3>3, <2>1, <1>RemoveWork, <1>f, <1>cc DEF RemoveWork, Live, GoTo, TypeOK, StreamFollowsStep, CommitIsBacked, Preserved, CommitStep, RejectStep, AnchorStep, Terminal
      <3>6. LeftoversGone(o)'
        BY <3>1, <3>2, <3>3, <2>1, <1>RemoveWork, <1>f, <1>cc DEF RemoveWork, Live, GoTo, TypeOK, StreamFollowsStep, AnchorIsLast, LeftoversGone, CommitIsBacked, Preserved, CommitStep, RejectStep, AnchorStep, Terminal
      <3>7. Claims(o) /\ dest[DestOf[o]] # "absent" => Claims(o)'
        BY <3>1, <3>3, <2>1, <1>RemoveWork, <1>f, <1>cc DEF RemoveWork, Live, GoTo, StreamFollowsStep, Claims, Exposing, CommitStep, RejectStep, AnchorStep, Terminal
      <3> QED
        BY <3>1, <3>2, <3>4, <3>5, <3>6, <3>7, <1>quiet DEF OperationSound
    <2> QED
      BY <1>RemoveWork, <1>cc, <2>1 DEF RemoveWork, Live, GoTo
  <1>RemoveRegistration. ASSUME NEW o \in Op, RemoveRegistration(o) PROVE CrashInvariant'
    <2>1. CASE pc' = [pc EXCEPT ![o] = "removeDestination"]
      <3>1. pc'[o] = "removeDestination" /\ \A p \in Op \ {o} : pc'[p] = pc[p]
        BY <2>1 DEF TypeOK
      <3>2. /\ journal' = journal /\ memory' = memory /\ dest' = dest
            /\ \A p \in Op \ {o} :
                  /\ exposed'[p] = exposed[p] /\ anchor'[p] = anchor[p]
                  /\ staging'[p] = staging[p] /\ pending'[p] = pending[p]
                  /\ registration'[p] = registration[p]
        BY <2>1, <1>RemoveRegistration, <1>cc DEF RemoveRegistration, Live, GoTo, TypeOK
      <3>3. Started(o)' = Started(o) /\ Latest(o)' = Latest(o) /\ StateOf(o)' = StateOf(o)
        BY <3>2, SameStreams
      <3>4. StreamFollowsStep(o)' /\ AnchorIsLast(o)'
        BY <3>1, <3>2, <3>3, <2>1, <1>RemoveRegistration, <1>f, <1>cc DEF RemoveRegistration, Live, GoTo, TypeOK, StreamFollowsStep, AnchorIsLast, CommitStep, RejectStep, AnchorStep, Terminal
      <3>5. CommitIsBacked(o)'
        BY <3>1, <3>2, <3>3, <2>1, <1>RemoveRegistration, <1>f, <1>cc DEF RemoveRegistration, Live, GoTo, TypeOK, StreamFollowsStep, CommitIsBacked, Preserved, CommitStep, RejectStep, AnchorStep, Terminal
      <3>6. LeftoversGone(o)'
        BY <3>1, <3>2, <3>3, <2>1, <1>RemoveRegistration, <1>f, <1>cc DEF RemoveRegistration, Live, GoTo, TypeOK, StreamFollowsStep, AnchorIsLast, LeftoversGone, CommitIsBacked, Preserved, CommitStep, RejectStep, AnchorStep, Terminal
      <3>7. Claims(o) /\ dest[DestOf[o]] # "absent" => Claims(o)'
        BY <3>1, <3>3, <2>1, <1>RemoveRegistration, <1>f, <1>cc DEF RemoveRegistration, Live, GoTo, StreamFollowsStep, Claims, Exposing, CommitStep, RejectStep, AnchorStep, Terminal
      <3> QED
        BY <3>1, <3>2, <3>4, <3>5, <3>6, <3>7, <1>quiet DEF OperationSound
    <2> QED
      BY <1>RemoveRegistration, <1>cc, <2>1 DEF RemoveRegistration, Live, GoTo
  <1>re. ASSUME NEW o \in Op, pc[o] \in RejectStep
         PROVE  ~exposed[o]
    BY <1>re, <1>f DEF CommitIsBacked
  <1>RemoveDestination. ASSUME NEW o \in Op, RemoveDestination(o) PROVE CrashInvariant'
    <2>1. CASE pc' = [pc EXCEPT ![o] = "recordFailed"]
      <3>1. pc'[o] = "recordFailed" /\ \A p \in Op \ {o} : pc'[p] = pc[p]
        BY <2>1 DEF TypeOK
      <3>2. /\ journal' = journal /\ memory' = memory /\ dest' = dest
            /\ \A p \in Op \ {o} :
                  /\ exposed'[p] = exposed[p] /\ anchor'[p] = anchor[p]
                  /\ staging'[p] = staging[p] /\ pending'[p] = pending[p]
                  /\ registration'[p] = registration[p]
        BY <2>1, <1>RemoveDestination, <1>cc, <1>re DEF RemoveDestination, Live, GoTo, TypeOK, RejectStep
      <3>3. Started(o)' = Started(o) /\ Latest(o)' = Latest(o) /\ StateOf(o)' = StateOf(o)
        BY <3>2, SameStreams
      <3>4. StreamFollowsStep(o)' /\ AnchorIsLast(o)'
        BY <3>1, <3>2, <3>3, <2>1, <1>RemoveDestination, <1>f, <1>cc, <1>re DEF RemoveDestination, Live, GoTo, TypeOK, StreamFollowsStep, AnchorIsLast, CommitStep, RejectStep, AnchorStep, Terminal, CommitIsBacked
      <3>5. CommitIsBacked(o)'
        BY <3>1, <3>2, <3>3, <2>1, <1>RemoveDestination, <1>f, <1>cc, <1>re DEF RemoveDestination, Live, GoTo, TypeOK, StreamFollowsStep, CommitIsBacked, Preserved, CommitStep, RejectStep, AnchorStep, Terminal, CommitIsBacked
      <3>6. LeftoversGone(o)'
        BY <3>1, <3>2, <3>3, <2>1, <1>RemoveDestination, <1>f, <1>cc, <1>re DEF RemoveDestination, Live, GoTo, TypeOK, StreamFollowsStep, AnchorIsLast, LeftoversGone, CommitIsBacked, Preserved, CommitStep, RejectStep, AnchorStep, Terminal, CommitIsBacked
      <3>7. Claims(o) /\ dest[DestOf[o]] # "absent" => Claims(o)'
        BY <3>1, <3>3, <2>1, <1>RemoveDestination, <1>f, <1>cc, <1>re DEF RemoveDestination, Live, GoTo, StreamFollowsStep, Claims, Exposing, CommitStep, RejectStep, AnchorStep, Terminal, CommitIsBacked
      <3> QED
        BY <3>1, <3>2, <3>4, <3>5, <3>6, <3>7, <1>quiet DEF OperationSound
    <2> QED
      BY <1>RemoveDestination, <1>cc, <1>re, <2>1 DEF RemoveDestination, Live, GoTo
  <1>LoadStream. ASSUME NEW o \in Op, LoadStream(o) PROVE CrashInvariant'
    <2>1. CASE StreamSound(o)
      <3>1. /\ pc[o] = "load" /\ Started(o)
            /\ pc'[o] = IF anchor[o] = NoAnchor /\ StateOf(o) \in Terminal THEN "writeLoaded" ELSE "loaded"
            /\ \A p \in Op \ {o} : pc'[p] = pc[p] /\ memory'[p] = memory[p]
            /\ UNCHANGED <<exposed, journal, anchor, staging, pending, registration, dest>>
        BY <2>1, <1>LoadStream DEF LoadStream, Recovering, GoTo, TypeOK
      <3>2. Started(o)' = Started(o) /\ Latest(o)' = Latest(o) /\ StateOf(o)' = StateOf(o)
        BY <3>1, SameStreams
      <3>3. OperationSound(o)'
        BY <3>1, <3>2, <1>f DEF OperationSound, StreamFollowsStep, AnchorIsLast, CommitIsBacked,
           LeftoversGone, Preserved, CommitStep, RejectStep, AnchorStep
      <3>4. Claims(o) => Claims(o)'
        BY <3>1, <3>2 DEF Claims, Exposing, Terminal
      <3> QED
        BY <3>1, <3>3, <3>4, OneSteps
    <2>2. CASE ~StreamSound(o)
      BY <2>2, <1>LoadStream, HaltSound DEF LoadStream, Refuse
    <2> QED
      BY <2>1, <2>2
  <1>WriteLoadedAnchor. ASSUME NEW o \in Op, WriteLoadedAnchor(o) PROVE CrashInvariant'
    <2>1. CASE pc' = [pc EXCEPT ![o] = "loaded"]
      <3>1. pc'[o] = "loaded" /\ \A p \in Op \ {o} : pc'[p] = pc[p]
        BY <2>1 DEF TypeOK
      <3>2. /\ journal' = journal /\ memory' = memory /\ dest' = dest
            /\ \A p \in Op \ {o} :
                  /\ exposed'[p] = exposed[p] /\ anchor'[p] = anchor[p]
                  /\ staging'[p] = staging[p] /\ pending'[p] = pending[p]
                  /\ registration'[p] = registration[p]
        BY <2>1, <1>WriteLoadedAnchor, <1>cc DEF WriteLoadedAnchor, Recovering, GoTo, Refuse, TypeOK
      <3>3. Started(o)' = Started(o) /\ Latest(o)' = Latest(o) /\ StateOf(o)' = StateOf(o)
        BY <3>2, SameStreams
      <3>4. StreamFollowsStep(o)' /\ AnchorIsLast(o)'
        BY <3>1, <3>2, <3>3, <2>1, <1>WriteLoadedAnchor, <1>f, <1>cc DEF WriteLoadedAnchor, Recovering, GoTo, Refuse, TypeOK, StreamFollowsStep, AnchorIsLast, CommitStep, RejectStep, AnchorStep, Terminal
      <3>5. CommitIsBacked(o)'
        BY <3>1, <3>2, <3>3, <2>1, <1>WriteLoadedAnchor, <1>f, <1>cc DEF WriteLoadedAnchor, Recovering, GoTo, Refuse, TypeOK, StreamFollowsStep, CommitIsBacked, Preserved, CommitStep, RejectStep, AnchorStep, Terminal
      <3>6. LeftoversGone(o)'
        BY <3>1, <3>2, <3>3, <2>1, <1>WriteLoadedAnchor, <1>f, <1>cc DEF WriteLoadedAnchor, Recovering, GoTo, Refuse, TypeOK, StreamFollowsStep, AnchorIsLast, LeftoversGone, CommitIsBacked, Preserved, CommitStep, RejectStep, AnchorStep, Terminal
      <3>7. Claims(o) /\ dest[DestOf[o]] # "absent" => Claims(o)'
        BY <3>1, <3>3, <2>1, <1>WriteLoadedAnchor, <1>f, <1>cc DEF WriteLoadedAnchor, Recovering, GoTo, Refuse, StreamFollowsStep, Claims, Exposing, CommitStep, RejectStep, AnchorStep, Terminal
      <3> QED
        BY <3>1, <3>2, <3>4, <3>5, <3>6, <3>7, <1>quiet DEF OperationSound
    <2>2. CASE pc' = Halted /\ UNCHANGED <<memory, anchor, staging, pending, registration>>
      BY <2>2, <1>WriteLoadedAnchor, HaltSound DEF WriteLoadedAnchor, Recovering, GoTo, Refuse
    <2> QED
      BY <1>WriteLoadedAnchor, <1>cc, <2>1, <2>2 DEF WriteLoadedAnchor, Recovering, GoTo, Refuse
  <1>RecoverTerminal. ASSUME NEW o \in Op, RecoverTerminal(o) PROVE CrashInvariant'
    <2>1. CASE pc' = [pc EXCEPT ![o] = "done"]
      <3>1. pc'[o] = "done" /\ \A p \in Op \ {o} : pc'[p] = pc[p]
        BY <2>1 DEF TypeOK
      <3>2. /\ journal' = journal /\ memory' = memory /\ dest' = dest
            /\ \A p \in Op \ {o} :
                  /\ exposed'[p] = exposed[p] /\ anchor'[p] = anchor[p]
                  /\ staging'[p] = staging[p] /\ pending'[p] = pending[p]
                  /\ registration'[p] = registration[p]
        BY <2>1, <1>RecoverTerminal, <1>cc DEF RecoverTerminal, CanRecover, Recovering, RemoveLeftovers, GoTo, Refuse, TypeOK
      <3>3. Started(o)' = Started(o) /\ Latest(o)' = Latest(o) /\ StateOf(o)' = StateOf(o)
        BY <3>2, SameStreams
      <3>4. StreamFollowsStep(o)' /\ AnchorIsLast(o)'
        BY <3>1, <3>2, <3>3, <2>1, <1>RecoverTerminal, <1>f, <1>cc DEF RecoverTerminal, CanRecover, Recovering, RemoveLeftovers, GoTo, Refuse, TypeOK, StreamFollowsStep, AnchorIsLast, CommitStep, RejectStep, AnchorStep, Terminal
      <3>5. CommitIsBacked(o)'
        BY <3>1, <3>2, <3>3, <2>1, <1>RecoverTerminal, <1>f, <1>cc DEF RecoverTerminal, CanRecover, Recovering, RemoveLeftovers, GoTo, Refuse, TypeOK, StreamFollowsStep, CommitIsBacked, Preserved, CommitStep, RejectStep, AnchorStep, Terminal
      <3>6. LeftoversGone(o)'
        BY <3>1, <3>2, <3>3, <2>1, <1>RecoverTerminal, <1>f, <1>cc DEF RecoverTerminal, CanRecover, Recovering, RemoveLeftovers, GoTo, Refuse, TypeOK, StreamFollowsStep, AnchorIsLast, LeftoversGone, CommitIsBacked, Preserved, CommitStep, RejectStep, AnchorStep, Terminal
      <3>7. Claims(o) /\ dest[DestOf[o]] # "absent" => Claims(o)'
        BY <3>1, <3>3, <2>1, <1>RecoverTerminal, <1>f, <1>cc DEF RecoverTerminal, CanRecover, Recovering, RemoveLeftovers, GoTo, Refuse, StreamFollowsStep, Claims, Exposing, CommitStep, RejectStep, AnchorStep, Terminal
      <3> QED
        BY <3>1, <3>2, <3>4, <3>5, <3>6, <3>7, <1>quiet DEF OperationSound
    <2>2. CASE pc' = Halted /\ UNCHANGED <<memory, anchor, staging, pending, registration>>
      BY <2>2, <1>RecoverTerminal, HaltSound DEF RecoverTerminal, CanRecover, Recovering, RemoveLeftovers, GoTo, Refuse
    <2> QED
      BY <1>RecoverTerminal, <1>cc, <2>1, <2>2 DEF RecoverTerminal, CanRecover, Recovering, RemoveLeftovers, GoTo, Refuse
  <1>RecoverUnexposed. ASSUME NEW o \in Op, RecoverUnexposed(o) PROVE CrashInvariant'
    <2>1. CASE pc' = [pc EXCEPT ![o] = "recordAbandoned"]
      <3>1. pc'[o] = "recordAbandoned" /\ \A p \in Op \ {o} : pc'[p] = pc[p]
        BY <2>1 DEF TypeOK
      <3>2. /\ journal' = journal /\ memory' = memory /\ dest' = dest
            /\ \A p \in Op \ {o} :
                  /\ exposed'[p] = exposed[p] /\ anchor'[p] = anchor[p]
                  /\ staging'[p] = staging[p] /\ pending'[p] = pending[p]
                  /\ registration'[p] = registration[p]
        BY <2>1, <1>RecoverUnexposed, <1>cc DEF RecoverUnexposed, CanRecover, Recovering, RemoveLeftovers, GoTo, TypeOK
      <3>3. Started(o)' = Started(o) /\ Latest(o)' = Latest(o) /\ StateOf(o)' = StateOf(o)
        BY <3>2, SameStreams
      <3>4. StreamFollowsStep(o)' /\ AnchorIsLast(o)'
        BY <3>1, <3>2, <3>3, <2>1, <1>RecoverUnexposed, <1>f, <1>cc DEF RecoverUnexposed, CanRecover, Recovering, RemoveLeftovers, GoTo, TypeOK, StreamFollowsStep, AnchorIsLast, CommitStep, RejectStep, AnchorStep, Terminal
      <3>5. CommitIsBacked(o)'
        BY <3>1, <3>2, <3>3, <2>1, <1>RecoverUnexposed, <1>f, <1>cc DEF RecoverUnexposed, CanRecover, Recovering, RemoveLeftovers, GoTo, TypeOK, StreamFollowsStep, CommitIsBacked, Preserved, CommitStep, RejectStep, AnchorStep, Terminal
      <3>6. LeftoversGone(o)'
        BY <3>1, <3>2, <3>3, <2>1, <1>RecoverUnexposed, <1>f, <1>cc DEF RecoverUnexposed, CanRecover, Recovering, RemoveLeftovers, GoTo, TypeOK, StreamFollowsStep, AnchorIsLast, LeftoversGone, CommitIsBacked, Preserved, CommitStep, RejectStep, AnchorStep, Terminal
      <3>7. Claims(o) /\ dest[DestOf[o]] # "absent" => Claims(o)'
        BY <3>1, <3>3, <2>1, <1>RecoverUnexposed, <1>f, <1>cc DEF RecoverUnexposed, CanRecover, Recovering, RemoveLeftovers, GoTo, StreamFollowsStep, Claims, Exposing, CommitStep, RejectStep, AnchorStep, Terminal
      <3> QED
        BY <3>1, <3>2, <3>4, <3>5, <3>6, <3>7, <1>quiet DEF OperationSound
    <2> QED
      BY <1>RecoverUnexposed, <1>cc, <2>1 DEF RecoverUnexposed, CanRecover, Recovering, RemoveLeftovers, GoTo
  <1>RecoverExposed. ASSUME NEW o \in Op, RecoverExposed(o) PROVE CrashInvariant'
    <2>1. CASE pc' = [pc EXCEPT ![o] = "recordRecovered"]
      <3>1. pc'[o] = "recordRecovered" /\ \A p \in Op \ {o} : pc'[p] = pc[p]
        BY <2>1 DEF TypeOK
      <3>2. /\ journal' = journal /\ memory' = memory /\ dest' = dest
            /\ \A p \in Op \ {o} :
                  /\ exposed'[p] = exposed[p] /\ anchor'[p] = anchor[p]
                  /\ staging'[p] = staging[p] /\ pending'[p] = pending[p]
                  /\ registration'[p] = registration[p]
        BY <2>1, <1>RecoverExposed, <1>cc DEF RecoverExposed, CanRecover, Recovering, GoTo, Refuse, TypeOK
      <3>3. Started(o)' = Started(o) /\ Latest(o)' = Latest(o) /\ StateOf(o)' = StateOf(o)
        BY <3>2, SameStreams
      <3>4. StreamFollowsStep(o)' /\ AnchorIsLast(o)'
        BY <3>1, <3>2, <3>3, <2>1, <1>RecoverExposed, <1>f, <1>cc DEF RecoverExposed, CanRecover, Recovering, GoTo, Refuse, TypeOK, StreamFollowsStep, AnchorIsLast, CommitStep, RejectStep, AnchorStep, Terminal
      <3>5. CommitIsBacked(o)'
        BY <3>1, <3>2, <3>3, <2>1, <1>RecoverExposed, <1>f, <1>cc DEF RecoverExposed, CanRecover, Recovering, GoTo, Refuse, TypeOK, StreamFollowsStep, CommitIsBacked, Preserved, CommitStep, RejectStep, AnchorStep, Terminal
      <3>6. LeftoversGone(o)'
        BY <3>1, <3>2, <3>3, <2>1, <1>RecoverExposed, <1>f, <1>cc DEF RecoverExposed, CanRecover, Recovering, GoTo, Refuse, TypeOK, StreamFollowsStep, AnchorIsLast, LeftoversGone, CommitIsBacked, Preserved, CommitStep, RejectStep, AnchorStep, Terminal
      <3>7. Claims(o) /\ dest[DestOf[o]] # "absent" => Claims(o)'
        BY <3>1, <3>3, <2>1, <1>RecoverExposed, <1>f, <1>cc DEF RecoverExposed, CanRecover, Recovering, GoTo, Refuse, StreamFollowsStep, Claims, Exposing, CommitStep, RejectStep, AnchorStep, Terminal
      <3> QED
        BY <3>1, <3>2, <3>4, <3>5, <3>6, <3>7, <1>quiet DEF OperationSound
    <2>2. CASE pc' = Halted /\ UNCHANGED <<memory, anchor, staging, pending, registration>>
      BY <2>2, <1>RecoverExposed, HaltSound DEF RecoverExposed, CanRecover, Recovering, GoTo, Refuse
    <2> QED
      BY <1>RecoverExposed, <1>cc, <2>1, <2>2 DEF RecoverExposed, CanRecover, Recovering, GoTo, Refuse
  <1>RecordRecovery. ASSUME NEW o \in Op, RecordRecovery(o) PROVE CrashInvariant'
    <2>1. PICK t \in {"Abandoned", "Committed"} :
             /\ Persist(o, t) /\ GoTo(o, "anchor")
             /\ pc[o] = IF t = "Abandoned" THEN "recordAbandoned" ELSE "recordRecovered"
             /\ UNCHANGED <<exposed, anchor, staging, pending, registration, dest>>
      BY <1>RecordRecovery DEF RecordRecovery, Recovering
    <2>2. StateOf(o) \notin Terminal /\ anchor[o] = NoAnchor
      BY <2>1, <1>f DEF StreamFollowsStep
    <2>3. Claims(o) => t = "Committed"
      BY <2>1, <2>2 DEF Claims, Exposing, Terminal
    <2>4. /\ t = "Abandoned" => staging[o] = "absent" /\ ~pending[o]
          /\ t = "Committed" => Preserved(o)
      BY <2>1, <1>f DEF LeftoversGone, CommitIsBacked
    <2> QED
      BY <2>1, <2>2, <2>3, <2>4, <1>record, Literals DEF CommitStep, RejectStep, Terminal
  <1>Failure. ASSUME NEW o \in Op, Failure(o) PROVE FALSE
    BY <1>Failure DEF Failure, StartFails, CommitFails, AnchorFails, RemovalFails, LastStepFails,
       RecoveryFails, Fault, CrashesAlone, TypeOK
  <1>BeginReconcile. ASSUME BeginReconcile PROVE CrashInvariant'
    <2>1. CASE pc' = Halted
      BY <2>1, <1>BeginReconcile, HaltSound DEF BeginReconcile
    <2>2. CASE pc' = [o \in Op |-> IF Started(o) THEN "load" ELSE pc[o]]
      <3>1. UNCHANGED <<memory, exposed, journal, anchor, staging, pending, registration, dest>>
        BY <1>BeginReconcile DEF BeginReconcile
      <3>2. ASSUME NEW p \in Op PROVE OperationSound(p)' /\ (Claims(p) => Claims(p)')
        <4>1. Started(p)' = Started(p) /\ Latest(p)' = Latest(p) /\ StateOf(p)' = StateOf(p)
          BY <3>1, SameStreams
        <4>2. pc'[p] = "load" \/ pc'[p] = pc[p]
          BY <2>2
        <4>3. StreamFollowsStep(p)' /\ AnchorIsLast(p)' /\ LeftoversGone(p)'
          BY <3>1, <4>1, <4>2, <1>f DEF StreamFollowsStep, AnchorIsLast, LeftoversGone, CommitStep,
             RejectStep, AnchorStep
        <4>4. CommitIsBacked(p)'
          BY <3>1, <4>1, <4>2, <1>f DEF CommitIsBacked, Preserved, CommitStep, RejectStep
        <4>5. Claims(p) => Claims(p)'
          BY <4>1, <4>2 DEF Claims, Exposing
        <4> QED
          BY <4>3, <4>4, <4>5 DEF OperationSound
      <3> QED
        BY <3>1, <3>2 DEF CrashInvariant, OperationSound, OriginalsAreClaimed
    <2> QED
      BY <1>BeginReconcile, <2>1, <2>2 DEF BeginReconcile, Refuse
  <1>FinishReconcile. ASSUME FinishReconcile PROVE CrashInvariant'
    BY <1>FinishReconcile, SameSound DEF FinishReconcile
  <1>Crash. ASSUME Crash PROVE CrashInvariant'
    BY <1>Crash, HaltSound DEF Crash
  <1>SourceChanges. ASSUME NEW o \in Op, SourceChanges(o) PROVE CrashInvariant'
    BY <1>SourceChanges, SameSound DEF SourceChanges
  <1>Damage. ASSUME Damage PROVE FALSE
    BY <1>Damage DEF Damage, CrashesAlone, TypeOK
  <1>Stutter. ASSUME UNCHANGED vars PROVE CrashInvariant'
    BY <1>Stutter, SameSound DEF vars
  <1>1. CASE \E o \in Op : \/ Start(o) \/ Commit(o) \/ Rejection(o) \/ Recovery(o)
                           \/ Failure(o) \/ SourceChanges(o)
    BY <1>1, <1>Start, <1>VerifySource, <1>RecordCopying, <1>CreateStaging,
       <1>Copy, <1>VerifyStaging, <1>RecordVerified, <1>WritePending,
       <1>Expose, <1>Promote, <1>RecordCommitted, <1>InspectAnchor,
       <1>WriteAnchor, <1>DropStaging, <1>RemoveWork,
       <1>RemoveRegistration, <1>RemoveDestination, <1>RecordFailed,
       <1>LoadStream, <1>WriteLoadedAnchor, <1>RecoverTerminal,
       <1>RecoverUnexposed, <1>RecoverExposed, <1>RecordRecovery, <1>Failure, <1>SourceChanges
       DEF Commit, Rejection, Recovery
  <1>2. CASE BeginReconcile \/ FinishReconcile \/ Crash \/ Damage \/ UNCHANGED vars
    BY <1>2, <1>BeginReconcile, <1>FinishReconcile, <1>Crash, <1>Damage, <1>Stutter
  <1>3. Reader = {}
    BY DEF CrashesAlone
  <1> QED
    BY <1>1, <1>2, <1>3 DEF Next

(* The two strengthenings and the types hold together, with crashes alone. *)
CrashSafe == TypeOK /\ CommitInvariant /\ CrashInvariant

LEMMA CrashSafeStep ==
    ASSUME CrashesAlone, CrashSafe, [Next]_vars
    PROVE  CrashSafe'
  <1>1. TypeOK'
    BY TypeStep DEF CrashSafe
  <1>2. damage' = 0
    BY <1>1 DEF TypeOK, CrashesAlone
  <1> QED
    BY <1>1, <1>2, CommitInductive, CrashInductive DEF CrashSafe

(* What CrashSafe says of a Vault in which nothing runs. *)
LEMMA FilesMatch == CrashSafe => FilesMatchRecords
  <1> SUFFICES ASSUME CrashSafe PROVE FilesMatchRecords
    OBVIOUS
  <1>1. ASSUME NEW o \in Op
        PROVE  StreamFollowsStep(o) /\ AnchorIsLast(o) /\ CommitIsBacked(o) /\ LeftoversGone(o)
    BY DEF CrashSafe, CrashInvariant
  <1>2. RegisteredOriginalExists
    BY <1>1 DEF RegisteredOriginalExists, CommitIsBacked
  <1>3. AnchoredCommitIsBacked
    <2> SUFFICES ASSUME NEW o \in Op, anchor[o] # NoAnchor, anchor[o].state = "Committed"
                 PROVE  Preserved(o)
      BY DEF AnchoredCommitIsBacked
    <2>1. anchor[o] = Latest(o) /\ StateOf(o) \in Terminal
      BY <1>1 DEF AnchorIsLast
    <2>2. StateOf(o) = "Committed"
      BY <2>1 DEF StateOf, Terminal
    <2> QED
      BY <1>1, <2>2 DEF CommitIsBacked
  <1>4. NoUnregisteredOriginal
    <2> SUFFICES ASSUME AtRest, NEW d \in Dest, dest[d] # "absent"
                 PROVE  \E o \in Op : DestOf[o] = d /\ registration[o] /\ StateOf(o) = "Committed"
      BY DEF NoUnregisteredOriginal
    <2>1. PICK o \in Op : DestOf[o] = d /\ Claims(o)
      BY DEF CrashSafe, CrashInvariant, OriginalsAreClaimed
    <2>2. StateOf(o) = "Committed"
      BY <2>1 DEF AtRest, Claims, Exposing
    <2> QED
      BY <1>1, <2>1, <2>2 DEF CommitIsBacked, Preserved
  <1>5. NothingLeftUnderway
    <2> SUFFICES ASSUME AtRest, NEW o \in Op, Started(o)
                 PROVE  /\ StateOf(o) \in Terminal /\ anchor[o] = Latest(o)
                        /\ staging[o] = "absent" /\ ~pending[o]
      BY DEF NothingLeftUnderway
    <2>1. pc[o] = "done"
      BY <1>1 DEF AtRest, StreamFollowsStep
    <2> QED
      BY <1>1, <2>1 DEF LeftoversGone
  <1> QED
    BY <1>2, <1>3, <1>4, <1>5 DEF FilesMatchRecords

(* Wherever crashes cut transactions short, and however often, the files of    *)
(* the Vault agree with the records about them, for any number of operations   *)
(* and any sharing of destinations.  Failed file operations, damage and the    *)
(* readers that anchor a stream are excluded: with them it does not hold.      *)
THEOREM CrashesAreRecovered ==
    ASSUME CrashesAlone
    PROVE  Spec => []FilesMatchRecords
  <1>1. Init => CrashSafe
    BY TypeInit, CommitInit, CrashInit DEF CrashSafe
  <1>2. CrashSafe /\ [Next]_vars => CrashSafe'
    BY CrashSafeStep
  <1>3. CrashSafe => FilesMatchRecords
    BY FilesMatch
  <1> QED
    BY <1>1, <1>2, <1>3, PTL DEF Spec

-----------------------------------------------------------------------------
(* With crashes alone, the transaction implements ArchiveLifecycle.            *)

Statuses == [o \in Op |-> Status(o)]
LifecycleStep == [Lifecycle!Next]_<<Statuses, Originals>>

(* What a state on record means to whoever relies on the archive. *)
LEMMA StatusIs ==
    ASSUME NEW o \in Op
    PROVE  /\ StateOf(o) = "None" => Status(o) = "none"
           /\ StateOf(o) = "Committed" => Status(o) = "registered"
           /\ StateOf(o) \in {"Failed", "Abandoned"} => Status(o) = "rejected"
           /\ StateOf(o) \in {"Proposed", "Copying", "Verified"} => Status(o) = "underway"
  BY DEF Status

(* A step that leaves the states and the originals alone does not show. *)
LEMMA Unseen ==
    ASSUME \A p \in Op : StateOf(p)' = StateOf(p), \A d \in Dest : dest'[d] = dest[d]
    PROVE  LifecycleStep
  <1>1. \A p \in Op : Status(p)' = Status(p)
    BY DEF Status
  <1>2. Statuses' = Statuses
    BY <1>1 DEF Statuses
  <1>3. Originals' = Originals
    BY DEF Originals
  <1> QED
    BY <1>2, <1>3 DEF LifecycleStep

LEMMA UnseenStep ==
    ASSUME journal' = journal, dest' = dest
    PROVE  LifecycleStep
  BY SameStreams, Unseen

(* Operation o alone comes to another status. *)
LEMMA StatusMoves ==
    ASSUME NEW o \in Op, \A p \in Op \ {o} : journal'[p] = journal[p]
    PROVE  Statuses' = [Statuses EXCEPT ![o] = Status(o)']
  <1>1. \A p \in Op \ {o} : Status(p)' = Status(p)
    BY SameStreams DEF Status
  <1> QED
    BY <1>1 DEF Statuses

(* A record moves its operation, and only where ArchiveLifecycle allows it. *)
LEMMA RecordShows ==
    ASSUME TypeOK, NEW o \in Op, NEW t \in State, Persist(o, t), dest' = dest,
           StateOf(o) \in {"Proposed", "Copying", "Verified"}, t # "Proposed",
           t = "Committed" => dest[DestOf[o]] = "good"
    PROVE  LifecycleStep
  <1>1. /\ StateOf(o)' = t
        /\ \A p \in Op \ {o} : journal'[p] = journal[p]
    BY PersistState
  <1>2. Originals' = Originals
    BY DEF Originals
  <1>3. Statuses[o] = "underway"
    BY StatusIs DEF Statuses
  <1>4. CASE t \in {"Copying", "Verified"}
    <2>1. Status(o)' = "underway"
      BY <1>1, <1>4 DEF Status
    <2>2. Statuses' = Statuses
      BY <1>1, <1>3, <2>1, StatusMoves DEF Statuses
    <2> QED
      BY <1>2, <2>2 DEF LifecycleStep
  <1>5. CASE t = "Committed"
    <2>1. Status(o)' = "registered"
      BY <1>1, <1>5 DEF Status
    <2>2. Statuses' = [Statuses EXCEPT ![o] = "registered"]
      BY <1>1, <2>1, StatusMoves
    <2>3. DestOf[o] \in Originals
      BY <1>5, DestOfAssumption DEF Originals
    <2>4. Lifecycle!Register(o)
      BY <1>2, <1>3, <2>2, <2>3 DEF Lifecycle!Register, Statuses
    <2> QED
      BY <2>4 DEF LifecycleStep, Lifecycle!Next
  <1>6. CASE t \in {"Failed", "Abandoned"}
    <2>1. Status(o)' = "rejected"
      BY <1>1, <1>6 DEF Status
    <2>2. Statuses' = [Statuses EXCEPT ![o] = "rejected"]
      BY <1>1, <2>1, StatusMoves
    <2>3. Lifecycle!Reject(o)
      BY <1>2, <1>3, <2>2 DEF Lifecycle!Reject, Statuses
    <2> QED
      BY <2>3 DEF LifecycleStep, Lifecycle!Next
  <1> QED
    BY <1>4, <1>5, <1>6 DEF State, Terminal

LEMMA LifecycleInit == Init => Lifecycle!Init
  <1> SUFFICES ASSUME Init PROVE Lifecycle!Init
    OBVIOUS
  <1>1. \A o \in Op : StateOf(o) = "None"
    BY DEF Init, StateOf, Started
  <1>2. Statuses = [o \in Op |-> "none"]
    BY <1>1, StatusIs DEF Statuses
  <1>3. Originals = {}
    BY DEF Init, Originals
  <1> QED
    BY <1>2, <1>3 DEF Lifecycle!Init, Statuses

(* Each step of the transaction is a step of ArchiveLifecycle or none. *)
LEMMA LifecycleSteps ==
    ASSUME CrashesAlone, CrashSafe, [Next]_vars
    PROVE  LifecycleStep
  <1> USE DEF files, audit, budget
  <1>f. ASSUME NEW o \in Op
        PROVE  /\ StreamFollowsStep(o) /\ CommitIsBacked(o)
               /\ (StateOf(o) \notin Terminal \cup {"None"}
                      => StateOf(o) \in {"Proposed", "Copying", "Verified"})
    <2>1. StateOf(o) \in State \cup {"None"}
      BY LatestType DEF CrashSafe, StateOf, Record
    <2> QED
      BY <2>1 DEF CrashSafe, CrashInvariant, State
  <1>Start. ASSUME NEW o \in Op, Start(o) PROVE LifecycleStep
    <2>1. /\ StateOf(o) = "None" /\ memory[o].state = "Proposed" /\ dest' = dest
          /\ journal'[o] = <<memory[o]>>
          /\ \A p \in Op \ {o} : journal'[p] = journal[p]
      BY <1>Start, <1>f DEF Start, Live, StreamFollowsStep, StateOf, CrashSafe, TypeOK
    <2>2. StateOf(o)' = "Proposed"
      <3>1. Len(<<memory[o]>>) = 1 /\ <<memory[o]>>[1] = memory[o] /\ <<memory[o]>> # <<>>
        OBVIOUS
      <3> QED
        BY <2>1, <3>1 DEF Started, Latest, StateOf
    <2>3. Statuses[o] = "none" /\ Status(o)' = "underway"
      BY <2>1, <2>2, StatusIs DEF Statuses, Status
    <2>4. Statuses' = [Statuses EXCEPT ![o] = "underway"] /\ Originals' = Originals
      BY <2>1, <2>3, StatusMoves DEF Originals
    <2>5. Lifecycle!Propose(o)
      BY <2>3, <2>4 DEF Lifecycle!Propose, Statuses
    <2> QED
      BY <2>5 DEF LifecycleStep, Lifecycle!Next
  <1>Expose. ASSUME NEW o \in Op, Expose(o) PROVE LifecycleStep
    <2>1. /\ journal' = journal /\ StateOf(o) = "Verified" /\ staging[o] = "good"
          /\ dest \in [Dest -> Content] /\ DestOf[o] \in Dest
      BY <1>Expose, <1>f, DestOfAssumption DEF Expose, Live, StreamFollowsStep, CrashSafe, CommitInvariant,
         CommitsComplete, TypeOK
    <2>2. CASE dest[DestOf[o]] # "absent"
      BY <2>1, <2>2, <1>Expose, UnseenStep DEF Expose
    <2>3. CASE dest[DestOf[o]] = "absent"
      <3>1. dest' = [dest EXCEPT ![DestOf[o]] = "good"]
        BY <2>1, <2>3, <1>Expose DEF Expose
      <3>2. Originals' = Originals \cup {DestOf[o]} /\ DestOf[o] \notin Originals
        BY <2>1, <2>3, <3>1 DEF Originals
      <3>3. Statuses[o] = "underway" /\ Statuses' = Statuses
        <4>1. \A p \in Op : Status(p)' = Status(p)
          BY <2>1, SameStreams DEF Status
        <4> QED
          BY <2>1, <4>1, StatusIs DEF Statuses
      <3>4. Lifecycle!Expose(o)
        BY <3>2, <3>3 DEF Lifecycle!Expose, Statuses
      <3> QED
        BY <3>4 DEF LifecycleStep, Lifecycle!Next
    <2> QED
      BY <2>2, <2>3
  <1>Record. ASSUME NEW o \in Op,
                    RecordCopying(o) \/ RecordVerified(o) \/ RecordCommitted(o) \/ RecordFailed(o)
             PROVE  LifecycleStep
    <2>1. PICK t \in {"Copying", "Verified", "Committed", "Failed"} :
             Persist(o, t) /\ dest' = dest /\ (t = "Committed" => pc[o] = "recordCommitted" /\ vault = "open")
      BY <1>Record DEF RecordCopying, RecordVerified, RecordCommitted, RecordFailed, Live
    <2>2. pc[o] \in CommitStep \cup RejectStep
      BY <1>Record DEF RecordCopying, RecordVerified, RecordCommitted, RecordFailed, Live, CommitStep, RejectStep
    <2>3. StateOf(o) \in {"Proposed", "Copying", "Verified"}
      BY <1>f, <2>2 DEF StreamFollowsStep
    <2>4. t = "Committed" => dest[DestOf[o]] = "good"
      BY <2>1 DEF CrashSafe, CommitInvariant, CommitsComplete, OwnedOriginals, Owner, Committing
    <2> QED
      BY <2>1, <2>3, <2>4, RecordShows, Literals DEF CrashSafe
  <1>RecordRecovery. ASSUME NEW o \in Op, RecordRecovery(o) PROVE LifecycleStep
    <2>1. PICK t \in {"Abandoned", "Committed"} :
             /\ Persist(o, t) /\ dest' = dest
             /\ pc[o] = IF t = "Abandoned" THEN "recordAbandoned" ELSE "recordRecovered"
      BY <1>RecordRecovery DEF RecordRecovery, Recovering
    <2>2. StateOf(o) \in {"Proposed", "Copying", "Verified"}
      BY <1>f, <2>1 DEF StreamFollowsStep
    <2>3. t = "Committed" => dest[DestOf[o]] = "good"
      BY <1>f, <2>1 DEF CommitIsBacked, Preserved
    <2> QED
      BY <2>1, <2>2, <2>3, RecordShows, Literals DEF CrashSafe
  <1>RemoveDestination. ASSUME NEW o \in Op, RemoveDestination(o) PROVE LifecycleStep
    <2>1. ~exposed[o]
      BY <1>f, <1>RemoveDestination DEF CommitIsBacked, RemoveDestination, Live, RejectStep
    <2> QED
      BY <2>1, <1>RemoveDestination, UnseenStep DEF RemoveDestination
  <1>Other. ASSUME NEW o \in Op,
                   \/ VerifySource(o) \/ CreateStaging(o) \/ Copy(o) \/ VerifyStaging(o)
                   \/ WritePending(o) \/ Promote(o) \/ InspectAnchor(o) \/ WriteAnchor(o)
                   \/ DropStaging(o) \/ RemoveWork(o) \/ RemoveRegistration(o)
                   \/ LoadStream(o) \/ WriteLoadedAnchor(o) \/ RecoverTerminal(o)
                   \/ RecoverUnexposed(o) \/ RecoverExposed(o) \/ SourceChanges(o)
            PROVE  LifecycleStep
    <2>1. journal' = journal /\ dest' = dest
      BY <1>Other DEF VerifySource, CreateStaging, Copy, VerifyStaging, WritePending, Promote,
         InspectAnchor, WriteAnchor, DropStaging, RemoveWork, RemoveRegistration, LoadStream,
         WriteLoadedAnchor, RecoverTerminal, RecoverUnexposed, RecoverExposed, SourceChanges
    <2> QED
      BY <2>1, UnseenStep
  <1>Failure. ASSUME NEW o \in Op, Failure(o) PROVE FALSE
    BY <1>Failure DEF Failure, StartFails, CommitFails, AnchorFails, RemovalFails, LastStepFails,
       RecoveryFails, Fault, CrashesAlone, CrashSafe, TypeOK
  <1>1. CASE \E o \in Op : \/ Start(o) \/ Commit(o) \/ Rejection(o) \/ Recovery(o)
                           \/ Failure(o) \/ SourceChanges(o)
    BY <1>1, <1>Start, <1>Expose, <1>Record, <1>RecordRecovery, <1>RemoveDestination,
       <1>Other, <1>Failure
       DEF Commit, Rejection, Recovery
  <1>2. CASE BeginReconcile \/ FinishReconcile \/ Crash \/ UNCHANGED vars
    BY <1>2, UnseenStep DEF BeginReconcile, FinishReconcile, Crash, vars
  <1>3. Reader = {} /\ ~Damage
    BY DEF CrashesAlone, Damage, CrashSafe, TypeOK
  <1> QED
    BY <1>1, <1>2, <1>3 DEF Next

(* The archive keeps its promise across crashes: an operation is registered    *)
(* only while its verified original is visible, neither is ever taken back,    *)
(* and no crash or interleaving shows in between.                              *)
THEOREM TransactionsKeepThePromise ==
    ASSUME CrashesAlone
    PROVE  Spec => ImplementsLifecycle
  <1>1. Init => CrashSafe /\ Lifecycle!Init
    BY TypeInit, CommitInit, CrashInit, LifecycleInit DEF CrashSafe
  <1>2. CrashSafe /\ [Next]_vars => CrashSafe'
    BY CrashSafeStep
  <1>3. CrashSafe /\ [Next]_vars => [Lifecycle!Next]_(Lifecycle!vars)
    BY LifecycleSteps DEF LifecycleStep, Statuses, Lifecycle!vars
  <1> QED
    BY <1>1, <1>2, <1>3, PTL DEF Spec, ImplementsLifecycle, Lifecycle!Spec

=============================================================================
