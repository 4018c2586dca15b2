------------------------- MODULE ArchiveReviewProofs -------------------------
(***************************************************************************)
(* Proofs about ArchiveReview, for any Vaults, proposals, items and plans, *)
(* any lifetimes and limits, and any number of transfers and restarts; and *)
(* about the intake of the sources that are reviewed (Discovery), for any  *)
(* tree of paths, any calls, grants and proposals, and any limits.         *)
(***************************************************************************)
EXTENDS ArchiveReview, Discovery, FiniteSetTheorems, TLAPS

(* What a registry retains was in it. *)
LEMMA RetainedSubset ==
    ASSUME NEW registry, NEW now
    PROVE  Retained(registry, now) \subseteq registry
  BY DEF Retained

(* A proposed name is a name, or left to the user. *)
LEMMA ProposedNameType ==
    ASSUME NEW stem \in Stem \cup {NamingReview}, NEW occupied
    PROVE  ProposeName(stem, occupied) \in Name \cup {NamingReview}
  BY DEF ProposeName, Name

LEMMA TypeInit == Init => TypeOK
  BY LimitAssumption DEF Init, TypeOK, Time

LEMMA TypeStep == TypeOK /\ [Next]_vars => TypeOK'
  <1> SUFFICES ASSUME TypeOK, [Next]_vars PROVE TypeOK'
    OBVIOUS
  <1> USE LimitAssumption, VaultAssumption, ItemAssumption, RetainedSubset
  <1> USE DEF onDisk, registries, workers, budget
  <1>RegisterProposal. ASSUME NEW q \in Proposal, RegisterProposal(q) PROVE TypeOK'
    BY <1>RegisterProposal DEF RegisterProposal, TypeOK, Time
  <1>ApproveProfile. ASSUME NEW f \in Profile, ApproveProfile(f) PROVE TypeOK'
    BY <1>ApproveProfile DEF ApproveProfile, TypeOK
  <1>StartNaming. ASSUME NEW q \in Proposal, NEW S \in Selection, StartNaming(q, S)
                  PROVE TypeOK'
    <2>1. namers' \subseteq Namer
      BY <1>StartNaming DEF StartNaming, TypeOK, Namer
    <2>2. issued' \in [naming : Nat, classification : Nat, plan : Nat]
      BY <1>StartNaming DEF StartNaming, TypeOK
    <2> QED
      BY <1>StartNaming, <2>1, <2>2 DEF StartNaming, TypeOK
  <1>LeaseForNaming. ASSUME NEW w \in namers, LeaseForNaming(w) PROVE TypeOK'
    <2>1. w \in Namer
      BY DEF TypeOK
    <2>2. IsCurrent(w.vault) => [w EXCEPT !.step = "create", !.vault = authority] \in Namer
      BY <2>1 DEF IsCurrent, TypeOK, Namer
    <2>3. namers' \subseteq Namer
      BY <1>LeaseForNaming, <2>2 DEF LeaseForNaming, TypeOK
    <2> QED
      BY <1>LeaseForNaming, <2>3 DEF LeaseForNaming, TypeOK
  <1>CreateNaming. ASSUME NEW w \in namers, CreateNaming(w) PROVE TypeOK'
    <2> DEFINE names(facts) == [i \in Item |->
                                  IF i \in w.items
                                  THEN ProposeName(facts[i], Occupied(w.vault, DigestOf[i]))
                                  ELSE NamingReview]
               batch(facts) == [id |-> w.id, proposal |-> w.proposal, items |-> w.items,
                                vault |-> w.vault, at |-> w.at, names |-> names(facts)]
    <2>1. PICK facts \in [w.items -> Stem \cup {NamingReview}] :
            namings' = IF HasRoom(Retained(namings, w.at))
                       THEN Retained(namings, w.at) \cup {batch(facts)}
                       ELSE Retained(namings, w.at)
      BY <1>CreateNaming DEF CreateNaming
    <2>2. w \in Namer
      BY DEF TypeOK
    <2>3. names(facts) \in [Item -> Name \cup {NamingReview}]
      BY ProposedNameType
    <2> HIDE DEF names
    <2>4. batch(facts) \in Naming
      BY <2>2, <2>3 DEF Namer, Naming
    <2> HIDE DEF batch
    <2>5. namings' \subseteq Naming
      BY <2>1, <2>4 DEF TypeOK
    <2> QED
      BY <1>CreateNaming, <2>5 DEF CreateNaming, TypeOK
  <1>Classify. ASSUME NEW q \in Proposal, NEW S \in Selection, Classify(q, S) PROVE TypeOK'
    <2>1. ActiveProfile(authority) \subseteq Profile
      BY <1>Classify DEF Classify, ActiveProfile, TypeOK
    <2>2. classifications' \subseteq Classification
      BY <1>Classify, <2>1 DEF Classify, TypeOK, Classification
    <2>3. issued' \in [naming : Nat, classification : Nat, plan : Nat]
      BY <1>Classify DEF Classify, TypeOK
    <2> QED
      BY <1>Classify, <2>2, <2>3 DEF Classify, TypeOK
  <1>LoseClassification. ASSUME NEW q \in Proposal, NEW S \in Selection,
                                LoseClassification(q, S)
                         PROVE TypeOK'
    BY <1>LoseClassification DEF LoseClassification, TypeOK
  <1>CreatePlan. ASSUME NEW q \in Proposal, NEW S \in Selection, CreatePlan(q, S) PROVE TypeOK'
    <2>1. PICK c \in Retained(classifications, clock), n \in Retained(namings, clock) :
            LET plan == [id |-> issued.plan + 1, proposal |-> q, items |-> S,
                         vault |-> authority, at |-> clock, naming |-> n,
                         classification |-> c]
            IN /\ classifications' = Retained(classifications, clock) \ {c}
               /\ namings' = Retained(namings, clock) \ {n}
               /\ plans' = IF Plannable(plan) THEN Retained(plans, clock) \cup {plan}
                           ELSE plans
      BY <1>CreatePlan DEF CreatePlan
    <2>2. [id |-> issued.plan + 1, proposal |-> q, items |-> S, vault |-> authority,
           at |-> clock, naming |-> n, classification |-> c] \in ArchivePlan
      BY <1>CreatePlan DEF CreatePlan, TypeOK, ArchivePlan
    <2>3. plans' \subseteq ArchivePlan
      BY <2>1, <2>2 DEF TypeOK
    <2>4. issued' \in [naming : Nat, classification : Nat, plan : Nat]
      BY <1>CreatePlan DEF CreatePlan, TypeOK
    <2> QED
      BY <1>CreatePlan, <2>1, <2>3, <2>4 DEF CreatePlan, TypeOK
  <1>ConfirmPlan. ASSUME NEW p \in plans, ConfirmPlan(p) PROVE TypeOK'
    <2>1. commits' \subseteq Commit
      BY <1>ConfirmPlan DEF ConfirmPlan, TypeOK, Commit, ArchivePlan
    <2> QED
      BY <1>ConfirmPlan, <2>1 DEF ConfirmPlan, TypeOK
  <1>LeaseForCommit. ASSUME NEW k \in commits, LeaseForCommit(k) PROVE TypeOK'
    <2>1. k \in Commit
      BY DEF TypeOK
    <2>2. [k EXCEPT !.step = "run", !.vault = authority] \in Commit
      BY <2>1 DEF TypeOK, Commit
    <2>3. commits' \subseteq Commit
      BY <1>LeaseForCommit, <2>2 DEF LeaseForCommit, TypeOK
    <2> QED
      BY <1>LeaseForCommit, <2>3 DEF LeaseForCommit, TypeOK
  <1>CommitItem. ASSUME NEW k \in commits, CommitItem(k) PROVE TypeOK'
    <2> DEFINE rest(i) == k.left \ {i}
               file(i) == [item |-> i, name |-> k.plan.naming.names[i], plan |-> k.plan,
                           confirmed |-> k.at, at |-> clock]
    <2>1. k \in Commit /\ k.step = "run"
      BY <1>CommitItem DEF CommitItem, TypeOK
    <2>2. PICK i \in k.left :
            /\ commits' = IF rest(i) = {} THEN commits \ {k}
                          ELSE (commits \ {k}) \cup {[k EXCEPT !.left = rest(i)]}
            /\ \/ UNCHANGED originals
               \/ originals' = [originals EXCEPT ![k.vault] = @ \cup {file(i)}]
      BY <1>CommitItem DEF CommitItem
    <2>3. [k EXCEPT !.left = rest(i)] \in Commit
      BY <2>1 DEF Commit
    <2>4. commits' \subseteq Commit
      BY <2>2, <2>3 DEF TypeOK
    <2>5. i \in Item /\ k.plan \in ArchivePlan /\ k.at \in Time /\ clock \in Time
      BY <2>1 DEF Commit, TypeOK
    <2>6. k.plan.naming.names[i] \in Name \cup {NamingReview}
      BY <2>5 DEF ArchivePlan, Naming
    <2>7. file(i) \in Original
      BY <2>5, <2>6 DEF Original
    <2> HIDE DEF file
    <2>8. originals' \in [Vault -> SUBSET Original]
      BY <2>2, <2>7 DEF TypeOK
    <2> QED
      BY <1>CommitItem, <2>4, <2>8 DEF CommitItem, TypeOK
  <1>Authorize. ASSUME NEW v \in Vault, Authorize(v) PROVE TypeOK'
    BY <1>Authorize DEF Authorize, TypeOK
  <1>PrepareTransfer. ASSUME NEW v \in Vault, PrepareTransfer(v) PROVE TypeOK'
    BY <1>PrepareTransfer DEF PrepareTransfer, TypeOK, Transfer, Time
  <1>ConfirmTransfer. ASSUME NEW t \in transfers, ConfirmTransfer(t) PROVE TypeOK'
    BY <1>ConfirmTransfer DEF ConfirmTransfer, AuditTransfer, TypeOK, Transfer
  <1>LoseTransfer. ASSUME NEW t \in transfers, LoseTransfer(t) PROVE TypeOK'
    BY <1>LoseTransfer DEF LoseTransfer, TypeOK
  <1>Quit. ASSUME Quit PROVE TypeOK'
    <2>1. audits' \in [Vault -> SUBSET Vault]
      BY <1>Quit DEF Quit, AuditTransfer, TypeOK, Transfer
    <2> QED
      BY <1>Quit, <2>1 DEF Quit, TypeOK
  <1>Tick. ASSUME Tick PROVE TypeOK'
    BY <1>Tick DEF Tick, TypeOK, Time
  <1>Stutter. ASSUME UNCHANGED vars PROVE TypeOK'
    BY <1>Stutter DEF vars, TypeOK
  <1> QED
    BY <1>RegisterProposal, <1>ApproveProfile, <1>StartNaming, <1>LeaseForNaming,
       <1>CreateNaming, <1>Classify, <1>LoseClassification, <1>CreatePlan, <1>ConfirmPlan,
       <1>LeaseForCommit, <1>CommitItem, <1>Authorize, <1>PrepareTransfer,
       <1>ConfirmTransfer, <1>LoseTransfer, <1>Quit, <1>Tick, <1>Stutter
       DEF Next, Review, Govern

(* Every variable of ArchiveReview keeps its type, and never is more than    *)
(* one transfer pending (vault/mod.rs:364).                                  *)
THEOREM TypeCorrect == Spec => []TypeOK
  BY TypeInit, TypeStep, PTL DEF Spec

-----------------------------------------------------------------------------
(* Leases. *)

(* A lease is held on a Vault: without this, a commit of a process that has  *)
(* no Vault yet would be left behind by the first authorization.             *)
LeaseInv ==
    /\ WorkersUseCurrentVault
    /\ \A k \in commits : k.step = "run" => k.vault # NoVault

(* A step that keeps the workers and the authority keeps the leases right.   *)
LEMMA LeaseFrame == LeaseInv /\ UNCHANGED <<authority, namers, commits>> => LeaseInv'
  BY DEF LeaseInv, WorkersUseCurrentVault, Leases

LEMMA LeaseStep == TypeOK /\ LeaseInv /\ [Next]_vars => LeaseInv'
  <1> SUFFICES ASSUME TypeOK, LeaseInv, [Next]_vars PROVE LeaseInv'
    OBVIOUS
  <1> USE DEF onDisk, registries, workers, budget
  <1>StartNaming. ASSUME NEW q \in Proposal, NEW S \in Selection, StartNaming(q, S)
                  PROVE LeaseInv'
    BY <1>StartNaming DEF StartNaming, LeaseInv, WorkersUseCurrentVault, Leases
  <1>LeaseForNaming. ASSUME NEW w \in namers, LeaseForNaming(w)
                     PROVE LeaseInv'
    <2> DEFINE leased == [w EXCEPT !.step = "create", !.vault = authority]
    <2>1. w \in Namer
      BY DEF TypeOK
    <2>2. leased.vault = authority
      BY <2>1 DEF Namer
    <2> HIDE DEF leased
    <2>3. namers' \subseteq namers \cup {leased}
      BY <1>LeaseForNaming DEF LeaseForNaming, leased
    <2> QED
      BY <1>LeaseForNaming, <2>2, <2>3 DEF LeaseForNaming, LeaseInv, WorkersUseCurrentVault, Leases
  <1>CreateNaming. ASSUME NEW w \in namers, CreateNaming(w) PROVE LeaseInv'
    BY <1>CreateNaming DEF CreateNaming, LeaseInv, WorkersUseCurrentVault, Leases
  <1>ConfirmPlan. ASSUME NEW p \in plans, ConfirmPlan(p) PROVE LeaseInv'
    BY <1>ConfirmPlan DEF ConfirmPlan, LeaseInv, WorkersUseCurrentVault, Leases
  <1>LeaseForCommit. ASSUME NEW k \in commits, LeaseForCommit(k)
                     PROVE LeaseInv'
    <2> DEFINE leased == [k EXCEPT !.step = "run", !.vault = authority]
    <2>1. k \in Commit
      BY DEF TypeOK
    <2>2. leased.vault = authority
      BY <2>1 DEF Commit
    <2> HIDE DEF leased
    <2>3. commits' \subseteq commits \cup {leased} /\ (leased \in commits' => authority # NoVault)
      <3>1. CASE IsCurrent(k.plan.vault)
        BY <1>LeaseForCommit, <3>1 DEF LeaseForCommit, leased, IsCurrent
      <3>2. CASE ~ IsCurrent(k.plan.vault)
        <4>1. commits' = commits \ {k}
          BY <1>LeaseForCommit, <3>2 DEF LeaseForCommit
        <4>2. authority = NoVault => leased \notin commits
          BY <2>1, <2>2 DEF LeaseInv, leased, Commit
        <4> QED
          BY <4>1, <4>2
      <3> QED
        BY <3>1, <3>2
    <2> QED
      BY <1>LeaseForCommit, <2>2, <2>3 DEF LeaseForCommit, LeaseInv, WorkersUseCurrentVault, Leases
  <1>CommitItem. ASSUME NEW k \in commits, CommitItem(k) PROVE LeaseInv'
    <2>1. k \in Commit /\ k \in Leases /\ k.vault = authority
      BY <1>CommitItem DEF CommitItem, TypeOK, Leases, LeaseInv, WorkersUseCurrentVault
    <2>2. PICK i \in k.left : commits' \subseteq commits \cup {[k EXCEPT !.left = k.left \ {i}]}
      BY <1>CommitItem DEF CommitItem
    <2>3. [k EXCEPT !.left = k.left \ {i}].vault = authority
      BY <2>1 DEF Commit
    <2> QED
      BY <1>CommitItem, <2>2, <2>3 DEF CommitItem, LeaseInv, WorkersUseCurrentVault, Leases
  <1>Authorize. ASSUME NEW v \in Vault, Authorize(v) PROVE LeaseInv'
    <2>1. Leases = {}
      BY <1>Authorize, VaultAssumption
         DEF Authorize, LeaseInv, WorkersUseCurrentVault, Leases, TypeOK, Namer
    <2> QED
      BY <1>Authorize, <2>1 DEF Authorize, LeaseInv, WorkersUseCurrentVault, Leases
  <1>ConfirmTransfer. ASSUME NEW t \in transfers, ConfirmTransfer(t)
                      PROVE LeaseInv'
    <2>1. Leases = {}
      BY <1>ConfirmTransfer
         DEF ConfirmTransfer, Confirmable, ActiveLeases, LeaseInv, WorkersUseCurrentVault
    <2> QED
      BY <1>ConfirmTransfer, <2>1 DEF ConfirmTransfer, LeaseInv, WorkersUseCurrentVault, Leases
  <1>Quit. ASSUME Quit PROVE LeaseInv'
    BY <1>Quit DEF Quit, LeaseInv, WorkersUseCurrentVault, Leases
  <1>Others. ASSUME UNCHANGED <<authority, namers, commits>> PROVE LeaseInv'
    BY <1>Others, LeaseFrame
  <1> QED
    BY <1>StartNaming, <1>LeaseForNaming, <1>CreateNaming, <1>ConfirmPlan, <1>LeaseForCommit,
       <1>CommitItem, <1>Authorize, <1>ConfirmTransfer, <1>Quit, <1>Others
       DEF Next, Review, Govern, RegisterProposal, ApproveProfile, Classify,
           LoseClassification, CreatePlan, PrepareTransfer, LoseTransfer, Tick, vars

(* Whatever the transfers and the calls under way, a worker under a lease    *)
(* acts in the authoritative Vault (vault/mod.rs:225, :407).                 *)
THEOREM LeasesFollowAuthority == Spec => []WorkersUseCurrentVault
  <1>1. Init => LeaseInv
    BY DEF Init, LeaseInv, WorkersUseCurrentVault, Leases
  <1>2. LeaseInv => WorkersUseCurrentVault
    BY DEF LeaseInv
  <1> QED
    BY <1>1, <1>2, TypeCorrect, LeaseStep, PTL DEF Spec

-----------------------------------------------------------------------------
(* Transfers and approvals. *)

(* While the process runs, the only step that gives the authority to another *)
(* Vault is a transfer the first has on record (vault/mod.rs:439).           *)
THEOREM TransfersAreAudited == Spec => AuthorityChangeIsAudited
  <1> DEFINE A == (authority # NoVault /\ authority' \notin {NoVault, authority})
                    => authority' \in audits'[authority]
  <1>1. TypeOK /\ [Next]_vars => [A]_vars
    <2> SUFFICES ASSUME TypeOK, Next, authority # NoVault,
                        authority' \notin {NoVault, authority}
                 PROVE  authority' \in audits'[authority]
      OBVIOUS
    <2>1. PICK t \in transfers : ConfirmTransfer(t)
      BY DEF Next, Review, Govern, RegisterProposal, ApproveProfile, StartNaming,
             LeaseForNaming, CreateNaming, Classify, LoseClassification, CreatePlan,
             ConfirmPlan, LeaseForCommit, CommitItem, Authorize, PrepareTransfer,
             LoseTransfer, Quit, Tick
    <2> QED
      BY <2>1 DEF ConfirmTransfer, Confirmable, AuditTransfer, TypeOK, Transfer
  <1> QED
    BY <1>1, TypeCorrect, PTL DEF Spec, AuthorityChangeIsAudited

(* The classifications under review: batches, and those plans rest on. *)
UnderReview ==
    classifications \cup {p.classification : p \in plans}
                    \cup {k.plan.classification : k \in commits}

(* What is approved stays approved, so a classification made with the        *)
(* profile in force cites an approved one wherever the review has carried it.*)
ApprovalInv ==
    /\ \A v \in Vault : active[v] \in approved[v] \cup {NoProfile}
    /\ \A c \in UnderReview : c.profile \in approved[c.vault]
    /\ \A v \in Vault : \A o \in originals[v] :
          o.plan.classification.profile \in approved[o.plan.classification.vault]

(* No step adds to what is under review, except to make a classification;    *)
(* a step that does not, nor archives, keeps the invariant.                  *)
LEMMA ApprovalFrame ==
    ASSUME ApprovalInv, UNCHANGED <<active, approved, originals>>, UnderReview' \subseteq UnderReview
    PROVE  ApprovalInv'
  <1>1. \A c \in UnderReview' : c.profile \in approved'[c.vault]
    BY DEF ApprovalInv
  <1> QED
    BY <1>1 DEF ApprovalInv

LEMMA ApprovalStep == TypeOK /\ ApprovalInv /\ [Next]_vars => ApprovalInv'
  <1> SUFFICES ASSUME TypeOK, ApprovalInv, [Next]_vars PROVE ApprovalInv'
    OBVIOUS
  <1> USE DEF onDisk, registries, workers, budget
  <1>ApproveProfile. ASSUME NEW f \in Profile, ApproveProfile(f) PROVE ApprovalInv'
    <2>1. \A v : approved[v] \subseteq approved'[v]
      BY <1>ApproveProfile DEF ApproveProfile, TypeOK
    <2>2. UNCHANGED <<originals, UnderReview>>
      BY <1>ApproveProfile DEF ApproveProfile, UnderReview
    <2>3. \A v \in Vault : active'[v] \in approved'[v] \cup {NoProfile}
      BY <1>ApproveProfile DEF ApproveProfile, TypeOK, ApprovalInv
    <2>4. \A c \in UnderReview' : c.profile \in approved'[c.vault]
      BY <2>1, <2>2 DEF ApprovalInv
    <2>5. \A v \in Vault : \A o \in originals'[v] :
            o.plan.classification.profile \in approved'[o.plan.classification.vault]
      BY <2>1, <2>2 DEF ApprovalInv
    <2> QED
      BY <2>3, <2>4, <2>5 DEF ApprovalInv
  <1>Classify. ASSUME NEW q \in Proposal, NEW S \in Selection, Classify(q, S)
               PROVE ApprovalInv'
    <2>1. PICK f \in ActiveProfile(authority), complete \in BOOLEAN :
            classifications' = Retained(classifications, clock) \cup
              {[id |-> issued.classification + 1, proposal |-> q, items |-> S,
                vault |-> authority, at |-> clock, profile |-> f,
                committable |-> complete]}
      BY <1>Classify DEF Classify
    <2>2. authority \in Vault /\ f \in approved[authority]
      BY <1>Classify DEF Classify, TypeOK, ApprovalInv, ActiveProfile
    <2>3. UNCHANGED <<active, approved, originals, plans, commits>>
      BY <1>Classify DEF Classify
    <2>4. \A c \in UnderReview' : c \in UnderReview \/ (c.vault = authority /\ c.profile = f)
      BY <2>1, <2>3, RetainedSubset DEF UnderReview
    <2>5. \A c \in UnderReview' : c.profile \in approved'[c.vault]
      BY <2>2, <2>3, <2>4 DEF ApprovalInv
    <2> QED
      BY <2>3, <2>5 DEF ApprovalInv
  <1>LoseClassification. ASSUME NEW q \in Proposal, NEW S \in Selection,
                                LoseClassification(q, S)
                         PROVE ApprovalInv'
    BY <1>LoseClassification, ApprovalFrame, RetainedSubset
       DEF LoseClassification, UnderReview
  <1>CreatePlan. ASSUME NEW q \in Proposal, NEW S \in Selection, CreatePlan(q, S)
                 PROVE ApprovalInv'
    <2>1. PICK c \in Retained(classifications, clock), n \in Retained(namings, clock) :
            LET plan == [id |-> issued.plan + 1, proposal |-> q, items |-> S,
                         vault |-> authority, at |-> clock, naming |-> n,
                         classification |-> c]
            IN /\ classifications' = Retained(classifications, clock) \ {c}
               /\ plans' = IF Plannable(plan) THEN Retained(plans, clock) \cup {plan}
                           ELSE plans
      BY <1>CreatePlan DEF CreatePlan
    <2>2. UNCHANGED <<active, approved, originals, commits>>
      BY <1>CreatePlan DEF CreatePlan
    <2>3. c \in classifications /\ classifications' \subseteq classifications
      BY <2>1, RetainedSubset
    <2>4. \A p \in plans' : p \in plans \/ p.classification = c
      BY <2>1, RetainedSubset
    <2>5. UnderReview' \subseteq UnderReview
      BY <2>2, <2>3, <2>4 DEF UnderReview
    <2> QED
      BY <2>2, <2>5, ApprovalFrame
  <1>ConfirmPlan. ASSUME NEW p \in plans, ConfirmPlan(p) PROVE ApprovalInv'
    <2>1. plans' \subseteq plans
      BY <1>ConfirmPlan, RetainedSubset DEF ConfirmPlan
    <2>2. \A k \in commits' : k \in commits \/ k.plan = p
      BY <1>ConfirmPlan DEF ConfirmPlan
    <2>3. UnderReview' \subseteq UnderReview
      BY <1>ConfirmPlan, <2>1, <2>2 DEF ConfirmPlan, UnderReview
    <2> QED
      BY <1>ConfirmPlan, <2>3, ApprovalFrame DEF ConfirmPlan
  <1>LeaseForCommit. ASSUME NEW k \in commits, LeaseForCommit(k) PROVE ApprovalInv'
    <2>1. [k EXCEPT !.step = "run", !.vault = authority].plan = k.plan
      BY DEF TypeOK, Commit
    <2>2. \A m \in commits' : m \in commits \/ m.plan = k.plan
      BY <1>LeaseForCommit, <2>1 DEF LeaseForCommit
    <2>3. UnderReview' \subseteq UnderReview
      BY <1>LeaseForCommit, <2>2 DEF LeaseForCommit, UnderReview
    <2> QED
      BY <1>LeaseForCommit, <2>3, ApprovalFrame DEF LeaseForCommit
  <1>CommitItem. ASSUME NEW k \in commits, CommitItem(k) PROVE ApprovalInv'
    <2> DEFINE left(i) == [k EXCEPT !.left = k.left \ {i}]
               file(i) == [item |-> i, name |-> k.plan.naming.names[i], plan |-> k.plan,
                           confirmed |-> k.at, at |-> clock]
    <2>1. PICK i \in k.left :
            /\ commits' \subseteq commits \cup {left(i)}
            /\ \/ UNCHANGED originals
               \/ originals' = [originals EXCEPT ![k.vault] = @ \cup {file(i)}]
      BY <1>CommitItem DEF CommitItem
    <2>2. left(i).plan = k.plan /\ file(i).plan = k.plan
      BY DEF TypeOK, Commit
    <2> HIDE DEF left, file
    <2>3. UNCHANGED <<active, approved, classifications, plans>>
      BY <1>CommitItem DEF CommitItem
    <2>4. k.plan.classification \in UnderReview
      BY DEF UnderReview
    <2>5. UnderReview' \subseteq UnderReview
      BY <2>1, <2>2, <2>3 DEF UnderReview
    <2>6. \A v \in Vault : originals'[v] \subseteq originals[v] \cup {file(i)}
      BY <2>1 DEF TypeOK
    <2>7. \A v \in Vault : \A o \in originals'[v] :
            o.plan.classification.profile \in approved'[o.plan.classification.vault]
      BY <2>2, <2>3, <2>4, <2>6 DEF ApprovalInv
    <2> QED
      BY <2>3, <2>5, <2>7 DEF ApprovalInv
  <1>Quit. ASSUME Quit PROVE ApprovalInv'
    BY <1>Quit, ApprovalFrame DEF Quit, UnderReview
  <1>Others. ASSUME UNCHANGED <<active, approved, originals, classifications, plans, commits>>
             PROVE  ApprovalInv'
    BY <1>Others, ApprovalFrame DEF UnderReview
  <1> QED
    BY <1>ApproveProfile, <1>Classify, <1>LoseClassification, <1>CreatePlan, <1>ConfirmPlan,
       <1>LeaseForCommit, <1>CommitItem, <1>Quit, <1>Others
       DEF Next, Review, Govern, RegisterProposal, StartNaming, LeaseForNaming, CreateNaming,
           Authorize, PrepareTransfer, ConfirmTransfer, LoseTransfer, Tick, vars

(* Only classifications by approved profiles are archived, wherever no       *)
(* transfer came between the classification and the commit                   *)
(* (profiles/mod.rs:77, archive/mod.rs:52).                                  *)
THEOREM ApprovedProfilesOnly == Spec => []ClassificationIsApproved
  <1>1. Init => ApprovalInv
    BY DEF Init, ApprovalInv, UnderReview
  <1>2. ApprovalInv => ClassificationIsApproved
    BY DEF ApprovalInv, ClassificationIsApproved
  <1> QED
    BY <1>1, <1>2, TypeCorrect, ApprovalStep, PTL DEF Spec

-----------------------------------------------------------------------------
(* One review for each plan. *)

\* The plans made so far that something still rests on.
Rested == {k.plan : k \in commits} \cup UNION {{o.plan : o \in originals[v]} : v \in Vault}
Made == plans \cup Rested

(* No two batches, and no two calls that make one, have the same identifier; *)
(* those of a plan are in no registry any more.                              *)
NamingsAreDistinct ==
    /\ \A w \in namers : w.id <= issued.naming
    /\ \A n \in namings : n.id <= issued.naming
    /\ \A p \in Made : p.naming.id <= issued.naming
    /\ \A w, x \in namers : w.id = x.id => w = x
    /\ \A n, m \in namings : n.id = m.id => n = m
    /\ \A w \in namers, n \in namings : w.id # n.id
    /\ \A w \in namers, p \in Made : w.id # p.naming.id
    /\ \A n \in namings, p \in Made : n.id # p.naming.id

ClassificationsAreDistinct ==
    /\ \A c \in classifications : c.id <= issued.classification
    /\ \A p \in Made : p.classification.id <= issued.classification
    /\ \A c, b \in classifications : c.id = b.id => c = b
    /\ \A c \in classifications, p \in Made : c.id # p.classification.id

PlansAreDistinct ==
    \A p, q \in Made :
        p = q \/ (p.naming.id # q.naming.id /\ p.classification.id # q.classification.id)

\* A plan is made of complete, fresh batches of one review.
IsReviewed(p) ==
    /\ p.naming.proposal = p.proposal /\ p.naming.items = p.items
    /\ p.classification.proposal = p.proposal /\ p.classification.items = p.items
    /\ p.classification.committable
    /\ \A i \in p.items : p.naming.names[i] # NamingReview
    /\ p.naming.at + TTL > p.at /\ p.classification.at + TTL > p.at

PlansAreReviewed == \A p \in Made : IsReviewed(p)

\* A plan is confirmed once, while it is fresh, and what is left of it is not archived.
CommitsFollowPlans ==
    /\ \A p \in plans : p \notin Rested
    /\ \A k, m \in commits : k.plan = m.plan => k = m
    /\ \A k \in commits :
        /\ k.plan.at + TTL > k.at
        /\ k.left \subseteq k.plan.items
        /\ k.step = "run" => AuthorityOf[k.vault] = AuthorityOf[k.plan.vault]
        /\ \A v \in Vault : \A o \in originals[v] : o.plan = k.plan => o.item \notin k.left

OriginalsFollowPlans ==
    /\ \A v \in Vault : \A o \in originals[v] :
        /\ o.item \in o.plan.items
        /\ o.name = o.plan.naming.names[o.item]
        /\ o.plan.at + TTL > o.confirmed
        /\ AuthorityOf[v] = AuthorityOf[o.plan.vault]
    /\ \A u, v \in Vault : \A x \in originals[u], o \in originals[v] :
        x.plan = o.plan /\ x.item = o.item => x = o /\ u = v

ReviewInv ==
    /\ NamingsAreDistinct
    /\ ClassificationsAreDistinct
    /\ PlansAreDistinct
    /\ PlansAreReviewed
    /\ CommitsFollowPlans
    /\ OriginalsFollowPlans

\* What each part keeps while nothing is added to what it speaks of.
LEMMA NamingsKept ==
    ASSUME TypeOK, NamingsAreDistinct, namers' \subseteq namers, namings' \subseteq namings,
           Made' \subseteq Made, issued' = issued
    PROVE  NamingsAreDistinct'
  BY DEF NamingsAreDistinct

LEMMA ClassificationsKept ==
    ASSUME TypeOK, ClassificationsAreDistinct, classifications' \subseteq classifications,
           Made' \subseteq Made, issued'.classification = issued.classification
    PROVE  ClassificationsAreDistinct'
  BY DEF ClassificationsAreDistinct

LEMMA PlansKept ==
    ASSUME PlansAreDistinct, PlansAreReviewed, Made' \subseteq Made
    PROVE  PlansAreDistinct' /\ PlansAreReviewed'
  <1>1. PlansAreDistinct'
    BY DEF PlansAreDistinct
  <1>2. PlansAreReviewed'
    BY DEF PlansAreReviewed, IsReviewed
  <1> QED
    BY <1>1, <1>2

LEMMA CommitsKept ==
    ASSUME CommitsFollowPlans, plans' \subseteq plans, commits' \subseteq commits,
           originals' = originals
    PROVE  CommitsFollowPlans' /\ Made' \subseteq Made
  <1>1. Rested' \subseteq Rested
    BY DEF Rested
  <1>2. Made' \subseteq Made
    BY <1>1 DEF Made
  <1>3. CommitsFollowPlans'
    BY <1>1 DEF CommitsFollowPlans
  <1> QED
    BY <1>2, <1>3

LEMMA OriginalsKept ==
    ASSUME OriginalsFollowPlans, originals' = originals
    PROVE  OriginalsFollowPlans'
  BY DEF OriginalsFollowPlans

LEMMA ReviewKept ==
    ASSUME TypeOK, ReviewInv, namers' \subseteq namers, namings' \subseteq namings,
           classifications' \subseteq classifications, plans' \subseteq plans,
           commits' \subseteq commits, originals' = originals, issued' = issued
    PROVE  ReviewInv'
  BY NamingsKept, ClassificationsKept, PlansKept, CommitsKept, OriginalsKept DEF ReviewInv

LEMMA ReviewInit == Init => ReviewInv
  <1> SUFFICES ASSUME Init PROVE ReviewInv
    OBVIOUS
  <1>1. /\ namers = {} /\ namings = {} /\ classifications = {} /\ plans = {} /\ commits = {}
        /\ \A v \in Vault : originals[v] = {}
    BY DEF Init
  <1>2. Rested = {} /\ Made = {}
    BY <1>1 DEF Rested, Made
  <1> QED
    BY <1>1, <1>2
       DEF ReviewInv, NamingsAreDistinct, ClassificationsAreDistinct, PlansAreDistinct,
           PlansAreReviewed, CommitsFollowPlans, OriginalsFollowPlans

LEMMA StartNamingKeepsReview ==
    ASSUME TypeOK, ReviewInv, NEW q \in Proposal, NEW S \in Selection, StartNaming(q, S)
    PROVE  ReviewInv'
  <1> DEFINE w == [id |-> issued.naming + 1, proposal |-> q, items |-> S, vault |-> authority,
                   at |-> clock, step |-> "lease"]
  <1>1. /\ namers' = namers \cup {w}
        /\ issued' = [issued EXCEPT !.naming = @ + 1]
        /\ namings' = namings /\ classifications' = classifications /\ plans' = plans
        /\ commits' = commits /\ originals' = originals
    BY DEF StartNaming, onDisk, registries
  <1>2. CommitsFollowPlans' /\ Made' \subseteq Made
    BY <1>1, CommitsKept DEF ReviewInv
  <1>3. NamingsAreDistinct'
    <2>1. /\ issued.naming \in Nat /\ issued'.naming = issued.naming + 1
          /\ w.id = issued.naming + 1
          /\ \A x \in namers : x.id \in Nat
          /\ \A n \in namings : n.id \in Nat
          /\ \A p \in Made : p.naming.id \in Nat
      <3>1. issued.naming \in Nat /\ issued'.naming = issued.naming + 1
        BY <1>1 DEF TypeOK
      <3>2. \A p \in Made : p \in ArchivePlan
        BY DEF TypeOK, Made, Rested, Commit, Original
      <3> QED
        BY <3>1, <3>2 DEF TypeOK, Namer, Naming, ArchivePlan
    <2> HIDE DEF w
    <2> QED
      BY <1>1, <1>2, <2>1 DEF ReviewInv, NamingsAreDistinct
  <1>4. ClassificationsAreDistinct'
    <2>1. issued'.classification = issued.classification
      BY <1>1 DEF TypeOK
    <2> QED
      BY <1>1, <1>2, <2>1, ClassificationsKept DEF ReviewInv
  <1> QED
    BY <1>1, <1>2, <1>3, <1>4, PlansKept, OriginalsKept DEF ReviewInv

LEMMA NamingKeepsReview ==
    ASSUME TypeOK, ReviewInv, NEW w \in namers, LeaseForNaming(w) \/ CreateNaming(w)
    PROVE  ReviewInv'
  <1>1. /\ classifications' = classifications /\ plans' = plans /\ commits' = commits
        /\ originals' = originals /\ issued' = issued
    BY DEF LeaseForNaming, CreateNaming, onDisk, registries
  <1>2. CommitsFollowPlans' /\ Made' \subseteq Made
    BY <1>1, CommitsKept DEF ReviewInv
  <1>3. NamingsAreDistinct'
    <2>1. CASE LeaseForNaming(w)
      <3> DEFINE x == [w EXCEPT !.step = "create", !.vault = authority]
      <3>1. namings' = namings
            /\ (namers' = (namers \ {w}) \cup {x} \/ namers' = namers \ {w})
        BY <2>1 DEF LeaseForNaming, registries
      <3>2. x.id = w.id
        BY DEF TypeOK, Namer
      <3> HIDE DEF x
      <3> QED
        BY <1>1, <1>2, <3>1, <3>2 DEF ReviewInv, NamingsAreDistinct
    <2>2. CASE CreateNaming(w)
      <3>1. namers' = namers \ {w}
        BY <2>2 DEF CreateNaming
      <3>2. PICK batch : namings' \subseteq namings \cup {batch} /\ batch.id = w.id
        BY <2>2, RetainedSubset DEF CreateNaming
      <3> QED
        BY <1>1, <1>2, <3>1, <3>2 DEF ReviewInv, NamingsAreDistinct
    <2> QED
      BY <2>1, <2>2
  <1> QED
    BY <1>1, <1>2, <1>3, PlansKept, OriginalsKept, ClassificationsKept DEF ReviewInv

LEMMA ClassifyKeepsReview ==
    ASSUME TypeOK, ReviewInv, NEW q \in Proposal, NEW S \in Selection, Classify(q, S)
    PROVE  ReviewInv'
  <1>1. /\ namers' = namers /\ namings' = namings /\ plans' = plans /\ commits' = commits
        /\ originals' = originals
        /\ issued' = [issued EXCEPT !.classification = @ + 1]
    BY DEF Classify, onDisk, workers
  <1>2. CommitsFollowPlans' /\ Made' \subseteq Made
    BY <1>1, CommitsKept DEF ReviewInv
  <1>3. /\ issued.classification \in Nat
        /\ issued'.classification = issued.classification + 1
        /\ issued'.naming = issued.naming
        /\ \A c \in classifications : c.id \in Nat
        /\ \A p \in Made : p.classification.id \in Nat
    <2>1. \A p \in Made : p \in ArchivePlan
      BY DEF TypeOK, Made, Rested, Commit, Original
    <2> QED
      BY <1>1, <2>1 DEF TypeOK, Classification, ArchivePlan
  <1>4. PICK b : /\ classifications' \subseteq classifications \cup {b}
                 /\ b.id = issued.classification + 1
    <2>1. PICK f \in ActiveProfile(authority), complete \in BOOLEAN :
            classifications' = Retained(classifications, clock) \cup
              {[id |-> issued.classification + 1, proposal |-> q, items |-> S,
                vault |-> authority, at |-> clock, profile |-> f,
                committable |-> complete]}
      BY DEF Classify
    <2> DEFINE b == [id |-> issued.classification + 1, proposal |-> q, items |-> S,
                     vault |-> authority, at |-> clock, profile |-> f, committable |-> complete]
    <2>2. classifications' \subseteq classifications \cup {b}
      BY <2>1, RetainedSubset
    <2>3. b.id = issued.classification + 1
      OBVIOUS
    <2> QED
      BY <2>2, <2>3
  <1>5. ClassificationsAreDistinct'
    BY <1>2, <1>3, <1>4 DEF ReviewInv, ClassificationsAreDistinct
  <1>6. NamingsAreDistinct'
    BY <1>1, <1>2, <1>3 DEF ReviewInv, NamingsAreDistinct
  <1> QED
    BY <1>1, <1>2, <1>5, <1>6, PlansKept, OriginalsKept DEF ReviewInv

(* A plan takes its two batches out of their registries.                     *)
LEMMA CreatePlanKeepsReview ==
    ASSUME TypeOK, ReviewInv, NEW q \in Proposal, NEW S \in Selection, CreatePlan(q, S)
    PROVE  ReviewInv'
  <1>1. /\ namers' = namers /\ commits' = commits /\ originals' = originals
        /\ issued' = [issued EXCEPT !.plan = @ + 1]
    BY DEF CreatePlan, onDisk, workers
  <1>2. PICK c \in Retained(classifications, clock), n \in Retained(namings, clock) :
            LET plan == [id |-> issued.plan + 1, proposal |-> q, items |-> S,
                         vault |-> authority, at |-> clock, naming |-> n, classification |-> c]
            IN /\ Matches(c, q, S) /\ Matches(n, q, S)
               /\ classifications' = Retained(classifications, clock) \ {c}
               /\ namings' = Retained(namings, clock) \ {n}
               /\ plans' = IF Plannable(plan) THEN Retained(plans, clock) \cup {plan} ELSE plans
    BY DEF CreatePlan
  <1>3. /\ c \in classifications /\ n \in namings
        /\ classifications' \subseteq classifications \ {c}
        /\ namings' \subseteq namings \ {n}
        /\ n.at + TTL > clock /\ c.at + TTL > clock
        /\ issued'.naming = issued.naming /\ issued'.classification = issued.classification
    BY <1>1, <1>2 DEF Retained, TypeOK
  <1>4. PICK plan : plan = [id |-> issued.plan + 1, proposal |-> q, items |-> S,
                            vault |-> authority, at |-> clock, naming |-> n, classification |-> c]
    OBVIOUS
  <1>5. /\ plan.naming = n /\ plan.classification = c /\ plan.proposal = q /\ plan.items = S
        /\ plan.at = clock
        /\ plans' \subseteq plans \/ (plans' \subseteq plans \cup {plan} /\ Plannable(plan))
    BY <1>2, <1>4, RetainedSubset
  <1>6. Rested' = Rested
    BY <1>1 DEF Rested
  <1>7. Made' \subseteq Made \/ (Made' \subseteq Made \cup {plan} /\ Plannable(plan))
    BY <1>5, <1>6 DEF Made
  <1>8. \A p \in Made : p.naming.id # n.id /\ p.classification.id # c.id
    BY <1>3 DEF ReviewInv, NamingsAreDistinct, ClassificationsAreDistinct
  <1>9. NamingsAreDistinct'
    BY <1>1, <1>3, <1>5, <1>7 DEF ReviewInv, NamingsAreDistinct
  <1>10. ClassificationsAreDistinct'
    BY <1>1, <1>3, <1>5, <1>7 DEF ReviewInv, ClassificationsAreDistinct
  <1>11. PlansAreDistinct'
    <2> SUFFICES ASSUME NEW p \in Made', NEW r \in Made', p # r
                 PROVE  p.naming.id # r.naming.id /\ p.classification.id # r.classification.id
      BY DEF PlansAreDistinct
    <2> QED
      BY <1>5, <1>7, <1>8 DEF ReviewInv, PlansAreDistinct
  <1>12. PlansAreReviewed'
    <2>1. Plannable(plan) => IsReviewed(plan)
      BY <1>2, <1>3, <1>5 DEF Plannable, IsReviewed, Matches
    <2>2. \A p \in Made' : IsReviewed(p)
      BY <1>7, <2>1 DEF ReviewInv, PlansAreReviewed
    <2> QED
      BY <2>2 DEF PlansAreReviewed, IsReviewed
  <1>13. CommitsFollowPlans'
    <2>1. \A p \in plans' : p \notin Rested
      <3>1. plan \notin Rested
        BY <1>5, <1>8 DEF Made
      <3> QED
        BY <1>5, <3>1 DEF ReviewInv, CommitsFollowPlans
    <2>2. \A p \in plans' : p \notin Rested'
      BY <1>6, <2>1
    <2> QED
      BY <1>1, <2>2 DEF ReviewInv, CommitsFollowPlans
  <1> QED
    BY <1>1, <1>9, <1>10, <1>11, <1>12, <1>13, OriginalsKept DEF ReviewInv

LEMMA ConfirmPlanKeepsReview ==
    ASSUME TypeOK, ReviewInv, NEW p \in plans, ConfirmPlan(p)
    PROVE  ReviewInv'
  <1> DEFINE k == [plan |-> p, step |-> "lease", vault |-> NoVault, left |-> p.items, at |-> clock]
  <1>1. /\ namers' = namers /\ namings' = namings /\ classifications' = classifications
        /\ originals' = originals /\ issued' = issued
        /\ commits' = commits \cup {k}
        /\ plans' \subseteq plans \ {p}
        /\ p.at + TTL > clock
    BY DEF ConfirmPlan, onDisk, Retained
  <1>2. k.plan = p /\ k.step = "lease" /\ k.left = p.items /\ k.at = clock
    OBVIOUS
  <1> HIDE DEF k
  <1>3. Rested' = Rested \cup {p}
    BY <1>1, <1>2 DEF Rested
  <1>4. Made' \subseteq Made
    BY <1>1, <1>3 DEF Made
  <1>5. p \notin Rested
    BY DEF ReviewInv, CommitsFollowPlans
  <1>6. CommitsFollowPlans'
    <2>1. \A r \in plans' : r \notin Rested'
      BY <1>1, <1>3 DEF ReviewInv, CommitsFollowPlans
    <2>2. \A m \in commits : m.plan # p
      BY <1>5 DEF Rested
    <2>3. \A m, l \in commits' : m.plan = l.plan => m = l
      BY <1>1, <1>2, <2>2 DEF ReviewInv, CommitsFollowPlans
    <2>4. \A v \in Vault : \A o \in originals[v] : o.plan # p
      BY <1>5 DEF Rested
    <2>5. ASSUME NEW m \in commits'
          PROVE  /\ m.plan.at + TTL > m.at
                 /\ m.left \subseteq m.plan.items
                 /\ m.step = "run" => AuthorityOf[m.vault] = AuthorityOf[m.plan.vault]
                 /\ \A v \in Vault : \A o \in originals'[v] : o.plan = m.plan => o.item \notin m.left
      <3>1. CASE m \in commits
        BY <1>1, <3>1 DEF ReviewInv, CommitsFollowPlans
      <3>2. CASE m = k
        BY <1>1, <1>2, <2>4, <3>2
      <3> QED
        BY <1>1, <3>1, <3>2
    <2> QED
      BY <2>1, <2>3, <2>5 DEF CommitsFollowPlans
  <1> QED
    BY <1>1, <1>4, <1>6, NamingsKept, ClassificationsKept, PlansKept, OriginalsKept DEF ReviewInv

LEMMA LeaseForCommitKeepsReview ==
    ASSUME TypeOK, ReviewInv, NEW k \in commits, LeaseForCommit(k)
    PROVE  ReviewInv'
  <1> DEFINE m == [k EXCEPT !.step = "run", !.vault = authority]
  <1>1. /\ namers' = namers /\ namings' = namings /\ classifications' = classifications
        /\ originals' = originals /\ issued' = issued /\ plans' = plans
    BY DEF LeaseForCommit, onDisk, registries
  <1>2. m.plan = k.plan /\ m.left = k.left /\ m.at = k.at /\ m.vault = authority
    BY DEF TypeOK, Commit
  <1>3. \/ commits' \subseteq commits
        \/ commits' = (commits \ {k}) \cup {m} /\ IsCurrent(k.plan.vault)
    BY DEF LeaseForCommit
  <1> HIDE DEF m
  <1>4. CASE commits' \subseteq commits
    BY <1>1, <1>4, ReviewKept
  <1>5. CASE commits' = (commits \ {k}) \cup {m} /\ IsCurrent(k.plan.vault)
    <2>1. Rested' = Rested
      BY <1>1, <1>2, <1>5 DEF Rested
    <2>2. Made' = Made
      BY <1>1, <2>1 DEF Made
    <2>3. CommitsFollowPlans'
      <3>1. \A r \in plans' : r \notin Rested'
        BY <1>1, <2>1 DEF ReviewInv, CommitsFollowPlans
      <3>2. \A x, l \in commits' : x.plan = l.plan => x = l
        BY <1>2, <1>5 DEF ReviewInv, CommitsFollowPlans
      <3>3. AuthorityOf[m.vault] = AuthorityOf[m.plan.vault]
        BY <1>2, <1>5 DEF IsCurrent
      <3>4. ASSUME NEW x \in commits'
            PROVE  /\ x.plan.at + TTL > x.at
                   /\ x.left \subseteq x.plan.items
                   /\ x.step = "run" => AuthorityOf[x.vault] = AuthorityOf[x.plan.vault]
                   /\ \A v \in Vault : \A o \in originals'[v] :
                        o.plan = x.plan => o.item \notin x.left
        <4>1. CASE x \in commits
          BY <1>1, <4>1 DEF ReviewInv, CommitsFollowPlans
        <4>2. CASE x = m
          BY <1>1, <1>2, <3>3, <4>2 DEF ReviewInv, CommitsFollowPlans
        <4> QED
          BY <1>5, <4>1, <4>2
      <3> QED
        BY <3>1, <3>2, <3>4 DEF CommitsFollowPlans
    <2> QED
      BY <1>1, <2>2, <2>3, NamingsKept, ClassificationsKept, PlansKept, OriginalsKept
         DEF ReviewInv
  <1> QED
    BY <1>3, <1>4, <1>5

(* An item of a confirmed plan is archived once, under the name of the plan. *)
LEMMA CommitItemKeepsReview ==
    ASSUME TypeOK, LeaseInv, ReviewInv, NEW k \in commits, CommitItem(k)
    PROVE  ReviewInv'
  <1>1. /\ namers' = namers /\ namings' = namings /\ classifications' = classifications
        /\ plans' = plans /\ issued' = issued
        /\ k.step = "run" /\ k \in Commit
    BY DEF CommitItem, registries, TypeOK
  <1>2. PICK i \in k.left :
            LET rest == k.left \ {i}
                file == [item |-> i, name |-> k.plan.naming.names[i], plan |-> k.plan,
                         confirmed |-> k.at, at |-> clock]
            IN /\ commits' = IF rest = {} THEN commits \ {k}
                             ELSE (commits \ {k}) \cup {[k EXCEPT !.left = rest]}
               /\ \/ UNCHANGED originals
                  \/ originals' = [originals EXCEPT ![k.vault] = @ \cup {file}]
    BY DEF CommitItem
  <1>3. PICK m : m = [k EXCEPT !.left = k.left \ {i}]
    OBVIOUS
  <1>4. PICK file : file = [item |-> i, name |-> k.plan.naming.names[i], plan |-> k.plan,
                            confirmed |-> k.at, at |-> clock]
    OBVIOUS
  <1>5. /\ m.plan = k.plan /\ m.at = k.at /\ m.vault = k.vault /\ m.step = k.step
        /\ m.left = k.left \ {i}
    BY <1>1, <1>3 DEF Commit
  <1>6. /\ file.item = i /\ file.name = k.plan.naming.names[i] /\ file.plan = k.plan
        /\ file.confirmed = k.at
    BY <1>4
  <1>7. commits' \subseteq (commits \ {k}) \cup {m}
    BY <1>2, <1>3
  <1>8. k.vault \in Vault
    BY <1>1 DEF LeaseInv, Commit
  <1>9. \A v \in Vault : \/ originals'[v] = originals[v]
                         \/ v = k.vault /\ originals'[v] = originals[v] \cup {file}
    BY <1>2, <1>4 DEF TypeOK
  <1>10. \A v \in Vault : \A o \in originals'[v] :
            o \in originals[v] \/ (o = file /\ v = k.vault)
    BY <1>9
  <1>11. k.plan \in Rested
    BY DEF Rested
  <1>12. Rested' \subseteq Rested
    BY <1>5, <1>6, <1>7, <1>10, <1>11 DEF Rested
  <1>13. Made' \subseteq Made
    BY <1>1, <1>12 DEF Made
  <1>14. \A v \in Vault : \A o \in originals[v] : o.plan = k.plan => o.item # i
    BY DEF ReviewInv, CommitsFollowPlans
  <1>15. CommitsFollowPlans'
    <2>1. \A r \in plans' : r \notin Rested'
      BY <1>1, <1>12 DEF ReviewInv, CommitsFollowPlans
    <2>2. \A x, l \in commits' : x.plan = l.plan => x = l
      BY <1>5, <1>7 DEF ReviewInv, CommitsFollowPlans
    <2>3. ASSUME NEW x \in commits'
          PROVE  /\ x.plan.at + TTL > x.at
                 /\ x.left \subseteq x.plan.items
                 /\ x.step = "run" => AuthorityOf[x.vault] = AuthorityOf[x.plan.vault]
                 /\ \A v \in Vault : \A o \in originals'[v] : o.plan = x.plan => o.item \notin x.left
      <3>1. CASE x \in commits /\ x # k
        <4>1. x.plan # k.plan
          BY <3>1 DEF ReviewInv, CommitsFollowPlans
        <4> QED
          BY <1>6, <1>10, <3>1, <4>1 DEF ReviewInv, CommitsFollowPlans
      <3>2. CASE x = m
        <4>1. \A v \in Vault : \A o \in originals'[v] : o.plan = k.plan => o.item \notin m.left
          BY <1>5, <1>6, <1>10 DEF ReviewInv, CommitsFollowPlans
        <4> QED
          BY <1>5, <3>2, <4>1 DEF ReviewInv, CommitsFollowPlans
      <3> QED
        BY <1>7, <3>1, <3>2
    <2> QED
      BY <2>1, <2>2, <2>3 DEF CommitsFollowPlans
  <1>16. OriginalsFollowPlans'
    <2>1. ASSUME NEW v \in Vault, NEW o \in originals'[v]
          PROVE  /\ o.item \in o.plan.items
                 /\ o.name = o.plan.naming.names[o.item]
                 /\ o.plan.at + TTL > o.confirmed
                 /\ AuthorityOf[v] = AuthorityOf[o.plan.vault]
      <3>1. CASE o \in originals[v]
        BY <3>1 DEF ReviewInv, OriginalsFollowPlans
      <3>2. CASE o = file /\ v = k.vault
        BY <1>1, <1>6, <3>2 DEF ReviewInv, CommitsFollowPlans
      <3> QED
        BY <1>10, <3>1, <3>2
    <2>2. ASSUME NEW u \in Vault, NEW v \in Vault, NEW x \in originals'[u], NEW o \in originals'[v],
                 x.plan = o.plan, x.item = o.item
          PROVE  x = o /\ u = v
      BY <1>6, <1>10, <1>14, <2>2 DEF ReviewInv, OriginalsFollowPlans
    <2> QED
      BY <2>1, <2>2 DEF OriginalsFollowPlans
  <1> QED
    BY <1>1, <1>13, <1>15, <1>16, NamingsKept, ClassificationsKept, PlansKept DEF ReviewInv

LEMMA ReviewStep == TypeOK /\ LeaseInv /\ ReviewInv /\ [Next]_vars => ReviewInv'
  <1> SUFFICES ASSUME TypeOK, LeaseInv, ReviewInv, [Next]_vars PROVE ReviewInv'
    OBVIOUS
  <1> USE DEF onDisk, registries, workers, budget
  <1>1. ASSUME NEW q \in Proposal, NEW S \in Selection, LoseClassification(q, S) PROVE ReviewInv'
    <2>1. /\ UNCHANGED <<namers, namings, plans, commits, originals, issued>>
          /\ classifications' \subseteq classifications
      BY <1>1, RetainedSubset DEF LoseClassification
    <2> QED
      BY <2>1, ReviewKept
  <1>2. CASE Quit
    <2>1. /\ namers' = {} /\ namings' = {} /\ classifications' = {} /\ plans' = {} /\ commits' = {}
          /\ originals' = originals /\ issued' = issued
      BY <1>2 DEF Quit
    <2> QED
      BY <2>1, ReviewKept
  <1>3. CASE UNCHANGED <<namers, namings, classifications, plans, commits, originals, issued>>
    BY <1>3, ReviewKept
  <1> QED
    BY <1>1, <1>2, <1>3, StartNamingKeepsReview, NamingKeepsReview, ClassifyKeepsReview,
       CreatePlanKeepsReview, ConfirmPlanKeepsReview, LeaseForCommitKeepsReview,
       CommitItemKeepsReview
       DEF Next, Review, Govern, RegisterProposal, ApproveProfile, Authorize, PrepareTransfer,
           ConfirmTransfer, LoseTransfer, Tick, vars

(* What the invariant says of the originals of one plan and of another.      *)
LEMMA ReviewsAreFollowed == ReviewInv => CommitsFollowOneReview
  <1> SUFFICES ASSUME ReviewInv, NEW v \in Vault, NEW o \in originals[v], NEW p, p = o.plan
               PROVE  /\ p.naming.proposal = p.proposal /\ p.naming.items = p.items
                      /\ p.classification.proposal = p.proposal /\ p.classification.items = p.items
                      /\ o.item \in p.items
                      /\ o.name # NamingReview /\ p.classification.committable
                      /\ p.naming.at + TTL > p.at /\ p.classification.at + TTL > p.at
                      /\ p.at + TTL > o.confirmed
                      /\ AuthorityOf[v] = AuthorityOf[p.vault]
                      /\ \A u \in Vault : \A x \in originals[u] :
                            \/ x.plan = p /\ (x.item = o.item => x = o /\ u = v)
                            \/ /\ x.plan.naming.id # p.naming.id
                               /\ x.plan.classification.id # p.classification.id
    BY DEF CommitsFollowOneReview
  <1>1. \A u \in Vault : \A x \in originals[u] : x.plan \in Made
    BY DEF Made, Rested
  <1>2. p \in Made /\ IsReviewed(p)
    BY <1>1 DEF ReviewInv, PlansAreReviewed
  <1>3. /\ o.item \in p.items
        /\ o.name = p.naming.names[o.item]
        /\ p.at + TTL > o.confirmed
        /\ AuthorityOf[v] = AuthorityOf[p.vault]
    BY DEF ReviewInv, OriginalsFollowPlans
  <1>4. ASSUME NEW u \in Vault, NEW x \in originals[u]
        PROVE  \/ x.plan = p /\ (x.item = o.item => x = o /\ u = v)
               \/ /\ x.plan.naming.id # p.naming.id
                  /\ x.plan.classification.id # p.classification.id
    BY <1>1, <1>2 DEF ReviewInv, OriginalsFollowPlans, PlansAreDistinct
  <1> QED
    BY <1>2, <1>3, <1>4 DEF IsReviewed

(* Every archived original goes back to one review, and no batch or plan     *)
(* serves twice, whatever expires, moves to another Vault or stops in        *)
(* between (consume_at of the three registries).                             *)
THEOREM CommitsAreReviewedOnce == Spec => []CommitsFollowOneReview
  <1>1. Init => LeaseInv
    BY DEF Init, LeaseInv, WorkersUseCurrentVault, Leases
  <1> QED
    BY <1>1, TypeCorrect, LeaseStep, ReviewInit, ReviewStep, ReviewsAreFollowed, PTL DEF Spec

-----------------------------------------------------------------------------
(* Collisions. *)

\* The namings that something still rests on, and what was free when each was made.
Namings == namings \cup {p.naming : p \in plans} \cup {k.plan.naming : k \in commits}

NamesInv ==
    /\ \A w \in namers : w.at <= clock
    /\ \A n \in Namings :
        /\ n.at <= clock
        /\ \A i \in n.items : \A o \in originals[n.vault] :
            DigestOf[o.item] = DigestOf[i] /\ o.name = n.names[i] /\ o.name # NamingReview
                => o.at >= n.at

LEMMA NamesKept ==
    ASSUME TypeOK, NamesInv, namers' \subseteq namers, Namings' \subseteq Namings,
           originals' = originals, clock' \in Nat, clock <= clock'
    PROVE  NamesInv'
  <1>1. clock \in Nat /\ \A w \in namers : w.at \in Nat
    BY LimitAssumption DEF TypeOK, Time, Namer
  <1>2. \A n \in Namings : n.at \in Nat
    <2>1. Namings \subseteq Naming
      BY DEF TypeOK, Namings, ArchivePlan, Commit
    <2> QED
      BY <2>1, LimitAssumption DEF Naming, Time
  <1> QED
    BY <1>1, <1>2 DEF NamesInv

\* Steps that make no naming and archive nothing.
LEMMA NamingsShrink ==
    ASSUME namings' \subseteq namings, plans' \subseteq plans, commits' \subseteq commits
    PROVE  Namings' \subseteq Namings
  BY DEF Namings

(* A proposed name is free, or left to the user.                             *)
LEMMA ProposedNameIsFree ==
    ASSUME NEW stem, NEW occupied
    PROVE  ProposeName(stem, occupied) = NamingReview \/ ProposeName(stem, occupied) \notin occupied
  BY DEF ProposeName

LEMMA NamesStep == TypeOK /\ LeaseInv /\ NamesInv /\ [Next]_vars => NamesInv'
  <1> SUFFICES ASSUME TypeOK, LeaseInv, NamesInv, [Next]_vars PROVE NamesInv'
    OBVIOUS
  <1> USE DEF onDisk, registries, workers, budget
  <1>0. clock \in Nat
    BY LimitAssumption DEF TypeOK, Time
  <1>1. ASSUME NEW q \in Proposal, NEW S \in Selection, StartNaming(q, S) PROVE NamesInv'
    <2>1. /\ \A w \in namers' : w \in namers \/ w.at = clock
          /\ UNCHANGED <<namings, plans, commits, originals, clock>>
      BY <1>1 DEF StartNaming
    <2>2. Namings' = Namings
      BY <2>1 DEF Namings
    <2> QED
      BY <1>0, <2>1, <2>2 DEF NamesInv
  <1>2. ASSUME NEW w \in namers, LeaseForNaming(w) PROVE NamesInv'
    <2> DEFINE x == [w EXCEPT !.step = "create", !.vault = authority]
    <2>1. /\ namers' \subseteq namers \cup {x}
          /\ UNCHANGED <<namings, plans, commits, originals, clock>>
      BY <1>2 DEF LeaseForNaming
    <2>2. x.at = w.at
      BY DEF TypeOK, Namer
    <2> HIDE DEF x
    <2>3. Namings' = Namings
      BY <2>1 DEF Namings
    <2> QED
      BY <2>1, <2>2, <2>3 DEF NamesInv
  <1>3. ASSUME NEW w \in namers, CreateNaming(w) PROVE NamesInv'
    <2>0. PICK facts \in [w.items -> Stem \cup {NamingReview}] : \E batch :
            /\ batch = [id |-> w.id, proposal |-> w.proposal, items |-> w.items,
                        vault |-> w.vault, at |-> w.at,
                        names |-> [i \in Item |->
                           IF i \in w.items
                           THEN ProposeName(facts[i], Occupied(w.vault, DigestOf[i]))
                           ELSE NamingReview]]
            /\ namings' \subseteq namings \cup {batch}
      BY <1>3, RetainedSubset DEF CreateNaming
    <2>1. PICK batch :
            /\ batch = [id |-> w.id, proposal |-> w.proposal, items |-> w.items,
                        vault |-> w.vault, at |-> w.at,
                        names |-> [i \in Item |->
                           IF i \in w.items
                           THEN ProposeName(facts[i], Occupied(w.vault, DigestOf[i]))
                           ELSE NamingReview]]
            /\ namings' \subseteq namings \cup {batch}
      BY <2>0
    <2>2. namers' \subseteq namers /\ UNCHANGED <<plans, commits, originals, clock>>
      BY <1>3 DEF CreateNaming
    <2>3. Namings' \subseteq Namings \cup {batch}
      BY <2>1, <2>2 DEF Namings
    <2>4. /\ batch.at = w.at /\ batch.vault = w.vault /\ batch.items = w.items
          /\ \A i \in w.items \cap Item :
                batch.names[i] = ProposeName(facts[i], Occupied(w.vault, DigestOf[i]))
      BY <2>1
    <2>5. w.items \subseteq Item
      BY DEF TypeOK, Namer
    <2>6. ASSUME NEW i \in batch.items, NEW o \in originals[batch.vault],
                 DigestOf[o.item] = DigestOf[i], o.name = batch.names[i], o.name # NamingReview
          PROVE  FALSE
      <3>1. o.name \in Occupied(w.vault, DigestOf[i])
        BY <2>4, <2>6 DEF Occupied
      <3>2. o.name = ProposeName(facts[i], Occupied(w.vault, DigestOf[i]))
        BY <2>4, <2>5, <2>6
      <3> QED
        BY <2>6, <3>1, <3>2, ProposedNameIsFree
    <2>7. \A n \in Namings' :
            /\ n.at <= clock
            /\ \A i \in n.items : \A o \in originals[n.vault] :
                DigestOf[o.item] = DigestOf[i] /\ o.name = n.names[i] /\ o.name # NamingReview
                    => o.at >= n.at
      BY <2>3, <2>4, <2>6 DEF NamesInv
    <2> QED
      BY <2>2, <2>7 DEF NamesInv
  <1>4. ASSUME NEW q \in Proposal, NEW S \in Selection, CreatePlan(q, S) PROVE NamesInv'
    <2>1. \E n \in namings : \E plan :
            /\ plan.naming = n
            /\ namings' \subseteq namings
            /\ plans' \subseteq plans \cup {plan}
      <3>1. PICK c \in Retained(classifications, clock), n \in Retained(namings, clock) :
            LET plan == [id |-> issued.plan + 1, proposal |-> q, items |-> S,
                         vault |-> authority, at |-> clock, naming |-> n, classification |-> c]
            IN /\ namings' = Retained(namings, clock) \ {n}
               /\ plans' = IF Plannable(plan) THEN Retained(plans, clock) \cup {plan} ELSE plans
        BY <1>4 DEF CreatePlan
      <3> DEFINE plan == [id |-> issued.plan + 1, proposal |-> q, items |-> S,
                         vault |-> authority, at |-> clock, naming |-> n, classification |-> c]
      <3>2. plan.naming = n
        OBVIOUS
      <3>3. n \in namings /\ namings' \subseteq namings /\ plans' \subseteq plans \cup {plan}
        BY <3>1, RetainedSubset
      <3> QED
        BY <3>2, <3>3
    <2>2. UNCHANGED <<namers, commits, originals, clock>>
      BY <1>4 DEF CreatePlan
    <2>3. Namings' \subseteq Namings
      BY <2>1, <2>2 DEF Namings
    <2> QED
      BY <1>0, <2>2, <2>3, NamesKept
  <1>5. ASSUME NEW p \in plans, ConfirmPlan(p) PROVE NamesInv'
    <2>1. /\ \A k \in commits' : k \in commits \/ k.plan = p
          /\ plans' \subseteq plans /\ UNCHANGED <<namers, namings, originals, clock>>
      BY <1>5, RetainedSubset DEF ConfirmPlan
    <2>2. Namings' \subseteq Namings
      BY <2>1 DEF Namings
    <2> QED
      BY <1>0, <2>1, <2>2, NamesKept
  <1>6. ASSUME NEW k \in commits, LeaseForCommit(k) PROVE NamesInv'
    <2>1. [k EXCEPT !.step = "run", !.vault = authority].plan = k.plan
      BY DEF TypeOK, Commit
    <2>2. /\ \A m \in commits' : m \in commits \/ m.plan = k.plan
          /\ UNCHANGED <<namers, namings, plans, originals, clock>>
      BY <1>6, <2>1 DEF LeaseForCommit
    <2>3. Namings' \subseteq Namings
      BY <2>2 DEF Namings
    <2> QED
      BY <1>0, <2>2, <2>3, NamesKept
  <1>7. ASSUME NEW k \in commits, CommitItem(k) PROVE NamesInv'
    <2> DEFINE m(i) == [k EXCEPT !.left = k.left \ {i}]
               file(i) == [item |-> i, name |-> k.plan.naming.names[i], plan |-> k.plan,
                           confirmed |-> k.at, at |-> clock]
    <2>1. PICK i \in k.left :
            /\ commits' \subseteq commits \cup {m(i)}
            /\ \/ UNCHANGED originals
               \/ originals' = [originals EXCEPT ![k.vault] = @ \cup {file(i)}]
      BY <1>7 DEF CommitItem
    <2>2. m(i).plan = k.plan /\ file(i).at = clock
      BY DEF TypeOK, Commit
    <2> HIDE DEF m, file
    <2>3. UNCHANGED <<namers, namings, plans, clock>>
      BY <1>7 DEF CommitItem
    <2>4. Namings' \subseteq Namings
      BY <2>1, <2>2, <2>3 DEF Namings
    <2>5. \A v \in Vault : \A o \in originals'[v] : o \in originals[v] \/ o.at = clock
      BY <2>1, <2>2 DEF TypeOK
    <2>6. \A n \in Namings : n.vault \in Vault /\ n.at \in Nat
      <3>1. Namings \subseteq Naming
        BY DEF TypeOK, Namings, ArchivePlan, Commit
      <3> QED
        BY <3>1, LimitAssumption DEF Naming, Time
    <2> QED
      BY <1>0, <2>3, <2>4, <2>5, <2>6 DEF NamesInv
  <1>8. CASE Quit
    <2>1. /\ namers' = {} /\ namings' = {} /\ plans' = {} /\ commits' = {}
          /\ originals' = originals /\ clock' = clock
      BY <1>8 DEF Quit
    <2>2. Namings' = {}
      BY <2>1 DEF Namings
    <2> QED
      BY <2>1, <2>2 DEF NamesInv
  <1>9. CASE /\ UNCHANGED <<namers, namings, plans, commits, originals>>
             /\ clock' \in {clock, clock + 1}
    <2>1. Namings' = Namings
      BY <1>9 DEF Namings
    <2> QED
      BY <1>0, <1>9, <2>1, NamesKept
  <1> QED
    BY <1>1, <1>2, <1>3, <1>4, <1>5, <1>6, <1>7, <1>8, <1>9
       DEF Next, Review, Govern, RegisterProposal, ApproveProfile, Classify, LoseClassification,
           Authorize, PrepareTransfer, ConfirmTransfer, LoseTransfer, Tick, vars

(* A destination that a commit finds taken was taken after the names were    *)
(* proposed, or they were proposed for another Vault (propose_name).         *)
THEOREM CollisionsAreExplained == Spec => []CollisionsHaveCause
  <1>1. Init => LeaseInv
    BY DEF Init, LeaseInv, WorkersUseCurrentVault, Leases
  <1>2. Init => NamesInv
    BY DEF Init, NamesInv, Namings
  <1>3. ReviewInv /\ NamesInv => CollisionsHaveCause
    <2> SUFFICES ASSUME ReviewInv, NamesInv, NEW k \in commits, NEW i \in k.left,
                        NEW o \in originals[k.vault],
                        Destination(k.plan, i) = <<DigestOf[o.item], o.name>>,
                        k.plan.naming.vault = k.vault
                 PROVE  o.at >= k.plan.naming.at
      BY DEF CollisionsHaveCause
    <2>1. k.plan \in Made /\ k.plan.naming \in Namings
      BY DEF Made, Rested, Namings
    <2>2. i \in k.plan.naming.items /\ k.plan.naming.names[i] # NamingReview
      BY <2>1 DEF ReviewInv, CommitsFollowPlans, PlansAreReviewed, IsReviewed
    <2>3. DigestOf[i] = DigestOf[o.item] /\ k.plan.naming.names[i] = o.name
      BY DEF Destination
    <2> QED
      BY <2>1, <2>2, <2>3 DEF NamesInv
  <1> QED
    BY <1>1, <1>2, <1>3, TypeCorrect, LeaseStep, ReviewInit, ReviewStep, NamesStep, PTL DEF Spec

-----------------------------------------------------------------------------
(* The intake of dropped sources, whose proposals are reviewed (Discovery).  *)

(* What is left to inspect after the next entry.                           *)
LEMMA RestOfWalk ==
    ASSUME NEW s \in Seq(Entry), s # <<>>
    PROVE  /\ Head(s) = s[1] /\ Head(s) \in Entry
           /\ Len(s) > 0 /\ Len(s) \in Nat
           /\ Tail(s) \in Seq(Entry) /\ Len(Tail(s)) = Len(s) - 1
           /\ DOMAIN Tail(s) = 1 .. Len(s) - 1
           /\ \A i \in 1 .. Len(s) - 1 : Tail(s)[i] = s[i + 1]
           /\ \A i \in DOMAIN s : i = 1 \/ (i - 1 \in DOMAIN Tail(s) /\ Tail(s)[i - 1] = s[i])
  OBVIOUS

(* A step that takes the next entry and puts nothing in its place.          *)
LEMMA EntryTaken ==
    ASSUME NEW w, NEW roots, WalkInvariant(w, roots), w.todo # <<>>,
           NEW v \in Walk, v.todo = Tail(w.todo), ~v.cut,
           w.visited <= v.visited, v.visited <= MaxItems,
           w.seen \subseteq v.seen, w.noted \subseteq v.noted, NotesAreCounted(v),
           v.seen \subseteq w.seen \cup {First(w).path},
           First(w).path \in v.seen \cup v.noted,
           First(w).path \in v.seen \ w.seen =>
               /\ First(w).path \in File
               /\ First(w).path \in v.noted \/ v.items = Append(w.items, First(w).path),
           \/ v.items = w.items
           \/ /\ v.items = Append(w.items, First(w).path)
              /\ First(w).path \in v.seen \ w.seen
              /\ First(w).depth > 0 \/ v.visited > w.visited
    PROVE  WalkInvariant(v, roots)
PROOF
  <1> DEFINE p == First(w).path
  <1>0. /\ w \in Walk /\ w.todo \in Seq(Entry) /\ w.items \in Seq(Path) /\ w.visited \in Nat
        /\ ~w.cut /\ FollowsUp(w, roots)
    BY DEF WalkInvariant, Walk
  <1>1. First(w) = w.todo[1] /\ First(w) \in Entry /\ p \in Path /\ First(w).depth \in Nat
    BY <1>0, RestOfWalk DEF First, Entry
  <1>2. \A i \in DOMAIN w.items : i \in DOMAIN v.items /\ v.items[i] = w.items[i]
    <2>1. CASE v.items = w.items
      BY <2>1
    <2>2. CASE v.items = Append(w.items, p)
      <3>1. w.items \in Seq(Path) /\ p \in Path
        BY <1>0, <1>1
      <3> HIDE DEF p
      <3> QED
        BY <2>2, <3>1
    <2> QED
      BY <2>1, <2>2
  <1>3. \A i \in DOMAIN v.items :
            \/ i \in DOMAIN w.items /\ v.items[i] = w.items[i]
            \/ i = Len(w.items) + 1 /\ v.items[i] = p /\ p \in v.seen \ w.seen
    <2>1. CASE v.items = w.items
      BY <2>1
    <2>2. CASE v.items = Append(w.items, p) /\ p \in v.seen \ w.seen
      <3> HIDE DEF p
      <3> QED
        BY <1>0, <1>1, <2>2
    <2> QED
      BY <2>1, <2>2
  <1>4. \A i, j \in DOMAIN v.items : v.items[i] = v.items[j] => i = j
    <2>1. \A i \in DOMAIN w.items : w.items[i] \in w.seen
      BY DEF WalkInvariant
    <2>2. \A i, j \in DOMAIN w.items : w.items[i] = w.items[j] => i = j
      BY DEF WalkInvariant
    <2> QED
      BY <1>3, <2>1, <2>2
  <1>5. \A i \in DOMAIN v.items : v.items[i] \in v.seen
    BY <1>3 DEF WalkInvariant
  <1>6. RootsComeLast(v)
    <2>1. PICK n \in 0 .. Len(w.todo) :
            /\ \A i \in DOMAIN w.todo : w.todo[i].depth > 0 <=> i <= n
            /\ Len(w.items) + n <= w.visited
      BY DEF WalkInvariant, RootsComeLast
    <2> DEFINE m == IF n = 0 THEN 0 ELSE n - 1
    <2>2. m \in 0 .. Len(v.todo)
      BY <1>0, RestOfWalk
    <2>3. \A i \in DOMAIN v.todo : v.todo[i].depth > 0 <=> i <= m
      BY <1>0, <2>1, RestOfWalk
    <2>4. First(w).depth > 0 <=> n > 0
      BY <1>0, <1>1, <2>1, RestOfWalk
    <2>5. Len(v.items) + m <= v.visited
      <3>1. v.visited \in Nat
        BY DEF Walk
      <3>2. Len(v.items) = Len(w.items) \/ (Len(v.items) = Len(w.items) + 1
                                             /\ (n > 0 \/ v.visited > w.visited))
        BY <1>0, <1>1, <2>4
      <3>3. PICK a \in Nat : a = Len(w.items)
        BY <1>0
      <3>4. a + n <= w.visited /\ n \in Nat
        BY <1>0, <2>1, <3>3
      <3> HIDE DEF p
      <3>5. PICK y \in Nat, z \in Nat : y = w.visited /\ z = v.visited /\ y <= z
        BY <1>0, <3>1
      <3>6. PICK b \in Nat : b = Len(v.items) /\ (b = a \/ (b = a + 1 /\ (n > 0 \/ z > y)))
        BY <3>2, <3>3, <3>5
      <3>7. b + m <= z
        <4>1. a + n <= y /\ n \in Nat
          BY <3>4, <3>5
        <4>2. CASE n = 0
          <5>1. m = 0
            BY <4>2
          <5>2. b <= z
            BY <3>5, <3>6, <4>1, <4>2
          <5> HIDE DEF m
          <5> QED
            BY <5>1, <5>2
        <4>3. CASE n > 0
          <5>1. m = n - 1
            BY <4>1, <4>3
          <5> HIDE DEF m
          <5>2. b <= a + 1
            BY <3>6
          <5> QED
            BY <3>5, <4>1, <5>1, <5>2
        <4> QED
          BY <4>1, <4>2, <4>3
      <3> QED
        BY <3>5, <3>6, <3>7
    <2> QED
      BY <2>2, <2>3, <2>5 DEF RootsComeLast
  <1>7. Covered(w) \subseteq Covered(v)
    <2>1. \A i \in DOMAIN w.todo :
             i = 1 \/ w.todo[i].path \in {v.todo[j].path : j \in DOMAIN v.todo}
      <3> TAKE i \in DOMAIN w.todo
      <3>1. i = 1 \/ (i - 1 \in DOMAIN v.todo /\ v.todo[i - 1] = w.todo[i])
        BY <1>0, RestOfWalk
      <3> QED
        BY <3>1
    <2> QED
      BY <1>1, <2>1 DEF Covered
  <1>8. FollowsUp(v, roots)
    <2>1. \A i \in DOMAIN roots : roots[i] \in Covered(v)
      BY <1>0, <1>7 DEF FollowsUp
    <2>2. \A d \in v.seen \cap Directory : \A i \in DOMAIN Entries[d] :
             Entries[d][i] \in Covered(v)
      BY <1>0, <1>7 DEF FollowsUp, File
    <2>3. \A f \in v.seen \cap File : f \in v.noted \/ \E j \in DOMAIN v.items : v.items[j] = f
      <3>1. CASE v.items = w.items
        BY <1>0, <1>1, <3>1 DEF FollowsUp
      <3>2. CASE v.items = Append(w.items, p)
        <4>1. Len(w.items) + 1 \in DOMAIN v.items /\ v.items[Len(w.items) + 1] = p
          BY <1>0, <1>1, <3>2
        <4> QED
          BY <1>0, <1>2, <4>1 DEF FollowsUp
      <3> QED
        BY <3>1, <3>2
    <2> QED
      BY <2>1, <2>2, <2>3 DEF FollowsUp
  <1> QED
    BY <1>4, <1>5, <1>6, <1>8 DEF WalkInvariant

(* What is noted is counted once more, and named while there is room.       *)
LEMMA NotesStep ==
    ASSUME TreeAssumption, NEW w \in Walk, NotesAreCounted(w), NEW p,
           NEW v, v.noted = w.noted \cup {p}, v.counted = w.counted + 1,
           v.told = IF w.counted < MaxDiagnostics THEN w.told \cup {p} ELSE w.told
    PROVE  NotesAreCounted(v)
PROOF
  <1>1. PICK a \in Nat, m \in Nat : a = w.counted /\ m = MaxDiagnostics
    BY TreeAssumption DEF Walk
  <1>2. /\ IsFiniteSet(w.noted \cup {p}) /\ IsFiniteSet(w.noted)
        /\ Cardinality(w.noted) \in Nat
        /\ \/ Cardinality(w.noted \cup {p}) = Cardinality(w.noted)
           \/ Cardinality(w.noted \cup {p}) = Cardinality(w.noted) + 1
    BY FS_AddElement, FS_CardinalityType DEF NotesAreCounted
  <1>3. PICK n \in Nat : n = Cardinality(w.noted) /\ n <= a
    BY <1>1, <1>2 DEF NotesAreCounted
  <1>4. Cardinality(v.noted) <= v.counted
    <2>1. PICK l \in Nat : l = Cardinality(w.noted \cup {p}) /\ (l = n \/ l = n + 1)
      BY <1>2, <1>3
    <2>2. l <= a + 1
      BY <1>3, <2>1
    <2> QED
      BY <1>1, <2>1, <2>2
  <1>5. v.told = v.noted \/ v.counted > MaxDiagnostics
    <2>1. CASE a < m
      <3>1. w.told = w.noted
        BY <1>1, <2>1 DEF NotesAreCounted
      <3> QED
        BY <1>1, <2>1, <3>1
    <2>2. CASE ~(a < m)
      <3>1. a + 1 > m
        BY <2>2
      <3> QED
        BY <1>1, <3>1
    <2> QED
      BY <2>1, <2>2
  <1> QED
    BY <1>2, <1>4, <1>5 DEF NotesAreCounted

(* A step that notes nothing. *)
LEMMA NotesKept ==
    ASSUME NEW w, NotesAreCounted(w),
           NEW v, v.noted = w.noted, v.counted = w.counted, v.told = w.told
    PROVE  NotesAreCounted(v)
  BY DEF NotesAreCounted

(* A walk as a record. *)
LEMMA WalkFields ==
    ASSUME NEW w \in Walk
    PROVE  /\ w = [todo |-> w.todo, visited |-> w.visited, seen |-> w.seen, items |-> w.items,
                   noted |-> w.noted, counted |-> w.counted, told |-> w.told, cut |-> w.cut]
           /\ w.counted \in Nat /\ w.told \subseteq Path /\ w.noted \subseteq Path
           /\ w.counted + 1 \in Nat
  BY DEF Walk

(* An entry is noted in a diagnostic.                                       *)
LEMMA NotedStep ==
    ASSUME TreeAssumption, NEW w, NEW roots, WalkInvariant(w, roots), w.todo # <<>>
    PROVE  WalkInvariant(Noted(w), roots)
PROOF
  <1>0. /\ w \in Walk /\ w.todo \in Seq(Entry) /\ ~w.cut /\ w.visited <= MaxItems
        /\ NotesAreCounted(w)
    BY DEF WalkInvariant, Walk
  <1>1. First(w).path \in Path /\ Tail(w.todo) \in Seq(Entry)
    BY <1>0, RestOfWalk DEF First, Entry
  <1>2. PICK names, v :
           /\ names = IF w.counted < MaxDiagnostics THEN w.told \cup {First(w).path} ELSE w.told
           /\ v = Noted(w)
    OBVIOUS
  <1>3. v = [todo |-> Tail(w.todo), visited |-> w.visited, seen |-> w.seen, items |-> w.items,
             noted |-> w.noted \cup {First(w).path}, counted |-> w.counted + 1,
             told |-> names, cut |-> w.cut]
    <2>1. w = [todo |-> w.todo, visited |-> w.visited, seen |-> w.seen, items |-> w.items,
               noted |-> w.noted, counted |-> w.counted, told |-> w.told, cut |-> w.cut]
      BY <1>0, WalkFields
    <2>2. PICK x : x = Rest(w)
      OBVIOUS
    <2>3. x = [todo |-> Tail(w.todo), visited |-> w.visited, seen |-> w.seen,
               items |-> w.items, noted |-> w.noted, counted |-> w.counted,
               told |-> w.told, cut |-> w.cut]
      BY <2>1, <2>2 DEF Rest
    <2>4. v = [x EXCEPT !.noted = @ \cup {First(w).path}, !.counted = @ + 1,
                        !.told = IF w.counted < MaxDiagnostics THEN @ \cup {First(w).path}
                                 ELSE @]
      BY <1>2, <2>2 DEF Noted
    <2>5. v = [x EXCEPT !.noted = @ \cup {First(w).path}, !.counted = @ + 1, !.told = names]
      BY <1>2, <2>3, <2>4
    <2> QED
      BY <2>3, <2>5
  <1>4. /\ v \in Walk /\ v.todo = Tail(w.todo) /\ v.noted = w.noted \cup {First(w).path}
        /\ v.seen = w.seen /\ v.items = w.items /\ v.cut = w.cut
        /\ v.visited = w.visited /\ w.visited \in Nat
        /\ v.counted = w.counted + 1 /\ v.told = names
    <2>1. names \in SUBSET Path
      BY <1>0, <1>1, <1>2, WalkFields
    <2> QED
      BY <1>0, <1>1, <1>3, <2>1, WalkFields DEF Walk
  <1>5. NotesAreCounted(v)
    BY <1>0, <1>2, <1>4, NotesStep
  <1>6. WalkInvariant(v, roots)
    BY <1>0, <1>4, <1>5, EntryTaken
  <1> QED
    BY <1>2, <1>6

(* An entry is passed over because it was seen before.                      *)
LEMMA SeenStep ==
    ASSUME NEW w, NEW roots, WalkInvariant(w, roots), w.todo # <<>>, First(w).path \in w.seen
    PROVE  WalkInvariant(Rest(w), roots)
PROOF
  <1>0. w \in Walk /\ w.todo \in Seq(Entry) /\ ~w.cut /\ w.visited <= MaxItems
    BY DEF WalkInvariant, Walk
  <1>1. Tail(w.todo) \in Seq(Entry)
    BY <1>0, RestOfWalk
  <1>2. /\ Rest(w) \in Walk /\ Rest(w).todo = Tail(w.todo) /\ Rest(w).noted = w.noted
        /\ Rest(w).seen = w.seen /\ Rest(w).items = w.items /\ Rest(w).cut = w.cut
        /\ Rest(w).visited = w.visited /\ w.visited \in Nat
        /\ Rest(w).counted = w.counted /\ Rest(w).told = w.told
    BY <1>0, <1>1 DEF Rest, Walk
  <1>3. NotesAreCounted(Rest(w))
    BY <1>2, NotesKept DEF WalkInvariant
  <1> QED
    BY <1>0, <1>2, <1>3, EntryTaken

(* A file is included, a root file after it was counted.                    *)
LEMMA IncludedStep ==
    ASSUME TreeAssumption,
           NEW w, NEW roots, WalkInvariant(w, roots), w.todo # <<>>, First(w).path \in File,
           NEW u, u = w \/ u = [w EXCEPT !.visited = @ + 1], u.visited <= MaxItems,
           First(w).depth > 0 \/ u # w,
           NEW fails \in BOOLEAN
    PROVE  WalkInvariant(Included(u, fails), roots)
PROOF
  <1> DEFINE p == First(w).path
             v == Included(u, fails)
  <1>0. w \in Walk /\ w.todo \in Seq(Entry) /\ ~w.cut /\ w.visited <= MaxItems
    BY DEF WalkInvariant, Walk
  <1>1. p \in Path /\ Tail(w.todo) \in Seq(Entry)
    BY <1>0, RestOfWalk DEF First, Entry
  <1>2. /\ u \in Walk /\ u.todo = w.todo /\ u.noted = w.noted /\ u.seen = w.seen
        /\ u.items = w.items /\ u.cut = w.cut /\ w.visited \in Nat /\ u.visited \in Nat
        /\ u.counted = w.counted /\ u.told = w.told
        /\ w.visited <= u.visited /\ (First(w).depth > 0 \/ u.visited > w.visited)
        /\ First(u) = First(w)
    <2>1. CASE u = w
      BY <1>0, <2>1 DEF Walk, First
    <2>2. CASE u = [w EXCEPT !.visited = @ + 1]
      <3>1. PICK n \in Nat : n = w.visited
        BY <1>0 DEF Walk
      <3>2. /\ u.visited = n + 1 /\ u.todo = w.todo /\ u.noted = w.noted /\ u.seen = w.seen
            /\ u.items = w.items /\ u.cut = w.cut
            /\ u.counted = w.counted /\ u.told = w.told
        BY <1>0, <2>2, <3>1 DEF Walk
      <3>3. u \in Walk
        <4>1. w = [todo |-> w.todo, visited |-> n, seen |-> w.seen, items |-> w.items,
                   noted |-> w.noted, counted |-> w.counted, told |-> w.told, cut |-> w.cut]
          BY <1>0, <3>1, WalkFields
        <4>2. u = [todo |-> w.todo, visited |-> n + 1, seen |-> w.seen, items |-> w.items,
                   noted |-> w.noted, counted |-> w.counted, told |-> w.told, cut |-> w.cut]
          BY <2>2, <4>1
        <4>3. n + 1 \in Nat
          BY <3>1
        <4> QED
          BY <1>0, <4>2, <4>3 DEF Walk
      <3>4. First(u) = First(w)
        BY <3>2 DEF First
      <3>5. u.visited \in Nat /\ w.visited <= u.visited /\ u.visited > w.visited
        BY <3>1, <3>2
      <3> QED
        BY <3>1, <3>2, <3>3, <3>4, <3>5
    <2> QED
      BY <2>1, <2>2
  <1>3. u = [todo |-> w.todo, visited |-> u.visited, seen |-> w.seen, items |-> w.items,
             noted |-> w.noted, counted |-> w.counted, told |-> w.told, cut |-> w.cut]
    BY <1>2, WalkFields
  <1>30. NotesAreCounted(w)
    BY DEF WalkInvariant
  <1>4. CASE p \in w.seen
    <2>1. v = Rest(u)
      BY <1>2, <1>4 DEF Included
    <2>2. /\ v \in Walk /\ v.todo = Tail(w.todo) /\ v.noted = w.noted
          /\ v.seen = w.seen /\ v.items = w.items /\ v.cut = w.cut /\ v.visited = u.visited
          /\ v.counted = w.counted /\ v.told = w.told
      BY <1>0, <1>1, <1>2, <2>1 DEF Rest, Walk
    <2>3. NotesAreCounted(v)
      BY <1>30, <2>2, NotesKept
    <2> QED
      BY <1>0, <1>2, <1>4, <2>2, <2>3, EntryTaken
  <1>5. CASE p \notin w.seen /\ fails
    <2>1. PICK x, y : x = [u EXCEPT !.seen = @ \cup {p}] /\ y = v
      OBVIOUS
    <2>2. y = Noted(x)
      BY <1>2, <1>5, <2>1 DEF Included
    <2>3. x = [todo |-> w.todo, visited |-> u.visited, seen |-> w.seen \cup {p},
               items |-> w.items, noted |-> w.noted, counted |-> w.counted, told |-> w.told,
               cut |-> w.cut]
      BY <1>2, <1>3, <2>1
    <2>4. PICK names :
             names = IF w.counted < MaxDiagnostics THEN w.told \cup {p} ELSE w.told
      OBVIOUS
    <2>5. y = [todo |-> Tail(w.todo), visited |-> u.visited, seen |-> w.seen \cup {p},
               items |-> w.items, noted |-> w.noted \cup {p}, counted |-> w.counted + 1,
               told |-> names, cut |-> w.cut]
      BY <2>2, <2>3, <2>4 DEF Noted, Rest, First
    <2>6. /\ y \in Walk /\ y.todo = Tail(w.todo) /\ y.noted = w.noted \cup {p}
          /\ y.seen = w.seen \cup {p} /\ y.items = w.items /\ y.cut = w.cut
          /\ y.visited = u.visited /\ y.counted = w.counted + 1 /\ y.told = names
      <3>1. names \in SUBSET Path /\ w.counted + 1 \in Nat
        BY <1>0, <1>1, <2>4, WalkFields
      <3> QED
        BY <1>0, <1>1, <1>2, <2>5, <3>1 DEF Walk
    <2>7. NotesAreCounted(y)
      BY <1>0, <1>30, <2>4, <2>6, NotesStep
    <2>8. WalkInvariant(y, roots)
      BY <1>0, <1>2, <1>5, <2>6, <2>7, EntryTaken
    <2> QED
      BY <2>1, <2>8
  <1>6. CASE p \notin w.seen /\ ~fails
    <2>1. v = [Rest([u EXCEPT !.seen = @ \cup {p}]) EXCEPT !.items = Append(@, p)]
      BY <1>2, <1>6 DEF Included
    <2>10. PICK x : x = [u EXCEPT !.seen = @ \cup {p}]
      OBVIOUS
    <2>11. x = [todo |-> w.todo, visited |-> u.visited, seen |-> w.seen \cup {p},
                items |-> w.items, noted |-> w.noted, counted |-> w.counted, told |-> w.told,
                cut |-> w.cut]
      BY <1>2, <1>3, <2>10
    <2>12. v = [Rest(x) EXCEPT !.items = Append(@, p)]
      BY <2>1, <2>10
    <2>2. v = [todo |-> Tail(w.todo), visited |-> u.visited, seen |-> w.seen \cup {p},
               items |-> Append(w.items, p), noted |-> w.noted, counted |-> w.counted,
               told |-> w.told, cut |-> w.cut]
      <3> HIDE DEF v, p
      <3> QED
        BY <2>11, <2>12 DEF Rest
    <2>3. Append(w.items, p) \in Seq(Path)
      BY <1>0, <1>1 DEF Walk
    <2>4. /\ v \in Walk /\ v.todo = Tail(w.todo) /\ v.noted = w.noted
          /\ v.seen = w.seen \cup {p} /\ v.items = Append(w.items, p) /\ v.cut = w.cut
          /\ v.visited = u.visited /\ v.counted = w.counted /\ v.told = w.told
      BY <1>0, <1>1, <1>2, <2>2, <2>3 DEF Walk
    <2>5. NotesAreCounted(v)
      BY <1>30, <2>4, NotesKept
    <2> QED
      BY <1>0, <1>2, <1>6, <2>4, <2>5, EntryTaken
  <1> QED
    BY <1>4, <1>5, <1>6

(* One list before another.                                                 *)
LEMMA JoinedLists ==
    ASSUME NEW s \in Seq(Entry), NEW t \in Seq(Entry), NEW k \in Nat, k = Len(s),
           NEW l \in Nat, l = Len(t)
    PROVE  /\ s \o t \in Seq(Entry) /\ Len(s \o t) = k + l /\ DOMAIN (s \o t) = 1 .. k + l
           /\ \A i \in 1 .. k : (s \o t)[i] = s[i]
           /\ \A i \in 1 .. k + l : i > k => (s \o t)[i] = t[i - k]
  OBVIOUS

(* A directory is listed as a whole, if the budget allows.                  *)
LEMMA ListingStep ==
    ASSUME TreeAssumption, NEW w, NEW roots, WalkInvariant(w, roots), w.todo # <<>>,
           First(w).path \in Directory,
           Len(Entries[First(w).path]) <= Remaining(w)
    PROVE  WalkInvariant(Listing(w, Entries[First(w).path]), roots)
PROOF
  <1> DEFINE p == First(w).path
             names == Entries[p]
             new == [i \in DOMAIN names |-> [path |-> names[i], depth |-> First(w).depth + 1]]
             v == Listing(w, names)
  <1>0. /\ w \in Walk /\ w.todo \in Seq(Entry) /\ w.items \in Seq(Path) /\ w.visited \in Nat
        /\ ~w.cut /\ w.visited <= MaxItems /\ FollowsUp(w, roots)
    BY DEF WalkInvariant, Walk
  <1>1. First(w) = w.todo[1] /\ First(w) \in Entry /\ p \in Path /\ First(w).depth \in Nat
    BY <1>0, RestOfWalk DEF First, Entry
  <1>2. names \in Seq(Path) /\ Len(names) \in Nat /\ DOMAIN names = 1 .. Len(names)
    <2>1. names \in Seq(Path)
      BY TreeAssumption DEF Directory
    <2> HIDE DEF names
    <2> QED
      BY <2>1
  <1>20. MaxItems \in Nat
    BY TreeAssumption
  <1>3. new \in Seq(Entry) /\ Len(new) = Len(names) /\ DOMAIN new = 1 .. Len(names)
    <2>0. ASSUME NEW i \in DOMAIN names
          PROVE  [path |-> names[i], depth |-> First(w).depth + 1] \in Entry
      <3>1. names[i] \in Path /\ First(w).depth + 1 \in Nat
        BY <1>1, <1>2
      <3> QED
        BY <3>1 DEF Entry
    <2>1. new \in [1 .. Len(names) -> Entry]
      BY <1>2, <2>0
    <2> QED
      BY <1>2, <2>1
  <1>4. \A i \in DOMAIN new : new[i].path = names[i] /\ new[i].depth > 0
    <2>1. First(w).depth + 1 > 0
      BY <1>1
    <2> HIDE DEF names, p
    <2>2. \A i \in DOMAIN new : new[i] = [path |-> names[i], depth |-> First(w).depth + 1]
      BY DEF new
    <2> HIDE DEF new
    <2> QED
      BY <2>1, <2>2
  <1>5. v = [todo |-> new \o Tail(w.todo), visited |-> w.visited + Len(names),
             seen |-> w.seen \cup {p}, items |-> w.items, noted |-> w.noted,
             counted |-> w.counted, told |-> w.told, cut |-> w.cut]
    <2>1. w = [todo |-> w.todo, visited |-> w.visited, seen |-> w.seen, items |-> w.items,
               noted |-> w.noted, counted |-> w.counted, told |-> w.told, cut |-> w.cut]
      BY <1>0, WalkFields
    <2> HIDE DEF new
    <2>2. v = [Rest(w) EXCEPT !.todo = new \o @, !.visited = @ + Len(names),
                              !.seen = @ \cup {p}]
      BY DEF Listing, new
    <2> HIDE DEF v, names
    <2> QED
      BY <2>1, <2>2 DEF Rest
  <1> HIDE DEF new, names, v
  <1>21. PICK k \in Nat : k = Len(names)
    BY <1>2
  <1>22. PICK l \in Nat : l = Len(w.todo) /\ l > 0 /\ DOMAIN w.todo = 1 .. l
    BY <1>0, RestOfWalk
  <1>6. /\ v.todo \in Seq(Entry) /\ Len(v.todo) = k + l - 1 /\ DOMAIN v.todo = 1 .. k + l - 1
        /\ \A i \in 1 .. k : v.todo[i] = new[i]
        /\ \A i \in 1 .. k + l - 1 : i > k => v.todo[i] = w.todo[i - k + 1]
    <2>1. /\ Tail(w.todo) \in Seq(Entry) /\ Len(Tail(w.todo)) = l - 1 /\ l - 1 \in Nat
          /\ \A i \in 1 .. l - 1 : Tail(w.todo)[i] = w.todo[i + 1]
      BY <1>0, <1>22, RestOfWalk
    <2>2. PICK t : t = Tail(w.todo)
      OBVIOUS
    <2>20. PICK h \in Nat : h = l - 1
      BY <2>1
    <2>21. t \in Seq(Entry) /\ h = Len(t) /\ new \in Seq(Entry) /\ k = Len(new)
      BY <1>3, <1>21, <2>1, <2>2, <2>20
    <2>22. /\ new \o t \in Seq(Entry) /\ Len(new \o t) = k + h
           /\ DOMAIN (new \o t) = 1 .. k + h
           /\ \A i \in 1 .. k : (new \o t)[i] = new[i]
           /\ \A i \in 1 .. k + h : i > k => (new \o t)[i] = t[i - k]
      BY <2>21, JoinedLists
    <2>3. /\ new \o t \in Seq(Entry) /\ Len(new \o t) = k + (l - 1)
          /\ DOMAIN (new \o t) = 1 .. k + (l - 1)
          /\ \A i \in 1 .. k : (new \o t)[i] = new[i]
          /\ \A i \in 1 .. k + (l - 1) : i > k => (new \o t)[i] = t[i - k]
      BY <2>20, <2>22
    <2>4. v.todo = new \o t
      BY <1>5, <2>2
    <2>5. \A i \in 1 .. k + (l - 1) : i > k => t[i - k] = w.todo[i - k + 1]
      <3> TAKE i \in 1 .. k + (l - 1)
      <3> HAVE i > k
      <3>1. PICK j \in 1 .. l - 1 : j = i - k
        BY <2>20
      <3> QED
        BY <2>1, <2>2, <3>1
    <2> QED
      BY <2>3, <2>4, <2>5
  <1>7. /\ v \in Walk /\ v.visited <= MaxItems /\ v.items = w.items /\ v.noted = w.noted
        /\ v.seen = w.seen \cup {p} /\ ~v.cut /\ v.visited = w.visited + k
        /\ NotesAreCounted(v)
    <2>1. k <= MaxItems - w.visited
      BY <1>21 DEF Remaining, names
    <2>2. v.visited = w.visited + k /\ v.visited \in Nat /\ v.visited <= MaxItems
      <3>1. v.visited = w.visited + k
        BY <1>5, <1>21
      <3> QED
        BY <1>0, <1>20, <2>1, <3>1
    <2>3. /\ v.items = w.items /\ v.noted = w.noted /\ v.seen = w.seen \cup {p}
          /\ v.cut = w.cut /\ v.counted = w.counted /\ v.told = w.told
      BY <1>5
    <2>30. NotesAreCounted(v)
      BY <2>3, NotesKept DEF WalkInvariant
    <2>4. v = [todo |-> v.todo, visited |-> v.visited, seen |-> w.seen \cup {p},
               items |-> w.items, noted |-> w.noted, counted |-> w.counted, told |-> w.told,
               cut |-> w.cut]
      BY <1>5
    <2> HIDE DEF p
    <2>5. v \in Walk
      <3>1. PICK t \in Seq(Entry), n \in Nat : t = v.todo /\ n = v.visited
        BY <1>6, <2>2
      <3>2. v = [todo |-> t, visited |-> n, seen |-> w.seen \cup {p},
                 items |-> w.items, noted |-> w.noted, counted |-> w.counted,
                 told |-> w.told, cut |-> w.cut]
        BY <2>4, <3>1
      <3>3. /\ w.seen \cup {p} \in SUBSET Path /\ w.items \in Seq(Path)
            /\ w.noted \in SUBSET Path /\ w.cut \in BOOLEAN
            /\ w.counted \in Nat /\ w.told \in SUBSET Path
        BY <1>0, <1>1 DEF Walk
      <3> HIDE DEF v
      <3> QED
        BY <3>2, <3>3 DEF Walk
    <2> QED
      BY <1>0, <2>2, <2>3, <2>30, <2>5
  <1>8. RootsComeLast(v)
    <2>1. PICK n \in 0 .. l :
            /\ \A i \in DOMAIN w.todo : w.todo[i].depth > 0 <=> i <= n
            /\ Len(w.items) + n <= w.visited
      BY <1>22 DEF WalkInvariant, RootsComeLast
    <2> DEFINE m == k + (IF n = 0 THEN 0 ELSE n - 1)
    <2>2. m \in 0 .. Len(v.todo)
      BY <1>6, <1>22
    <2>3. \A i \in DOMAIN v.todo : v.todo[i].depth > 0 <=> i <= m
      <3> SUFFICES ASSUME NEW i \in 1 .. k + l - 1 PROVE v.todo[i].depth > 0 <=> i <= m
        BY <1>6
      <3>0. n \in Nat /\ i \in Nat /\ i >= 1
        BY <2>1
      <3>1. CASE i <= k
        <4>1. i \in 1 .. k /\ i \in DOMAIN new
          BY <1>3, <1>21, <3>0, <3>1
        <4>2. v.todo[i] = new[i]
          BY <1>6, <4>1
        <4>3. v.todo[i].depth > 0
          BY <1>4, <4>1, <4>2
        <4> QED
          BY <3>0, <3>1, <4>3
      <3>2. CASE i > k
        <4>1. v.todo[i] = w.todo[i - k + 1] /\ i - k + 1 \in DOMAIN w.todo
          BY <1>6, <1>22, <3>0, <3>2
        <4>2. v.todo[i].depth > 0 <=> i - k + 1 <= n
          BY <2>1, <4>1
        <4> QED
          BY <3>0, <3>2, <4>2
      <3> QED
        BY <3>0, <3>1, <3>2
    <2>4. Len(v.items) + m <= v.visited
      <3>1. PICK a \in Nat : a = Len(w.items)
        BY <1>0
      <3>2. a + n <= w.visited /\ n \in Nat
        BY <2>1, <3>1
      <3>3. Len(v.items) = a /\ v.visited = w.visited + k
        BY <1>7, <3>1
      <3> HIDE DEF v
      <3> QED
        BY <1>0, <3>2, <3>3
    <2> QED
      BY <2>2, <2>3, <2>4 DEF RootsComeLast
  <1>9. Covered(w) \subseteq Covered(v)
    <2>1. ASSUME NEW i \in DOMAIN w.todo PROVE w.todo[i].path \in Covered(v)
      <3>1. CASE i = 1
        BY <1>1, <1>7, <3>1 DEF Covered
      <3>2. CASE i # 1
        <4>1. i + k - 1 \in DOMAIN v.todo /\ v.todo[i + k - 1] = w.todo[i]
          <5>1. i \in Nat /\ i > 1 /\ i <= l
            BY <1>22, <3>2
          <5>2. i + k - 1 \in 1 .. k + l - 1 /\ i + k - 1 > k /\ (i + k - 1) - k + 1 = i
            BY <5>1
          <5> QED
            BY <1>6, <5>2
        <4> QED
          BY <4>1 DEF Covered
      <3> QED
        BY <3>1, <3>2
    <2> QED
      BY <1>7, <2>1 DEF Covered
  <1>10. \A i \in DOMAIN names : names[i] \in Covered(v)
    <2> TAKE i \in DOMAIN names
    <2>1. i \in DOMAIN v.todo /\ v.todo[i].path = names[i]
      BY <1>2, <1>3, <1>4, <1>6, <1>21, <1>22
    <2> QED
      BY <2>1 DEF Covered
  <1>11. FollowsUp(v, roots)
    <2>1. \A i \in DOMAIN roots : roots[i] \in Covered(v)
      BY <1>0, <1>9 DEF FollowsUp
    <2>2. \A d \in v.seen \cap Directory : \A i \in DOMAIN Entries[d] :
             Entries[d][i] \in Covered(v)
      BY <1>0, <1>7, <1>9, <1>10 DEF FollowsUp, names
    <2>3. \A f \in v.seen \cap File : f \in v.noted \/ \E j \in DOMAIN v.items : v.items[j] = f
      BY <1>0, <1>7 DEF FollowsUp, File
    <2> QED
      BY <2>1, <2>2, <2>3 DEF FollowsUp
  <1>12. /\ \A i, j \in DOMAIN v.items : v.items[i] = v.items[j] => i = j
         /\ \A i \in DOMAIN v.items : v.items[i] \in v.seen
    BY <1>7 DEF WalkInvariant
  <1> QED
    BY <1>7, <1>8, <1>11, <1>12 DEF WalkInvariant, v, names

(* A directory keeps the invariant, whatever becomes of it.                  *)
LEMMA ListedKeeps ==
    ASSUME TreeAssumption, NEW w, NEW roots, WalkInvariant(w, roots), w.todo # <<>>,
           First(w).path \in Directory,
           NEW fails \in BOOLEAN
    PROVE  WalkInvariant(Listed(w, fails), roots)
PROOF
  <1> DEFINE names == Entries[First(w).path]
  <1>1. /\ Len(names) \in Nat /\ MaxItems \in Nat /\ w.visited \in Nat
        /\ Remaining(w) = MaxItems - w.visited
    BY TreeAssumption DEF Directory, WalkInvariant, Walk, Remaining
  <1>2. CASE First(w).path \in w.seen
    BY <1>2, SeenStep DEF Listed
  <1>3. CASE /\ First(w).path \notin w.seen
             /\ \/ fails \/ First(w).depth > MaxDepth
                \/ Remaining(w) = 0 \/ Len(names) > Remaining(w)
    <2>1. Listed(w, fails) = Noted(w)
      BY <1>3 DEF Listed
    <2> QED
      BY <2>1, NotedStep
  <1>4. CASE /\ First(w).path \notin w.seen
             /\ ~(\/ fails \/ First(w).depth > MaxDepth
                  \/ Remaining(w) = 0 \/ Len(names) > Remaining(w))
    <2>1. Listed(w, fails) = Listing(w, names)
      BY <1>4 DEF Listed
    <2>2. Len(names) <= Remaining(w)
      BY <1>1, <1>4
    <2> QED
      BY <2>1, <2>2, ListingStep
  <1> QED
    BY <1>2, <1>3, <1>4

(* So does any entry. *)
LEMMA InspectedKeeps ==
    ASSUME TreeAssumption, NEW w, NEW roots, WalkInvariant(w, roots), w.todo # <<>>,
           NEW fails \in BOOLEAN
    PROVE  /\ First(w).depth = 0 => WalkInvariant(InspectedRoot(w, fails), roots)
           /\ First(w).depth > 0 => WalkInvariant(InspectedEntry(w, fails), roots)
PROOF
  <1>0. /\ w \in Walk /\ w.todo \in Seq(Entry) /\ w.visited \in Nat /\ w.visited <= MaxItems
        /\ MaxItems \in Nat
    BY TreeAssumption DEF WalkInvariant, Walk
  <1>1. First(w).path \in Path
    BY <1>0, RestOfWalk DEF First, Entry
  <1>2. CASE First(w).path \in Directory
    BY <1>2, ListedKeeps DEF InspectedRoot, InspectedEntry
  <1>3. CASE First(w).path \notin Directory
    <2>1. First(w).path \in File
      BY <1>1, <1>3 DEF File
    <2>2. First(w).depth > 0 => WalkInvariant(Included(w, fails), roots)
      BY <1>0, <2>1, IncludedStep
    <2>3. WalkInvariant(RootFile(w, fails), roots)
      <3>1. CASE Remaining(w) = 0
        BY <3>1, NotedStep DEF RootFile
      <3>2. CASE Remaining(w) # 0
        <4>1. PICK u : u = [w EXCEPT !.visited = @ + 1]
          OBVIOUS
        <4>2. u.visited = w.visited + 1
          BY <1>0, <4>1 DEF Walk
        <4>3. u.visited <= MaxItems /\ u # w
          BY <1>0, <3>2, <4>2 DEF Remaining
        <4>4. RootFile(w, fails) = Included(u, fails)
          BY <3>2, <4>1 DEF RootFile
        <4>5. WalkInvariant(Included(u, fails), roots)
          BY <2>1, <4>1, <4>3, IncludedStep
        <4> QED
          BY <4>4, <4>5
      <3> QED
        BY <3>1, <3>2
    <2> QED
      BY <1>3, <2>2, <2>3 DEF InspectedRoot, InspectedEntry
  <1> QED
    BY <1>2, <1>3

(* A walk that is stopped by its deadline has noted something. *)
LEMMA StoppedKeeps ==
    ASSUME TreeAssumption, NEW w, NEW roots, WalkInvariant(w, roots), w.todo # <<>>
    PROVE  WalkInvariant(Stopped(w), roots)
PROOF
  <1>1. WalkInvariant(Noted(w), roots) /\ Noted(w) \in Walk
    BY NotedStep DEF WalkInvariant
  <1>2. First(w).path \in Noted(w).noted
    BY DEF Noted, Rest, WalkInvariant, Walk
  <1>3. PICK v : v = Noted(w)
    OBVIOUS
  <1>4. PICK u : u = Stopped(w)
    OBVIOUS
  <1>5. /\ u = [v EXCEPT !.todo = <<>>, !.cut = TRUE]
        /\ v \in Walk /\ v.noted # {} /\ WalkInvariant(v, roots)
    BY <1>1, <1>2, <1>3, <1>4 DEF Stopped
  <1>6. /\ u \in Walk /\ u.todo = <<>> /\ u.cut /\ u.visited = v.visited /\ u.seen = v.seen
        /\ u.items = v.items /\ u.noted = v.noted /\ u.counted = v.counted /\ u.told = v.told
    <2>1. v = [todo |-> v.todo, visited |-> v.visited, seen |-> v.seen, items |-> v.items,
               noted |-> v.noted, counted |-> v.counted, told |-> v.told, cut |-> v.cut]
      BY <1>5, WalkFields
    <2>2. u = [todo |-> <<>>, visited |-> v.visited, seen |-> v.seen, items |-> v.items,
               noted |-> v.noted, counted |-> v.counted, told |-> v.told, cut |-> TRUE]
      BY <1>5, <2>1
    <2>3. <<>> \in Seq(Entry)
      OBVIOUS
    <2> QED
      BY <1>5, <2>2, <2>3 DEF Walk
  <1>7. RootsComeLast(u)
    <2>1. PICK n \in 0 .. Len(v.todo) : Len(v.items) + n <= v.visited
      BY <1>5 DEF WalkInvariant, RootsComeLast
    <2>2. Len(v.items) \in Nat /\ v.visited \in Nat /\ v.todo \in Seq(Entry)
      BY <1>5 DEF Walk
    <2>3. Len(u.items) + 0 <= u.visited
      BY <1>6, <2>1, <2>2
    <2> QED
      BY <1>6, <2>3 DEF RootsComeLast
  <1>8. NotesAreCounted(u)
    BY <1>5, <1>6, NotesKept DEF WalkInvariant
  <1>9. WalkInvariant(u, roots)
    BY <1>5, <1>6, <1>7, <1>8 DEF WalkInvariant
  <1> QED
    BY <1>4, <1>9

(* A walk begins. *)
LEMMA BegunKeeps ==
    ASSUME TreeAssumption, NEW roots \in Seq(Path)
    PROVE  WalkInvariant(Begun(roots), roots)
PROOF
  <1> DEFINE w == Begun(roots)
  <1>1. /\ w.todo = [i \in DOMAIN roots |-> [path |-> roots[i], depth |-> 0]]
        /\ w.visited = 0 /\ w.seen = {} /\ w.items = <<>> /\ w.noted = {} /\ ~w.cut
        /\ w.counted = 0 /\ w.told = {}
        /\ w = [todo |-> w.todo, visited |-> 0, seen |-> {}, items |-> <<>>, noted |-> {},
                counted |-> 0, told |-> {}, cut |-> FALSE]
    BY DEF Begun
  <1>2. w.todo \in Seq(Entry) /\ DOMAIN w.todo = DOMAIN roots
    <2>1. DOMAIN roots = 1 .. Len(roots) /\ Len(roots) \in Nat
      OBVIOUS
    <2>2. w.todo \in [1 .. Len(roots) -> Entry]
      BY <1>1, <2>1 DEF Entry
    <2> QED
      BY <1>1, <2>1, <2>2
  <1> HIDE DEF w
  <1>3. w \in Walk
    <2>1. <<>> \in Seq(Path) /\ 0 \in Nat
      OBVIOUS
    <2>2. PICK t : t = w.todo
      OBVIOUS
    <2>3. w = [todo |-> t, visited |-> 0, seen |-> {}, items |-> <<>>, noted |-> {},
               counted |-> 0, told |-> {}, cut |-> FALSE]
      BY <1>1, <2>2
    <2>4. t \in Seq(Entry)
      BY <1>2, <2>2
    <2> QED
      BY <2>1, <2>3, <2>4 DEF Walk
  <1>4. \A i \in DOMAIN roots : w.todo[i].path = roots[i] /\ w.todo[i].depth = 0
    BY <1>1
  <1>5. RootsComeLast(w)
    <2>1. \A i \in DOMAIN w.todo : w.todo[i].depth > 0 <=> i <= 0
      BY <1>2, <1>4
    <2>2. Len(w.items) + 0 <= w.visited /\ 0 \in 0 .. Len(w.todo)
      BY <1>1, <1>2
    <2> QED
      BY <2>1, <2>2 DEF RootsComeLast
  <1>6. FollowsUp(w, roots)
    <2>1. \A i \in DOMAIN roots : roots[i] \in Covered(w)
      BY <1>2, <1>4 DEF Covered
    <2> QED
      BY <1>1, <2>1 DEF FollowsUp
  <1>7. w.visited <= MaxItems
    BY <1>1, TreeAssumption
  <1>8. NotesAreCounted(w)
    BY <1>1, FS_EmptySet DEF NotesAreCounted
  <1> QED
    BY <1>1, <1>3, <1>5, <1>6, <1>7, <1>8 DEF WalkInvariant, w

(* What lies below a path contains it and the entries of the directories in it. *)
LEMMA BelowIsClosed ==
    ASSUME TreeAssumption, NEW p \in Path
    PROVE  /\ p \in Reached[p]
           /\ \A d \in Reached[p] \cap Directory : \A i \in DOMAIN Entries[d] :
                    Entries[d][i] \in Reached[p]
PROOF
  <1>1. \A d \in Directory : \A i \in DOMAIN Entries[d] : Entries[d][i] \in Path
    BY TreeAssumption DEF Directory
  <1> QED
    BY <1>1 DEF Reached, Closed

(* A walk that has ended has disclosed all that is below its roots.          *)
LEMMA WalkConcludes ==
    ASSUME TreeAssumption, NEW w, NEW roots, WalkInvariant(w, roots)
    PROVE  Bounded(w) /\ (w.todo = <<>> => Discloses(w, roots))
PROOF
  <1>0. w \in Walk
    BY DEF WalkInvariant
  <1>1. Bounded(w)
    <2>1. PICK n \in 0 .. Len(w.todo) : Len(w.items) + n <= w.visited
      BY DEF WalkInvariant, RootsComeLast
    <2>2. Len(w.items) \in Nat /\ w.visited \in Nat /\ w.todo \in Seq(Entry)
      BY <1>0 DEF Walk
    <2>3. Len(w.items) <= w.visited
      BY <2>1, <2>2
    <2> QED
      BY <2>3 DEF WalkInvariant, Bounded
  <1>2. ASSUME w.todo = <<>>, ~w.cut
        PROVE  Discloses(w, roots)
    <2>1. FollowsUp(w, roots) /\ Covered(w) = w.seen \cup w.noted
      BY <1>2 DEF WalkInvariant, Covered
    <2>2. w.seen \subseteq Path /\ w.noted \subseteq Path
      BY <1>0 DEF Walk
    <2> DEFINE S == w.seen \cup UNION {Reached[p] : p \in w.noted}
    <2>3. S \in Closed /\ w.noted \subseteq S
      <3>1. w.noted \subseteq S /\ S \subseteq Path
        <4>1. \A p \in Path : p \in Reached[p] /\ Reached[p] \subseteq Path
          BY BelowIsClosed DEF Reached
        <4> QED
          BY <2>2, <4>1
      <3>2. ASSUME NEW d \in S \cap Directory, NEW i \in DOMAIN Entries[d]
            PROVE  Entries[d][i] \in S
        <4>1. CASE d \in w.seen
          BY <2>1, <3>1, <3>2, <4>1 DEF FollowsUp
        <4>2. CASE d \notin w.seen
          BY <2>2, <3>2, <4>2, BelowIsClosed
        <4> QED
          BY <4>1, <4>2
      <3> QED
        BY <3>1, <3>2 DEF Closed
    <2>40. NotesAreCounted(w) /\ \A i \in DOMAIN roots : roots[i] \in Path
      BY <2>1, <2>3 DEF WalkInvariant, FollowsUp, Closed
    <2>4. ASSUME NEW i \in DOMAIN roots, NEW f \in Reached[roots[i]] \cap File
          PROVE  \/ \E j \in DOMAIN w.items : w.items[j] = f
                 \/ \E p \in w.noted : f \in Reached[p]
      <3>1. roots[i] \in S
        BY <2>1, <2>3 DEF FollowsUp
      <3>2. f \in S /\ f \in Path
        BY <2>3, <2>40, <3>1 DEF Reached
      <3>3. CASE f \in w.seen
        BY <2>1, <3>2, <3>3, BelowIsClosed DEF FollowsUp
      <3> QED
        BY <3>2, <3>3
    <2> QED
      BY <2>4, <2>40 DEF Discloses
  <1>3. w.cut => Discloses(w, roots)
    BY DEF WalkInvariant, Discloses
  <1> QED
    BY <1>1, <1>2, <1>3

-----------------------------------------------------------------------------
(* The steps of one call. *)

\* The assumptions that Discovery makes about its constants.
Setting == TreeAssumption /\ RootAssumption /\ PermitAssumption /\ AbsenceAssumption

LEMMA Settled == Setting
  BY TreeAssumption, RootAssumption, PermitAssumption, AbsenceAssumption DEF Setting

(* The walk of a call that does not walk. *)
LEMMA EmptyWalk ==
    ASSUME TreeAssumption
    PROVE  Begun(<<>>) \in Walk /\ WalkInvariant(Begun(<<>>), <<>>)
  <1>1. <<>> \in Seq(Path)
    OBVIOUS
  <1> QED
    BY <1>1, BegunKeeps DEF WalkInvariant

\* A call that takes a step stays the call of its command and grant, or ends.
Becomes(k, c) ==
    /\ c \in CallRecord /\ c.kind = calls[k].kind /\ c.grant = calls[k].grant
    /\ calls' = [calls EXCEPT ![k] = c]

Ends(k) == calls' = [calls EXCEPT ![k] = NoCall]

(* A call begins. *)
LEMMA AskStep ==
    ASSUME TreeAssumption, NEW k \in Call, NEW g \in Grant, NEW kind \in {"issue", "propose"},
           Ask(k, g, kind)
    PROVE  \E c \in CallRecord :
              /\ c.pc = "load" /\ c.kind = kind /\ c.grant = g 
              /\ c.walk = Begun(<<>>) /\ calls' = [calls EXCEPT ![k] = c]
  <1>1. PICK c : c = NewCall(g, kind)
    OBVIOUS
  <1>2. c \in CallRecord
    BY <1>1, EmptyWalk DEF NewCall, CallRecord, Asking, Working
  <1> QED
    BY <1>1, <1>2 DEF Ask, NewCall

(* It reads the number of permits held. *)
LEMMA LoadStep ==
    ASSUME PermitAssumption, IntakeTypeOK, NEW k \in Call, Load(k)
    PROVE  \E c :
              /\ Becomes(k, c) /\ c.pc = "exchange" /\ calls[k].pc = "load"
              /\ c.walk = calls[k].walk
  <1>1. calls[k] \in CallRecord /\ permits \in Nat /\ calls[k].pc = "load"
    BY DEF IntakeTypeOK, Load, At, Running
  <1>2. PICK c : c = [calls[k] EXCEPT !.pc = "exchange", !.read = permits]
    OBVIOUS
  <1>3. c \in CallRecord
    BY <1>1, <1>2 DEF CallRecord, Asking
  <1>4. calls' = [calls EXCEPT ![k] = c]
    BY <1>1, <1>2 DEF Load, IntakeTypeOK
  <1>5. /\ c.pc = "exchange" /\ c.kind = calls[k].kind /\ c.grant = calls[k].grant
        /\ c.walk = calls[k].walk
    BY <1>1, <1>2 DEF CallRecord
  <1> QED
    BY <1>1, <1>3, <1>4, <1>5 DEF Becomes

(* It takes a permit, tries again or is refused. *)
LEMMA TryAcquireStep ==
    ASSUME PermitAssumption, IntakeTypeOK, NEW k \in Call, TryAcquire(k)
    PROVE  /\ calls[k].pc = "exchange" /\ calls[k] # NoCall
           /\ \/ /\ permits < MaxPermits /\ permits' = permits + 1
                 /\ \E c : /\ Becomes(k, c)
                           /\ c.pc = (IF c.kind = "issue" THEN "insert" ELSE "consume")
                           /\ c.walk = calls[k].walk
              \/ /\ permits' = permits
                 /\ \E c : /\ Becomes(k, c) /\ c.pc = "exchange"
                           /\ c.walk = calls[k].walk
              \/ permits' = permits /\ Ends(k)
PROOF
  <1>1. /\ calls[k] \in CallRecord /\ permits \in Nat /\ calls[k].pc = "exchange"
        /\ calls[k] # NoCall
    BY DEF IntakeTypeOK, TryAcquire, At, Running
  <1> DEFINE next == IF calls[k].kind = "issue" THEN "insert" ELSE "consume"
  <1>2. CASE /\ Exchange(k) /\ calls[k].read < MaxPermits
             /\ calls' = [calls EXCEPT ![k].read = 0, ![k].pc = next]
    <2>1. PICK c : c = [calls[k] EXCEPT !.read = 0, !.pc = next]
      OBVIOUS
    <2>2. c \in CallRecord
      BY <1>1, <2>1 DEF CallRecord, Asking, Working
    <2>3. calls' = [calls EXCEPT ![k] = c]
      BY <1>1, <1>2, <2>1 DEF IntakeTypeOK
    <2>4. /\ c.pc = next /\ c.kind = calls[k].kind /\ c.grant = calls[k].grant
          /\ c.walk = calls[k].walk
      BY <1>1, <2>1 DEF CallRecord
    <2> QED
      BY <1>1, <1>2, <2>2, <2>3, <2>4 DEF Becomes, Exchange
  <1>3. CASE permits' = permits /\ calls' = [calls EXCEPT ![k].read = permits]
    <2>1. PICK c : c = [calls[k] EXCEPT !.read = permits]
      OBVIOUS
    <2>2. c \in CallRecord
      BY <1>1, <2>1 DEF CallRecord
    <2>3. calls' = [calls EXCEPT ![k] = c]
      BY <1>1, <1>3, <2>1 DEF IntakeTypeOK
    <2>4. /\ c.pc = "exchange" /\ c.kind = calls[k].kind /\ c.grant = calls[k].grant
          /\ c.walk = calls[k].walk
      BY <1>1, <2>1 DEF CallRecord
    <2> QED
      BY <1>1, <1>3, <2>2, <2>3, <2>4 DEF Becomes
  <1>4. CASE permits' = permits /\ End(k)
    BY <1>1, <1>4 DEF End, Ends
  <1> QED
    BY <1>2, <1>3, <1>4 DEF TryAcquire

(* It takes the grant out of the registry and begins its walk, or ends. *)
LEMMA ConsumeStep ==
    ASSUME TreeAssumption, RootAssumption, PermitAssumption, IntakeTypeOK, NEW k \in Call,
           Consume(k)
    PROVE  /\ calls[k].pc = "consume" /\ calls[k] # NoCall /\ calls[k].grant \in Grant
           /\ UNCHANGED proposals
           /\ \/ /\ grants[calls[k].grant] = "live"
                 /\ grants' = [grants EXCEPT ![calls[k].grant] = "gone"] /\ permits' = permits
                 /\ \E c : /\ Becomes(k, c) /\ c.pc = "walk"
                           /\ c.walk = Begun(RootsOf[c.grant])
              \/ /\ permits' = permits - 1 /\ Ends(k)
                 /\ \/ UNCHANGED grants
                    \/ /\ grants[calls[k].grant] = "expired"
                       /\ grants' = [grants EXCEPT ![calls[k].grant] = "gone"]
PROOF
  <1>1. /\ calls[k] \in CallRecord /\ permits \in Nat /\ calls[k].pc = "consume"
        /\ calls[k] # NoCall /\ calls[k].grant \in Grant
    BY DEF IntakeTypeOK, Consume, At, Running, CallRecord
  <1> DEFINE g == calls[k].grant
             w == Begun(RootsOf[g])
  <1>2. CASE /\ grants[g] = "live" /\ Remove(k) /\ permits' = permits
             /\ calls' = [calls EXCEPT ![k].pc = "walk", ![k].walk = w]
    <2>0. w \in Walk
      <3>1. RootsOf[g] \in Seq(Path)
        BY <1>1, RootAssumption
      <3> QED
        BY <3>1, BegunKeeps DEF WalkInvariant
    <2> HIDE DEF w
    <2>1. PICK c : c = [calls[k] EXCEPT !.pc = "walk", !.walk = w]
      OBVIOUS
    <2>2. c \in CallRecord
      BY <1>1, <2>0, <2>1 DEF CallRecord, Working
    <2>3. calls' = [calls EXCEPT ![k] = c]
      BY <1>1, <1>2, <2>1 DEF IntakeTypeOK
    <2>4. /\ c.pc = "walk" /\ c.kind = calls[k].kind /\ c.grant = g
          /\ c.walk = w
      BY <1>1, <2>1 DEF CallRecord
    <2>5. c.walk = Begun(RootsOf[c.grant])
      BY <2>4 DEF w
    <2>6. Becomes(k, c)
      BY <2>2, <2>3, <2>4 DEF Becomes
    <2>7. grants' = [grants EXCEPT ![g] = "gone"] /\ UNCHANGED proposals
      BY <1>2 DEF Remove, Consume
    <2> QED
      BY <1>1, <1>2, <2>4, <2>5, <2>6, <2>7
  <1>3. CASE grants[g] = "expired" /\ Remove(k) /\ Drop(k)
    BY <1>1, <1>3 DEF Remove, Drop, End, Ends, Consume
  <1>4. CASE Drop(k) /\ UNCHANGED grants
    BY <1>1, <1>4 DEF Drop, End, Ends, Consume
  <1> QED
    BY <1>2, <1>3, <1>4 DEF Consume

(* It reads the clock a last time and finds room for its grant, or ends. *)
LEMMA InsertStep ==
    ASSUME PermitAssumption, IntakeTypeOK, NEW k \in Call, Insert(k)
    PROVE  /\ calls[k].pc = "insert" /\ calls[k] # NoCall /\ calls[k].grant \in Grant
           /\ UNCHANGED <<grants, proposals>>
           /\ \/ /\ permits' = permits /\ RegistryFree
                 /\ Cardinality({g \in Grant : grants[g] = "live"}) < MaxGrants
                 /\ \E c : /\ Becomes(k, c) /\ c.pc = "place" /\ c.walk = calls[k].walk
              \/ permits' = permits - 1 /\ Ends(k)
PROOF
  <1>1. /\ calls[k] \in CallRecord /\ permits \in Nat /\ calls[k].pc = "insert"
        /\ calls[k] # NoCall /\ calls[k].grant \in Grant
        /\ UNCHANGED <<grants, proposals>>
    BY DEF IntakeTypeOK, Insert, At, Running, CallRecord
  <1>2. CASE /\ RegistryFree /\ Cardinality({g \in Grant : grants[g] = "live"}) < MaxGrants
             /\ calls' = [calls EXCEPT ![k].pc = "place"] /\ UNCHANGED permits
    <2>1. PICK c : c = [calls[k] EXCEPT !.pc = "place"]
      OBVIOUS
    <2>2. c \in CallRecord
      BY <1>1, <2>1 DEF CallRecord, Working
    <2>3. calls' = [calls EXCEPT ![k] = c]
      BY <1>1, <1>2, <2>1 DEF IntakeTypeOK
    <2>4. /\ c.pc = "place" /\ c.kind = calls[k].kind /\ c.grant = calls[k].grant
          /\ c.walk = calls[k].walk
      BY <1>1, <2>1 DEF CallRecord
    <2>5. Becomes(k, c)
      BY <2>2, <2>3, <2>4 DEF Becomes
    <2> QED
      BY <1>1, <1>2, <2>4, <2>5
  <1>3. CASE Drop(k)
    BY <1>1, <1>3 DEF Drop, End, Ends
  <1> QED
    BY <1>2, <1>3 DEF Insert

(* It puts the grant into the registry. *)
LEMMA PlaceStep ==
    ASSUME IntakeTypeOK, NEW k \in Call, Place(k)
    PROVE  /\ calls[k].pc = "place" /\ calls[k] # NoCall /\ calls[k].grant \in Grant
           /\ UNCHANGED <<permits, proposals>>
           /\ grants' = [grants EXCEPT ![calls[k].grant] = "live"]
           /\ \E c : /\ Becomes(k, c) /\ c.pc = "return" /\ c.walk = calls[k].walk
PROOF
  <1>1. /\ calls[k] \in CallRecord /\ calls[k].pc = "place"
        /\ calls[k] # NoCall /\ calls[k].grant \in Grant
    BY DEF IntakeTypeOK, Place, At, Running, CallRecord
  <1>2. PICK c : c = [calls[k] EXCEPT !.pc = "return"]
    OBVIOUS
  <1>3. c \in CallRecord
    BY <1>1, <1>2 DEF CallRecord, Working
  <1>4. calls' = [calls EXCEPT ![k] = c]
    BY <1>1, <1>2 DEF IntakeTypeOK, Place
  <1>5. /\ c.pc = "return" /\ c.kind = calls[k].kind /\ c.grant = calls[k].grant
        /\ c.walk = calls[k].walk
    BY <1>1, <1>2 DEF CallRecord
  <1> QED
    BY <1>1, <1>3, <1>4, <1>5 DEF Becomes, Place

(* Its walk keeps its invariant. *)
LEMMA WalkOnStep ==
    ASSUME TreeAssumption, IntakeTypeOK, WalkingInvariant, NEW k \in Call, WalkOn(k)
    PROVE  /\ calls[k].pc = "walk" /\ calls[k] # NoCall
           /\ \E c : /\ Becomes(k, c) /\ c.pc = "walk"
                     /\ WalkInvariant(c.walk, RootsOf[c.grant])
PROOF
  <1>1. /\ calls[k] \in CallRecord /\ calls[k].pc = "walk" /\ calls[k] # NoCall
        /\ At(k, "walk") /\ Running(k)
    BY DEF IntakeTypeOK, WalkOn, At, Running
  <1>2. PICK w : w = calls[k].walk
    OBVIOUS
  <1>3. PICK roots : roots = RootsOf[calls[k].grant]
    OBVIOUS
  <1>4. WalkInvariant(w, roots) /\ w.todo # <<>> /\ w \in Walk
    BY <1>1, <1>2, <1>3 DEF WalkingInvariant, WalkInvariant, WalkOn
  <1>5. First(w).depth \in Nat
    BY <1>4, RestOfWalk DEF First, Walk, Entry
  <1>6. \E u : /\ WalkInvariant(u, roots) /\ u \in Walk
               /\ calls' = [calls EXCEPT ![k].walk = u]
    <2>1. CASE calls' = [calls EXCEPT ![k].walk = Stopped(@)]
      <3>1. WalkInvariant(Stopped(w), roots)
        BY <1>4, StoppedKeeps
      <3>2. calls' = [calls EXCEPT ![k].walk = Stopped(w)]
        BY <1>1, <1>2, <2>1 DEF IntakeTypeOK
      <3> QED
        BY <3>1, <3>2 DEF WalkInvariant
    <2>2. CASE /\ First(w).depth = 0
               /\ \E fails \in BOOLEAN :
                     calls' = [calls EXCEPT ![k].walk = InspectedRoot(@, fails)]
      <3>1. PICK fails \in BOOLEAN : calls' = [calls EXCEPT ![k].walk = InspectedRoot(@, fails)]
        BY <2>2
      <3>2. WalkInvariant(InspectedRoot(w, fails), roots)
        BY <1>4, <2>2, InspectedKeeps
      <3>3. calls' = [calls EXCEPT ![k].walk = InspectedRoot(w, fails)]
        BY <1>1, <1>2, <3>1 DEF IntakeTypeOK
      <3> QED
        BY <3>2, <3>3 DEF WalkInvariant
    <2>3. CASE calls' = [calls EXCEPT ![k].walk = UnopenedRoot(@)]
      <3>1. WalkInvariant(UnopenedRoot(w), roots)
        BY <1>4, NotedStep DEF UnopenedRoot
      <3>2. calls' = [calls EXCEPT ![k].walk = UnopenedRoot(w)]
        BY <1>1, <1>2, <2>3 DEF IntakeTypeOK
      <3> QED
        BY <3>1, <3>2 DEF WalkInvariant
    <2>4. CASE /\ First(w).depth > 0
               /\ \E fails \in BOOLEAN :
                     calls' = [calls EXCEPT ![k].walk = InspectedEntry(@, fails)]
      <3>1. PICK fails \in BOOLEAN : calls' = [calls EXCEPT ![k].walk = InspectedEntry(@, fails)]
        BY <2>4
      <3>2. WalkInvariant(InspectedEntry(w, fails), roots)
        BY <1>4, <2>4, InspectedKeeps
      <3>3. calls' = [calls EXCEPT ![k].walk = InspectedEntry(w, fails)]
        BY <1>1, <1>2, <3>1 DEF IntakeTypeOK
      <3> QED
        BY <3>2, <3>3 DEF WalkInvariant
    <2> QED
      BY <1>2, <2>1, <2>2, <2>3, <2>4 DEF WalkOn
  <1>7. PICK u : /\ WalkInvariant(u, roots) /\ u \in Walk
                 /\ calls' = [calls EXCEPT ![k].walk = u]
    BY <1>6
  <1>8. PICK c : c = [calls[k] EXCEPT !.walk = u]
    OBVIOUS
  <1>9. c \in CallRecord
    BY <1>1, <1>7, <1>8 DEF CallRecord
  <1>10. calls' = [calls EXCEPT ![k] = c]
    BY <1>1, <1>7, <1>8 DEF IntakeTypeOK
  <1>11. /\ c.pc = "walk" /\ c.kind = calls[k].kind /\ c.grant = calls[k].grant
         /\ c.walk = u
    BY <1>1, <1>8 DEF CallRecord
  <1> QED
    BY <1>1, <1>3, <1>7, <1>9, <1>10, <1>11 DEF Becomes

(* It registers a proposal for its grant, or ends. *)
LEMMA RegisterStep ==
    ASSUME TreeAssumption, PermitAssumption, IntakeTypeOK, NEW k \in Call, Register(k)
    PROVE  /\ calls[k].pc = "walk" /\ calls[k] # NoCall /\ calls[k].grant \in Grant
           /\ UNCHANGED grants
           /\ \/ /\ permits' = permits
                 /\ \E p \in DropProposal :
                        /\ proposals[p] = NoProposal
                        /\ proposals' = [proposals EXCEPT ![p] = NewProposal(calls[k].grant)]
                 /\ \E c : /\ Becomes(k, c) /\ c.pc = "return"
                           /\ c.walk = Begun(<<>>)
              \/ permits' = permits - 1 /\ Ends(k) /\ UNCHANGED proposals
PROOF
  <1>1. /\ calls[k] \in CallRecord /\ permits \in Nat /\ calls[k].pc = "walk"
        /\ calls[k] # NoCall /\ calls[k].grant \in Grant
    BY DEF IntakeTypeOK, Register, At, Running, CallRecord
  <1> DEFINE new == \E p \in DropProposal :
                        /\ proposals[p] = NoProposal
                        /\ proposals' = [proposals EXCEPT ![p] = NewProposal(calls[k].grant)]
             w == Begun(<<>>)
  <1>2. CASE new /\ UNCHANGED permits /\ calls' = [calls EXCEPT ![k].pc = "return", ![k].walk = w]
    <2>0. w \in Walk
      BY EmptyWalk
    <2> HIDE DEF w
    <2>1. PICK c : c = [calls[k] EXCEPT !.pc = "return", !.walk = w]
      OBVIOUS
    <2>2. c \in CallRecord
      BY <1>1, <2>0, <2>1 DEF CallRecord, Working
    <2>3. calls' = [calls EXCEPT ![k] = c]
      BY <1>1, <1>2, <2>1 DEF IntakeTypeOK
    <2>4. /\ c.pc = "return" /\ c.kind = calls[k].kind /\ c.grant = calls[k].grant
          /\ c.walk = w
      BY <1>1, <2>1 DEF CallRecord
    <2>5. Becomes(k, c) /\ UNCHANGED grants
      BY <2>2, <2>3, <2>4 DEF Becomes, Register
    <2>6. c.walk = Begun(<<>>)
      BY <2>4 DEF w
    <2> HIDE DEF new
    <2>7. /\ permits' = permits
          /\ \E d : /\ Becomes(k, d) /\ d.pc = "return"
                    /\ d.walk = Begun(<<>>)
      BY <1>2, <2>4, <2>5, <2>6
    <2> QED
      BY <1>1, <1>2, <2>5, <2>7 DEF new
  <1>3. CASE Drop(k) /\ UNCHANGED proposals
    BY <1>1, <1>3 DEF Drop, End, Ends, Register
  <1> QED
    BY <1>2, <1>3 DEF Register

(* It ends and gives its permit back. *)
LEMMA ReturnStep ==
    ASSUME NEW k \in Call, Return(k)
    PROVE  /\ calls[k].pc = "return" /\ calls[k] # NoCall
           /\ permits' = permits - 1 /\ Ends(k) /\ UNCHANGED <<grants, proposals>>
  BY DEF Return, At, Running, Drop, End, Ends

(* Its deadline passes. *)
LEMMA PassDeadlineStep ==
    ASSUME IntakeTypeOK, NEW k \in Call, PassDeadline(k)
    PROVE  /\ calls[k].pc \in Working /\ calls[k] # NoCall
           /\ UNCHANGED <<permits, grants, proposals>>
           /\ \E c : /\ Becomes(k, c) /\ c.pc = calls[k].pc /\ c.walk = calls[k].walk
PROOF
  <1>1. /\ calls[k] \in CallRecord /\ calls[k].pc \in Working /\ calls[k] # NoCall
    BY DEF IntakeTypeOK, PassDeadline, Holds, At, Running
  <1>2. PICK c : c = [calls[k] EXCEPT !.late = TRUE]
    OBVIOUS
  <1>3. c \in CallRecord
    BY <1>1, <1>2 DEF CallRecord
  <1>4. calls' = [calls EXCEPT ![k] = c]
    BY <1>1, <1>2 DEF IntakeTypeOK, PassDeadline
  <1>5. /\ c.pc = calls[k].pc /\ c.kind = calls[k].kind /\ c.grant = calls[k].grant
        /\ c.walk = calls[k].walk
    BY <1>1, <1>2 DEF CallRecord
  <1> QED
    BY <1>1, <1>3, <1>4, <1>5 DEF Becomes, PassDeadline

-----------------------------------------------------------------------------
(* What a step does to the calls.                                            *)
LEMMA CallsStep ==
    ASSUME Setting, IntakeTypeOK, WalkingInvariant, [IntakeNext]_intakeVars
    PROVE  \/ UNCHANGED calls
           \/ \E k \in Call : Ends(k)
           \/ \E k \in Call, c \in CallRecord :
                 /\ calls' = [calls EXCEPT ![k] = c]
                 /\ WalkInvariant(c.walk, IF c.pc = "walk" THEN RootsOf[c.grant] ELSE <<>>)
PROOF
  <1> DEFINE Goal == \/ UNCHANGED calls
                     \/ \E k \in Call : Ends(k)
                     \/ \E k \in Call, c \in CallRecord :
                          /\ calls' = [calls EXCEPT ![k] = c]
                          /\ WalkInvariant(c.walk,
                                IF c.pc = "walk" THEN RootsOf[c.grant] ELSE <<>>)
  <1> SUFFICES Goal
    OBVIOUS
  <1>0. \A k \in Call : calls[k] # NoCall =>
           WalkInvariant(calls[k].walk,
                         IF calls[k].pc = "walk" THEN RootsOf[calls[k].grant] ELSE <<>>)
    BY DEF WalkingInvariant, Running, At
  <1>1. ASSUME NEW k \in Call, NEW g \in Grant, NEW kind \in {"issue", "propose"}, Ask(k, g, kind)
        PROVE  Goal
    <2>1. PICK c \in CallRecord : /\ c.pc = "load" /\ c.walk = Begun(<<>>)
                                  /\ calls' = [calls EXCEPT ![k] = c]
      BY <1>1, AskStep DEF Setting
    <2>2. WalkInvariant(c.walk, <<>>)
      BY <2>1, EmptyWalk DEF Setting
    <2> QED
      BY <2>1, <2>2
  <1>2. ASSUME NEW k \in Call, Load(k) PROVE Goal
    <2>1. PICK c : /\ Becomes(k, c) /\ c.pc = "exchange" /\ calls[k].pc = "load"
                   /\ c.walk = calls[k].walk
      BY <1>2, LoadStep DEF Setting
    <2>2. calls[k] # NoCall
      BY <1>2 DEF Load, At, Running
    <2> QED
      BY <1>0, <2>1, <2>2 DEF Becomes
  <1>3. ASSUME NEW k \in Call, TryAcquire(k) PROVE Goal
    <2>1. CASE \E c : /\ Becomes(k, c) /\ c.pc # "walk" /\ calls[k].pc # "walk"
                      /\ calls[k] # NoCall /\ c.walk = calls[k].walk
      BY <1>0, <2>1 DEF Becomes
    <2>2. CASE Ends(k)
      BY <2>2
    <2>3. calls[k].pc = "exchange" /\ calls[k] # NoCall
      BY <1>3, TryAcquireStep DEF Setting
    <2>4. \/ Ends(k)
          \/ \E c : /\ Becomes(k, c) /\ c.walk = calls[k].walk
                    /\ c.pc \in {"insert", "consume", "exchange"}
      BY <1>3, TryAcquireStep DEF Setting
    <2> QED
      BY <2>1, <2>2, <2>3, <2>4
  <1>4. ASSUME NEW k \in Call, Consume(k) PROVE Goal
    <2>1. CASE Ends(k)
      BY <2>1
    <2>2. CASE ~Ends(k)
      <3>1. PICK c : Becomes(k, c) /\ c.pc = "walk" /\ c.walk = Begun(RootsOf[c.grant])
        BY <1>4, <2>2, ConsumeStep DEF Setting
      <3>2. c \in CallRecord /\ c.grant \in Grant
        BY <3>1 DEF Becomes, CallRecord
      <3>3. PICK r : r = RootsOf[c.grant]
        OBVIOUS
      <3>4. r \in Seq(Path)
        BY <3>2, <3>3 DEF Setting, RootAssumption
      <3>5. WalkInvariant(Begun(r), r)
        BY <3>4, BegunKeeps DEF Setting
      <3> QED
        BY <3>1, <3>2, <3>3, <3>5 DEF Becomes
    <2> QED
      BY <2>1, <2>2
  <1>5. ASSUME NEW k \in Call, Insert(k) PROVE Goal
    <2>1. CASE \E c : /\ Becomes(k, c) /\ c.pc # "walk" /\ calls[k].pc # "walk"
                      /\ calls[k] # NoCall /\ c.walk = calls[k].walk
      BY <1>0, <2>1 DEF Becomes
    <2>2. CASE Ends(k)
      BY <2>2
    <2> QED
      BY <1>5, <2>1, <2>2, InsertStep DEF Setting
  <1>50. ASSUME NEW k \in Call, Place(k) PROVE Goal
    <2>1. PICK c : Becomes(k, c) /\ c.pc = "return" /\ c.walk = calls[k].walk
      BY <1>50, PlaceStep
    <2>2. calls[k].pc = "place" /\ calls[k] # NoCall
      BY <1>50, PlaceStep
    <2> QED
      BY <1>0, <2>1, <2>2 DEF Becomes
  <1>6. ASSUME NEW k \in Call, WalkOn(k) PROVE Goal
    BY <1>6, WalkOnStep DEF Setting, Becomes
  <1>7. ASSUME NEW k \in Call, Register(k) PROVE Goal
    <2>1. CASE Ends(k)
      BY <2>1
    <2>2. CASE ~Ends(k)
      <3>1. PICK c : Becomes(k, c) /\ c.pc = "return" /\ c.walk = Begun(<<>>)
        BY <1>7, <2>2, RegisterStep DEF Setting
      <3>2. WalkInvariant(c.walk, <<>>)
        BY <3>1, EmptyWalk DEF Setting
      <3> QED
        BY <3>1, <3>2 DEF Becomes
    <2> QED
      BY <2>1, <2>2
  <1>8. ASSUME NEW k \in Call, Return(k) PROVE Goal
    BY <1>8, ReturnStep
  <1>9. ASSUME NEW k \in Call, PassDeadline(k) PROVE Goal
    <2>1. PICK c : Becomes(k, c) /\ c.pc = calls[k].pc /\ c.walk = calls[k].walk
      BY <1>9, PassDeadlineStep
    <2>2. calls[k] # NoCall
      BY <1>9, PassDeadlineStep
    <2> QED
      BY <1>0, <2>1, <2>2 DEF Becomes
  <1>10. CASE UNCHANGED calls
    BY <1>10
  <1> HIDE DEF Goal
  <1> QED
    BY <1>1, <1>2, <1>3, <1>4, <1>5, <1>50, <1>6, <1>7, <1>8, <1>9, <1>10
       DEF IntakeNext, Proceed, ExpireGrant, ExpireProposal, intakeVars

LEMMA WalkingInit == IntakeInit => WalkingInvariant
  BY DEF IntakeInit, WalkingInvariant, Running

LEMMA WalkingStep ==
    ASSUME Setting, IntakeTypeOK, WalkingInvariant, [IntakeNext]_intakeVars
    PROVE  WalkingInvariant' /\ calls' \in [Call -> CallRecord \cup {NoCall}]
PROOF
  <1>0. /\ calls \in [Call -> CallRecord \cup {NoCall}]
        /\ \A k \in Call : calls[k] # NoCall =>
              WalkInvariant(calls[k].walk,
                            IF calls[k].pc = "walk" THEN RootsOf[calls[k].grant] ELSE <<>>)
    BY DEF IntakeTypeOK, WalkingInvariant, Running, At
  <1>1. CASE UNCHANGED calls
    BY <1>0, <1>1 DEF WalkingInvariant, Running, At
  <1>2. CASE \E k \in Call : Ends(k)
    BY <1>0, <1>2 DEF WalkingInvariant, Running, At, Ends
  <1>3. ASSUME NEW k \in Call, NEW c \in CallRecord, calls' = [calls EXCEPT ![k] = c],
               WalkInvariant(c.walk, IF c.pc = "walk" THEN RootsOf[c.grant] ELSE <<>>)
        PROVE  WalkingInvariant' /\ calls' \in [Call -> CallRecord \cup {NoCall}]
    <2>1. calls' \in [Call -> CallRecord \cup {NoCall}]
      BY <1>0, <1>3
    <2>2. ASSUME NEW j \in Call, calls'[j] # NoCall
          PROVE  WalkInvariant(calls'[j].walk,
                   IF calls'[j].pc = "walk" THEN RootsOf[calls'[j].grant] ELSE <<>>)
      <3>1. CASE j = k
        BY <1>0, <1>3, <3>1
      <3>2. CASE j # k
        <4>1. calls'[j] = calls[j]
          BY <1>0, <1>3, <3>2
        <4> QED
          BY <1>0, <2>2, <4>1
      <3> QED
        BY <3>1, <3>2
    <2>3. WalkingInvariant'
      BY <2>2 DEF WalkingInvariant, Running, At
    <2> QED
      BY <2>1, <2>3
  <1> QED
    BY <1>1, <1>2, <1>3, CallsStep

-----------------------------------------------------------------------------
(* Permits. *)

\* The calls that hold a permit; the permits are those of a finite set, however many calls there
\* are.
Holders == {k \in Call : Holds(k)}
HoldsAt(c) == c # NoCall /\ c.pc \in {"consume", "insert", "place", "walk", "return"}

Counted == IsFiniteSet(Holders) /\ permits = Cardinality(Holders) /\ permits <= MaxPermits

LEMMA PermitFacts == (PermitInvariant <=> Counted) /\ (PermitInvariant' <=> Counted')
  BY DEF PermitInvariant, PermitsAreCounted, Counted, Holders

LEMMA HoldersStep ==
    ASSUME calls \in [Call -> CallRecord \cup {NoCall}], NEW k \in Call, NEW c,
           calls' = [calls EXCEPT ![k] = c]
    PROVE  Holders' = IF HoldsAt(c) THEN Holders \cup {k} ELSE Holders \ {k}
PROOF
  <1>1. \A j \in Call : Holds(j) <=> HoldsAt(calls[j])
    BY DEF Holds, HoldsAt, Running, Working
  <1>2. \A j \in Call : Holds(j)' <=> HoldsAt(calls'[j])
    BY DEF Holds, HoldsAt, Running, Working
  <1>3. calls'[k] = c /\ \A j \in Call : j # k => calls'[j] = calls[j]
    OBVIOUS
  <1> QED
    BY <1>1, <1>2, <1>3 DEF Holders

(* How many permits are held after a step of one call.                       *)
LEMMA CountStep ==
    ASSUME IsFiniteSet(Holders), NEW k,
           NEW S, S = Holders \/ S = Holders \cup {k} \/ S = Holders \ {k}
    PROVE  /\ IsFiniteSet(S) /\ Cardinality(S) \in Nat /\ Cardinality(Holders) \in Nat
           /\ S = Holders => Cardinality(S) = Cardinality(Holders)
           /\ S = Holders \cup {k} /\ k \notin Holders => Cardinality(S) = Cardinality(Holders) + 1
           /\ S = Holders \ {k} /\ k \in Holders => Cardinality(S) = Cardinality(Holders) - 1
           /\ k \in Holders => Cardinality(Holders) > 0
PROOF
  <1>1. IsFiniteSet(S) /\ Cardinality(S) \in Nat /\ Cardinality(Holders) \in Nat
    BY FS_AddElement, FS_RemoveElement, FS_CardinalityType
  <1>2. /\ S = Holders \cup {k} /\ k \notin Holders => Cardinality(S) = Cardinality(Holders) + 1
        /\ S = Holders \ {k} /\ k \in Holders => Cardinality(S) = Cardinality(Holders) - 1
    BY FS_AddElement, FS_RemoveElement
  <1>3. k \in Holders => Cardinality(Holders) > 0
    <2>1. k \in Holders => Cardinality(Holders) # 0
      BY FS_EmptySet
    <2> QED
      BY <1>1, <2>1
  <1> QED
    BY <1>1, <1>2, <1>3

LEMMA PermitInit == PermitAssumption /\ IntakeInit => PermitInvariant
  <1> SUFFICES ASSUME PermitAssumption, IntakeInit PROVE PermitInvariant
    OBVIOUS
  <1>1. Holders = {}
    BY DEF IntakeInit, Holders, Holds, Running
  <1>2. Counted
    BY <1>1, FS_EmptySet DEF Counted, IntakeInit, PermitAssumption
  <1> QED
    BY <1>2, PermitFacts

(* A call that takes a step without a change of its permit.                  *)
LEMMA PermitKept ==
    ASSUME IntakeTypeOK, PermitInvariant, NEW k \in Call, NEW c, calls' = [calls EXCEPT ![k] = c],
           HoldsAt(c) <=> Holds(k), permits' = permits
    PROVE  PermitInvariant'
PROOF
  <1>1. Holders' = Holders
    BY HoldersStep DEF IntakeTypeOK, Holders
  <1> QED
    BY <1>1, PermitFacts DEF Counted

LEMMA PermitDropped ==
    ASSUME PermitAssumption, IntakeTypeOK, PermitInvariant, NEW k \in Call, Ends(k), Holds(k),
           permits' = permits - 1
    PROVE  PermitInvariant'
PROOF
  <1>1. Holders' = Holders \ {k} /\ k \in Holders
    BY HoldersStep DEF IntakeTypeOK, Holders, Ends, HoldsAt
  <1>2. PICK S : S = Holders'
    OBVIOUS
  <1>3. IsFiniteSet(Holders) /\ permits = Cardinality(Holders) /\ permits <= MaxPermits
    BY PermitFacts DEF Counted
  <1>4. /\ IsFiniteSet(S) /\ Cardinality(S) = Cardinality(Holders) - 1
        /\ Cardinality(Holders) \in Nat
    BY <1>1, <1>2, <1>3, CountStep
  <1>5. permits' = Cardinality(S) /\ permits' <= MaxPermits
    BY <1>3, <1>4 DEF PermitAssumption
  <1> QED
    BY <1>2, <1>4, <1>5, PermitFacts DEF Counted

LEMMA PermitTaken ==
    ASSUME PermitAssumption, IntakeTypeOK, PermitInvariant, NEW k \in Call, ~Holds(k),
           NEW c, calls' = [calls EXCEPT ![k] = c], HoldsAt(c),
           permits < MaxPermits, permits' = permits + 1
    PROVE  PermitInvariant'
PROOF
  <1>1. Holders' = Holders \cup {k} /\ k \notin Holders
    BY HoldersStep DEF IntakeTypeOK, Holders
  <1>2. PICK S : S = Holders'
    OBVIOUS
  <1>3. IsFiniteSet(Holders) /\ permits = Cardinality(Holders)
    BY PermitFacts DEF Counted
  <1>4. /\ IsFiniteSet(S) /\ Cardinality(S) = Cardinality(Holders) + 1
        /\ Cardinality(Holders) \in Nat
    BY <1>1, <1>2, <1>3, CountStep
  <1>5. permits' = Cardinality(S) /\ permits' <= MaxPermits
    BY <1>3, <1>4 DEF PermitAssumption
  <1> QED
    BY <1>2, <1>4, <1>5, PermitFacts DEF Counted

LEMMA PermitStep ==
    ASSUME Setting, IntakeTypeOK, WalkingInvariant, PermitInvariant, [IntakeNext]_intakeVars
    PROVE  PermitInvariant'
PROOF
  <1>0. \A k \in Call : Holds(k) <=> HoldsAt(calls[k])
    BY DEF Holds, HoldsAt, Running, Working
  <1>00. ~HoldsAt(NoCall) /\ \A c \in CallRecord : HoldsAt(c) <=>
                                c.pc \in {"consume", "insert", "place", "walk", "return"}
    BY DEF Setting, AbsenceAssumption, HoldsAt
  <1>1. ASSUME NEW k \in Call, NEW g \in Grant, NEW kind \in {"issue", "propose"}, Ask(k, g, kind)
        PROVE  PermitInvariant'
    <2>1. PICK c \in CallRecord : c.pc = "load" /\ calls' = [calls EXCEPT ![k] = c]
      BY <1>1, AskStep DEF Setting
    <2>2. ~Holds(k) /\ ~HoldsAt(c) /\ permits' = permits
      BY <1>1, <2>1, <1>00 DEF Ask, Holds
    <2> QED
      BY <2>1, <2>2, PermitKept
  <1>2. ASSUME NEW k \in Call, Load(k) PROVE PermitInvariant'
    <2>1. PICK c : Becomes(k, c) /\ c.pc = "exchange" /\ calls[k].pc = "load"
      BY <1>2, LoadStep DEF Setting
    <2>2. ~Holds(k) /\ ~HoldsAt(c) /\ permits' = permits
      BY <1>2, <2>1, <1>0, <1>00 DEF Load, HoldsAt
    <2> QED
      BY <2>1, <2>2, PermitKept DEF Becomes
  <1>3. ASSUME NEW k \in Call, TryAcquire(k) PROVE PermitInvariant'
    <2>1. calls[k].pc = "exchange" /\ ~Holds(k)
      BY <1>3, <1>0, TryAcquireStep DEF Setting, HoldsAt
    <2>2. CASE permits < MaxPermits /\ permits' = permits + 1
               /\ \E c : Becomes(k, c) /\ c.pc = (IF c.kind = "issue" THEN "insert" ELSE "consume")
      <3>1. PICK c : Becomes(k, c) /\ c.pc \in {"insert", "consume"}
        BY <2>2
      <3>2. HoldsAt(c)
        BY <3>1, <1>00 DEF Becomes
      <3> QED
        BY <2>1, <2>2, <3>1, <3>2, PermitTaken DEF Becomes, Setting
    <2>3. CASE permits' = permits /\ \E c : Becomes(k, c) /\ c.pc = "exchange"
      <3>1. PICK c : Becomes(k, c) /\ c.pc = "exchange"
        BY <2>3
      <3>2. ~HoldsAt(c)
        BY <3>1, <1>00 DEF Becomes
      <3> QED
        BY <2>1, <2>3, <3>1, <3>2, PermitKept DEF Becomes
    <2>4. CASE permits' = permits /\ Ends(k)
      BY <2>1, <2>4, <1>00, PermitKept DEF Ends
    <2> QED
      BY <1>3, <2>2, <2>3, <2>4, TryAcquireStep DEF Setting
  <1>4. ASSUME NEW k \in Call, calls[k] # NoCall,
               calls[k].pc \in {"consume", "insert", "place", "walk", "return"},
               \/ permits' = permits - 1 /\ Ends(k)
               \/ /\ permits' = permits
                  /\ \E c : Becomes(k, c) /\ c.pc \in {"consume", "insert", "place", "walk", "return"}
        PROVE  PermitInvariant'
    <2>1. Holds(k)
      BY <1>0, <1>4 DEF HoldsAt
    <2>2. CASE permits' = permits - 1 /\ Ends(k)
      BY <2>1, <2>2, PermitDropped DEF Setting
    <2>3. CASE /\ permits' = permits
               /\ \E c : Becomes(k, c) /\ c.pc \in {"consume", "insert", "place", "walk", "return"}
      <3>1. PICK c : Becomes(k, c) /\ c.pc \in {"consume", "insert", "place", "walk", "return"}
        BY <2>3
      <3>2. HoldsAt(c)
        BY <3>1, <1>00 DEF Becomes
      <3> QED
        BY <2>1, <2>3, <3>1, <3>2, PermitKept DEF Becomes
    <2> QED
      BY <1>4, <2>2, <2>3
  <1>5. ASSUME NEW k \in Call, Consume(k) PROVE PermitInvariant'
    BY <1>4, <1>5, ConsumeStep DEF Setting
  <1>6. ASSUME NEW k \in Call, Insert(k) PROVE PermitInvariant'
    BY <1>4, <1>6, InsertStep DEF Setting
  <1>60. ASSUME NEW k \in Call, Place(k) PROVE PermitInvariant'
    BY <1>4, <1>60, PlaceStep
  <1>7. ASSUME NEW k \in Call, WalkOn(k) PROVE PermitInvariant'
    BY <1>4, <1>7, WalkOnStep DEF Setting, WalkOn
  <1>8. ASSUME NEW k \in Call, Register(k) PROVE PermitInvariant'
    BY <1>4, <1>8, RegisterStep DEF Setting
  <1>9. ASSUME NEW k \in Call, Return(k) PROVE PermitInvariant'
    BY <1>4, <1>9, ReturnStep
  <1>10. ASSUME NEW k \in Call, PassDeadline(k) PROVE PermitInvariant'
    BY <1>4, <1>10, PassDeadlineStep DEF Working
  <1>11. CASE UNCHANGED <<permits, calls>>
    BY <1>11 DEF PermitInvariant, PermitsAreCounted, Holds, Running
  <1> QED
    BY <1>1, <1>2, <1>3, <1>5, <1>6, <1>60, <1>7, <1>8, <1>9, <1>10, <1>11
       DEF IntakeNext, Proceed, ExpireGrant, ExpireProposal, intakeVars

-----------------------------------------------------------------------------
(* Grants. *)

LEMMA GrantInit == IntakeInit => GrantInvariant /\ GrantsAreWalkedOnce
  BY DEF IntakeInit, GrantInvariant, GrantsAreWalkedOnce, Issuing, Running, At

(* A call that takes a step without a change of its grant.                   *)
LEMMA GrantKept ==
    ASSUME IntakeTypeOK, GrantInvariant, GrantsAreWalkedOnce, NEW k \in Call, calls[k] # NoCall,
           NEW c, Becomes(k, c), UNCHANGED <<grants, proposals>>,
           c.pc = "walk" => calls[k].pc = "walk",
           c.pc = "consume" => c.kind = "propose",
           c.pc \in {"insert", "place"} => c.kind = "issue",
           calls[k].pc = "return" => c.pc = "return"
    PROVE  GrantInvariant' /\ GrantsAreWalkedOnce'
PROOF
  <1>1. /\ calls'[k] = c /\ c.kind = calls[k].kind /\ c.grant = calls[k].grant
        /\ c.kind \in {"issue", "propose"}
        /\ \A j \in Call : j # k => calls'[j] = calls[j]
    BY DEF Becomes, IntakeTypeOK, CallRecord
  <1>2. \A j \in Call : /\ Running(j)' => /\ Running(j)
                                          /\ calls'[j].grant = calls[j].grant
                                          /\ calls'[j].kind = calls[j].kind
                        /\ Issuing(j)' => Issuing(j)
                        /\ At(j, "walk")' => At(j, "walk")
    BY <1>1 DEF Running, Issuing, At
  <1>3. GrantInvariant'
    BY <1>1, <1>2 DEF GrantInvariant, Running, At, Issuing
  <1>4. GrantsAreWalkedOnce'
    BY <1>2 DEF GrantsAreWalkedOnce, At
  <1> QED
    BY <1>3, <1>4

LEMMA GrantEnded ==
    ASSUME IntakeTypeOK, GrantInvariant, GrantsAreWalkedOnce, NEW k \in Call, Ends(k),
           UNCHANGED proposals,
           \/ UNCHANGED grants
           \/ \E g \in Grant : grants[g] = "expired" /\ grants' = [grants EXCEPT ![g] = "gone"]
    PROVE  GrantInvariant' /\ GrantsAreWalkedOnce'
PROOF
  <1>1. /\ calls'[k] = NoCall
        /\ \A j \in Call : j # k => calls'[j] = calls[j]
    BY DEF Ends, IntakeTypeOK
  <1>2. \A j \in Call : Running(j)' => Running(j) /\ j # k /\ calls'[j] = calls[j]
    BY <1>1 DEF Running
  <1>3. \A g \in Grant : /\ grants'[g] = "new" <=> grants[g] = "new"
                         /\ grants[g] = "gone" => grants'[g] = "gone"
    BY DEF IntakeTypeOK
  <1>4. \A j \in Call : Running(j) => calls[j].grant \in Grant
    BY DEF IntakeTypeOK, Running, CallRecord
  <1>5. \A p \in DropProposal : proposals[p] # NoProposal => proposals[p].grant \in Grant
    BY DEF IntakeTypeOK, ProposalRecord
  <1>6. GrantInvariant'
    BY <1>2, <1>3, <1>4, <1>5 DEF GrantInvariant, At, Issuing
  <1>7. GrantsAreWalkedOnce'
    BY <1>2 DEF GrantsAreWalkedOnce, At
  <1> QED
    BY <1>6, <1>7

LEMMA GrantStep ==
    ASSUME Setting, IntakeTypeOK, WalkingInvariant, GrantInvariant, GrantsAreWalkedOnce,
           [IntakeNext]_intakeVars
    PROVE  GrantInvariant' /\ GrantsAreWalkedOnce'
PROOF
  <1> DEFINE Goal == GrantInvariant' /\ GrantsAreWalkedOnce'
  <1>01. \A j \in Call : Running(j) => calls[j].grant \in Grant
    BY DEF IntakeTypeOK, Running, CallRecord
  <1>02. \A p \in DropProposal : proposals[p] # NoProposal => proposals[p].grant \in Grant
    BY DEF IntakeTypeOK, ProposalRecord
  <1>1. ASSUME NEW k \in Call, NEW g \in Grant, NEW kind \in {"issue", "propose"}, Ask(k, g, kind)
        PROVE  Goal
    <2>1. PICK c \in CallRecord : /\ c.pc = "load" /\ c.kind = kind /\ c.grant = g
                                  /\ calls' = [calls EXCEPT ![k] = c]
      BY <1>1, AskStep DEF Setting
    <2>2. /\ UNCHANGED <<grants, proposals>> /\ ~Running(k)
          /\ kind = "issue" => /\ grants[g] = "new"
                               /\ \A j \in Call : Running(j) => calls[j].grant # g
          /\ kind = "propose" => grants[g] # "new"
      BY <1>1 DEF Ask
    <2>3. calls'[k] = c /\ \A j \in Call : j # k => calls'[j] = calls[j]
      BY <2>1 DEF IntakeTypeOK
    <2>4. \A j \in Call : /\ Running(j)' => j = k \/ Running(j)
                          /\ At(j, "walk")' => j # k /\ At(j, "walk")
      BY <2>1, <2>3 DEF Running, At
    <2>5. GrantInvariant'
      <3>1. \A i \in Call : Issuing(i)' => (i = k /\ kind = "issue") \/ (i # k /\ Issuing(i))
        BY <2>1, <2>3 DEF Running, Issuing
      <3>2. \A j, i \in Call :
               Issuing(i)' /\ Running(j)' /\ calls'[j].grant = calls'[i].grant => j = i
        BY <2>1, <2>2, <2>3, <2>4, <3>1 DEF GrantInvariant, Issuing
      <3>3. \A i \in Call : Issuing(i)' => grants'[calls'[i].grant] = "new"
        BY <2>1, <2>2, <2>3, <3>1 DEF GrantInvariant
      <3> QED
        BY <2>1, <2>2, <2>3, <2>4, <3>2, <3>3 DEF GrantInvariant
    <2>6. GrantsAreWalkedOnce'
      BY <2>2, <2>3, <2>4 DEF GrantsAreWalkedOnce
    <2> QED
      BY <2>5, <2>6
  <1>2. ASSUME NEW k \in Call, Load(k) PROVE Goal
    <2>1. PICK c : /\ Becomes(k, c) /\ c.pc = "exchange" /\ calls[k].pc = "load"
      BY <1>2, LoadStep DEF Setting
    <2>2. calls[k] # NoCall /\ UNCHANGED <<grants, proposals>>
      BY <1>2 DEF Load, At, Running
    <2> QED
      BY <2>1, <2>2, GrantKept
  <1>3. ASSUME NEW k \in Call, TryAcquire(k) PROVE Goal
    <2>1. /\ calls[k] # NoCall /\ UNCHANGED <<grants, proposals>> /\ calls[k].pc = "exchange"
          /\ \/ Ends(k)
             \/ \E c : /\ Becomes(k, c)
                       /\ \/ c.pc = (IF c.kind = "issue" THEN "insert" ELSE "consume")
                          \/ c.pc = "exchange"
      BY <1>3, TryAcquireStep DEF Setting, TryAcquire
    <2>2. CASE Ends(k)
      BY <2>1, <2>2, GrantEnded
    <2>3. CASE ~Ends(k)
      <3>1. PICK c : /\ Becomes(k, c)
                     /\ \/ c.pc = (IF c.kind = "issue" THEN "insert" ELSE "consume")
                        \/ c.pc = "exchange"
        BY <2>1, <2>3
      <3>2. c.kind \in {"issue", "propose"}
        BY <3>1 DEF Becomes, CallRecord
      <3>3. /\ c.pc # "walk" /\ (c.pc = "consume" => c.kind = "propose")
            /\ c.pc \in {"insert", "place"} => c.kind = "issue"
        BY <3>1, <3>2
      <3> QED
        BY <2>1, <3>1, <3>3, GrantKept
    <2> QED
      BY <2>2, <2>3
  <1>4. ASSUME NEW k \in Call, Consume(k) PROVE Goal
    <2> DEFINE g == calls[k].grant
    <2>1. calls[k].pc = "consume" /\ calls[k] # NoCall /\ g \in Grant /\ UNCHANGED proposals
      BY <1>4, ConsumeStep DEF Setting
    <2>2. CASE Ends(k) /\ (UNCHANGED grants \/ (grants[g] = "expired"
                                /\ grants' = [grants EXCEPT ![g] = "gone"]))
      BY <2>1, <2>2, GrantEnded
    <2>3. CASE /\ grants[g] = "live" /\ grants' = [grants EXCEPT ![g] = "gone"]
               /\ \E c : /\ Becomes(k, c) /\ c.pc = "walk"
      <3>1. PICK c : /\ Becomes(k, c) /\ c.pc = "walk"
        BY <2>3
      <3>2. /\ calls'[k] = c /\ \A j \in Call : j # k => calls'[j] = calls[j]
            /\ c.kind = calls[k].kind /\ c.grant = g
        BY <3>1 DEF Becomes, IntakeTypeOK
      <3>3. /\ \A h \in Grant : h # g => grants'[h] = grants[h]
            /\ grants'[g] = "gone" /\ grants[g] = "live"
        BY <2>1, <2>3 DEF IntakeTypeOK
      <3>4. calls[k].kind = "propose"
        BY <2>1 DEF GrantInvariant, Running, IntakeTypeOK, CallRecord
      <3>5. \A j \in Call : /\ Running(j)' => /\ Running(j)
                                              /\ calls'[j].grant = calls[j].grant
                                              /\ calls'[j].kind = calls[j].kind
                            /\ j # k /\ Running(j)' => calls'[j] = calls[j]
                            /\ Issuing(j)' => Issuing(j) /\ j # k
        BY <2>1, <3>2, <3>4 DEF Running, Issuing
      <3>6. /\ \A j \in Call : At(j, "walk") => calls[j].grant # g
            /\ \A p \in DropProposal : proposals[p] # NoProposal => proposals[p].grant # g
        BY <3>3 DEF GrantInvariant
      <3>7. GrantInvariant'
        <4>1. \A j \in Call : Running(j)' /\ calls'[j].kind = "propose" =>
                  grants'[calls'[j].grant] # "new" /\ calls'[j].pc \notin {"insert", "place"}
          BY <1>01, <3>1, <3>2, <3>3, <3>5 DEF GrantInvariant
        <4>2. \A j \in Call : Running(j)' /\ calls'[j].kind = "issue" =>
                  calls'[j].pc \notin {"consume", "walk"}
          BY <3>2, <3>4, <3>5 DEF GrantInvariant
        <4>3. \A j \in Call : Issuing(j)' => grants'[calls'[j].grant] = "new"
          BY <1>01, <3>3, <3>5 DEF GrantInvariant, Issuing
        <4>4. \A i, j \in Call :
                 Issuing(j)' /\ Running(i)' /\ calls'[i].grant = calls'[j].grant => i = j
          BY <3>5 DEF GrantInvariant, Issuing
        <4>6. \A j \in Call : At(j, "walk")' => grants'[calls'[j].grant] = "gone"
          BY <1>01, <3>2, <3>3, <3>5 DEF GrantInvariant, At
        <4>7. \A p \in DropProposal :
                 proposals'[p] # NoProposal => grants'[proposals'[p].grant] = "gone"
          BY <1>02, <2>1, <3>3 DEF GrantInvariant
        <4> QED
          BY <4>1, <4>2, <4>3, <4>4, <4>6, <4>7 DEF GrantInvariant
      <3>8. GrantsAreWalkedOnce'
        <4>1. \A j \in Call : At(j, "walk")' => (j = k \/ At(j, "walk"))
                                                /\ calls'[j].grant = calls[j].grant
          BY <3>5 DEF At
        <4> QED
          BY <2>1, <3>6, <4>1 DEF GrantsAreWalkedOnce
      <3> QED
        BY <3>7, <3>8
    <2> QED
      BY <1>4, <2>2, <2>3, ConsumeStep DEF Setting
  <1>5. ASSUME NEW k \in Call, Insert(k) PROVE Goal
    <2>1. calls[k].pc = "insert" /\ calls[k] # NoCall /\ UNCHANGED <<grants, proposals>>
      BY <1>5, InsertStep DEF Setting
    <2>2. CASE Ends(k)
      BY <2>1, <2>2, GrantEnded
    <2>3. CASE ~Ends(k)
      <3>1. PICK c : Becomes(k, c) /\ c.pc = "place"
        BY <1>5, <2>3, InsertStep DEF Setting
      <3>2. c.kind = "issue"
        BY <2>1, <3>1 DEF GrantInvariant, Running, Becomes, IntakeTypeOK, CallRecord
      <3> QED
        BY <2>1, <3>1, <3>2, GrantKept
    <2> QED
      BY <2>2, <2>3
  <1>50. ASSUME NEW k \in Call, Place(k) PROVE Goal
    <2> DEFINE g == calls[k].grant
    <2>1. calls[k].pc = "place" /\ calls[k] # NoCall /\ g \in Grant /\ UNCHANGED proposals
      BY <1>50, PlaceStep
    <2>3. CASE /\ grants' = [grants EXCEPT ![g] = "live"]
               /\ \E c : Becomes(k, c) /\ c.pc = "return"
      <3>1. PICK c : /\ Becomes(k, c) /\ c.pc = "return"
        BY <2>3
      <3>2. /\ calls'[k] = c /\ \A j \in Call : j # k => calls'[j] = calls[j]
            /\ c.kind = calls[k].kind /\ c.grant = g
        BY <3>1 DEF Becomes, IntakeTypeOK
      <3>3. \A h \in Grant : h # g => grants'[h] = grants[h]
        BY <2>1, <2>3 DEF IntakeTypeOK
      <3>4. calls[k].kind = "issue" /\ Issuing(k) /\ grants[g] = "new"
        BY <2>1 DEF GrantInvariant, Running, Issuing, IntakeTypeOK, CallRecord
      <3>5. \A j \in Call : /\ Running(j)' => Running(j)
                            /\ j # k /\ Running(j)' => calls'[j] = calls[j] /\ calls[j].grant # g
                            /\ Issuing(j)' => Issuing(j) /\ j # k
                            /\ At(j, "walk")' => At(j, "walk") /\ j # k
        <4>1. \A j \in Call : j # k /\ Running(j) => calls[j].grant # g
          BY <3>4 DEF GrantInvariant
        <4> QED
          BY <2>1, <3>1, <3>2, <4>1 DEF Running, Issuing, At
      <3>6. grants'[g] = "live"
        BY <2>1, <2>3 DEF IntakeTypeOK
      <3>7. GrantInvariant'
        <4>1. \A j \in Call : Running(j)' /\ calls'[j].kind = "propose" =>
                  grants'[calls'[j].grant] # "new" /\ calls'[j].pc \notin {"insert", "place"}
          BY <1>01, <3>2, <3>3, <3>4, <3>5 DEF GrantInvariant
        <4>2. \A j \in Call : Running(j)' /\ calls'[j].kind = "issue" =>
                  calls'[j].pc \notin {"consume", "walk"}
          BY <3>1, <3>2, <3>5 DEF GrantInvariant
        <4>3. \A j \in Call : Issuing(j)' => grants'[calls'[j].grant] = "new"
          BY <1>01, <3>3, <3>5 DEF GrantInvariant, Issuing
        <4>4. \A i, j \in Call :
                 Issuing(j)' /\ Running(i)' /\ calls'[i].grant = calls'[j].grant => i = j
          BY <3>2, <3>5 DEF GrantInvariant, Issuing
        <4>6. \A j \in Call : At(j, "walk")' => grants'[calls'[j].grant] = "gone"
          BY <1>01, <3>3, <3>5 DEF GrantInvariant, At
        <4>7. \A p \in DropProposal :
                 proposals'[p] # NoProposal => grants'[proposals'[p].grant] = "gone"
          BY <1>02, <2>1, <3>3, <3>4 DEF GrantInvariant
        <4> QED
          BY <4>1, <4>2, <4>3, <4>4, <4>6, <4>7 DEF GrantInvariant
      <3>8. GrantsAreWalkedOnce'
        BY <2>1, <3>5 DEF GrantsAreWalkedOnce, At
      <3> QED
        BY <3>7, <3>8
    <2> QED
      BY <1>50, <2>3, PlaceStep
  <1>6. ASSUME NEW k \in Call, WalkOn(k) PROVE Goal
    <2>1. PICK c : /\ Becomes(k, c) /\ c.pc = "walk" /\ calls[k].pc = "walk"
      BY <1>6, WalkOnStep DEF Setting
    <2>2. calls[k] # NoCall /\ UNCHANGED <<grants, proposals>>
      BY <1>6 DEF WalkOn, At, Running
    <2> QED
      BY <2>1, <2>2, GrantKept
  <1>7. ASSUME NEW k \in Call, Register(k) PROVE Goal
    <2> DEFINE g == calls[k].grant
    <2>1. calls[k].pc = "walk" /\ calls[k] # NoCall /\ g \in Grant /\ UNCHANGED grants
      BY <1>7, RegisterStep DEF Setting
    <2>2. CASE Ends(k) /\ UNCHANGED proposals
      BY <2>1, <2>2, GrantEnded
    <2>3. CASE /\ \E p \in DropProposal :
                        /\ proposals[p] = NoProposal
                        /\ proposals' = [proposals EXCEPT ![p] = NewProposal(g)]
               /\ \E c : /\ Becomes(k, c) /\ c.pc = "return"
      <3>1. PICK c : /\ Becomes(k, c) /\ c.pc = "return"
        BY <2>3
      <3>2. /\ calls'[k] = c /\ \A j \in Call : j # k => calls'[j] = calls[j]
            /\ c.kind = calls[k].kind /\ c.grant = g
        BY <3>1 DEF Becomes, IntakeTypeOK
      <3>3. PICK p \in DropProposal : /\ proposals[p] = NoProposal
                                  /\ proposals' = [proposals EXCEPT ![p] = NewProposal(g)]
        BY <2>3
      <3>4. /\ proposals'[p].grant = g
            /\ \A q \in DropProposal : q # p => proposals'[q] = proposals[q]
        BY <3>3 DEF IntakeTypeOK, NewProposal
      <3>5. \A j \in Call : /\ Running(j)' => /\ Running(j)
                                              /\ calls'[j].grant = calls[j].grant
                                              /\ calls'[j].kind = calls[j].kind
                            /\ j # k /\ Running(j)' => calls'[j] = calls[j]
                            /\ Issuing(j)' => Issuing(j)
                            /\ At(j, "walk")' => At(j, "walk") /\ j # k
        BY <2>1, <3>1, <3>2 DEF Running, Issuing, At
      <3>6. At(k, "walk") /\ grants[g] = "gone"
        BY <2>1 DEF GrantInvariant, At, Running
      <3>7. GrantInvariant'
        <4>1. \A j \in Call : Running(j)' /\ calls'[j].kind = "propose" =>
                  grants'[calls'[j].grant] # "new" /\ calls'[j].pc \notin {"insert", "place"}
          BY <2>1, <3>1, <3>2, <3>5 DEF GrantInvariant
        <4>2. \A j \in Call : Running(j)' /\ calls'[j].kind = "issue" =>
                  calls'[j].pc \notin {"consume", "walk"}
          BY <3>1, <3>2, <3>5 DEF GrantInvariant
        <4>3. \A j \in Call : Issuing(j)' => grants'[calls'[j].grant] = "new"
          BY <2>1, <3>5 DEF GrantInvariant, Issuing
        <4>4. \A i, j \in Call :
                 Issuing(j)' /\ Running(i)' /\ calls'[i].grant = calls'[j].grant => i = j
          BY <3>5 DEF GrantInvariant, Issuing
        <4>6. \A j \in Call : At(j, "walk")' => grants'[calls'[j].grant] = "gone"
          BY <2>1, <3>5 DEF GrantInvariant, At
        <4>7. \A q \in DropProposal :
                 proposals'[q] # NoProposal => grants'[proposals'[q].grant] = "gone"
          BY <2>1, <3>4, <3>6 DEF GrantInvariant
        <4> QED
          BY <4>1, <4>2, <4>3, <4>4, <4>6, <4>7 DEF GrantInvariant
      <3>8. GrantsAreWalkedOnce'
        <4>1. \A q \in DropProposal : proposals[q] # NoProposal => proposals[q].grant # g
          BY <3>6 DEF GrantsAreWalkedOnce
        <4>2. \A j \in Call : At(j, "walk") /\ j # k => calls[j].grant # g
          BY <3>6 DEF GrantsAreWalkedOnce
        <4>3. \A j \in Call : At(j, "walk")' => At(j, "walk") /\ j # k /\ calls'[j] = calls[j]
          BY <3>5 DEF At
        <4> QED
          BY <3>4, <4>1, <4>2, <4>3 DEF GrantsAreWalkedOnce
      <3> QED
        BY <3>7, <3>8
    <2> QED
      BY <1>7, <2>2, <2>3, RegisterStep DEF Setting
  <1>8. ASSUME NEW k \in Call, Return(k) PROVE Goal
    BY <1>8, ReturnStep, GrantEnded
  <1>9. ASSUME NEW k \in Call, PassDeadline(k) PROVE Goal
    <2>1. PICK c : Becomes(k, c) /\ c.pc = calls[k].pc
      BY <1>9, PassDeadlineStep
    <2>2. calls[k] # NoCall /\ UNCHANGED <<grants, proposals>>
      BY <1>9, PassDeadlineStep
    <2>3. /\ calls[k].pc \in {"insert", "place"} => calls[k].kind = "issue"
          /\ calls[k].pc = "consume" => calls[k].kind = "propose"
      BY <2>2 DEF GrantInvariant, Running, IntakeTypeOK, CallRecord
    <2> QED
      BY <2>1, <2>2, <2>3, GrantKept DEF Becomes
  <1>10. ASSUME NEW g \in Grant, ExpireGrant(g) PROVE Goal
    <2>1. /\ UNCHANGED <<proposals, calls>> /\ grants[g] = "live"
          /\ grants'[g] = "expired" /\ \A h \in Grant : h # g => grants'[h] = grants[h]
      BY <1>10 DEF ExpireGrant, IntakeTypeOK
    <2>2. \A h \in Grant : /\ grants'[h] = "new" <=> grants[h] = "new"
                           /\ grants[h] = "gone" => grants'[h] = "gone"
      BY <2>1
    <2> QED
      BY <1>01, <1>02, <2>1, <2>2
         DEF GrantInvariant, GrantsAreWalkedOnce, Running, At, Issuing
  <1>11. ASSUME NEW q \in DropProposal, ExpireProposal(q) PROVE Goal
    <2>1. /\ UNCHANGED <<grants, calls>> /\ proposals[q] # NoProposal
          /\ \A p \in DropProposal : p # q => proposals'[p] = proposals[p]
          /\ proposals'[q].grant = proposals[q].grant
      BY <1>11 DEF ExpireProposal, IntakeTypeOK, ProposalRecord
    <2> QED
      BY <2>1 DEF GrantInvariant, GrantsAreWalkedOnce, Running, At, Issuing
  <1>12. CASE UNCHANGED intakeVars
    BY <1>12 DEF GrantInvariant, GrantsAreWalkedOnce, Running, At, Issuing, intakeVars
  <1> HIDE DEF Goal
  <1> QED
    BY <1>1, <1>2, <1>3, <1>4, <1>5, <1>50, <1>6, <1>7, <1>8, <1>9, <1>10, <1>11, <1>12
       DEF IntakeNext, Proceed, Goal

-----------------------------------------------------------------------------
(* The limit of the registry.                                                *)

Live == {g \in Grant : grants[g] = "live"}
Placing == {k \in Call : At(k, "place")}

Roomy ==
    /\ IsFiniteSet(Live) /\ Cardinality(Live) <= MaxGrants
    /\ \A k \in Placing : Cardinality(Live) < MaxGrants
    /\ \A j, k \in Placing : j = k

LEMMA RoomFacts == (RoomInvariant <=> Roomy) /\ (RoomInvariant' <=> Roomy')
  BY DEF RoomInvariant, GrantsKeepTheirLimit, Roomy, Live, Placing

LEMMA RoomInit == Setting /\ IntakeInit => RoomInvariant
  <1> SUFFICES ASSUME Setting, IntakeInit PROVE RoomInvariant
    OBVIOUS
  <1>1. Live = {} /\ Placing = {}
    BY DEF IntakeInit, Live, Placing, At, Running
  <1>2. Roomy
    BY <1>1, FS_EmptySet DEF Roomy, Setting, PermitAssumption
  <1> QED
    BY <1>2, RoomFacts

(* A step after which there are no more grants and no more calls that insert. *)
LEMMA RoomKept ==
    ASSUME Setting, RoomInvariant, Live' \subseteq Live, Placing' \subseteq Placing
    PROVE  RoomInvariant'
PROOF
  <1>1. PICK S, L : S = Live' /\ L = Live
    OBVIOUS
  <1>2. IsFiniteSet(L) /\ Cardinality(L) <= MaxGrants /\ S \subseteq L
    BY <1>1, RoomFacts DEF Roomy
  <1>3. /\ IsFiniteSet(S) /\ Cardinality(S) <= Cardinality(L)
        /\ Cardinality(S) \in Nat /\ Cardinality(L) \in Nat /\ MaxGrants \in Nat
    BY <1>2, FS_Subset, FS_CardinalityType DEF Setting, PermitAssumption
  <1>4. Cardinality(S) <= MaxGrants
    BY <1>2, <1>3
  <1>5. \A k \in Placing' : Cardinality(S) < MaxGrants
    <2> SUFFICES ASSUME NEW k \in Placing' PROVE Cardinality(S) < MaxGrants
      OBVIOUS
    <2>1. Cardinality(L) < MaxGrants
      BY <1>1, RoomFacts DEF Roomy
    <2> QED
      BY <1>3, <2>1
  <1>6. \A j, k \in Placing' : j = k
    BY RoomFacts DEF Roomy
  <1> QED
    BY <1>1, <1>3, <1>4, <1>5, <1>6, RoomFacts DEF Roomy

(* Which calls are about to insert, after a step of one. *)
LEMMA PlacingStep ==
    ASSUME IntakeTypeOK, NEW k \in Call, NEW c, calls' = [calls EXCEPT ![k] = c],
           c = NoCall \/ c.pc # "place" \/ At(k, "place")
    PROVE  Placing' \subseteq Placing
  BY DEF IntakeTypeOK, Placing, At, Running

LEMMA RoomStep ==
    ASSUME Setting, IntakeTypeOK, WalkingInvariant, RoomInvariant, [IntakeNext]_intakeVars
    PROVE  RoomInvariant'
PROOF
  <1>1. ASSUME NEW k \in Call, NEW c, calls' = [calls EXCEPT ![k] = c],
               c = NoCall \/ c.pc # "place" \/ At(k, "place"),
               \/ UNCHANGED grants
               \/ \E g \in Grant : grants' = [grants EXCEPT ![g] = "gone"]
        PROVE  RoomInvariant'
    <2>1. Placing' \subseteq Placing
      BY <1>1, PlacingStep
    <2>2. Live' \subseteq Live
      BY <1>1 DEF Live, IntakeTypeOK
    <2> QED
      BY <2>1, <2>2, RoomKept
  <1>2. ASSUME NEW k \in Call, NEW g \in Grant, NEW kind \in {"issue", "propose"}, Ask(k, g, kind)
        PROVE  RoomInvariant'
    <2>1. PICK c \in CallRecord : c.pc = "load" /\ calls' = [calls EXCEPT ![k] = c]
      BY <1>2, AskStep DEF Setting
    <2> QED
      BY <1>1, <1>2, <2>1 DEF Ask
  <1>3. ASSUME NEW k \in Call, Load(k) PROVE RoomInvariant'
    <2>1. PICK c : Becomes(k, c) /\ c.pc = "exchange"
      BY <1>3, LoadStep DEF Setting
    <2> QED
      BY <1>1, <1>3, <2>1 DEF Load, Becomes
  <1>4. ASSUME NEW k \in Call, TryAcquire(k) PROVE RoomInvariant'
    <2>1. PICK c : calls' = [calls EXCEPT ![k] = c] /\ (c = NoCall \/ c.pc # "place")
      BY <1>4, TryAcquireStep DEF Setting, Becomes, Ends
    <2> QED
      BY <1>1, <1>4, <2>1 DEF TryAcquire
  <1>5. ASSUME NEW k \in Call, Consume(k) PROVE RoomInvariant'
    <2>1. PICK c : calls' = [calls EXCEPT ![k] = c] /\ (c = NoCall \/ c.pc # "place")
      BY <1>5, ConsumeStep DEF Setting, Becomes, Ends
    <2> QED
      BY <1>1, <1>5, <2>1, ConsumeStep DEF Setting
  <1>6. ASSUME NEW k \in Call, Insert(k) PROVE RoomInvariant'
    <2>1. UNCHANGED grants
      BY <1>6 DEF Insert
    <2>2. CASE Ends(k)
      BY <1>1, <2>1, <2>2 DEF Ends
    <2>3. CASE ~Ends(k)
      <3>1. /\ RegistryFree /\ Cardinality(Live) < MaxGrants
            /\ \E c : Becomes(k, c)
        BY <1>6, <2>3, InsertStep DEF Setting, Live
      <3>2. Placing' \subseteq {k} /\ Live' = Live
        BY <2>1, <3>1 DEF Placing, RegistryFree, Becomes, IntakeTypeOK, At, Running, Live
      <3>3. IsFiniteSet(Live) /\ Cardinality(Live) <= MaxGrants
        BY RoomFacts DEF Roomy
      <3>4. Roomy'
        BY <3>1, <3>2, <3>3 DEF Roomy, Setting, PermitAssumption
      <3> QED
        BY <3>4, RoomFacts
    <2> QED
      BY <2>2, <2>3
  <1>7. ASSUME NEW k \in Call, Place(k) PROVE RoomInvariant'
    <2>1. PICK c : Becomes(k, c) /\ c.pc = "return"
      BY <1>7, PlaceStep
    <2>2. /\ k \in Placing /\ calls[k].grant \in Grant
          /\ grants' = [grants EXCEPT ![calls[k].grant] = "live"]
      BY <1>7, PlaceStep DEF Placing, Place
    <2>3. Placing' = {}
      <3>1. \A j \in Placing : j = k
        BY <2>2, RoomFacts DEF Roomy
      <3>2. \A j \in Call : At(j, "place")' => j # k /\ At(j, "place")
        BY <2>1 DEF Becomes, IntakeTypeOK, At, Running
      <3> QED
        BY <3>1, <3>2 DEF Placing
    <2>4. PICK S, L, g : S = Live' /\ L = Live /\ g = calls[k].grant
      OBVIOUS
    <2>5. S = L \cup {g}
      BY <2>2, <2>4 DEF Live, IntakeTypeOK
    <2>6. IsFiniteSet(L) /\ Cardinality(L) < MaxGrants
      BY <2>2, <2>4, RoomFacts DEF Roomy
    <2>7. /\ IsFiniteSet(S) /\ Cardinality(L) \in Nat /\ MaxGrants \in Nat
          /\ Cardinality(S) = Cardinality(L) \/ Cardinality(S) = Cardinality(L) + 1
      BY <2>5, <2>6, FS_AddElement, FS_CardinalityType DEF Setting, PermitAssumption
    <2>8. Cardinality(S) <= MaxGrants
      BY <2>6, <2>7
    <2> QED
      BY <2>3, <2>4, <2>7, <2>8, RoomFacts DEF Roomy
  <1>8. ASSUME NEW k \in Call, WalkOn(k) PROVE RoomInvariant'
    <2>1. PICK c : Becomes(k, c) /\ c.pc = "walk"
      BY <1>8, WalkOnStep DEF Setting
    <2> QED
      BY <1>1, <1>8, <2>1 DEF WalkOn, Becomes
  <1>9. ASSUME NEW k \in Call, Register(k) PROVE RoomInvariant'
    <2>1. PICK c : calls' = [calls EXCEPT ![k] = c] /\ (c = NoCall \/ c.pc # "place")
      BY <1>9, RegisterStep DEF Setting, Becomes, Ends
    <2> QED
      BY <1>1, <1>9, <2>1 DEF Register
  <1>10. ASSUME NEW k \in Call, Return(k) PROVE RoomInvariant'
    BY <1>1, <1>10, ReturnStep DEF Ends
  <1>11. ASSUME NEW k \in Call, PassDeadline(k) PROVE RoomInvariant'
    <2>1. PICK c : Becomes(k, c) /\ c.pc = calls[k].pc
      BY <1>11, PassDeadlineStep
    <2>2. calls[k] # NoCall /\ UNCHANGED grants
      BY <1>11, PassDeadlineStep
    <2> QED
      BY <1>1, <2>1, <2>2 DEF Becomes, At, Running
  <1>12. ASSUME NEW g \in Grant, ExpireGrant(g) PROVE RoomInvariant'
    <2>1. Live' \subseteq Live /\ Placing' = Placing
      BY <1>12 DEF ExpireGrant, Live, Placing, At, Running, IntakeTypeOK
    <2> QED
      BY <2>1, RoomKept
  <1>13. CASE UNCHANGED <<grants, calls>>
    <2>1. Live' = Live /\ Placing' = Placing
      BY <1>13 DEF Live, Placing, At, Running
    <2> QED
      BY <2>1, RoomKept
  <1> QED
    BY <1>2, <1>3, <1>4, <1>5, <1>6, <1>7, <1>8, <1>9, <1>10, <1>11, <1>12, <1>13
       DEF IntakeNext, Proceed, ExpireProposal, intakeVars

-----------------------------------------------------------------------------
(* What holds of the intake. *)

\* The inductive invariant.
IntakeInvariant ==
    /\ IntakeTypeOK /\ PermitInvariant /\ WalkingInvariant
    /\ GrantInvariant /\ GrantsAreWalkedOnce /\ RoomInvariant

LEMMA InvariantHolds ==
    ASSUME Setting, IntakeInit
    PROVE  IntakeInvariant
PROOF
  <1>1. IntakeTypeOK
    BY DEF IntakeInit, IntakeTypeOK, Setting, PermitAssumption
  <1> QED
    BY <1>1, PermitInit, WalkingInit, GrantInit, RoomInit DEF IntakeInvariant, Setting

LEMMA InvariantKept ==
    ASSUME Setting, IntakeInvariant, [IntakeNext]_intakeVars
    PROVE  IntakeInvariant'
PROOF
  <1>1. /\ WalkingInvariant' /\ calls' \in [Call -> CallRecord \cup {NoCall}]
        /\ PermitInvariant' /\ GrantInvariant' /\ GrantsAreWalkedOnce' /\ RoomInvariant'
    BY WalkingStep, PermitStep, GrantStep, RoomStep DEF IntakeInvariant
  <1>2. permits' \in 0 .. MaxPermits
    <2>1. PICK S : S = Holders'
      OBVIOUS
    <2>2. IsFiniteSet(S) /\ permits' = Cardinality(S) /\ permits' <= MaxPermits
      BY <1>1, <2>1, PermitFacts DEF Counted
    <2>3. Cardinality(S) \in Nat
      BY <2>2, FS_CardinalityType
    <2> QED
      BY <2>2, <2>3 DEF Setting, PermitAssumption
  <1>3. grants' \in [Grant -> {"new", "live", "expired", "gone"}]
    <2>0. grants \in [Grant -> {"new", "live", "expired", "gone"}] /\ IntakeTypeOK
      BY DEF IntakeInvariant, IntakeTypeOK
    <2>1. ASSUME NEW g \in Grant, NEW v \in {"live", "expired", "gone"},
                 grants' = [grants EXCEPT ![g] = v]
          PROVE  grants' \in [Grant -> {"new", "live", "expired", "gone"}]
      BY <2>0, <2>1
    <2>2. CASE UNCHANGED grants
      BY <2>0, <2>2
    <2>3. ASSUME NEW k \in Call, Consume(k)
          PROVE  grants' \in [Grant -> {"new", "live", "expired", "gone"}]
      BY <2>0, <2>1, <2>2, <2>3, ConsumeStep DEF Setting
    <2>4. ASSUME NEW k \in Call, Place(k)
          PROVE  grants' \in [Grant -> {"new", "live", "expired", "gone"}]
      BY <2>0, <2>1, <2>4, PlaceStep
    <2>5. ASSUME NEW g \in Grant, ExpireGrant(g)
          PROVE  grants' \in [Grant -> {"new", "live", "expired", "gone"}]
      BY <2>1, <2>5 DEF ExpireGrant
    <2> QED
      BY <2>2, <2>3, <2>4, <2>5
         DEF IntakeNext, Ask, Proceed, Load, TryAcquire, Insert, WalkOn, Register, Return,
             PassDeadline, ExpireProposal, intakeVars
  <1>4. proposals' \in [DropProposal -> ProposalRecord \cup {NoProposal}]
    <2>0. proposals \in [DropProposal -> ProposalRecord \cup {NoProposal}] /\ IntakeTypeOK
      BY DEF IntakeInvariant, IntakeTypeOK
    <2>1. ASSUME NEW k \in Call, Register(k)
          PROVE  proposals' \in [DropProposal -> ProposalRecord \cup {NoProposal}]
      <3>1. NewProposal(calls[k].grant) \in ProposalRecord
        BY <2>0, <2>1, RegisterStep DEF Setting, NewProposal, ProposalRecord
      <3> QED
        BY <2>0, <2>1, <3>1, RegisterStep DEF Setting
    <2>2. ASSUME NEW p \in DropProposal, ExpireProposal(p)
          PROVE  proposals' \in [DropProposal -> ProposalRecord \cup {NoProposal}]
      BY <2>0, <2>2 DEF ExpireProposal, ProposalRecord
    <2>3. CASE UNCHANGED proposals
      BY <2>0, <2>3
    <2> QED
      BY <2>1, <2>2, <2>3
         DEF IntakeInvariant, IntakeNext, Ask, Proceed, Load, TryAcquire, Consume, Insert,
             Place, WalkOn, Return, PassDeadline, ExpireGrant, intakeVars
  <1> QED
    BY <1>1, <1>2, <1>3, <1>4 DEF IntakeInvariant, IntakeTypeOK

LEMMA IntakeCorrect == IntakeSpec => []IntakeInvariant
  BY InvariantHolds, InvariantKept, Settled, PTL DEF IntakeSpec

(* Whatever calls and workers do at the same time, the limiter counts the    *)
(* permits that are held, and never more than its limit (discovery/mod.rs:50). *)
THEOREM PermitsStayCounted == IntakeSpec => []PermitsAreCounted
  <1>1. IntakeInvariant => PermitsAreCounted
    BY DEF IntakeInvariant, PermitInvariant
  <1> QED
    BY <1>1, IntakeCorrect, PTL

(* A grant leads to at most one walk and that to at most one proposal: it is  *)
(* removed from the registry before it is used (discovery/grant.rs:137).      *)
THEOREM GrantsLeadToOneWalk == IntakeSpec => []GrantsAreWalkedOnce
  <1>1. IntakeInvariant => GrantsAreWalkedOnce
    BY DEF IntakeInvariant
  <1> QED
    BY <1>1, IntakeCorrect, PTL

(* A walk keeps to its budget, lists nothing twice, and when it has ended each *)
(* file below its roots is listed or told of (discovery/walker.rs:354).        *)
THEOREM NothingDroppedIsLost == IntakeSpec => []WalksDisclose
  <1>1. IntakeInvariant => WalksDisclose
    <2> SUFFICES ASSUME IntakeInvariant, NEW k \in Call, Running(k)
                 PROVE  /\ Bounded(calls[k].walk)
                        /\ At(k, "walk") /\ calls[k].walk.todo = <<>> =>
                              Discloses(calls[k].walk, RootsOf[calls[k].grant])
      BY DEF WalksDisclose
    <2>1. PICK w : w = calls[k].walk
      OBVIOUS
    <2>2. PICK roots : roots = IF At(k, "walk") THEN RootsOf[calls[k].grant] ELSE <<>>
      OBVIOUS
    <2>3. WalkInvariant(w, roots)
      BY <2>1, <2>2 DEF IntakeInvariant, WalkingInvariant
    <2>4. Bounded(w) /\ (w.todo = <<>> => Discloses(w, roots))
      BY <2>3, Settled, WalkConcludes DEF Setting
    <2> QED
      BY <2>1, <2>2, <2>4
  <1> QED
    BY <1>1, IntakeCorrect, PTL

(* The limit is checked and the grant inserted under one lock, so that calls   *)
(* that run at the same time leave no more grants in the registry than it      *)
(* allows (discovery/grant.rs:94).                                             *)
THEOREM GrantsStayWithinLimit == IntakeSpec => []GrantsKeepTheirLimit
  <1>1. IntakeInvariant => GrantsKeepTheirLimit
    BY DEF IntakeInvariant, RoomInvariant
  <1> QED
    BY <1>1, IntakeCorrect, PTL
=============================================================================
