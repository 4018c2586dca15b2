---------------------------- MODULE ArchiveReview ----------------------------
(***************************************************************************)
(* The review that leads to an archive, and the authority of the Vault it  *)
(* is archived in: the registries of naming and classification batches and *)
(* of archive plans (src-tauri/src/naming, profiles/classification.rs,     *)
(* archive/plan.rs, archive/mod.rs) and the leases and transfers of        *)
(* vault/mod.rs.                                                           *)
(*                                                                         *)
(* A Vault is a directory; AuthorityOf is the identity in its authority    *)
(* record, which a copied directory shares.  A name is a stem made of the  *)
(* cited facts, with or without the suffix that avoids a collision.        *)
(*                                                                         *)
(* Interleaving.  create_naming_batch and confirm_archive_plan run on      *)
(* blocking threads, and are steps; the other commands are synchronous,    *)
(* hence run one after the other on the main thread, and are actions.      *)
(* confirm_transfer holds the lock of the authority from its checks to the *)
(* exchange.                                                               *)
(*                                                                         *)
(* Abstractions.  An entry of a registry that expired is purged where the  *)
(* registry changes; a call that is refused changes nothing else.  The     *)
(* archive of one item is a step (ArchiveTransaction has its steps), and a *)
(* discovery proposal shows every item.                                    *)
(***************************************************************************)
EXTENDS Integers, FiniteSets

CONSTANTS
    Vault,              \* directories the user may choose
    NoVault,
    Authority, AuthorityOf,     \* the authority record of each directory
    Profile, NoProfile,
    Proposal,           \* discovery proposals
    Item,               \* reviewed items, in the order of their identifiers
    Digest, DigestOf,   \* the content of each item
    Stem, NamingReview, \* names the facts may give; a name left to the user
    Selection,          \* the sets of items the user may select
    MaxActive,          \* max_batches and max_plans
    TTL, ProposalTTL,   \* lifetime of batches, plans and transfers; of proposals
    MaxTime, MaxTransfers, MaxQuits, MaxNamings, MaxClassifications, MaxPlans  \* bounds

ASSUME VaultAssumption == NoVault \notin Vault /\ AuthorityOf \in [Vault -> Authority]
ASSUME ProfileAssumption == NoProfile \notin Profile
ASSUME ItemAssumption == /\ Item \subseteq Nat /\ DigestOf \in [Item -> Digest]
                         /\ Selection \subseteq SUBSET Item /\ {} \notin Selection
ASSUME LimitAssumption ==
    /\ MaxActive \in Nat /\ TTL \in Nat /\ ProposalTTL \in Nat /\ MaxTime \in Nat
    /\ MaxTransfers \in Nat /\ MaxQuits \in Nat
    /\ MaxNamings \in Nat /\ MaxClassifications \in Nat /\ MaxPlans \in Nat

VARIABLES
    authority,          \* the authoritative Vault
    transfers,          \* pending_transfers
    audits,             \* .aiks/vault-transfers: where each Vault passed its authority
    approved, active,   \* the profiles each Vault approved, and the one in force
    expires,            \* when each discovery proposal expires, 0 if there is none
    namers,             \* create_naming_batch under way
    namings, classifications, plans,    \* the registries
    commits,            \* confirm_archive_plan under way
    originals,          \* the originals archived in each Vault
    issued,             \* the identifiers given out so far
    clock,
    prepared, quits     \* transfers prepared, ends of the process

onDisk == <<audits, approved, active, originals>>
registries == <<namings, classifications, plans>>
workers == <<namers, commits>>
budget == <<prepared, quits>>
vars == <<authority, transfers, audits, approved, active, expires, namers, namings,
          classifications, plans, commits, originals, issued, clock, prepared, quits>>

-----------------------------------------------------------------------------
Time == 0 .. MaxTime
Name == Stem \X BOOLEAN     \* a stem, and whether it has the digest suffix
Transfer == [from : Vault, to : Vault, expires : Nat]
Namer == [id : Nat, proposal : Proposal, items : SUBSET Item, vault : Vault,
          at : Time, step : {"lease", "create"}]
Naming == [id : Nat, proposal : Proposal, items : SUBSET Item, vault : Vault, at : Time,
           names : [Item -> Name \cup {NamingReview}]]
Classification == [id : Nat, proposal : Proposal, items : SUBSET Item, vault : Vault,
                   at : Time, profile : Profile, committable : BOOLEAN]
ArchivePlan == [id : Nat, proposal : Proposal, items : SUBSET Item, vault : Vault,
                at : Time, naming : Naming, classification : Classification]
Commit == [plan : ArchivePlan, step : {"lease", "run"}, vault : Vault \cup {NoVault},
           left : SUBSET Item, at : Time]
Original == [item : Item, name : Name \cup {NamingReview}, plan : ArchivePlan, confirmed : Time, at : Time]

(* Entries not yet expired; batches and plans match by proposal and items.   *)
Retained(registry, now) == {e \in registry : e.at + TTL > now}

\* Mutant: the selection is not compared.
MatchesProposal(e, q, S) == e.proposal = q
Matches(e, q, S) == e.proposal = q /\ e.items = S

HasRoom(registry) == Cardinality(registry) < MaxActive
Resolves(q) == expires[q] > clock

(* lease compares the identity of the authority, not the directory.          *)
IsCurrent(v) == authority # NoVault /\ AuthorityOf[v] = AuthorityOf[authority]

Leases == {w \in namers : w.step = "create"} \cup {k \in commits : k.step = "run"}
ActiveLeases == {h \in Leases : h.vault = authority}

Occupied(v, d) == {o.name : o \in {x \in originals[v] : DigestOf[x.item] = d}}

\* Mutant: the name is proposed as the facts give it.
ProposeFactsOnly(stem, occupied) ==
    IF stem = NamingReview THEN NamingReview ELSE <<stem, FALSE>>

(* propose_name: the suffix avoids one collision, a second one is reviewed.  *)
ProposeName(stem, occupied) ==
    IF stem = NamingReview \/ {<<stem, FALSE>>, <<stem, TRUE>>} \subseteq occupied
    THEN NamingReview
    ELSE IF <<stem, FALSE>> \in occupied THEN <<stem, TRUE>> ELSE <<stem, FALSE>>

Init ==
    /\ authority = NoVault /\ transfers = {}
    /\ audits = [v \in Vault |-> {}]
    /\ approved = [v \in Vault |-> {}]
    /\ active = [v \in Vault |-> NoProfile]
    /\ expires = [q \in Proposal |-> 0]
    /\ namers = {} /\ namings = {} /\ classifications = {} /\ plans = {} /\ commits = {}
    /\ originals = [v \in Vault |-> {}]
    /\ issued = [naming |-> 0, classification |-> 0, plan |-> 0]
    /\ clock = 0 /\ prepared = 0 /\ quits = 0

-----------------------------------------------------------------------------
(* Discovery registers a proposal; the user approves a profile. *)

RegisterProposal(q) ==
    /\ expires[q] = 0
    /\ expires' = [expires EXCEPT ![q] = clock + ProposalTTL]
    /\ UNCHANGED <<authority, transfers, onDisk, registries, workers, issued, clock, budget>>

ApproveProfile(f) ==
    /\ authority # NoVault
    /\ f \notin approved[authority]
    /\ approved' = [approved EXCEPT ![authority] = @ \cup {f}]
    /\ active' = [active EXCEPT ![authority] = f]
    /\ UNCHANGED <<authority, transfers, audits, expires, workers, registries, originals,
                   issued, clock, budget>>

-----------------------------------------------------------------------------
(* create_naming_batch: resolve and current_summary, lease, create_at. *)

StartNaming(q, S) ==
    /\ issued.naming < MaxNamings
    /\ Resolves(q) /\ authority # NoVault
    /\ namers' = namers \cup
         {[id |-> issued.naming + 1, proposal |-> q, items |-> S, vault |-> authority,
           at |-> clock, step |-> "lease"]}
    /\ issued' = [issued EXCEPT !.naming = @ + 1]
    /\ UNCHANGED <<authority, transfers, onDisk, expires, registries, commits, clock, budget>>

LeaseForNaming(w) ==
    /\ w.step = "lease"
    /\ namers' = IF IsCurrent(w.vault)
                 THEN (namers \ {w}) \cup {[w EXCEPT !.step = "create", !.vault = authority]}
                 ELSE namers \ {w}
    /\ UNCHANGED <<authority, transfers, onDisk, expires, registries, commits, issued, clock, budget>>

(* The names are read and the batch is made at the time the call began. *)
CreateNaming(w) ==
    /\ w.step = "create"
    /\ \E facts \in [w.items -> Stem \cup {NamingReview}] :
         LET kept == Retained(namings, w.at)
             batch == [id |-> w.id, proposal |-> w.proposal, items |-> w.items,
                       vault |-> w.vault, at |-> w.at,
                       names |-> [i \in Item |->
                           IF i \in w.items
                           THEN ProposeName(facts[i], Occupied(w.vault, DigestOf[i]))
                           ELSE NamingReview]]
         IN namings' = IF HasRoom(kept) THEN kept \cup {batch} ELSE kept
    /\ namers' = namers \ {w}
    /\ UNCHANGED <<authority, transfers, onDisk, expires, classifications, plans, commits,
                   issued, clock, budget>>

-----------------------------------------------------------------------------
(* create_classification_batch, with a lease while it runs; create_archive_plan. *)

\* Mutant: a profile the user has not approved is taken as well.
ClassifiesWithAny(v) == IF active[v] = NoProfile THEN Profile ELSE {active[v]}
ActiveProfile(v) == {active[v]} \ {NoProfile}

Classify(q, S) ==
    /\ issued.classification < MaxClassifications
    /\ Resolves(q) /\ authority # NoVault
    /\ \E f \in ActiveProfile(authority), complete \in BOOLEAN :
         LET kept == Retained(classifications, clock)
         IN /\ HasRoom(kept)
            /\ classifications' = kept \cup
                 {[id |-> issued.classification + 1, proposal |-> q, items |-> S,
                   vault |-> authority, at |-> clock, profile |-> f,
                   committable |-> complete]}
    /\ issued' = [issued EXCEPT !.classification = @ + 1]
    /\ UNCHANGED <<authority, transfers, onDisk, expires, workers, namings, plans, clock, budget>>

Destination(p, i) == <<DigestOf[i], p.naming.names[i]>>

Plannable(p) ==
    /\ p.classification.committable
    /\ \A i \in p.items : p.naming.names[i] # NamingReview
    /\ \A i, j \in p.items : Destination(p, i) = Destination(p, j) => i = j
    /\ HasRoom(Retained(plans, clock))

(* The naming batch cited has expired, was used or does not match: the        *)
(* classification is lost.                                                    *)
LoseClassification(q, S) ==
    /\ Resolves(q) /\ authority # NoVault
    /\ \E c \in Retained(classifications, clock) :
         /\ Matches(c, q, S)
         /\ classifications' = Retained(classifications, clock) \ {c}
    /\ UNCHANGED <<authority, transfers, onDisk, expires, workers, namings, plans, issued,
                   clock, budget>>

(* Both batches are used up, whether or not a plan comes of them.            *)
CreatePlan(q, S) ==
    /\ issued.plan < MaxPlans
    /\ Resolves(q) /\ authority # NoVault
    /\ \E c \in Retained(classifications, clock), n \in Retained(namings, clock) :
         LET plan == [id |-> issued.plan + 1, proposal |-> q, items |-> S,
                      vault |-> authority, at |-> clock, naming |-> n, classification |-> c]
         IN /\ Matches(c, q, S) /\ Matches(n, q, S)
            /\ classifications' = Retained(classifications, clock) \ {c}
            /\ namings' = Retained(namings, clock) \ {n}
            /\ plans' = IF Plannable(plan) THEN Retained(plans, clock) \cup {plan} ELSE plans
    /\ issued' = [issued EXCEPT !.plan = @ + 1]
    /\ UNCHANGED <<authority, transfers, onDisk, expires, workers, clock, budget>>

-----------------------------------------------------------------------------
(* confirm_archive_plan: consume_at, lease, commit_plan_with_faults. *)

ConfirmPlan(p) ==
    /\ p \in Retained(plans, clock)
    /\ plans' = Retained(plans, clock) \ {p}
    /\ commits' = commits \cup
         {[plan |-> p, step |-> "lease", vault |-> NoVault, left |-> p.items, at |-> clock]}
    /\ UNCHANGED <<authority, transfers, onDisk, expires, namers, namings, classifications,
                   issued, clock, budget>>

\* Mutant: a plan whose Vault is no longer current waits.
LeaseWhenCurrent(k) ==
    /\ k.step = "lease" /\ IsCurrent(k.plan.vault)
    /\ commits' = (commits \ {k}) \cup {[k EXCEPT !.step = "run", !.vault = authority]}
    /\ UNCHANGED <<authority, transfers, onDisk, expires, namers, registries, issued, clock, budget>>

LeaseForCommit(k) ==
    /\ k.step = "lease"
    /\ commits' = IF IsCurrent(k.plan.vault)
                  THEN (commits \ {k}) \cup {[k EXCEPT !.step = "run", !.vault = authority]}
                  ELSE commits \ {k}
    /\ UNCHANGED <<authority, transfers, onDisk, expires, namers, registries, issued, clock, budget>>

(* The items in their order; one fails when its destination is taken, or for *)
(* a reason of its own.                                                      *)
CommitItem(k) ==
    /\ k.step = "run"
    /\ \E i \in k.left :
         LET rest == k.left \ {i}
             file == [item |-> i, name |-> k.plan.naming.names[i], plan |-> k.plan,
                      confirmed |-> k.at, at |-> clock]
         IN /\ \A j \in rest : i < j
            /\ commits' = IF rest = {} THEN commits \ {k}
                          ELSE (commits \ {k}) \cup {[k EXCEPT !.left = rest]}
            /\ \/ UNCHANGED originals
               \/ /\ file.name \notin Occupied(k.vault, DigestOf[i])
                  /\ originals' = [originals EXCEPT ![k.vault] = @ \cup {file}]
    /\ UNCHANGED <<authority, transfers, audits, approved, active, expires, namers, registries,
                   issued, clock, budget>>

-----------------------------------------------------------------------------
(* VaultAuthorityRegistry. *)

Authorize(v) ==
    /\ authority = NoVault
    /\ authority' = v
    /\ UNCHANGED <<transfers, onDisk, expires, workers, registries, issued, clock, budget>>

PrepareTransfer(v) ==
    /\ prepared < MaxTransfers
    /\ authority # NoVault /\ v # authority
    /\ transfers' = {[from |-> authority, to |-> v, expires |-> clock + TTL]}
    /\ prepared' = prepared + 1
    /\ UNCHANGED <<authority, onDisk, expires, workers, registries, issued, clock, quits>>

\* Mutant: the transfer does not look for active leases.
ConfirmableAnyTime(t) == t.expires > clock /\ t.from = authority

Confirmable(t) == t.expires > clock /\ t.from = authority /\ ActiveLeases = {}

AuditTransfer(t) == audits' = [audits EXCEPT ![t.from] = @ \cup {t.to}]

ConfirmTransfer(t) ==
    /\ Confirmable(t)
    /\ AuthorityOf[t.to] # AuthorityOf[authority]
    /\ AuditTransfer(t)
    /\ authority' = t.to
    /\ transfers' = transfers \ {t}
    /\ UNCHANGED <<approved, active, originals, expires, workers, registries, issued, clock, budget>>

(* The transfer has expired, or is used up by a target that cannot be opened,  *)
(* that carries the current authority record, or by an audit not written.      *)
LoseTransfer(t) ==
    /\ t.expires <= clock \/ Confirmable(t)
    /\ transfers' = transfers \ {t}
    /\ UNCHANGED <<authority, onDisk, expires, workers, registries, issued, clock, budget>>

-----------------------------------------------------------------------------
(* The process ends, between two operations or within them: what is not on   *)
(* disk is gone.  It may end between the audit of a transfer and the exchange.*)
Quit ==
    /\ authority # NoVault /\ quits < MaxQuits
    /\ authority' = NoVault /\ transfers' = {}
    /\ expires' = [q \in Proposal |-> 0]
    /\ namers' = {} /\ namings' = {} /\ classifications' = {} /\ plans' = {} /\ commits' = {}
    /\ \/ UNCHANGED audits
       \/ \E t \in transfers :
             Confirmable(t) /\ AuthorityOf[t.to] # AuthorityOf[authority] /\ AuditTransfer(t)
    /\ quits' = quits + 1
    /\ UNCHANGED <<approved, active, originals, issued, clock, prepared>>

Tick ==
    /\ clock < MaxTime
    /\ clock' = clock + 1
    /\ UNCHANGED <<authority, transfers, onDisk, expires, workers, registries, issued, budget>>

Review ==
    \/ \E q \in Proposal : RegisterProposal(q)
    \/ \E q \in Proposal, S \in Selection :
          StartNaming(q, S) \/ Classify(q, S) \/ LoseClassification(q, S) \/ CreatePlan(q, S)
    \/ \E w \in namers : LeaseForNaming(w) \/ CreateNaming(w)
    \/ \E p \in plans : ConfirmPlan(p)
    \/ \E k \in commits : LeaseForCommit(k) \/ CommitItem(k)

Govern ==
    \/ \E f \in Profile : ApproveProfile(f)
    \/ \E v \in Vault : Authorize(v) \/ PrepareTransfer(v)
    \/ \E t \in transfers : ConfirmTransfer(t) \/ LoseTransfer(t)
    \/ Quit \/ Tick

Next == Review \/ Govern
Spec == Init /\ [][Next]_vars

(* A commit runs on a thread of its own once the call has begun.             *)
CommitStep(n) == \E k \in commits : k.plan.id = n /\ (LeaseForCommit(k) \/ CommitItem(k))
FairSpec == Spec /\ \A n \in 1 .. MaxPlans : WF_vars(CommitStep(n))

-----------------------------------------------------------------------------
(* Every variable has its type, and at most one transfer is pending: the     *)
(* registry of transfers is cleared by each preparation (vault/mod.rs:364).  *)
TypeOK ==
    /\ authority \in Vault \cup {NoVault}
    /\ transfers \subseteq Transfer /\ \A t, u \in transfers : t = u
    /\ audits \in [Vault -> SUBSET Vault]
    /\ approved \in [Vault -> SUBSET Profile]
    /\ active \in [Vault -> Profile \cup {NoProfile}]
    /\ expires \in [Proposal -> Nat]
    /\ namers \subseteq Namer /\ namings \subseteq Naming
    /\ classifications \subseteq Classification
    /\ plans \subseteq ArchivePlan /\ commits \subseteq Commit
    /\ originals \in [Vault -> SUBSET Original]
    /\ issued \in [naming : Nat, classification : Nat, plan : Nat]
    /\ clock \in Time /\ prepared \in Nat /\ quits \in Nat

(* Whatever a worker does under a lease, it does in the Vault that is        *)
(* authoritative at that moment, although transfers, preparations and        *)
(* confirmations fall between its steps (vault/mod.rs:225, :407).            *)
WorkersUseCurrentVault == \A h \in Leases : h.vault = authority

(* Each archived original goes back to one review: a naming and a            *)
(* classification batch of the same proposal and selection, both complete    *)
(* and fresh when the plan was made, the plan fresh when it was confirmed,   *)
(* for the authority it is archived under; and no batch or plan serves       *)
(* twice (archive/mod.rs:41, archive/plan.rs:139).                           *)
CommitsFollowOneReview ==
    \A v \in Vault : \A o \in originals[v] :
        LET p == o.plan
        IN /\ p.naming.proposal = p.proposal /\ p.naming.items = p.items
           /\ p.classification.proposal = p.proposal /\ p.classification.items = p.items
           /\ o.item \in p.items
           /\ o.name # NamingReview /\ p.classification.committable
           /\ p.naming.at + TTL > p.at /\ p.classification.at + TTL > p.at
           /\ p.at + TTL > o.confirmed
           /\ AuthorityOf[v] = AuthorityOf[p.vault]
           /\ \A u \in Vault : \A x \in originals[u] :
                 \/ x.plan = p /\ (x.item = o.item => x = o /\ u = v)
                 \/ /\ x.plan.naming.id # p.naming.id
                    /\ x.plan.classification.id # p.classification.id

(* A destination that a plan finds occupied was taken while the review went  *)
(* on, or the names were proposed for another Vault: what was archived       *)
(* before the review in the same Vault never collides (naming/mod.rs:42).    *)
CollisionsHaveCause ==
    \A k \in commits : k.step = "run" =>
        \A i \in k.left : \A o \in originals[k.vault] :
            Destination(k.plan, i) = <<DigestOf[o.item], o.name>> =>
                k.plan.naming.vault # k.vault \/ o.at >= k.plan.naming.at

(* A classification that is archived cites a profile approved in the Vault   *)
(* it is archived in, unless it was made while another Vault was             *)
(* authoritative (profiles/mod.rs:77, archive/mod.rs:52).                    *)
ClassificationIsApproved ==
    \A v \in Vault : \A o \in originals[v] :
        LET c == o.plan.classification IN c.vault = v => c.profile \in approved[v]

(* While the process runs, authority passes from one Vault to another only   *)
(* by a transfer that the first Vault has on record (vault/mod.rs:439).      *)
AuthorityChangeIsAudited ==
    [][(authority # NoVault /\ authority' \notin {NoVault, authority})
          => authority' \in audits'[authority]]_vars

(* Every confirmed plan comes to an end, whether or not its Vault is still   *)
(* current, so that its lease does not block transfers for ever              *)
(* (archive/mod.rs:89, vault/mod.rs:74).                                     *)
ConfirmedPlansEnd ==
    \A n \in 1 .. MaxPlans :
        (\E k \in commits : k.plan.id = n) ~> ~ (\E k \in commits : k.plan.id = n)
=============================================================================
