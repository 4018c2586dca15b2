----------------------------- MODULE ProfileStore -----------------------------
(***************************************************************************)
(* The classification profiles of a Vault: candidates, the decisions about *)
(* them, the installed versions and their activations                      *)
(* (src-tauri/src/profiles/store.rs and the commands of profiles/mod.rs).  *)
(*                                                                         *)
(* One lock makes each command a step for the others, but a command is     *)
(* several files, each written under a name that must be free, and a write *)
(* may fail or the process stop between two of them.  A command is         *)
(* therefore the list of writes it still has to do: what it read cannot    *)
(* change under the lock, so the list is known when the lock is taken.     *)
(*                                                                         *)
(* Abstractions.  A digest is the file it is the digest of, an identifier  *)
(* of a candidate the record that is hashed into it.  The wall clock may   *)
(* show any time.  Left out: the limit of 1000 records of a kind, and the  *)
(* changes that others make to the files of the Vault.                     *)
(***************************************************************************)
EXTENDS ProfileSchema, SequencesExt

CONSTANTS
    Source, Doc,        \* files that may be imported, and the profile in each
    Bundled,            \* the draft that comes with the program, also in DOMAIN Doc
    LocalFile, Locator, \* the files on a disk, and where they may lie
    Term,               \* evidence terms
    Time,
    NoVia, NoOp, NoAnswer,
    MaxCandidates       \* a bound of the model

ASSUME DocAssumption ==
    /\ DOMAIN Doc = Source \cup {Bundled} /\ LocalFile \subseteq Source
    /\ ValidProfile(Doc[Bundled]) /\ Doc[Bundled].status = "draft"
    /\ \A s \in DOMAIN Doc : DOMAIN Doc[s] = {"schema", "legible", "id", "version", "status",
                                              "categories", "maximumDepth", "rules"}
ASSUME TimeAssumption == Time \subseteq Nat /\ MaxCandidates \in Nat

VARIABLES
    vault,      \* .aiks/profiles: for each directory, its records by their names
    op,         \* the command that has the lock, and the writes it still has to do
    answer      \* the classification that the last command proposed, if it proposed one

svars == <<vault, op, answer>>

-----------------------------------------------------------------------------
Directory == {"installed", "sources", "compilerSources", "candidates", "decisions",
              "activations"}

Ref(s) == <<Doc[s].id, Doc[s].version>>
CandidateId(kind, s, via) == [kind |-> kind, source |-> s, via |-> via]
Entry(s, status) == [source |-> s, status |-> status]
ProfileAt(ref) ==
    LET entry == vault.installed[ref] IN [Doc[entry.source] EXCEPT !.status = entry.status]

Has(directory, name) == name \in DOMAIN vault[directory]
Put(directory, name, record) == [directory |-> directory, name |-> name, record |-> record]
PutNew(directory, name, record) ==
    IF Has(directory, name) THEN <<>> ELSE <<Put(directory, name, record)>>

Approved == {c \in DOMAIN vault.decisions : vault.decisions[c].verdict = "approve"}

\* The activation with the latest time; a tie is broken by the identifier, a digest.
Latest == CHOOSE c \in DOMAIN vault.activations :
            \A d \in DOMAIN vault.activations : vault.activations[d].at <= vault.activations[c].at
Active == IF DOMAIN vault.activations = {} THEN <<>> ELSE <<vault.activations[Latest].ref>>

AsInstalled(s, status) == [Doc[s] EXCEPT !.status = status]
IsInstalled(s, status) == Has("installed", Ref(s)) /\ ProfileAt(Ref(s)) = AsInstalled(s, status)

InstallAnyway(s, status) == TRUE \* Mutant: an installed version is not compared.
\* An installed version stays as it is: the same profile again, or an error.
MayInstall(s, status) == Has("installed", Ref(s)) => IsInstalled(s, status)

InstallWrites(s, status) ==
    IF IsInstalled(s, status) THEN <<>> ELSE <<Put("installed", Ref(s), Entry(s, status))>>

DraftWrites == InstallWrites(Bundled, "draft")

Running == op # NoOp
Take(kind, writes) ==
    /\ ~Running
    /\ op' = [kind |-> kind, writes |-> DraftWrites \o writes]
    /\ answer' = NoAnswer
    /\ UNCHANGED vault

SInit ==
    /\ vault = [d \in Directory |-> <<>>]
    /\ op = NoOp
    /\ answer = NoAnswer

-----------------------------------------------------------------------------
\* import_bytes: the difference is to the active version, when it is one of the same profile.
BaseOf(s) ==
    IF Active # <<>> /\ Active[1][1] = Doc[s].id THEN Active ELSE <<>>
CandidateRecord(s, locator) ==
    [locator |-> locator, base |-> BaseOf(s),
     diff |-> ProfileDiff([i \in DOMAIN BaseOf(s) |-> ProfileAt(BaseOf(s)[i])], Doc[s])]

Importable == {s \in Source : IsCandidate(Doc[s])}

ImportWrites(id, locator, original) ==
    PutNew("sources", id.source, id.source)
        \o (IF original = NoVia THEN <<>> ELSE PutNew("compilerSources", original, original))
        \o <<Put("candidates", id, CandidateRecord(id.source, locator))>>

\* A candidate already recorded is returned, or is a conflict when its locator or its base is
\* another one: neither writes.
Import(id, locator, original) ==
    /\ id.source \in Importable
    /\ IF Has("candidates", id) THEN Take("import", <<>>)
       ELSE /\ Cardinality(DOMAIN vault.candidates) < MaxCandidates
            /\ Take("import", ImportWrites(id, locator, original))

ImportLocal(s, locator) == Import(CandidateId("localFile", s, NoVia), locator, NoVia)

-----------------------------------------------------------------------------
Activation(c, at) == [ref |-> Ref(c.source), at |-> at, reviewed |-> c.source]
Decision(verdict, at, digest) == [verdict |-> verdict, at |-> at, reviewed |-> digest]

ActiveFirst(c, at) == \* Mutant: the activation is written first.
    <<Put("activations", c, Activation(c, at))>>
        \o InstallWrites(c.source, "approved")
        \o <<Put("decisions", c, Decision("approve", at, c.source))>>
\* The profile is installed before the approval is recorded, and active last.
ApproveWrites(c, at) ==
    InstallWrites(c.source, "approved")
        \o <<Put("decisions", c, Decision("approve", at, c.source)),
             Put("activations", c, Activation(c, at))>>

DecidesReviewed(c, digest) == c.source = digest /\ ~Has("decisions", c)

Approve(c, digest, at) ==
    /\ DecidesReviewed(c, digest)
    /\ MayInstall(c.source, "approved")
    /\ Take("decide", ApproveWrites(c, at))

Reject(c, digest, at) ==
    /\ DecidesReviewed(c, digest)
    /\ Take("decide", <<Put("decisions", c, Decision("reject", at, digest))>>)

-----------------------------------------------------------------------------
LeaveDue == <<>> \* Mutant: nothing is completed.
\* Approvals that a stop left without their activations are completed.
ActivationsDue == {c \in Approved : ~Has("activations", c)}
ReconcileWrites ==
    [i \in DOMAIN SetToSeq(ActivationsDue) |->
        LET c == SetToSeq(ActivationsDue)[i]
        IN  Put("activations", c, Activation(c, vault.decisions[c].at))]

Inspect == Take("inspect", ReconcileWrites)

\* create_classification_batch with the active profile.
StartClassify == Take("classify", ReconcileWrites)

\* A tool of an agent reads the active profile, and completes nothing.
ReadActive(evidence) ==
    /\ ~Running /\ Active # <<>>
    /\ answer' = Classify(ProfileAt(Active[1]), evidence)
    /\ UNCHANGED <<vault, op>>

-----------------------------------------------------------------------------
\* A file under a new name.
With(files, name, record) ==
    [n \in DOMAIN files \cup {name} |-> IF n = name THEN record ELSE files[n]]

WriteRecord ==
    /\ Running /\ op.writes # <<>>
    /\ LET w == Head(op.writes)
       IN  vault' = [vault EXCEPT ![w.directory] = With(@, w.name, w.record)]
    /\ op' = [op EXCEPT !.writes = Tail(@)]
    /\ UNCHANGED answer

\* A write fails, or a check after the draft does; the lock is released.
FailCommand ==
    /\ Running
    /\ op' = NoOp
    /\ UNCHANGED <<vault, answer>>

Done(evidence) ==
    /\ Running /\ op.writes = <<>>
    /\ answer' = IF op.kind = "classify" /\ Active # <<>>
                 THEN Classify(ProfileAt(Active[1]), evidence) ELSE NoAnswer
    /\ op' = NoOp
    /\ UNCHANGED vault

StoreCommand ==
    \/ \E s \in LocalFile, l \in Locator : ImportLocal(s, l)
    \/ \E c \in DOMAIN vault.candidates, s \in Source, t \in Time :
            Approve(c, s, t) \/ Reject(c, s, t)
    \/ Inspect
    \/ StartClassify

StoreStep ==
    \/ WriteRecord
    \/ FailCommand
    \/ \E evidence \in SUBSET Term : Done(evidence)

-----------------------------------------------------------------------------
\* What is active was approved by a decision on the very bytes that are installed.
ActiveIsReviewed ==
    \A c \in DOMAIN vault.activations :
        /\ c \in Approved
        /\ vault.decisions[c].reviewed = vault.activations[c].reviewed
        /\ Has("installed", vault.activations[c].ref)
        /\ ProfileAt(vault.activations[c].ref)
                = [Doc[vault.decisions[c].reviewed] EXCEPT !.status = "approved"]

\* No step changes or removes a record: not a decision, an activation, nor an installed version.
RecordsAreFinal ==
    [][\A d \in Directory : \A name \in DOMAIN vault[d] :
            name \in DOMAIN vault'[d] /\ vault'[d][name] = vault[d][name]]_svars

\* A batch is classified by the profile that was approved last, whatever was interrupted.
BatchesUseLastApproval ==
    [][op # NoOp /\ op.kind = "classify" /\ answer' # NoAnswer =>
            \E c \in Approved :
                /\ answer'.profile = Ref(c.source)
                /\ \A d \in Approved : vault.decisions[d].at <= vault.decisions[c].at]_svars
=============================================================================
