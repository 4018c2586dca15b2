------------------------- MODULE ProfileStoreProofs -------------------------
(***************************************************************************)
(* The classification profiles, proved: what the difference shown to a     *)
(* reviewer and the classification by a profile promise, for every         *)
(* profile; and, however the commands of the store are interrupted, that   *)
(* what is active was approved, that no record is changed, and that a      *)
(* batch uses the last approval.                                           *)
(*                                                                         *)
(* A command is a list of writes.  StoreInv says of the list what makes it *)
(* safe to stop anywhere in it (Planned), and of the files what a list may *)
(* count on (VaultInv).                                                    *)
(***************************************************************************)
EXTENDS ProfileSources, FiniteSetTheorems, TLAPS

-----------------------------------------------------------------------------
\* profile_diff: a reviewer who is shown no difference approves the very rules (or
\* categories) that are active, and one who is shown some approves other ones.
THEOREM DifferencesAreExact ==
    ASSUME NEW A, NEW B, NEW V, NEW old \in [A -> V], NEW new \in [B -> V]
    PROVE  Differences(old, new) = NoDifference <=> old = new
<1>1. ASSUME old = new PROVE Differences(old, new) = NoDifference
    BY <1>1 DEF Differences, NoDifference
<1>2. ASSUME Differences(old, new) = NoDifference PROVE old = new
    <2>1. /\ DOMAIN new \ DOMAIN old = {}
          /\ DOMAIN old \ DOMAIN new = {}
          /\ {k \in DOMAIN old \cap DOMAIN new : old[k] # new[k]} = {}
        BY <1>2 DEF Differences, NoDifference
    <2>2. A = B
        BY <2>1
    <2>3. \A k \in A : old[k] = new[k]
        BY <2>1, <2>2
    <2> QED
        BY <2>2, <2>3
<1> QED
    BY <1>1, <1>2

\* classify: a destination that is proposed without review is one that the taxonomy of the
\* profile declares, every rule that matched asks for it, and only an approved profile makes
\* the proposal one that may be committed.
THEOREM ProposalsFollowTheProfile ==
    ASSUME NEW profile, ValidProfile(profile), profile.schema = 2,
           NEW evidence,
           Classify(profile, evidence).reason = "none"
    PROVE  /\ Classify(profile, evidence).destination \in Paths(profile)
           /\ \A r \in Matches(profile, evidence) :
                    r.destination = Classify(profile, evidence).destination
           /\ Classify(profile, evidence).committable => profile.status = "approved"
<1> DEFINE rules == Matches(profile, evidence)
           destinations == {r.destination : r \in rules}
<1>1. Classify(profile, evidence) =
        IF destinations = {} THEN Review(profile, rules, "missingEvidence")
        ELSE IF \E d \in destinations : destinations = {d}
        THEN [Review(profile, rules, "none") EXCEPT
                !.destination = CHOOSE d \in destinations : TRUE,
                !.committable = profile.status = "approved"]
        ELSE Review(profile, rules, "conflictingRules")
    BY DEF Classify
<1>2. /\ Review(profile, rules, "missingEvidence").reason # "none"
      /\ Review(profile, rules, "conflictingRules").reason # "none"
    BY DEF Review
<1>3. PICK d \in destinations : destinations = {d}
    BY <1>1, <1>2
<1>4. Classify(profile, evidence) =
        [Review(profile, rules, "none") EXCEPT
            !.destination = CHOOSE e \in destinations : TRUE,
            !.committable = profile.status = "approved"]
    BY <1>1, <1>3
<1>5. (CHOOSE e \in destinations : TRUE) = d
    BY <1>3
<1>6. Classify(profile, evidence).destination = d
    BY <1>4, <1>5 DEF Review
<1>7. Classify(profile, evidence).committable = (profile.status = "approved")
    BY <1>4 DEF Review
<1>8. \A r \in rules : r.destination = d
    BY <1>3
<1>9. d \in Paths(profile)
    <2>1. PICK r \in rules : r.destination = d
        BY <1>3
    <2>2. r \in Elements(profile.rules)
        BY <2>1 DEF Matches
    <2>3. RuleIsPlaced(profile, r)
        BY <2>2 DEF ValidProfile
    <2> QED
        BY <2>1, <2>3 DEF RuleIsPlaced
<1> QED
    BY <1>6, <1>7, <1>8, <1>9

-----------------------------------------------------------------------------
Draft == Put("installed", Ref(Bundled), Entry(Bundled, "draft"))

\* Whatever is installed came after the draft, and so did every candidate.
DraftComesFirst ==
    \/ DOMAIN vault.installed = {} /\ DOMAIN vault.candidates = {}
    \/ IsInstalled(Bundled, "draft")

CandidatesAreImported == \A c \in DOMAIN vault.candidates : c.source \in Source

\* An approval is a decision on the file of the candidate, which is installed as approved.
ApprovalsAreInstalled ==
    \A c \in Approved :
        /\ c.source \in Source
        /\ vault.decisions[c].reviewed = c.source
        /\ vault.decisions[c].at \in Nat
        /\ IsInstalled(c.source, "approved")

\* An activation is that of an approval, with its time.
ActivationsFollowApprovals ==
    \A c \in DOMAIN vault.activations :
        c \in Approved /\ vault.activations[c] = Activation(c, vault.decisions[c].at)

\* Among the activations one is the latest.
LatestExists ==
    DOMAIN vault.activations # {} =>
        \E c \in DOMAIN vault.activations : \A d \in DOMAIN vault.activations :
            vault.activations[d].at <= vault.activations[c].at

VaultInv ==
    /\ DOMAIN vault = Directory
    /\ IsFiniteSet(DOMAIN vault.decisions)
    /\ DraftComesFirst
    /\ CandidatesAreImported
    /\ ApprovalsAreInstalled
    /\ ActivationsFollowApprovals
    /\ LatestExists

-----------------------------------------------------------------------------
\* What holds of the writes that a command still has to do.  Each is of a name that is free.
WritesAreNew(ws) ==
    \A i \in DOMAIN ws :
        /\ ws[i].directory \in Directory
        /\ ~Has(ws[i].directory, ws[i].name)
        /\ \A j \in DOMAIN ws :
                ws[j].directory = ws[i].directory /\ ws[j].name = ws[i].name => i = j

DraftIsFirst(ws) == IsInstalled(Bundled, "draft") \/ ws = <<>> \/ ws[1] = Draft

InstallsVersions(ws) ==
    \A i \in DOMAIN ws : ws[i].directory = "installed" =>
        \E s \in DOMAIN Doc, status \in {"draft", "approved"} :
            ws[i] = Put("installed", Ref(s), Entry(s, status))

ImportsCandidates(ws) ==
    \A i \in DOMAIN ws : ws[i].directory = "candidates" => ws[i].name.source \in Source

\* A decision that approves comes after the version that it approves.
ApprovesInstalled(ws) ==
    \A i \in DOMAIN ws :
        ws[i].directory = "decisions" /\ ws[i].record.verdict = "approve" =>
            LET s == ws[i].name.source
            IN  /\ s \in Source
                /\ ws[i].record.reviewed = s
                /\ ws[i].record.at \in Nat
                /\ \/ IsInstalled(s, "approved")
                   \/ \E j \in 1 .. (i - 1) :
                        ws[j] = Put("installed", Ref(s), Entry(s, "approved"))

\* An activation comes after the decision that it follows.
ActivatesApproved(ws) ==
    \A i \in DOMAIN ws : ws[i].directory = "activations" =>
        LET c == ws[i].name
        IN  \/ c \in Approved /\ ws[i].record = Activation(c, vault.decisions[c].at)
            \/ \E j \in 1 .. (i - 1) :
                    /\ ws[j].directory = "decisions" /\ ws[j].name = c
                    /\ ws[j].record.verdict = "approve"
                    /\ ws[i].record = Activation(c, ws[j].record.at)

\* A command that completes the approvals decides nothing and leaves none without its activation.
CompletesApprovals(ws) ==
    /\ \A i \in DOMAIN ws : ws[i].directory # "decisions"
    /\ \A c \in ActivationsDue : \E i \in DOMAIN ws :
            ws[i].directory = "activations" /\ ws[i].name = c

Planned(ws) ==
    /\ WritesAreNew(ws)
    /\ DraftIsFirst(ws)
    /\ InstallsVersions(ws)
    /\ ImportsCandidates(ws)
    /\ ApprovesInstalled(ws)
    /\ ActivatesApproved(ws)

CommandInv ==
    Running =>
        /\ op = [kind |-> op.kind, writes |-> op.writes]
        /\ op.writes \in Seq(Elements(op.writes))
        /\ Planned(op.writes)
        /\ op.kind = "classify" => CompletesApprovals(op.writes)
        /\ answer = NoAnswer

StoreInv == VaultInv /\ CommandInv

-----------------------------------------------------------------------------
(* The profile that is read back has the name it was installed under.        *)
LEMMA VersionsKeepTheirRef ==
    ASSUME NEW s \in DOMAIN Doc, NEW status
    PROVE  /\ <<AsInstalled(s, status).id, AsInstalled(s, status).version>> = Ref(s)
           /\ AsInstalled(s, status).status = status
  BY DocAssumption DEF AsInstalled, Ref

LEMMA ElementsOfSequence ==
    ASSUME NEW S, NEW s \in Seq(S)
    PROVE  s \in Seq(Elements(s))
  <1>1. /\ Len(s) \in Nat /\ DOMAIN s = 1 .. Len(s)
        /\ s = [i \in 1 .. Len(s) |-> s[i]]
    OBVIOUS
  <1>2. \A i \in 1 .. Len(s) : s[i] \in Elements(s)
    BY <1>1 DEF Elements
  <1> HIDE DEF Elements
  <1> QED
    BY <1>1, <1>2

LEMMA TailOfSequence ==
    ASSUME NEW S, NEW s \in Seq(S), s # <<>>
    PROVE  /\ Len(s) \in Nat /\ Len(s) > 0 /\ DOMAIN s = 1 .. Len(s)
           /\ Head(s) = s[1]
           /\ DOMAIN Tail(s) = 1 .. (Len(s) - 1)
           /\ \A i \in DOMAIN Tail(s) : Tail(s)[i] = s[i + 1]
           /\ Tail(s) \in Seq(Elements(Tail(s)))
  <1>1. /\ Len(s) \in Nat /\ Len(s) > 0 /\ DOMAIN s = 1 .. Len(s)
        /\ Head(s) = s[1]
        /\ Tail(s) \in Seq(S)
        /\ Len(Tail(s)) = Len(s) - 1
        /\ DOMAIN Tail(s) = 1 .. (Len(s) - 1)
        /\ \A i \in DOMAIN Tail(s) : Tail(s)[i] = s[i + 1]
    OBVIOUS
  <1>2. Tail(s) \in Seq(Elements(Tail(s)))
    BY <1>1, ElementsOfSequence
  <1> QED
    BY <1>1, <1>2

-----------------------------------------------------------------------------
\* The first write of the command is done, and the others are left.
Wrote(w) ==
    /\ w.directory \in Directory /\ ~Has(w.directory, w.name)
    /\ DOMAIN vault' = Directory
    /\ \A e \in Directory : e # w.directory => vault'[e] = vault[e]
    /\ DOMAIN vault'[w.directory] = DOMAIN vault[w.directory] \cup {w.name}
    /\ vault'[w.directory][w.name] = w.record
    /\ \A m \in DOMAIN vault[w.directory] : vault'[w.directory][m] = vault[w.directory][m]

LeavesTheRest(ws) ==
    /\ Len(ws) \in Nat /\ Len(ws) > 0 /\ DOMAIN ws = 1 .. Len(ws)
    /\ op' = [kind |-> op.kind, writes |-> op'.writes]
    /\ op'.writes \in Seq(Elements(op'.writes))
    /\ DOMAIN op'.writes = 1 .. (Len(ws) - 1)
    /\ \A i \in DOMAIN op'.writes : op'.writes[i] = ws[i + 1] /\ i + 1 \in DOMAIN ws /\ i + 1 # 1

(* What a write leaves: the record under its name, and everything else.      *)
LEMMA VaultAfterWrite ==
    ASSUME DOMAIN vault = Directory,
           NEW w, w.directory \in Directory, ~Has(w.directory, w.name),
           vault' = [vault EXCEPT ![w.directory] = With(@, w.name, w.record)]
    PROVE  Wrote(w)
  <1>1. /\ DOMAIN vault' = Directory
        /\ \A e \in Directory : e # w.directory => vault'[e] = vault[e]
        /\ vault'[w.directory] = With(vault[w.directory], w.name, w.record)
    OBVIOUS
  <1> QED
    BY <1>1 DEF With, Has, Wrote

LEMMA WriteStep ==
    ASSUME StoreInv, WriteRecord
    PROVE  /\ Running /\ Planned(op.writes) /\ VaultInv
           /\ Wrote(op.writes[1])
           /\ LeavesTheRest(op.writes)
           /\ answer = NoAnswer /\ answer' = answer
  <1> DEFINE ws == op.writes
             w == ws[1]
  <1>1. /\ Running /\ ws # <<>>
        /\ vault' = [vault EXCEPT ![Head(ws).directory] = With(@, Head(ws).name, Head(ws).record)]
        /\ op' = [op EXCEPT !.writes = Tail(@)]
        /\ answer' = answer
    BY DEF WriteRecord
  <1>2. /\ VaultInv /\ Planned(ws) /\ answer = NoAnswer
        /\ op = [kind |-> op.kind, writes |-> op.writes]
        /\ ws \in Seq(Elements(ws))
    BY <1>1 DEF StoreInv, CommandInv
  <1>3. /\ Len(ws) \in Nat /\ Len(ws) > 0 /\ DOMAIN ws = 1 .. Len(ws)
        /\ Head(ws) = w
        /\ DOMAIN Tail(ws) = 1 .. (Len(ws) - 1)
        /\ \A i \in DOMAIN Tail(ws) : Tail(ws)[i] = ws[i + 1]
        /\ Tail(ws) \in Seq(Elements(Tail(ws)))
    BY <1>1, <1>2, TailOfSequence
  <1>4. op' = [kind |-> op.kind, writes |-> Tail(ws)]
    BY <1>1, <1>2
  <1>5. LeavesTheRest(ws)
    <2>1. op'.writes = Tail(ws)
      BY <1>4
    <2>2. \A i \in 1 .. (Len(ws) - 1) : i + 1 \in 1 .. Len(ws) /\ i + 1 # 1
      BY <1>3
    <2> QED
      BY <1>3, <1>4, <2>1, <2>2 DEF LeavesTheRest
  <1>6. Wrote(w)
    <2>1. 1 \in DOMAIN ws
      BY <1>3
    <2>2. w.directory \in Directory /\ ~Has(w.directory, w.name)
      BY <1>2, <2>1 DEF Planned, WritesAreNew
    <2>3. DOMAIN vault = Directory
      BY <1>2 DEF VaultInv
    <2>4. vault' = [vault EXCEPT ![w.directory] = With(@, w.name, w.record)]
      BY <1>1, <1>3
    <2>5. ASSUME NEW x, x = w PROVE Wrote(x)
      <3>1. /\ x.directory \in Directory /\ ~Has(x.directory, x.name)
            /\ vault' = [vault EXCEPT ![x.directory] = With(@, x.name, x.record)]
        BY <2>2, <2>4, <2>5
      <3> QED
        BY <2>3, <3>1, VaultAfterWrite
    <2> QED
      BY <2>5
  <1> QED
    BY <1>1, <1>2, <1>5, <1>6

LEMMA WriteKeepsRecords ==
    ASSUME NEW w, Wrote(w)
    PROVE  /\ \A d \in Directory : \A n \in DOMAIN vault[d] :
                n \in DOMAIN vault'[d] /\ vault'[d][n] = vault[d][n]
           /\ \A d \in Directory : \A n \in DOMAIN vault'[d] :
                n \in DOMAIN vault[d] \/ (d = w.directory /\ n = w.name)
           /\ \A s, status : IsInstalled(s, status) => IsInstalled(s, status)'
           /\ \A c : c \in Approved => c \in Approved'
           /\ \A c \in Approved' : c \in Approved \/ (w.directory = "decisions" /\ c = w.name)
  <1>1. \A d \in Directory : \A n \in DOMAIN vault[d] :
                n \in DOMAIN vault'[d] /\ vault'[d][n] = vault[d][n]
    BY DEF Wrote
  <1>2. \A d \in Directory : \A n \in DOMAIN vault'[d] :
                n \in DOMAIN vault[d] \/ (d = w.directory /\ n = w.name)
    BY DEF Wrote
  <1>3. {"installed", "decisions"} \subseteq Directory
    BY DEF Directory
  <1>4. \A s, status : IsInstalled(s, status) => IsInstalled(s, status)'
    BY <1>1, <1>3 DEF IsInstalled, Has, ProfileAt
  <1>5. \A c : c \in Approved => c \in Approved'
    BY <1>1, <1>3 DEF Approved
  <1>6. \A c \in Approved' : c \in Approved \/ (w.directory = "decisions" /\ c = w.name)
    BY <1>1, <1>2, <1>3 DEF Approved
  <1> QED
    BY <1>1, <1>2, <1>4, <1>5, <1>6

(* The write of a version installs it.                                       *)
LEMMA InstallingInstalls ==
    ASSUME NEW s, NEW status, NEW w, w = Put("installed", Ref(s), Entry(s, status)), Wrote(w)
    PROVE  IsInstalled(s, status)'
  <1>1. /\ vault'["installed"][Ref(s)] = Entry(s, status)
        /\ Ref(s) \in DOMAIN vault'["installed"]
    BY DEF Wrote, Put
  <1>2. ProfileAt(Ref(s))' = [Doc[s] EXCEPT !.status = status]
    <2>1. /\ vault'["installed"][Ref(s)].source = s
          /\ vault'["installed"][Ref(s)].status = status
      BY <1>1 DEF Entry
    <2> QED
      BY <2>1 DEF ProfileAt
  <1>3. Has("installed", Ref(s))'
    BY <1>1 DEF Has
  <1> QED
    BY <1>2, <1>3 DEF IsInstalled, AsInstalled

-----------------------------------------------------------------------------
(* The writes that are left stay planned.                                    *)
LEMMA RestIsPlanned ==
    ASSUME VaultInv, NEW ws, Planned(ws), LeavesTheRest(ws), NEW w, w = ws[1], Wrote(w),
           NEW rest, rest = op'.writes
    PROVE  Planned(rest)'
  <1>1. \A i \in DOMAIN rest : /\ rest[i] = ws[i + 1] /\ i + 1 \in DOMAIN ws /\ i + 1 # 1
                               /\ i \in Int /\ 1 \in DOMAIN ws
    <2>1. /\ Len(ws) \in Nat /\ Len(ws) > 0 /\ DOMAIN ws = 1 .. Len(ws)
          /\ DOMAIN rest = 1 .. (Len(ws) - 1)
          /\ \A i \in DOMAIN rest : rest[i] = ws[i + 1] /\ i + 1 \in DOMAIN ws /\ i + 1 # 1
      BY DEF LeavesTheRest
    <2>2. 1 \in DOMAIN ws
      BY <2>1
    <2> QED
      BY <2>1, <2>2
  <1>2. /\ \A d \in Directory : \A n \in DOMAIN vault[d] :
                n \in DOMAIN vault'[d] /\ vault'[d][n] = vault[d][n]
        /\ \A d \in Directory : \A n \in DOMAIN vault'[d] :
                n \in DOMAIN vault[d] \/ (d = w.directory /\ n = w.name)
        /\ \A s, status : IsInstalled(s, status) => IsInstalled(s, status)'
        /\ \A c : c \in Approved => c \in Approved'
    BY WriteKeepsRecords
  <1>3. WritesAreNew(rest)'
    <2> SUFFICES ASSUME NEW i \in DOMAIN rest
                 PROVE  /\ rest[i].directory \in Directory
                        /\ ~Has(rest[i].directory, rest[i].name)'
                        /\ \A j \in DOMAIN rest :
                             rest[j].directory = rest[i].directory /\ rest[j].name = rest[i].name
                                => i = j
      BY DEF WritesAreNew
    <2>1. /\ rest[i].directory \in Directory /\ ~Has(rest[i].directory, rest[i].name)
          /\ ~(rest[i].directory = w.directory /\ rest[i].name = w.name)
      BY <1>1 DEF Planned, WritesAreNew
    <2>2. ~Has(rest[i].directory, rest[i].name)'
      BY <1>2, <2>1 DEF Has
    <2>3. ASSUME NEW j \in DOMAIN rest,
                 rest[j].directory = rest[i].directory, rest[j].name = rest[i].name
          PROVE  i = j
      <3>1. i + 1 = j + 1
        BY <1>1, <2>3 DEF Planned, WritesAreNew
      <3> QED
        BY <1>1, <3>1
    <2> QED
      BY <2>1, <2>2, <2>3
  <1>4. DraftIsFirst(rest)'
    <2>1. CASE IsInstalled(Bundled, "draft")
      BY <1>2, <2>1 DEF DraftIsFirst
    <2>2. CASE ws[1] = Draft
      <3>1. w = Put("installed", Ref(Bundled), Entry(Bundled, "draft"))
        BY <2>2 DEF Draft
      <3>3. IsInstalled(Bundled, "draft")'
        BY <3>1, InstallingInstalls
      <3> QED
        BY <3>3 DEF DraftIsFirst
    <2>3. ws # <<>>
      BY <1>1 DEF LeavesTheRest
    <2> QED
      BY <2>1, <2>2, <2>3 DEF Planned, DraftIsFirst
  <1>5. InstallsVersions(rest)'
    BY <1>1 DEF Planned, InstallsVersions
  <1>6. ImportsCandidates(rest)'
    BY <1>1 DEF Planned, ImportsCandidates
  <1>7. ApprovesInstalled(rest)'
    <2> SUFFICES ASSUME NEW i \in DOMAIN rest,
                        rest[i].directory = "decisions", rest[i].record.verdict = "approve",
                        NEW s, s = rest[i].name.source
                 PROVE  /\ s \in Source
                        /\ rest[i].record.reviewed = s
                        /\ rest[i].record.at \in Nat
                        /\ \/ IsInstalled(s, "approved")'
                           \/ \E j \in 1 .. (i - 1) :
                                rest[j] = Put("installed", Ref(s), Entry(s, "approved"))
      BY DEF ApprovesInstalled
    <2>1. /\ s \in Source /\ rest[i].record.reviewed = s /\ rest[i].record.at \in Nat
          /\ \/ IsInstalled(s, "approved")
             \/ \E j \in 1 .. i : ws[j] = Put("installed", Ref(s), Entry(s, "approved"))
      BY <1>1 DEF Planned, ApprovesInstalled
    <2>2. ASSUME NEW j \in 1 .. i, ws[j] = Put("installed", Ref(s), Entry(s, "approved"))
          PROVE  \/ IsInstalled(s, "approved")'
                 \/ \E k \in 1 .. (i - 1) :
                        rest[k] = Put("installed", Ref(s), Entry(s, "approved"))
      <3>1. CASE j = 1
        <4>1. w = Put("installed", Ref(s), Entry(s, "approved"))
          BY <2>2, <3>1
        <4>3. IsInstalled(s, "approved")'
          BY <4>1, InstallingInstalls
        <4> QED
          BY <4>3
      <3>2. CASE j # 1
        <4>1. j - 1 \in 1 .. (i - 1) /\ j - 1 \in DOMAIN rest /\ (j - 1) + 1 = j
          BY <1>1, <3>2 DEF LeavesTheRest
        <4>2. rest[j - 1] = ws[j]
          BY <1>1, <4>1
        <4> QED
          BY <2>2, <4>1, <4>2
      <3> QED
        BY <3>1, <3>2
    <2> QED
      BY <1>2, <2>1, <2>2
  <1>8. ActivatesApproved(rest)'
    <2> SUFFICES ASSUME NEW i \in DOMAIN rest, rest[i].directory = "activations",
                        NEW c, c = rest[i].name
                 PROVE  \/ c \in Approved' /\ rest[i].record = Activation(c, vault'.decisions[c].at)
                        \/ \E j \in 1 .. (i - 1) :
                                /\ rest[j].directory = "decisions" /\ rest[j].name = c
                                /\ rest[j].record.verdict = "approve"
                                /\ rest[i].record = Activation(c, rest[j].record.at)
      BY DEF ActivatesApproved
    <2>1. \/ c \in Approved /\ rest[i].record = Activation(c, vault.decisions[c].at)
          \/ \E j \in 1 .. i :
                /\ ws[j].directory = "decisions" /\ ws[j].name = c
                /\ ws[j].record.verdict = "approve"
                /\ rest[i].record = Activation(c, ws[j].record.at)
      BY <1>1 DEF Planned, ActivatesApproved
    <2>2. "decisions" \in Directory
      BY DEF Directory
    <2>3. CASE c \in Approved /\ rest[i].record = Activation(c, vault.decisions[c].at)
      <3>1. vault'.decisions[c] = vault.decisions[c]
        BY <1>2, <2>2, <2>3 DEF Approved
      <3> QED
        BY <1>2, <2>3, <3>1
    <2>4. ASSUME NEW j \in 1 .. i, ws[j].directory = "decisions", ws[j].name = c,
                 ws[j].record.verdict = "approve",
                 rest[i].record = Activation(c, ws[j].record.at)
          PROVE  \/ c \in Approved' /\ rest[i].record = Activation(c, vault'.decisions[c].at)
                 \/ \E k \in 1 .. (i - 1) :
                        /\ rest[k].directory = "decisions" /\ rest[k].name = c
                        /\ rest[k].record.verdict = "approve"
                        /\ rest[i].record = Activation(c, rest[k].record.at)
      <3>1. CASE j = 1
        <4>1. w.directory = "decisions" /\ w.name = c /\ w = ws[j]
          BY <2>4, <3>1
        <4>2. c \in DOMAIN vault'["decisions"] /\ vault'["decisions"][c] = ws[j].record
          BY <4>1 DEF Wrote
        <4> QED
          BY <2>4, <4>2 DEF Approved
      <3>2. CASE j # 1
        <4>1. j - 1 \in 1 .. (i - 1) /\ j - 1 \in DOMAIN rest /\ (j - 1) + 1 = j
          BY <1>1, <3>2 DEF LeavesTheRest
        <4>2. rest[j - 1] = ws[j]
          BY <1>1, <4>1
        <4> QED
          BY <2>4, <4>1, <4>2
      <3> QED
        BY <3>1, <3>2
    <2> QED
      BY <2>1, <2>3, <2>4
  <1> QED
    BY <1>3, <1>4, <1>5, <1>6, <1>7, <1>8 DEF Planned

(* A write leaves the files as the lists may count on them.                  *)
LEMMA WriteKeepsVault ==
    ASSUME VaultInv, NEW ws, Planned(ws), LeavesTheRest(ws), NEW w, w = ws[1], Wrote(w)
    PROVE  VaultInv'
  <1>1. /\ \A d \in Directory : \A n \in DOMAIN vault[d] :
                n \in DOMAIN vault'[d] /\ vault'[d][n] = vault[d][n]
        /\ \A d \in Directory : \A n \in DOMAIN vault'[d] :
                n \in DOMAIN vault[d] \/ (d = w.directory /\ n = w.name)
        /\ \A s, status : IsInstalled(s, status) => IsInstalled(s, status)'
        /\ \A c : c \in Approved => c \in Approved'
        /\ \A c \in Approved' : c \in Approved \/ (w.directory = "decisions" /\ c = w.name)
    BY WriteKeepsRecords
  <1>2. {"installed", "candidates", "decisions", "activations"} \subseteq Directory
    BY DEF Directory
  <1>3. 1 \in DOMAIN ws /\ 1 .. (1 - 1) = {} /\ ws # <<>>
    BY DEF LeavesTheRest
  <1>4. DOMAIN vault' = Directory
    BY DEF Wrote
  <1>5. IsFiniteSet(DOMAIN vault'.decisions)
    <2>1. CASE w.directory = "decisions"
      <3>1. DOMAIN vault'["decisions"] = DOMAIN vault["decisions"] \cup {w.name}
        BY <2>1 DEF Wrote
      <3> QED
        BY <3>1, FS_AddElement DEF VaultInv
    <2>2. CASE w.directory # "decisions"
      <3>1. vault'["decisions"] = vault["decisions"]
        BY <1>2, <2>2 DEF Wrote
      <3> QED
        BY <3>1 DEF VaultInv
    <2> QED
      BY <2>1, <2>2
  <1>6. DraftComesFirst'
    <2>1. CASE IsInstalled(Bundled, "draft")
      BY <1>1, <2>1 DEF DraftComesFirst
    <2>2. CASE ws[1] = Draft
      <3>1. IsInstalled(Bundled, "draft")'
        BY <2>2, InstallingInstalls DEF Draft
      <3> QED
        BY <3>1 DEF DraftComesFirst
    <2> QED
      BY <1>3, <2>1, <2>2 DEF Planned, DraftIsFirst
  <1>7. CandidatesAreImported'
    <2> SUFFICES ASSUME NEW c \in DOMAIN vault'.candidates PROVE c.source \in Source
      BY DEF CandidatesAreImported
    <2>1. c \in DOMAIN vault.candidates \/ (w.directory = "candidates" /\ c = w.name)
      BY <1>1, <1>2
    <2> QED
      BY <1>3, <2>1 DEF VaultInv, CandidatesAreImported, Planned, ImportsCandidates
  <1>8. ApprovalsAreInstalled'
    <2> SUFFICES ASSUME NEW c \in Approved'
                 PROVE  /\ c.source \in Source
                        /\ vault'.decisions[c].reviewed = c.source
                        /\ vault'.decisions[c].at \in Nat
                        /\ IsInstalled(c.source, "approved")'
      BY DEF ApprovalsAreInstalled
    <2>1. CASE c \in Approved
      <3>1. vault'.decisions[c] = vault.decisions[c]
        BY <1>1, <1>2, <2>1 DEF Approved
      <3> QED
        BY <1>1, <2>1, <3>1 DEF VaultInv, ApprovalsAreInstalled
    <2>2. CASE w.directory = "decisions" /\ c = w.name
      <3>1. vault'.decisions[c] = w.record /\ w.record.verdict = "approve"
        BY <2>2 DEF Wrote, Approved
      <3>2. /\ c.source \in Source /\ w.record.reviewed = c.source /\ w.record.at \in Nat
            /\ IsInstalled(c.source, "approved")
        BY <1>3, <2>2, <3>1 DEF Planned, ApprovesInstalled
      <3> QED
        BY <1>1, <3>1, <3>2
    <2> QED
      BY <1>1, <2>1, <2>2
  <1>9. ActivationsFollowApprovals'
    <2> SUFFICES ASSUME NEW c \in DOMAIN vault'.activations
                 PROVE  c \in Approved'
                        /\ vault'.activations[c] = Activation(c, vault'.decisions[c].at)
      BY DEF ActivationsFollowApprovals
    <2>1. /\ c \in Approved
          /\ vault'.activations[c] = Activation(c, vault.decisions[c].at)
      <3>1. CASE c \in DOMAIN vault.activations
        <4>1. vault'.activations[c] = vault.activations[c]
          BY <1>1, <1>2, <3>1
        <4> QED
          BY <3>1, <4>1 DEF VaultInv, ActivationsFollowApprovals
      <3>2. CASE w.directory = "activations" /\ c = w.name
        <4>1. vault'.activations[c] = w.record
          BY <3>2 DEF Wrote
        <4> QED
          BY <1>3, <3>2, <4>1 DEF Planned, ActivatesApproved
      <3> QED
        BY <1>1, <1>2, <3>1, <3>2
    <2>2. vault'.decisions[c] = vault.decisions[c]
      BY <1>1, <1>2, <2>1 DEF Approved
    <2> QED
      BY <1>1, <2>1, <2>2
  <1>10. LatestExists'
    <2>1. CASE w.directory # "activations"
      <3>1. vault'["activations"] = vault["activations"]
        BY <1>2, <2>1 DEF Wrote
      <3> QED
        BY <3>1 DEF VaultInv, LatestExists
    <2>2. CASE w.directory = "activations"
      <3>1. \A c \in DOMAIN vault'.activations : vault'.activations[c].at \in Nat
        <4> TAKE c \in DOMAIN vault'.activations
        <4>1. c \in Approved' /\ vault'.activations[c] = Activation(c, vault'.decisions[c].at)
          BY <1>9 DEF ActivationsFollowApprovals
        <4> QED
          BY <1>8, <4>1 DEF ApprovalsAreInstalled, Activation
      <3>2. /\ DOMAIN vault'.activations = DOMAIN vault.activations \cup {w.name}
            /\ \A c \in DOMAIN vault.activations : vault'.activations[c] = vault.activations[c]
        BY <2>2 DEF Wrote
      <3>3. CASE DOMAIN vault.activations = {}
        BY <3>1, <3>2, <3>3 DEF LatestExists
      <3>4. CASE DOMAIN vault.activations # {}
        <4>1. PICK c \in DOMAIN vault.activations : \A d \in DOMAIN vault.activations :
                    vault'.activations[d].at <= vault'.activations[c].at
          BY <3>2, <3>4 DEF VaultInv, LatestExists
        <4>2. c \in DOMAIN vault'.activations /\ w.name \in DOMAIN vault'.activations
          BY <3>2
        <4>3. CASE vault'.activations[w.name].at <= vault'.activations[c].at
          BY <3>2, <4>1, <4>2, <4>3 DEF LatestExists
        <4>4. CASE vault'.activations[c].at <= vault'.activations[w.name].at
          <5>1. \A d \in DOMAIN vault'.activations :
                    vault'.activations[d].at <= vault'.activations[w.name].at
            BY <3>1, <3>2, <4>1, <4>2, <4>4
          <5> QED
            BY <4>2, <5>1 DEF LatestExists
        <4> QED
          BY <3>1, <4>2, <4>3, <4>4
      <3> QED
        BY <3>3, <3>4
    <2> QED
      BY <2>1, <2>2
  <1> QED
    BY <1>4, <1>5, <1>6, <1>7, <1>8, <1>9, <1>10 DEF VaultInv

LEMMA WriteKeepsCompletion ==
    ASSUME VaultInv, NEW ws, CompletesApprovals(ws), LeavesTheRest(ws),
           NEW w, w = ws[1], Wrote(w), NEW rest, rest = op'.writes
    PROVE  CompletesApprovals(rest)'
  <1>1. /\ 1 \in DOMAIN ws
        /\ \A i \in DOMAIN rest : rest[i] = ws[i + 1] /\ i + 1 \in DOMAIN ws
        /\ \A i \in DOMAIN ws : i # 1 => i - 1 \in DOMAIN rest /\ rest[i - 1] = ws[i]
    <2>1. /\ Len(ws) \in Nat /\ Len(ws) > 0 /\ DOMAIN ws = 1 .. Len(ws)
          /\ DOMAIN rest = 1 .. (Len(ws) - 1)
          /\ \A i \in DOMAIN rest : rest[i] = ws[i + 1] /\ i + 1 \in DOMAIN ws
      BY DEF LeavesTheRest
    <2>2. \A i \in DOMAIN ws : i # 1 => i - 1 \in DOMAIN rest /\ (i - 1) + 1 = i
      BY <2>1
    <2>3. 1 \in DOMAIN ws
      BY <2>1
    <2> QED
      BY <2>1, <2>2, <2>3
  <1>2. w.directory # "decisions"
    BY <1>1 DEF CompletesApprovals
  <1>3. {"decisions", "activations"} \subseteq Directory
    BY DEF Directory
  <1>4. Approved' = Approved
    BY <1>2, <1>3 DEF Wrote, Approved
  <1>5. \A c \in ActivationsDue' :
            c \in ActivationsDue /\ ~(w.directory = "activations" /\ w.name = c)
    BY <1>3, <1>4 DEF Wrote, ActivationsDue, Has
  <1> QED
    BY <1>1, <1>5 DEF CompletesApprovals

LEMMA WriteKeepsInv == StoreInv /\ WriteRecord => StoreInv'
  <1> SUFFICES ASSUME StoreInv, WriteRecord PROVE StoreInv'
    OBVIOUS
  <1>1. PICK ws : ws = op.writes
    OBVIOUS
  <1>2. PICK w : w = ws[1]
    OBVIOUS
  <1>3. PICK rest : rest = op'.writes
    OBVIOUS
  <1>4. /\ Running /\ Planned(ws) /\ VaultInv /\ Wrote(w) /\ LeavesTheRest(ws)
        /\ answer = NoAnswer /\ answer' = answer
    BY <1>1, <1>2, WriteStep
  <1>5. VaultInv' /\ Planned(rest)'
    BY <1>2, <1>3, <1>4, WriteKeepsVault, RestIsPlanned
  <1>6. op' = [kind |-> op.kind, writes |-> op'.writes] /\ op'.writes \in Seq(Elements(op'.writes))
    BY <1>4 DEF LeavesTheRest
  <1>7. op.kind = "classify" => CompletesApprovals(rest)'
    BY <1>1, <1>2, <1>3, <1>4, WriteKeepsCompletion DEF StoreInv, CommandInv
  <1>8. op' = [kind |-> op'.kind, writes |-> op'.writes] /\ op'.kind = op.kind
    BY <1>6
  <1> QED
    BY <1>3, <1>4, <1>5, <1>6, <1>7, <1>8 DEF StoreInv, CommandInv

-----------------------------------------------------------------------------
(* What is said of the files and of a list depends on the files alone.      *)
LEMMA SameFiles ==
    ASSUME vault' = vault, NEW ws
    PROVE  /\ VaultInv => VaultInv'
           /\ Planned(ws) => Planned(ws)'
           /\ CompletesApprovals(ws) => CompletesApprovals(ws)'
  <1>0. VaultInv => VaultInv'
    BY DEF VaultInv, DraftComesFirst, CandidatesAreImported, ApprovalsAreInstalled,
           ActivationsFollowApprovals, LatestExists, IsInstalled, Has, ProfileAt, Approved
  <1>1. /\ WritesAreNew(ws) => WritesAreNew(ws)'
        /\ DraftIsFirst(ws) => DraftIsFirst(ws)'
        /\ InstallsVersions(ws) => InstallsVersions(ws)'
        /\ ImportsCandidates(ws) => ImportsCandidates(ws)'
    BY DEF WritesAreNew, DraftIsFirst, InstallsVersions, ImportsCandidates, IsInstalled, Has,
           ProfileAt
  <1>2. ApprovesInstalled(ws) => ApprovesInstalled(ws)'
    BY DEF ApprovesInstalled, IsInstalled, Has, ProfileAt
  <1>3. ActivatesApproved(ws) => ActivatesApproved(ws)'
    BY DEF ActivatesApproved, Approved
  <1>4. CompletesApprovals(ws) => CompletesApprovals(ws)'
    BY DEF CompletesApprovals, ActivationsDue, Approved, Has
  <1> QED
    BY <1>0, <1>1, <1>2, <1>3, <1>4 DEF Planned

(* The lock is given up, and nothing is written.                             *)
LEMMA ReleaseKeepsInv == StoreInv /\ op' = NoOp /\ vault' = vault => StoreInv'
  <1> SUFFICES ASSUME StoreInv, op' = NoOp, vault' = vault PROVE StoreInv'
    OBVIOUS
  <1>1. VaultInv'
    BY SameFiles DEF StoreInv
  <1> QED
    BY <1>1 DEF StoreInv, CommandInv, Running

LEMMA StutterKeepsInv == StoreInv /\ UNCHANGED svars => StoreInv'
  <1> SUFFICES ASSUME StoreInv, op' = op, vault' = vault, answer' = answer PROVE StoreInv'
    BY DEF svars
  <1>1. PICK ws : ws = op.writes
    OBVIOUS
  <1> QED
    BY <1>1, SameFiles DEF StoreInv, CommandInv, Running

\* What a command must know of its own writes when it takes the lock.
Sound(ws) ==
    /\ ws \in Seq(Elements(ws))
    /\ WritesAreNew(ws)
    /\ InstallsVersions(ws)
    /\ ImportsCandidates(ws)
    /\ ApprovesInstalled(ws)
    /\ ActivatesApproved(ws)
    /\ IsInstalled(Bundled, "draft") \/ \A i \in DOMAIN ws : ws[i].directory # "installed"

LEMMA PrependOne ==
    ASSUME NEW x, NEW S, NEW s \in Seq(S)
    PROVE  /\ <<x>> \o s \in Seq(Elements(<<x>> \o s))
           /\ DOMAIN (<<x>> \o s) = 1 .. (Len(s) + 1)
           /\ Len(s) \in Nat /\ DOMAIN s = 1 .. Len(s)
           /\ (<<x>> \o s)[1] = x
           /\ \A i \in DOMAIN s : (<<x>> \o s)[i + 1] = s[i] /\ i + 1 \in DOMAIN (<<x>> \o s)
           /\ \A i \in DOMAIN (<<x>> \o s) : i # 1 =>
                    i - 1 \in DOMAIN s /\ (<<x>> \o s)[i] = s[i - 1]
  <1>1. /\ s \in Seq(S \cup {x}) /\ <<x>> \in Seq(S \cup {x})
        /\ Len(s) \in Nat /\ DOMAIN s = 1 .. Len(s)
    OBVIOUS
  <1>2. /\ <<x>> \o s \in Seq(S \cup {x})
        /\ Len(<<x>> \o s) = Len(s) + 1
        /\ \A i \in 1 .. (Len(s) + 1) : (<<x>> \o s)[i] = IF i <= 1 THEN <<x>>[i] ELSE s[i - 1]
    BY <1>1
  <1>3. <<x>> \o s \in Seq(Elements(<<x>> \o s))
    BY <1>2, ElementsOfSequence
  <1>4. DOMAIN (<<x>> \o s) = 1 .. (Len(s) + 1)
    BY <1>2
  <1>5. (<<x>> \o s)[1] = x
    BY <1>1, <1>2
  <1>6. \A i \in DOMAIN s : (<<x>> \o s)[i + 1] = s[i] /\ i + 1 \in DOMAIN (<<x>> \o s)
    <2> TAKE i \in DOMAIN s
    <2>1. i \in Nat /\ i + 1 \in 1 .. (Len(s) + 1) /\ ~(i + 1 <= 1) /\ (i + 1) - 1 = i
      BY <1>1
    <2> QED
      BY <1>2, <1>4, <2>1
  <1>7. \A i \in DOMAIN (<<x>> \o s) : i # 1 => i - 1 \in DOMAIN s /\ (<<x>> \o s)[i] = s[i - 1]
    BY <1>1, <1>2, <1>4
  <1> QED
    BY <1>1, <1>3, <1>4, <1>5, <1>6, <1>7

(* The draft is written before whatever the command writes.                  *)
LEMMA DraftGoesFirst ==
    ASSUME VaultInv, NEW ws, Sound(ws)
    PROVE  /\ Planned(DraftWrites \o ws)
           /\ DraftWrites \o ws \in Seq(Elements(DraftWrites \o ws))
           /\ CompletesApprovals(ws) => CompletesApprovals(DraftWrites \o ws)
  <1>1. CASE IsInstalled(Bundled, "draft")
    <2>1. DraftWrites \o ws = ws
      BY <1>1 DEF DraftWrites, InstallWrites, Sound
    <2> QED
      BY <1>1, <2>1 DEF Sound, Planned, DraftIsFirst
  <1>2. CASE ~IsInstalled(Bundled, "draft")
    <2> DEFINE all == <<Draft>> \o ws
    <2>1. DraftWrites \o ws = all
      BY <1>2 DEF DraftWrites, InstallWrites, Draft
    <2>2. /\ all \in Seq(Elements(all))
          /\ all[1] = Draft /\ 1 \in DOMAIN all
          /\ Len(ws) \in Nat /\ DOMAIN ws = 1 .. Len(ws)
          /\ DOMAIN all = 1 .. (Len(ws) + 1)
          /\ \A i \in DOMAIN all : i # 1 => i - 1 \in DOMAIN ws /\ all[i] = ws[i - 1]
          /\ \A i \in DOMAIN ws : i + 1 \in DOMAIN all /\ all[i + 1] = ws[i]
      BY PrependOne DEF Sound
    <2>3. /\ Draft.directory = "installed" /\ Draft.name = Ref(Bundled)
          /\ Draft = Put("installed", Ref(Bundled), Entry(Bundled, "draft"))
      BY DEF Draft, Put
    <2>4. \A i \in DOMAIN ws : ws[i].directory # "installed"
      BY <1>2 DEF Sound
    <2>5. ~Has("installed", Ref(Bundled))
      BY <1>2 DEF VaultInv, DraftComesFirst, Has
    <2> HIDE DEF all
    <2>6. WritesAreNew(all)
      <3> SUFFICES ASSUME NEW i \in DOMAIN all
                   PROVE  /\ all[i].directory \in Directory
                          /\ ~Has(all[i].directory, all[i].name)
                          /\ \A j \in DOMAIN all :
                                all[j].directory = all[i].directory /\ all[j].name = all[i].name
                                    => i = j
        BY DEF WritesAreNew
      <3>1. CASE i = 1
        BY <2>2, <2>3, <2>4, <2>5, <3>1 DEF Directory
      <3>2. CASE i # 1
        <4>1. i - 1 \in DOMAIN ws /\ all[i] = ws[i - 1]
          BY <2>2, <3>2
        <4>2. ASSUME NEW j \in DOMAIN all,
                     all[j].directory = all[i].directory, all[j].name = all[i].name
              PROVE  i = j
          <5>1. j # 1
            BY <2>2, <2>3, <2>4, <4>1, <4>2
          <5>2. j - 1 \in DOMAIN ws /\ all[j] = ws[j - 1]
            BY <2>2, <5>1
          <5>3. i - 1 = j - 1
            BY <4>1, <4>2, <5>2 DEF Sound, WritesAreNew
          <5> QED
            BY <2>2, <5>3
        <4> QED
          BY <4>1, <4>2 DEF Sound, WritesAreNew
      <3> QED
        BY <3>1, <3>2
    <2>7. DraftIsFirst(all)
      BY <2>2 DEF DraftIsFirst
    <2>8. InstallsVersions(all)
      <3>1. Bundled \in DOMAIN Doc
        BY DocAssumption
      <3> QED
        BY <2>2, <2>3, <2>4, <3>1 DEF InstallsVersions
    <2>9. ImportsCandidates(all)
      BY <2>2, <2>3 DEF Sound, ImportsCandidates
    <2>10. ApprovesInstalled(all)
      <3> SUFFICES ASSUME NEW i \in DOMAIN all,
                          all[i].directory = "decisions", all[i].record.verdict = "approve",
                          NEW s, s = all[i].name.source
                   PROVE  /\ s \in Source /\ all[i].record.reviewed = s /\ all[i].record.at \in Nat
                          /\ \/ IsInstalled(s, "approved")
                             \/ \E j \in 1 .. (i - 1) :
                                    all[j] = Put("installed", Ref(s), Entry(s, "approved"))
        BY DEF ApprovesInstalled
      <3>1. i # 1 /\ i \in Nat /\ i - 1 \in DOMAIN ws /\ all[i] = ws[i - 1]
        BY <2>2, <2>3
      <3>2. ASSUME NEW j \in 1 .. (i - 1 - 1), ws[j] = Put("installed", Ref(s), Entry(s, "approved"))
            PROVE  FALSE
        <4>1. j \in DOMAIN ws
          BY <2>2, <3>1, <3>2
        <4> QED
          BY <2>4, <3>2, <4>1 DEF Put
      <3> QED
        BY <3>1, <3>2 DEF Sound, ApprovesInstalled
    <2>11. ActivatesApproved(all)
      <3> SUFFICES ASSUME NEW i \in DOMAIN all, all[i].directory = "activations",
                          NEW c, c = all[i].name
                   PROVE  \/ c \in Approved /\ all[i].record = Activation(c, vault.decisions[c].at)
                          \/ \E j \in 1 .. (i - 1) :
                                /\ all[j].directory = "decisions" /\ all[j].name = c
                                /\ all[j].record.verdict = "approve"
                                /\ all[i].record = Activation(c, all[j].record.at)
        BY DEF ActivatesApproved
      <3>1. i # 1 /\ i \in Nat /\ i - 1 \in DOMAIN ws /\ all[i] = ws[i - 1]
        BY <2>2, <2>3
      <3>2. ASSUME NEW j \in 1 .. (i - 1 - 1)
            PROVE  j + 1 \in 1 .. (i - 1) /\ all[j + 1] = ws[j]
        <4>1. DOMAIN ws = 1 .. Len(ws) /\ Len(ws) \in Nat
          BY DEF Sound
        <4>2. j \in DOMAIN ws
          BY <3>1, <3>2, <4>1
        <4> QED
          BY <2>2, <3>1, <4>2
      <3>3. \/ c \in Approved /\ ws[i - 1].record = Activation(c, vault.decisions[c].at)
            \/ \E j \in 1 .. (i - 1 - 1) :
                  /\ ws[j].directory = "decisions" /\ ws[j].name = c
                  /\ ws[j].record.verdict = "approve"
                  /\ ws[i - 1].record = Activation(c, ws[j].record.at)
        BY <3>1 DEF Sound, ActivatesApproved
      <3> QED
        BY <3>1, <3>2, <3>3
    <2>12. CompletesApprovals(ws) => CompletesApprovals(all)
      BY <2>2, <2>3 DEF CompletesApprovals
    <2> QED
      BY <2>1, <2>2, <2>6, <2>7, <2>8, <2>9, <2>10, <2>11, <2>12 DEF Planned
  <1> QED
    BY <1>1, <1>2

(* A command that takes the lock knows its writes.                           *)
LEMMA TakeKeepsInv ==
    ASSUME StoreInv, NEW kind, NEW ws, Take(kind, ws), Sound(ws),
           kind = "classify" => CompletesApprovals(ws)
    PROVE  StoreInv'
  <1> DEFINE all == DraftWrites \o ws
  <1>1. /\ op' = [kind |-> kind, writes |-> all]
        /\ answer' = NoAnswer /\ vault' = vault
    BY DEF Take
  <1>2. /\ Planned(all) /\ all \in Seq(Elements(all))
        /\ CompletesApprovals(ws) => CompletesApprovals(all)
    BY DraftGoesFirst DEF StoreInv
  <1> HIDE DEF all
  <1>3. PICK a : a = all
    OBVIOUS
  <1>4. VaultInv' /\ Planned(a)' /\ (kind = "classify" => CompletesApprovals(a)')
    BY <1>1, <1>2, <1>3, SameFiles DEF StoreInv
  <1>7. op'.writes = a /\ op'.kind = kind /\ op' = [kind |-> op'.kind, writes |-> op'.writes]
    BY <1>1, <1>3
  <1> QED
    BY <1>1, <1>2, <1>3, <1>4, <1>7 DEF StoreInv, CommandInv

LEMMA NoWritesAreSound == VaultInv => Sound(<<>>)
  BY DEF Sound, WritesAreNew, InstallsVersions, ImportsCandidates, ApprovesInstalled,
         ActivatesApproved, Elements

\* Writes of an import: of different directories, each under a free name, none of an approval.
LEMMA ImportsAreSound ==
    ASSUME NEW ws, ws \in Seq(Elements(ws)),
           \A i \in DOMAIN ws :
                /\ ws[i].directory \in {"sources", "compilerSources", "candidates"}
                /\ ~Has(ws[i].directory, ws[i].name)
                /\ ws[i].directory = "candidates" => ws[i].name.source \in Source,
           \A i, j \in DOMAIN ws : ws[i].directory = ws[j].directory => i = j
    PROVE  Sound(ws)
  <1>1. WritesAreNew(ws)
    BY DEF WritesAreNew, Directory
  <1> QED
    BY <1>1 DEF Sound, InstallsVersions, ImportsCandidates, ApprovesInstalled, ActivatesApproved

LEMMA TwoLists ==
    ASSUME NEW x, NEW y
    PROVE  <<x>> \o <<y>> = <<x, y>>
  <1> DEFINE s == <<x>> \o <<y>>
  <1>1. /\ s \in Seq({x, y}) /\ Len(s) = 2
        /\ s[1] = x /\ s[2] = y
    OBVIOUS
  <1> HIDE DEF s
  <1>2. s = [i \in 1 .. 2 |-> s[i]]
    BY <1>1
  <1>3. <<x, y>> = [i \in 1 .. 2 |-> <<x, y>>[i]]
    OBVIOUS
  <1>4. \A i \in 1 .. 2 : s[i] = <<x, y>>[i]
    BY <1>1
  <1> QED
    BY <1>2, <1>3, <1>4 DEF s

LEMMA ThreeLists ==
    ASSUME NEW x, NEW y, NEW z
    PROVE  <<x, y>> \o <<z>> = <<x, y, z>>
  <1> DEFINE s == <<x, y>> \o <<z>>
  <1>1. /\ s \in Seq({x, y, z}) /\ Len(s) = 3
        /\ s[1] = x /\ s[2] = y /\ s[3] = z
    OBVIOUS
  <1> HIDE DEF s
  <1>2. s = [i \in 1 .. 3 |-> s[i]]
    BY <1>1
  <1>3. <<x, y, z>> = [i \in 1 .. 3 |-> <<x, y, z>>[i]]
    OBVIOUS
  <1>4. \A i \in 1 .. 3 : s[i] = <<x, y, z>>[i]
    <2>1. \A i \in 1 .. 3 : i = 1 \/ i = 2 \/ i = 3
      OBVIOUS
    <2> QED
      BY <1>1, <2>1
  <1> QED
    BY <1>2, <1>3, <1>4 DEF s

LEMMA ShortLists ==
    ASSUME NEW x, NEW y, NEW z
    PROVE  /\ (<<>> \o <<>>) \o <<z>> = <<z>>
           /\ (<<x>> \o <<>>) \o <<z>> = <<x, z>>
           /\ (<<>> \o <<y>>) \o <<z>> = <<y, z>>
           /\ (<<x>> \o <<y>>) \o <<z>> = <<x, y, z>>
  <1>1. \A t \in Seq({x, y, z}) : <<>> \o t = t /\ t \o <<>> = t
    OBVIOUS
  <1>2. /\ <<>> \in Seq({x, y, z}) /\ <<x>> \in Seq({x, y, z}) /\ <<y>> \in Seq({x, y, z})
        /\ <<z>> \in Seq({x, y, z})
    OBVIOUS
  <1>3. <<>> \o <<>> = <<>> /\ <<x>> \o <<>> = <<x>> /\ <<>> \o <<y>> = <<y>>
        /\ <<>> \o <<z>> = <<z>>
    BY <1>1, <1>2
  <1>4. <<x>> \o <<z>> = <<x, z>> /\ <<y>> \o <<z>> = <<y, z>> /\ <<x>> \o <<y>> = <<x, y>>
    BY TwoLists
  <1>5. <<x, y>> \o <<z>> = <<x, y, z>>
    BY ThreeLists
  <1>6. (<<>> \o <<>>) \o <<z>> = <<z>> /\ (<<x>> \o <<>>) \o <<z>> = <<x, z>>
    BY <1>3, <1>4
  <1>7. (<<>> \o <<y>>) \o <<z>> = <<y, z>> /\ (<<x>> \o <<y>>) \o <<z>> = <<x, y, z>>
    BY <1>3, <1>4, <1>5
  <1> QED
    BY <1>6, <1>7

LEMMA ImportKeepsInv ==
    ASSUME StoreInv, NEW id, NEW locator, NEW original, Import(id, locator, original)
    PROVE  StoreInv'
  <1>1. CASE Has("candidates", id)
    BY <1>1, NoWritesAreSound, TakeKeepsInv DEF Import, StoreInv
  <1>2. CASE ~Has("candidates", id)
    <2> DEFINE ws == ImportWrites(id, locator, original)
               s == Put("sources", id.source, id.source)
               o == Put("compilerSources", original, original)
               c == Put("candidates", id, CandidateRecord(id.source, locator))
    <2>1. id.source \in Source /\ Take("import", ws)
      BY <1>2 DEF Import, Importable
    <2>2. \/ ws = <<c>>
          \/ ws = <<s, c>> /\ ~Has("sources", id.source)
          \/ ws = <<o, c>> /\ ~Has("compilerSources", original)
          \/ ws = <<s, o, c>> /\ ~Has("sources", id.source) /\ ~Has("compilerSources", original)
      <3> DEFINE p == PutNew("sources", id.source, id.source)
                 q == IF original = NoVia THEN <<>>
                      ELSE PutNew("compilerSources", original, original)
      <3>1. ws = (p \o q) \o <<c>>
        BY DEF ImportWrites
      <3>2. p = <<>> \/ (p = <<s>> /\ ~Has("sources", id.source))
        BY DEF PutNew
      <3>3. q = <<>> \/ (q = <<o>> /\ ~Has("compilerSources", original))
        BY DEF PutNew
      <3> HIDE DEF ws, s, o, c, p, q
      <3>4. /\ (<<>> \o <<>>) \o <<c>> = <<c>>
            /\ (<<s>> \o <<>>) \o <<c>> = <<s, c>>
            /\ (<<>> \o <<o>>) \o <<c>> = <<o, c>>
            /\ (<<s>> \o <<o>>) \o <<c>> = <<s, o, c>>
        BY ShortLists
      <3> QED
        BY <3>1, <3>2, <3>3, <3>4
    <2>3. /\ s.directory = "sources" /\ s.name = id.source
          /\ o.directory = "compilerSources" /\ o.name = original
          /\ c.directory = "candidates" /\ c.name = id
      BY DEF Put
    <2> HIDE DEF ws, s, o, c
    <2>4. /\ ws \in Seq({s, o, c})
          /\ \A i \in DOMAIN ws :
                /\ ws[i].directory \in {"sources", "compilerSources", "candidates"}
                /\ ~Has(ws[i].directory, ws[i].name)
                /\ ws[i].directory = "candidates" => ws[i].name.source \in Source
          /\ \A i, j \in DOMAIN ws : ws[i].directory = ws[j].directory => i = j
      <3>1. CASE ws = <<c>>
        BY <1>2, <2>1, <2>3, <3>1
      <3>2. CASE ws = <<s, c>> /\ ~Has("sources", id.source)
        BY <1>2, <2>1, <2>3, <3>2
      <3>3. CASE ws = <<o, c>> /\ ~Has("compilerSources", original)
        BY <1>2, <2>1, <2>3, <3>3
      <3>4. CASE ws = <<s, o, c>> /\ ~Has("sources", id.source) /\ ~Has("compilerSources", original)
        BY <1>2, <2>1, <2>3, <3>4
      <3> QED
        BY <2>2, <3>1, <3>2, <3>3, <3>4
    <2>5. Sound(ws)
      BY <2>4, ElementsOfSequence, ImportsAreSound
    <2> QED
      BY <2>1, <2>5, TakeKeepsInv
  <1> QED
    BY <1>1, <1>2

LEMMA OneBeforeTwo ==
    ASSUME NEW x, NEW y, NEW z
    PROVE  /\ <<x>> \o <<y, z>> = <<x, y, z>>
           /\ <<>> \o <<y, z>> = <<y, z>>
  <1> DEFINE s == <<x>> \o <<y, z>>
  <1>1. /\ s \in Seq({x, y, z}) /\ Len(s) = 3
        /\ s[1] = x /\ s[2] = y /\ s[3] = z
    OBVIOUS
  <1>2. <<>> \o <<y, z>> = <<y, z>>
    <2>1. \A t \in Seq({y, z}) : <<>> \o t = t
      OBVIOUS
    <2>2. <<y, z>> \in Seq({y, z})
      OBVIOUS
    <2> QED
      BY <2>1, <2>2
  <1> HIDE DEF s
  <1>3. s = [i \in 1 .. 3 |-> s[i]]
    BY <1>1
  <1>4. <<x, y, z>> = [i \in 1 .. 3 |-> <<x, y, z>>[i]]
    OBVIOUS
  <1>5. \A i \in 1 .. 3 : s[i] = <<x, y, z>>[i]
    <2>1. \A i \in 1 .. 3 : i = 1 \/ i = 2 \/ i = 3
      OBVIOUS
    <2> QED
      BY <1>1, <2>1
  <1> QED
    BY <1>2, <1>3, <1>4, <1>5 DEF s

(* The writes of an approval: the version if it is not installed yet, then   *)
(* the decision on it, then its activation.                                  *)
LEMMA ApprovalIsSound ==
    ASSUME VaultInv, NEW c \in DOMAIN vault.candidates, NEW at \in Nat,
           ~Has("decisions", c), MayInstall(c.source, "approved")
    PROVE  Sound(ApproveWrites(c, at))
  <1> DEFINE p == Put("installed", Ref(c.source), Entry(c.source, "approved"))
             d == Put("decisions", c, Decision("approve", at, c.source))
             a == Put("activations", c, Activation(c, at))
             ws == ApproveWrites(c, at)
  <1>1. /\ c.source \in Source
        /\ IsInstalled(Bundled, "draft")
        /\ ~Has("activations", c)
    BY DEF VaultInv, CandidatesAreImported, DraftComesFirst, ActivationsFollowApprovals, Approved,
           Has
  <1>2. \/ ws = <<d, a>> /\ IsInstalled(c.source, "approved")
        \/ ws = <<p, d, a>> /\ ~Has("installed", Ref(c.source))
    <2> DEFINE q == InstallWrites(c.source, "approved")
    <2>1. ws = q \o <<d, a>>
      BY DEF ApproveWrites
    <2>2. \/ q = <<>> /\ IsInstalled(c.source, "approved")
          \/ q = <<p>> /\ ~Has("installed", Ref(c.source))
      BY DEF InstallWrites, MayInstall
    <2>3. <<>> \o <<d, a>> = <<d, a>> /\ <<p>> \o <<d, a>> = <<p, d, a>>
      BY OneBeforeTwo
    <2> HIDE DEF q, ws, p, d, a
    <2> QED
      BY <2>1, <2>2, <2>3
  <1>3. /\ p.directory = "installed" /\ p.name = Ref(c.source)
        /\ p = Put("installed", Ref(c.source), Entry(c.source, "approved"))
        /\ d.directory = "decisions" /\ d.name = c
        /\ d.record.verdict = "approve" /\ d.record.reviewed = c.source /\ d.record.at = at
        /\ a.directory = "activations" /\ a.name = c /\ a.record = Activation(c, at)
    BY DEF Put, Decision
  <1>4. c.source \in DOMAIN Doc
    BY <1>1, DocAssumption
  <1> HIDE DEF ws, p, d, a
  <1> SUFFICES Sound(ws)
    BY DEF ws
  <1>5. CASE ws = <<d, a>> /\ IsInstalled(c.source, "approved")
    <2>1. /\ ws \in Seq({d, a}) /\ DOMAIN ws = 1 .. 2 /\ ws[1] = d /\ ws[2] = a
          /\ \A i \in 1 .. 2 : i = 1 \/ i = 2
      BY <1>5
    <2>2. ws \in Seq(Elements(ws))
      BY <2>1, ElementsOfSequence
    <2>3. WritesAreNew(ws)
      BY <1>1, <1>3, <2>1 DEF WritesAreNew, Directory
    <2>4. InstallsVersions(ws) /\ ImportsCandidates(ws)
      BY <1>3, <2>1 DEF InstallsVersions, ImportsCandidates
    <2>5. ApprovesInstalled(ws)
      BY <1>1, <1>3, <1>5, <2>1 DEF ApprovesInstalled
    <2>6. ActivatesApproved(ws)
      <3>1. 1 \in 1 .. (2 - 1)
        OBVIOUS
      <3> QED
        BY <1>3, <2>1, <3>1 DEF ActivatesApproved
    <2> QED
      BY <1>1, <2>2, <2>3, <2>4, <2>5, <2>6 DEF Sound
  <1>6. CASE ws = <<p, d, a>> /\ ~Has("installed", Ref(c.source))
    <2>1. /\ ws \in Seq({p, d, a}) /\ DOMAIN ws = 1 .. 3
          /\ ws[1] = p /\ ws[2] = d /\ ws[3] = a
          /\ \A i \in 1 .. 3 : i = 1 \/ i = 2 \/ i = 3
      BY <1>6
    <2>2. ws \in Seq(Elements(ws))
      BY <2>1, ElementsOfSequence
    <2>3. WritesAreNew(ws)
      BY <1>1, <1>3, <1>6, <2>1 DEF WritesAreNew, Directory
    <2>4. InstallsVersions(ws) /\ ImportsCandidates(ws)
      BY <1>3, <1>4, <2>1 DEF InstallsVersions, ImportsCandidates
    <2>5. ApprovesInstalled(ws)
      <3>1. 1 \in 1 .. (2 - 1)
        OBVIOUS
      <3> QED
        BY <1>1, <1>3, <2>1, <3>1 DEF ApprovesInstalled
    <2>6. ActivatesApproved(ws)
      <3>1. 2 \in 1 .. (3 - 1)
        OBVIOUS
      <3> QED
        BY <1>3, <2>1, <3>1 DEF ActivatesApproved
    <2> QED
      BY <1>1, <2>2, <2>3, <2>4, <2>5, <2>6 DEF Sound
  <1> QED
    BY <1>2, <1>5, <1>6

LEMMA RejectionIsSound ==
    ASSUME VaultInv, NEW c \in DOMAIN vault.candidates, NEW at, NEW digest, ~Has("decisions", c)
    PROVE  Sound(<<Put("decisions", c, Decision("reject", at, digest))>>)
  <1> DEFINE w == Put("decisions", c, Decision("reject", at, digest))
             ws == <<w>>
  <1>1. w.directory = "decisions" /\ w.name = c /\ w.record.verdict = "reject"
    BY DEF Put, Decision
  <1> HIDE DEF w
  <1>2. /\ ws \in Seq({w}) /\ DOMAIN ws = {1} /\ ws[1] = w
    OBVIOUS
  <1>3. ws \in Seq(Elements(ws))
    BY <1>2, ElementsOfSequence
  <1> HIDE DEF ws
  <1>4. Sound(ws)
    BY <1>1, <1>2, <1>3
       DEF Sound, WritesAreNew, InstallsVersions, ImportsCandidates, ApprovesInstalled,
           ActivatesApproved, Directory
  <1> QED
    BY <1>4 DEF ws, w

(* A finite set is listed without repetition.                                *)
LEMMA ListsOfSets ==
    ASSUME NEW S, IsFiniteSet(S)
    PROVE  LET s == SetToSeq(S)
           IN  /\ \E n \in Nat : DOMAIN s = 1 .. n
               /\ \A i \in DOMAIN s : s[i] \in S
               /\ \A i, j \in DOMAIN s : s[i] = s[j] => i = j
               /\ \A x \in S : \E i \in DOMAIN s : s[i] = x
  <1> DEFINE n == Cardinality(S)
             s == SetToSeq(S)
  <1>1. n \in Nat /\ ExistsBijection(1 .. n, S)
    BY FS_CardinalityType
  <1>2. \E f \in [1 .. n -> S] : IsInjective(f)
    BY <1>1 DEF ExistsBijection, Bijection, Injection, IsInjective
  <1>3. s \in [1 .. n -> S] /\ IsInjective(s)
    BY <1>2 DEF SetToSeq
  <1> HIDE DEF s, n
  <1>4. \A i, j \in DOMAIN s : s[i] = s[j] => i = j
    BY <1>3 DEF IsInjective
  <1>5. \A x \in S : \E i \in DOMAIN s : s[i] = x
    <2>1. s \in Injection(1 .. n, S)
      BY <1>3, <1>4 DEF Injection
    <2>2. IsFiniteSet(1 .. n) /\ Cardinality(1 .. n) = n
      BY <1>1, FS_Interval
    <2>3. s \in Surjection(1 .. n, S)
      BY <2>1, <2>2, FS_Injection DEF n
    <2> QED
      BY <1>3, <2>3 DEF Surjection
  <1> QED
    BY <1>1, <1>3, <1>4, <1>5 DEF s

(* The activations that a stop left undone are written, each once.           *)
LEMMA ReconciliationIsSound ==
    ASSUME VaultInv
    PROVE  Sound(ReconcileWrites) /\ CompletesApprovals(ReconcileWrites)
  <1> DEFINE due == ActivationsDue
             q == SetToSeq(due)
             ws == ReconcileWrites
  <1>1. IsFiniteSet(due)
    <2>1. due \subseteq DOMAIN vault.decisions
      BY DEF ActivationsDue, Approved
    <2> QED
      BY <2>1, FS_Subset DEF VaultInv
  <1>2. /\ \E n \in Nat : DOMAIN q = 1 .. n
        /\ \A i \in DOMAIN q : q[i] \in due
        /\ \A i, j \in DOMAIN q : q[i] = q[j] => i = j
        /\ \A x \in due : \E i \in DOMAIN q : q[i] = x
    <2>1. PICK S : S = due
      OBVIOUS
    <2> QED
      BY <1>1, <2>1, ListsOfSets
  <1>3. ws = [i \in DOMAIN q |-> Put("activations", q[i],
                                     Activation(q[i], vault.decisions[q[i]].at))]
    BY DEF ReconcileWrites
  <1>4. \A c \in due : c \in Approved /\ ~Has("activations", c)
    BY DEF ActivationsDue
  <1> HIDE DEF q, ws, due
  <1>5. /\ DOMAIN ws = DOMAIN q
        /\ \A i \in DOMAIN ws : /\ ws[i].directory = "activations"
                                /\ ws[i].name = q[i]
                                /\ ws[i].record = Activation(q[i], vault.decisions[q[i]].at)
    BY <1>3 DEF Put
  <1>6. ws \in Seq(Elements(ws))
    <2>1. PICK n \in Nat : DOMAIN ws = 1 .. n
      BY <1>2, <1>5
    <2>2. ws = [i \in 1 .. n |-> ws[i]]
      BY <1>3, <1>5, <2>1
    <2>3. \A i \in 1 .. n : ws[i] \in Elements(ws)
      BY <2>1 DEF Elements
    <2> QED
      BY <2>2, <2>3
  <1>7. WritesAreNew(ws)
    BY <1>2, <1>4, <1>5 DEF WritesAreNew, Directory
  <1>8. InstallsVersions(ws) /\ ImportsCandidates(ws) /\ ApprovesInstalled(ws)
    BY <1>5 DEF InstallsVersions, ImportsCandidates, ApprovesInstalled
  <1>9. ActivatesApproved(ws)
    BY <1>2, <1>4, <1>5 DEF ActivatesApproved
  <1>10. Sound(ws)
    BY <1>5, <1>6, <1>7, <1>8, <1>9 DEF Sound
  <1>11. CompletesApprovals(ws)
    BY <1>2, <1>5 DEF CompletesApprovals, due
  <1> QED
    BY <1>10, <1>11 DEF ws

-----------------------------------------------------------------------------
LEMMA StoreInit == Init => StoreInv
  <1> SUFFICES ASSUME Init PROVE StoreInv
    OBVIOUS
  <1>1. vault = [d \in Directory |-> <<>>] /\ op = NoOp
    BY DEF Init, SInit
  <1>2. /\ DOMAIN vault = Directory
        /\ DOMAIN vault.installed = {} /\ DOMAIN vault.candidates = {}
        /\ DOMAIN vault.decisions = {} /\ DOMAIN vault.activations = {}
    <2>1. DOMAIN <<>> = {}
      OBVIOUS
    <2> QED
      BY <1>1, <2>1 DEF Directory
  <1>3. VaultInv
    BY <1>2, FS_EmptySet
       DEF VaultInv, DraftComesFirst, CandidatesAreImported, ApprovalsAreInstalled, Approved,
           ActivationsFollowApprovals, LatestExists
  <1> QED
    BY <1>1, <1>3 DEF StoreInv, CommandInv, Running

\* What a step does to the store.
LEMMA StepsOfTheStore ==
    ASSUME Next
    PROVE  \/ \E id, locator, original : Import(id, locator, original)
           \/ \E c \in DOMAIN vault.candidates, s \in Source, t \in Time :
                    Approve(c, s, t) \/ Reject(c, s, t)
           \/ Inspect \/ StartClassify \/ WriteRecord
           \/ op' = NoOp /\ vault' = vault
                /\ ((\E evidence : Done(evidence)) \/ answer' = answer \/ answer' = NoAnswer)
           \/ ~Running /\ op' = op /\ vault' = vault
           \/ UNCHANGED svars
  <1>1. CASE StoreCommand
    BY <1>1 DEF StoreCommand, ImportLocal
  <1>2. CASE StoreStep
    BY <1>2 DEF StoreStep, FailCommand, Done
  <1>3. CASE \E evidence \in SUBSET Term : ReadActive(evidence)
    BY <1>3 DEF ReadActive
  <1>4. CASE \E u \in Url : StartFetch(u)
    BY <1>4 DEF StartFetch
  <1>5. CASE FetchStep
    BY <1>5 DEF FetchStep, ResolveTarget, FollowRedirect, Receive, FailFetch, ImportFetched
  <1>6. CASE \E ref \in DOMAIN vault.installed, o \in Original : StartCompile(ref, o)
    BY <1>6 DEF StartCompile
  <1>7. CASE \E s \in Generated : ImportCompiled(s)
    BY <1>7 DEF ImportCompiled
  <1>8. CASE FailCompile
    BY <1>8 DEF FailCompile
  <1>9. CASE Crash
    BY <1>9 DEF Crash
  <1> QED
    BY <1>1, <1>2, <1>3, <1>4, <1>5, <1>6, <1>7, <1>8, <1>9 DEF Next

LEMMA StoreStepKeepsInv == StoreInv /\ [Next]_vars => StoreInv'
  <1> SUFFICES ASSUME StoreInv, [Next]_vars PROVE StoreInv'
    OBVIOUS
  <1>0. VaultInv
    BY DEF StoreInv
  <1>1. ASSUME NEW id, NEW locator, NEW original, Import(id, locator, original) PROVE StoreInv'
    BY <1>1, ImportKeepsInv
  <1>2. ASSUME NEW c \in DOMAIN vault.candidates, NEW s \in Source, NEW t \in Time, Approve(c, s, t)
        PROVE  StoreInv'
    <2>1. /\ ~Has("decisions", c) /\ MayInstall(c.source, "approved") /\ t \in Nat
          /\ Take("decide", ApproveWrites(c, t))
      BY <1>2, TimeAssumption DEF Approve, DecidesReviewed
    <2>2. Sound(ApproveWrites(c, t))
      BY <1>0, <2>1, ApprovalIsSound
    <2> QED
      BY <2>1, <2>2, TakeKeepsInv
  <1>3. ASSUME NEW c \in DOMAIN vault.candidates, NEW s \in Source, NEW t \in Time, Reject(c, s, t)
        PROVE  StoreInv'
    BY <1>0, <1>3, RejectionIsSound, TakeKeepsInv DEF Reject, DecidesReviewed
  <1>4. CASE Inspect \/ StartClassify
    <2>1. PICK ws : ws = ReconcileWrites
      OBVIOUS
    <2>2. Sound(ws) /\ CompletesApprovals(ws)
      BY <1>0, <2>1, ReconciliationIsSound
    <2> QED
      BY <1>4, <2>1, <2>2, TakeKeepsInv DEF Inspect, StartClassify
  <1>5. CASE ~Running /\ op' = op /\ vault' = vault
    BY <1>5, ReleaseKeepsInv DEF Running
  <1>6. CASE UNCHANGED vars
    BY <1>6, StutterKeepsInv DEF vars, svars
  <1> QED
    BY <1>1, <1>2, <1>3, <1>4, <1>5, <1>6, StepsOfTheStore, WriteKeepsInv, ReleaseKeepsInv,
       StutterKeepsInv

-----------------------------------------------------------------------------
(* Whatever stops the commands of the store and wherever, each activation is *)
(* of an approval of the very file that is installed under its reference     *)
(* (decide_candidate, reconcile_activations).                                *)
THEOREM ActiveProfilesAreReviewed == Spec => []ActiveIsReviewed
  <1>1. StoreInv => ActiveIsReviewed
    <2> SUFFICES ASSUME StoreInv, NEW c \in DOMAIN vault.activations
                 PROVE  /\ c \in Approved
                        /\ vault.decisions[c].reviewed = vault.activations[c].reviewed
                        /\ Has("installed", vault.activations[c].ref)
                        /\ ProfileAt(vault.activations[c].ref)
                                = [Doc[vault.decisions[c].reviewed] EXCEPT !.status = "approved"]
      BY DEF ActiveIsReviewed
    <2>1. c \in Approved /\ vault.activations[c] = Activation(c, vault.decisions[c].at)
      BY DEF StoreInv, VaultInv, ActivationsFollowApprovals
    <2>2. vault.activations[c].reviewed = c.source /\ vault.activations[c].ref = Ref(c.source)
      BY <2>1 DEF Activation
    <2>3. vault.decisions[c].reviewed = c.source /\ IsInstalled(c.source, "approved")
      BY <2>1 DEF StoreInv, VaultInv, ApprovalsAreInstalled
    <2> QED
      BY <2>1, <2>2, <2>3 DEF IsInstalled, AsInstalled
  <1> QED
    BY <1>1, StoreInit, StoreStepKeepsInv, PTL DEF Spec

(* No command, and no repetition of one after a stop, changes or removes a   *)
(* record that is there (write_new_bytes of store.rs is called with free     *)
(* names only).                                                              *)
THEOREM RecordsStay == Spec => RecordsAreFinal
  <1> DEFINE Final == \A d \in Directory : \A name \in DOMAIN vault[d] :
                        name \in DOMAIN vault'[d] /\ vault'[d][name] = vault[d][name]
  <1>1. StoreInv /\ [Next]_vars => [Final]_svars
    <2> SUFFICES ASSUME StoreInv, [Next]_vars PROVE [Final]_svars
      OBVIOUS
    <2>1. CASE vault' = vault
      BY <2>1
    <2>2. CASE WriteRecord
      <3>1. PICK w : w = op.writes[1]
        OBVIOUS
      <3>2. Wrote(w)
        BY <2>2, <3>1, WriteStep
      <3> QED
        BY <3>2, WriteKeepsRecords
    <2>3. vault' = vault \/ WriteRecord
      BY StepsOfTheStore
         DEF Import, Take, Approve, Reject, Inspect, StartClassify, vars, svars
    <2> QED
      BY <2>1, <2>2, <2>3
  <1> QED
    BY <1>1, StoreInit, StoreStepKeepsInv, PTL DEF Spec, RecordsAreFinal

(* A batch is made with the profile of the latest approval, even when the    *)
(* approval was stopped before its activation (reconcile_activations comes   *)
(* first in create_classification_batch).                                    *)
THEOREM BatchesFollowApprovals == Spec => BatchesUseLastApproval
  <1> DEFINE Follows == op # NoOp /\ op.kind = "classify" /\ answer' # NoAnswer =>
                            \E c \in Approved :
                                /\ answer'.profile = Ref(c.source)
                                /\ \A d \in Approved : vault.decisions[d].at <= vault.decisions[c].at
  <1>1. StoreInv /\ [Next]_vars => [Follows]_svars
    <2> SUFFICES ASSUME StoreInv, [Next]_vars, op # NoOp, op.kind = "classify",
                        answer' # NoAnswer, ~UNCHANGED svars
                 PROVE  \E c \in Approved :
                            /\ answer'.profile = Ref(c.source)
                            /\ \A d \in Approved : vault.decisions[d].at <= vault.decisions[c].at
      BY DEF svars
    <2>1. Running /\ answer = NoAnswer /\ CompletesApprovals(op.writes) /\ VaultInv
      BY DEF StoreInv, CommandInv, Running
    <2>2. PICK evidence : Done(evidence)
      <3>1. \A kind, ws : ~Take(kind, ws)
        BY <2>1 DEF Take
      <3>2. ~WriteRecord
        BY <2>1 DEF WriteRecord
      <3>3. ~(UNCHANGED vars)
        BY DEF vars, svars
      <3> QED
        BY <2>1, <3>1, <3>2, <3>3, StepsOfTheStore
           DEF Import, Approve, Reject, Inspect, StartClassify
    <2>3. /\ op.writes = <<>> /\ Active # <<>>
          /\ answer' = Classify(ProfileAt(Active[1]), evidence)
      BY <2>1, <2>2 DEF Done
    <2>4. ActivationsDue = {}
      <3>1. DOMAIN <<>> = {}
        OBVIOUS
      <3> QED
        BY <2>1, <2>3, <3>1 DEF CompletesApprovals
    <2>5. DOMAIN vault.activations # {} /\ Active[1] = vault.activations[Latest].ref
      BY <2>3 DEF Active
    <2>6. /\ Latest \in DOMAIN vault.activations
          /\ \A d \in DOMAIN vault.activations :
                vault.activations[d].at <= vault.activations[Latest].at
      BY <2>1, <2>5 DEF VaultInv, LatestExists, Latest
    <2> DEFINE c == Latest
    <2> HIDE DEF c
    <2>7. \A d \in Approved : /\ d \in DOMAIN vault.activations
                              /\ vault.activations[d].at = vault.decisions[d].at
      <3> TAKE d \in Approved
      <3>1. d \in DOMAIN vault.activations
        BY <2>4 DEF ActivationsDue, Has
      <3>2. vault.activations[d] = Activation(d, vault.decisions[d].at)
        BY <2>1, <3>1 DEF VaultInv, ActivationsFollowApprovals
      <3>3. Activation(d, vault.decisions[d].at).at = vault.decisions[d].at
        BY DEF Activation
      <3> QED
        BY <3>1, <3>2, <3>3
    <2>8. c \in Approved /\ vault.activations[c] = Activation(c, vault.decisions[c].at)
      BY <2>1, <2>6 DEF VaultInv, ActivationsFollowApprovals, c
    <2>9. Active[1] = Ref(c.source)
      BY <2>5, <2>8 DEF Activation, c
    <2>10. c.source \in DOMAIN Doc /\ IsInstalled(c.source, "approved")
      BY <2>1, <2>8, DocAssumption DEF VaultInv, ApprovalsAreInstalled
    <2>11. ProfileAt(Active[1]) = AsInstalled(c.source, "approved")
      BY <2>9, <2>10 DEF IsInstalled
    <2>12. answer'.profile = Ref(c.source)
      <3>1. \A profile, rules, reason :
                Review(profile, rules, reason).profile = <<profile.id, profile.version>>
        BY DEF Review
      <3>2. \A profile : Classify(profile, evidence).profile = <<profile.id, profile.version>>
        BY <3>1 DEF Classify, Review
      <3>3. answer'.profile = <<AsInstalled(c.source, "approved").id,
                                AsInstalled(c.source, "approved").version>>
        BY <2>3, <2>11, <3>2
      <3> QED
        BY <2>10, <3>3, VersionsKeepTheirRef
    <2>13. \A d \in Approved : vault.decisions[d].at <= vault.decisions[c].at
      BY <2>6, <2>7, <2>8 DEF c
    <2> QED
      BY <2>8, <2>12, <2>13
  <1> QED
    BY <1>1, StoreInit, StoreStepKeepsInv, PTL DEF Spec, BatchesUseLastApproval
=============================================================================
