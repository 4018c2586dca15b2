------------------------- MODULE ModelRuntimeProofs -------------------------
(***************************************************************************)
(* The comparison of two models, and the keys of the models, proved.       *)
(*                                                                         *)
(* Of a comparison, whatever the models answer: the record that it ends    *)
(* with passes its own checks, and nothing of an answer gets through that  *)
(* does not cite the evidence the models were given.                       *)
(*                                                                         *)
(* Of the keys: whatever operation of a change fails and wherever the      *)
(* process ends, a configuration that takes its key from the credential    *)
(* vault finds one there.  That is not inductive: what a change will do to *)
(* the key follows from what it found when it took the mutex, which KeyInv *)
(* recalls for each of its steps.                                          *)
(*                                                                         *)
(* Of the comparisons on disk: a directory without a record is that of a   *)
(* call that is about to write it or to remove it, or that was cut short   *)
(* then (ListInv); and the directories are finitely many, so that their    *)
(* number and the limit compare.                                           *)
(***************************************************************************)
EXTENDS ModelRuntime, FiniteSetTheorems, TLAPS

-----------------------------------------------------------------------------
\* An answer holds at most one value.
Answers(a) == a.value = {} \/ \E p : a.value = {p}

\* The task is one of the two, and the envelope of a document has excerpts, as its preparation
\* demands (build_comparison_envelope).
Prepared(envelope) ==
    /\ envelope.task \in {"relations", "file"}
    /\ envelope.task = "relations" => ValidEnvelope(envelope)

(* The outcome of a provider is one that the checks accept.                  *)
LEMMA OutcomesAreValid ==
    ASSUME NEW envelope, NEW answer
    PROVE  LET outcome == ProviderOutcome(envelope, answer)
           IN  /\ ValidOutcome(envelope, outcome)
               /\ outcome.proposal # {} <=> outcome.status = "succeeded"
               /\ outcome.status \in {"succeeded", "failed"}
  <1> DEFINE accepted == {p \in answer.value : ValidProposal(envelope, p)}
  <1>1. CASE accepted = {}
    <2>1. ProviderOutcome(envelope, answer) = Failed(answer.error)
      BY <1>1 DEF ProviderOutcome
    <2> QED
      BY <2>1 DEF Failed, ValidOutcome, BoundedFailure
  <1>2. CASE accepted # {}
    <2>1. ProviderOutcome(envelope, answer) = Succeeded(accepted)
      BY <1>2 DEF ProviderOutcome
    <2>2. \A p \in accepted : ValidProposal(envelope, p)
      OBVIOUS
    <2> HIDE DEF accepted
    <2> QED
      BY <1>2, <2>1, <2>2 DEF Succeeded, ValidOutcome
  <1> QED
    BY <1>1, <1>2

(* What the Agent decided is valid, at most one decision, and only asked for *)
(* when both models proposed.                                                *)
LEMMA AdjudicationsAreValid ==
    ASSUME NEW envelope, NEW desktop, NEW agent, NEW verdict, Answers(verdict)
    PROVE  LET adjudication == Adjudicated(envelope, desktop, agent, verdict)
           IN  /\ \A v \in adjudication : ValidVerdict(envelope, v)
               /\ \A v, w \in adjudication : v = w
               /\ adjudication # {} => IsAsked(desktop, agent)
  BY DEF Answers, Adjudicated

(* Every comparison that was run is stored: persist_comparison_record and    *)
(* persist_file_semantic_comparison validate what the run concluded, and     *)
(* never refuse it.                                                          *)
THEOREM ComparisonsAreAccepted ==
    ASSUME NEW envelope, Prepared(envelope),
           NEW desktopAnswer, NEW agentAnswer, NEW verdict, Answers(verdict)
    PROVE  ValidRecord(Comparison(envelope, desktopAnswer, agentAnswer, verdict))
  <1> DEFINE d == ProviderOutcome(envelope, desktopAnswer)
             a == ProviderOutcome(envelope, agentAnswer)
             j == Adjudicated(envelope, d, a, verdict)
             c == Concluded(envelope, d, a, j, verdict.error)
  <1>1. Comparison(envelope, desktopAnswer, agentAnswer, verdict) = c
    BY DEF Comparison
  <1>2. /\ ValidOutcome(envelope, d) /\ ValidOutcome(envelope, a)
        /\ d.proposal # {} <=> d.status = "succeeded"
        /\ a.proposal # {} <=> a.status = "succeeded"
        /\ d.status \in {"succeeded", "failed"} /\ a.status \in {"succeeded", "failed"}
    BY OutcomesAreValid
  <1>3. /\ \A v \in j : ValidVerdict(envelope, v)
        /\ \A v, w \in j : v = w
        /\ j # {} => IsAsked(d, a)
    BY AdjudicationsAreValid
  <1> HIDE DEF d, a, j
  <1>4. /\ c.envelope = envelope /\ c.desktop = d /\ c.agent = a /\ c.adjudication = j
        /\ c.failure = IF IsAsked(d, a) /\ j = {} THEN {"sound"} ELSE {}
        /\ c.resolved = Resolved(envelope, d, a, j)
        /\ c.status = Status(envelope, d, a, j)
    BY DEF Concluded, BoundedFailure
  <1> HIDE DEF c
  <1>5. CASE envelope.task = "relations"
    <2>1. ValidEnvelope(envelope)
      BY <1>5 DEF Prepared
    <2>2. \A v \in j : v.decision = "review" <=> Status(envelope, d, a, j) = "review"
      <3> SUFFICES ASSUME NEW v \in j
                   PROVE  v.decision = "review" <=> Status(envelope, d, a, j) = "review"
        OBVIOUS
      <3>1. v.decision \in {"accept", "revise", "reject", "review"}
        BY <1>3 DEF ValidVerdict, AgentDecision
      <3> QED
        BY <1>3, <1>5, <3>1 DEF Status, Completes
    <2>3. ValidRelationRecord(c)
      BY <1>2, <1>3, <1>4, <1>5, <2>1, <2>2
         DEF ValidRelationRecord, Status, Completes, IsAsked
    <2> QED
      BY <1>1, <1>2, <1>4, <1>5, <2>3 DEF ValidRecord
  <1>6. CASE envelope.task = "file"
    <2>1. ValidFileRecord(c)
      BY <1>2, <1>3, <1>4, <1>6 DEF ValidFileRecord, Status, IsAsked
    <2> QED
      BY <1>1, <1>2, <1>4, <1>6, <2>1 DEF ValidRecord
  <1> QED
    BY <1>5, <1>6 DEF Prepared

(* A file comparison resolves to a suggestion that was checked against the   *)
(* evidence and the taxonomy it was asked about, and only if the Agent       *)
(* decided: what an item is classified by is never a bare claim              *)
(* (FileSemanticAdjudication::resolved).                                     *)
THEOREM ResolvedSuggestionsAreSupported ==
    ASSUME NEW c, ValidRecord(c), c.envelope.task = "file"
    PROVE  /\ \A p \in c.resolved : ValidProposal(c.envelope, p)
           /\ c.resolved # {} => c.adjudication # {} /\ c.status # "failed"
  <1>1. /\ ValidOutcome(c.envelope, c.desktop) /\ ValidOutcome(c.envelope, c.agent)
        /\ ValidFileRecord(c)
    BY DEF ValidRecord
  <1>2. \A v \in c.adjudication : ValidVerdict(c.envelope, v)
    BY <1>1 DEF ValidFileRecord
  <1>3. \A v \in c.adjudication : FileVerdictFits(c.envelope, v)
    BY <1>2 DEF ValidVerdict
  <1>4. \A p \in c.desktop.proposal \cup c.agent.proposal : ValidProposal(c.envelope, p)
    BY <1>1 DEF ValidOutcome
  <1>5. c.resolved = Resolved(c.envelope, c.desktop, c.agent, c.adjudication)
    BY <1>1 DEF ValidFileRecord
  <1>6. ASSUME NEW p \in c.resolved
        PROVE  ValidProposal(c.envelope, p) /\ c.adjudication # {}
    <2>1. PICK v \in c.adjudication :
              p \in IF v.decision = "accept" THEN (IF v.side = {"desktop"}
                                                  THEN c.desktop.proposal ELSE c.agent.proposal)
                    ELSE IF v.decision = "revise" THEN v.revised ELSE {}
      BY <1>5, <1>6 DEF Resolved
    <2> QED
      BY <1>3, <1>4, <2>1 DEF FileVerdictFits
  <1>7. c.resolved # {} => c.status # "failed"
    BY <1>1, <1>6 DEF ValidFileRecord
  <1> QED
    BY <1>6, <1>7

(* Whatever enters the graph review from a stored comparison is named by     *)
(* sound texts and cites excerpts of that comparison's own envelope          *)
(* (import_comparison_relations, which reads the record back).               *)
THEOREM ImportedRelationsAreSupported ==
    ASSUME NEW c, ValidRecord(c), c.envelope.task = "relations", NEW r \in Suggested(c)
    PROVE  /\ r.text = "sound"
           /\ ValidCitations(c.envelope, r.cites)
  <1>1. /\ ValidOutcome(c.envelope, c.desktop) /\ ValidOutcome(c.envelope, c.agent)
        /\ ValidRelationRecord(c)
    BY DEF ValidRecord
  <1>2. PICK relations \in Selected(c) : r \in Elements(relations)
    BY DEF Suggested
  <1>3. PICK v \in c.adjudication :
            relations \in IF v.decision = "revise" THEN {v.relations}
                          ELSE {p.relations : p \in IF v.side = {"desktop"}
                                THEN c.desktop.proposal ELSE c.agent.proposal}
    BY <1>2 DEF Selected
  <1>4. RelationVerdictFits(c.envelope, v)
    BY <1>1, <1>3 DEF ValidRelationRecord, ValidVerdict
  <1>5. \A p \in c.desktop.proposal \cup c.agent.proposal :
            ValidRelations(c.envelope, p.relations)
    BY <1>1 DEF ValidOutcome, ValidProposal
  <1>6. ValidRelations(c.envelope, relations)
    BY <1>3, <1>4, <1>5 DEF RelationVerdictFits
  <1> QED
    BY <1>2, <1>6 DEF ValidRelations

(* A completed comparison of a file does resolve (run_file_semantic_comparison). *)
THEOREM CompletedComparisonsResolve ==
    ASSUME NEW envelope, envelope.task = "file",
           NEW desktopAnswer, NEW agentAnswer, NEW verdict,
           Comparison(envelope, desktopAnswer, agentAnswer, verdict).status = "completed"
    PROVE  Comparison(envelope, desktopAnswer, agentAnswer, verdict).resolved # {}
  <1> DEFINE d == ProviderOutcome(envelope, desktopAnswer)
             a == ProviderOutcome(envelope, agentAnswer)
             j == Adjudicated(envelope, d, a, verdict)
             c == Comparison(envelope, desktopAnswer, agentAnswer, verdict)
  <1>1. /\ c.status = Status(envelope, d, a, j)
        /\ c.resolved = Resolved(envelope, d, a, j)
    BY DEF Comparison, Concluded
  <1>2. IsAsked(d, a) /\ \A v \in j : ValidVerdict(envelope, v)
    BY <1>1 DEF Status, Adjudicated
  <1> HIDE DEF d, a, j, c
  <1>3. PICK v \in j : v.decision \in {"accept", "revise"}
    BY <1>1 DEF Status, Completes, c
  <1>4. FileVerdictFits(envelope, v)
    BY <1>2 DEF ValidVerdict
  <1>5. CASE v.decision = "accept"
    <2>1. d.proposal # {} /\ a.proposal # {}
      BY <1>2 DEF IsAsked
    <2>2. Resolved(envelope, d, a, j) # {}
      BY <1>2, <1>3, <1>5, <2>1 DEF Resolved
    <2> QED
      BY <1>1, <2>2 DEF c
  <1>6. CASE v.decision = "revise"
    <2>1. Resolved(envelope, d, a, j) # {}
      BY <1>2, <1>3, <1>4, <1>6 DEF Resolved, FileVerdictFits
    <2> QED
      BY <1>1, <2>1 DEF c
  <1> QED
    BY <1>3, <1>5, <1>6

-----------------------------------------------------------------------------
\* The holder of the mutex.
UpsertTask == [task: {"upsert"}, step: {"key", "file", "restore", "delete"}, config: Config,
               source: Source, key: SUBSET Key, valid: BOOLEAN, before: SUBSET Key,
               leaves: BOOLEAN]
RemoveTask == [task: {"remove"}, step: {"file", "delete"}, config: Config, leaves: BOOLEAN]
DiscoverTask == [task: {"discover"}, step: {"ask"}]

MutexType == mutex \in {Free} \cup UpsertTask \cup RemoveTask \cup DiscoverTask

KeychainType == /\ DOMAIN keychain \subseteq Config
                /\ \A c \in DOMAIN keychain : keychain[c] \in Key

\* A key that the change will write, or restore, is at hand.
UpsertIsBacked ==
    mutex.task = "upsert" =>
        /\ mutex.step = "key" => mutex.source = "keychain" /\ mutex.key # {}
        /\ mutex.step = "file" /\ mutex.source = "keychain" => mutex.config \in DOMAIN keychain
        /\ mutex.step # "delete" /\ mutex.before = {} /\ UsesKeychain(mutex.config)
               => mutex.config \in unflushed
        /\ mutex.leaves => mutex.source # "keychain"

\* A key is deleted when no configuration uses it any more.
DeletedIsUnused ==
    mutex.task \in {"upsert", "remove"} /\ mutex.step = "delete" => ~UsesKeychain(mutex.config)

KeyInv == MutexType /\ KeychainType /\ UpsertIsBacked /\ DeletedIsUnused /\ ConfiguredKeysExist

USE DEF Source

-----------------------------------------------------------------------------
LEMMA WithoutEntry ==
    ASSUME NEW f, NEW x
    PROVE  /\ DOMAIN Without(f, x) = DOMAIN f \ {x}
           /\ \A y \in DOMAIN f : y # x => Without(f, x)[y] = f[y]
  BY DEF Without

LEMMA FreeHasNoTask == Free.task = "none"
  BY DEF Free

\* A task goes on to another of its steps.
LEMMA TaskGoesOn ==
    ASSUME MutexType, NEW step, GoOn(step),
           \/ mutex.task = "upsert" /\ step \in {"file", "restore", "delete"}
           \/ mutex.task = "remove" /\ step = "delete"
    PROVE  /\ MutexType'
           /\ mutex'.task = mutex.task /\ mutex'.step = step /\ mutex'.config = mutex.config
           /\ mutex.task = "upsert" =>
                 /\ mutex'.source = mutex.source /\ mutex'.key = mutex.key
                 /\ mutex'.before = mutex.before /\ mutex'.leaves = mutex.leaves
  <1>1. CASE mutex \in UpsertTask
    BY <1>1 DEF GoOn, MutexType, UpsertTask
  <1>2. CASE mutex \in RemoveTask
    BY <1>2 DEF GoOn, MutexType, RemoveTask
  <1>3. CASE mutex \in DiscoverTask \cup {Free}
    BY <1>3 DEF Free, DiscoverTask
  <1> QED
    BY <1>1, <1>2, <1>3 DEF MutexType

LEMMA TaskConfig ==
    ASSUME MutexType, mutex.task \in {"upsert", "remove"}
    PROVE  /\ mutex.config \in Config
           /\ mutex.task = "upsert" => mutex \in UpsertTask
           /\ mutex.task = "remove" => mutex \in RemoveTask
  BY DEF MutexType, Free, UpsertTask, RemoveTask, DiscoverTask

\* A change that ends leaves nothing to be shown of its steps.
LEMMA ReleaseLeavesNothing ==
    ASSUME Release
    PROVE  MutexType' /\ UpsertIsBacked' /\ DeletedIsUnused'
  BY FreeHasNoTask DEF Release, MutexType, UpsertIsBacked, DeletedIsUnused

LEMMA SettingsKept ==
    ASSUME KeyInv, UNCHANGED settings
    PROVE  KeyInv'
  BY DEF settings, KeyInv, MutexType, KeychainType, UpsertIsBacked, DeletedIsUnused,
         ConfiguredKeysExist, UsesKeychain

-----------------------------------------------------------------------------
LEMMA BeginUpsertKeeps ==
    ASSUME KeyInv, NEW c \in Config, NEW source \in Source, NEW valid \in BOOLEAN,
           NEW key \in SUBSET Key, BeginUpsert(c, source, key, valid)
    PROVE  KeyInv'
  <1> DEFINE task == [task |-> "upsert", step |-> IF key # {} THEN "key" ELSE "file",
                 config |-> c, source |-> source, key |-> key, valid |-> valid,
                 before |-> {keychain[x] : x \in {c} \cap DOMAIN keychain},
                 leaves |-> UsesKeychain(c) /\ source # "keychain"]
  <1>1. mutex' = task /\ UNCHANGED <<configs, keychain, unflushed>>
    BY DEF BeginUpsert
  <1>2. (UsesKeychain(c) /\ source # "keychain") \in BOOLEAN
    BY DEF UsesKeychain
  <1>3. {keychain[x] : x \in {c} \cap DOMAIN keychain} \in SUBSET Key
    BY DEF KeyInv, KeychainType
  <1>4. task \in UpsertTask
    BY <1>2, <1>3 DEF UpsertTask
  <1>5. MutexType' /\ KeychainType' /\ ConfiguredKeysExist'
    BY <1>1, <1>4 DEF KeyInv, MutexType, KeychainType, ConfiguredKeysExist
  <1>6. /\ mutex'.task = "upsert" /\ mutex'.config = c /\ mutex'.source = source
        /\ mutex'.key = key /\ mutex'.step = IF key # {} THEN "key" ELSE "file"
        /\ mutex'.before = {keychain[x] : x \in {c} \cap DOMAIN keychain}
        /\ mutex'.leaves <=> UsesKeychain(c) /\ source # "keychain"
    BY <1>1
  <1> HIDE DEF task
  <1>7. UpsertIsBacked'
    <2>1. source # "keychain" => key = {}
      BY DEF BeginUpsert
    <2>2. source = "keychain" => key # {} \/ c \in DOMAIN keychain
      BY DEF BeginUpsert
    <2>3. mutex'.before = {} /\ UsesKeychain(c)' => c \in unflushed'
      <3>1. mutex'.before = {} => c \notin DOMAIN keychain
        BY <1>6
      <3> QED
        BY <1>1, <3>1 DEF KeyInv, ConfiguredKeysExist, UsesKeychain
    <2> QED
      BY <1>1, <1>6, <2>1, <2>2, <2>3 DEF UpsertIsBacked, UsesKeychain
  <1>8. DeletedIsUnused'
    BY <1>6 DEF DeletedIsUnused
  <1> QED
    BY <1>5, <1>7, <1>8 DEF KeyInv

LEMMA SetKeyKeeps ==
    ASSUME KeyInv, SetKey
    PROVE  KeyInv'
  <1>1. mutex.task = "upsert" /\ mutex.step = "key" /\ MutexType
        /\ UNCHANGED <<configs, unflushed>>
    BY DEF SetKey, Held, KeyInv
  <1>2. mutex \in UpsertTask
    BY <1>1, TaskConfig
  <1>3. ASSUME NEW key \in mutex.key, keychain' = With(keychain, mutex.config, key), GoOn("file")
        PROVE  KeyInv'
    <2>1. /\ DOMAIN keychain' = DOMAIN keychain \cup {mutex.config}
          /\ keychain'[mutex.config] = key
          /\ \A y \in DOMAIN keychain : y # mutex.config => keychain'[y] = keychain[y]
      BY <1>3 DEF With
    <2>2. KeychainType'
      BY <1>2, <2>1 DEF KeyInv, KeychainType, UpsertTask
    <2>3. ConfiguredKeysExist'
      BY <1>1, <2>1 DEF KeyInv, ConfiguredKeysExist
    <2>4. /\ MutexType' /\ mutex'.task = "upsert" /\ mutex'.step = "file"
          /\ mutex'.config = mutex.config /\ mutex'.source = mutex.source
          /\ mutex'.before = mutex.before /\ mutex'.leaves = mutex.leaves
      BY <1>1, <1>3, TaskGoesOn
    <2>5. UpsertIsBacked' /\ DeletedIsUnused'
      BY <1>1, <2>1, <2>4 DEF KeyInv, UpsertIsBacked, DeletedIsUnused, UsesKeychain
    <2> QED
      BY <2>2, <2>3, <2>4, <2>5 DEF KeyInv
  <1>4. ASSUME Release, UNCHANGED keychain PROVE KeyInv'
    BY <1>1, <1>4, ReleaseLeavesNothing DEF KeyInv, KeychainType, ConfiguredKeysExist
  <1> QED
    BY <1>3, <1>4 DEF SetKey

\* A change of the file that is refused: the key entered is taken back.
LEMMA RefusalKeeps ==
    ASSUME KeyInv, mutex.task = "upsert", mutex.step = "file", AfterRefusal,
           UNCHANGED keychain, KeychainType', ConfiguredKeysExist',
           mutex.before = {} /\ mutex.config \in DOMAIN configs' /\ configs'[mutex.config] = "keychain"
               => mutex.config \in unflushed'
    PROVE  KeyInv'
  <1>1. CASE Release
    BY <1>1, ReleaseLeavesNothing DEF KeyInv
  <1>2. CASE GoOn("restore")
    <2>1. /\ MutexType' /\ mutex'.task = "upsert" /\ mutex'.step = "restore"
          /\ mutex'.config = mutex.config /\ mutex'.source = mutex.source
          /\ mutex'.before = mutex.before /\ mutex'.leaves = mutex.leaves
      BY <1>2, TaskGoesOn DEF KeyInv
    <2>2. UpsertIsBacked' /\ DeletedIsUnused'
      BY <2>1 DEF KeyInv, UpsertIsBacked, DeletedIsUnused, UsesKeychain
    <2> QED
      BY <2>1, <2>2 DEF KeyInv
  <1> QED
    BY <1>1, <1>2 DEF AfterRefusal

LEMMA WriteConfigKeeps ==
    ASSUME KeyInv, WriteConfig
    PROVE  KeyInv'
  <1> DEFINE c == mutex.config
  <1>1. mutex.task = "upsert" /\ mutex.step = "file" /\ MutexType /\ UNCHANGED keychain
    BY DEF WriteConfig, Held, KeyInv
  <1>2. mutex \in UpsertTask
    BY <1>1, TaskConfig
  <1>3. /\ DOMAIN configs' = DOMAIN configs \cup {c} /\ configs'[c] = mutex.source
        /\ \A y \in DOMAIN configs : y # c => configs'[y] = configs[y]
    BY DEF WriteConfig, With
  <1>4. mutex.source = "keychain" => c \in DOMAIN keychain
    BY <1>1 DEF KeyInv, UpsertIsBacked
  <1>5. KeychainType'
    BY <1>1 DEF KeyInv, KeychainType
  <1>6. unflushed' \in {unflushed \ {c}, unflushed \cup {c}}
    BY DEF WriteConfig
  <1>7. ConfiguredKeysExist'
    BY <1>1, <1>3, <1>4, <1>6 DEF KeyInv, ConfiguredKeysExist
  <1>8. CASE AfterUpsert
    <2>1. CASE Release
      BY <1>5, <1>7, <2>1, ReleaseLeavesNothing DEF KeyInv
    <2>2. CASE mutex.leaves /\ GoOn("delete")
      <3>1. /\ MutexType' /\ mutex'.task = "upsert" /\ mutex'.step = "delete"
            /\ mutex'.config = c /\ mutex'.source = mutex.source /\ mutex'.leaves = mutex.leaves
        BY <1>1, <2>2, TaskGoesOn
      <3>2. mutex.source # "keychain"
        BY <1>1, <2>2 DEF KeyInv, UpsertIsBacked
      <3>3. UpsertIsBacked' /\ DeletedIsUnused'
        BY <1>3, <3>1, <3>2 DEF UpsertIsBacked, DeletedIsUnused, UsesKeychain
      <3> QED
        BY <1>5, <1>7, <3>1, <3>3 DEF KeyInv
    <2> QED
      BY <1>8, <2>1, <2>2 DEF AfterUpsert
  <1>9. CASE unflushed' = unflushed \cup {c} /\ AfterRefusal
    BY <1>1, <1>5, <1>7, <1>9, RefusalKeeps
  <1> QED
    BY <1>8, <1>9 DEF WriteConfig

LEMMA RefuseConfigKeeps ==
    ASSUME KeyInv, RefuseConfig
    PROVE  KeyInv'
  <1>1. /\ mutex.task = "upsert" /\ mutex.step = "file" /\ AfterRefusal
        /\ UNCHANGED <<configs, keychain, unflushed>>
    BY DEF RefuseConfig, Held
  <1>2. KeychainType' /\ ConfiguredKeysExist'
    BY <1>1 DEF KeyInv, KeychainType, ConfiguredKeysExist
  <1>3. mutex.before = {} /\ mutex.config \in DOMAIN configs' /\ configs'[mutex.config] = "keychain"
            => mutex.config \in unflushed'
    BY <1>1 DEF KeyInv, UpsertIsBacked, UsesKeychain
  <1> QED
    BY <1>1, <1>2, <1>3, RefusalKeeps

LEMMA RestoreKeyKeeps ==
    ASSUME KeyInv, RestoreKey
    PROVE  KeyInv'
  <1>1. /\ mutex.task = "upsert" /\ mutex.step = "restore" /\ Release /\ MutexType
        /\ UNCHANGED <<configs, unflushed>>
    BY DEF RestoreKey, Held, KeyInv
  <1>2. mutex \in UpsertTask
    BY <1>1, TaskConfig
  <1>3. KeychainType' /\ ConfiguredKeysExist'
    <2>1. CASE UNCHANGED keychain
      BY <1>1, <2>1 DEF KeyInv, KeychainType, ConfiguredKeysExist
    <2>2. CASE keychain' = Restored /\ mutex.before = {}
      <3>1. /\ DOMAIN keychain' = DOMAIN keychain \ {mutex.config}
            /\ \A y \in DOMAIN keychain : y # mutex.config => keychain'[y] = keychain[y]
        <4>1. keychain' = Without(keychain, mutex.config)
          BY <2>2 DEF Restored
        <4> QED
          BY <4>1 DEF Without
      <3>2. UsesKeychain(mutex.config) => mutex.config \in unflushed
        BY <1>1, <2>2 DEF KeyInv, UpsertIsBacked
      <3> QED
        BY <1>1, <3>1, <3>2 DEF KeyInv, KeychainType, ConfiguredKeysExist, UsesKeychain
    <2>3. CASE keychain' = Restored /\ mutex.before # {}
      <3> DEFINE key == CHOOSE k \in mutex.before : TRUE
      <3>1. key \in Key
        BY <1>2, <2>3 DEF UpsertTask
      <3>2. keychain' = With(keychain, mutex.config, key)
        BY <2>3 DEF Restored
      <3> HIDE DEF key
      <3>3. /\ DOMAIN keychain' = DOMAIN keychain \cup {mutex.config}
            /\ keychain'[mutex.config] = key
            /\ \A y \in DOMAIN keychain : y # mutex.config => keychain'[y] = keychain[y]
        BY <3>2 DEF With
      <3> QED
        BY <1>1, <1>2, <3>1, <3>3
           DEF KeyInv, KeychainType, ConfiguredKeysExist, UpsertTask
    <2> QED
      BY <2>1, <2>2, <2>3 DEF RestoreKey
  <1> QED
    BY <1>1, <1>3, ReleaseLeavesNothing DEF KeyInv

LEMMA BeginRemoveKeeps ==
    ASSUME KeyInv, NEW c \in Config, BeginRemove(c)
    PROVE  KeyInv'
  <1>1. /\ mutex' = [task |-> "remove", step |-> "file", config |-> c,
                     leaves |-> UsesKeychain(c)]
        /\ UNCHANGED <<configs, keychain, unflushed>>
    BY DEF BeginRemove
  <1>2. UsesKeychain(c) \in BOOLEAN
    BY DEF UsesKeychain
  <1>3. mutex' \in RemoveTask
    BY <1>1, <1>2 DEF RemoveTask
  <1>4. mutex'.task = "remove" /\ mutex'.step = "file"
    BY <1>1
  <1> QED
    BY <1>1, <1>3, <1>4 DEF KeyInv, MutexType, KeychainType, UpsertIsBacked, DeletedIsUnused,
                            ConfiguredKeysExist

LEMMA RemoveConfigKeeps ==
    ASSUME KeyInv, RemoveConfig
    PROVE  KeyInv'
  <1>1. /\ mutex.task = "remove" /\ mutex.step = "file" /\ MutexType
        /\ UNCHANGED <<keychain, unflushed>>
    BY DEF RemoveConfig, Held, KeyInv
  <1>2. ASSUME configs' = configs, Release PROVE KeyInv'
    BY <1>1, <1>2, ReleaseLeavesNothing DEF KeyInv, KeychainType, ConfiguredKeysExist
  <1>3. ASSUME configs' = Without(configs, mutex.config), GoOn("delete") \/ Release
        PROVE  KeyInv'
    <2>1. /\ DOMAIN configs' = DOMAIN configs \ {mutex.config}
          /\ \A y \in DOMAIN configs : y # mutex.config => configs'[y] = configs[y]
      BY <1>3, WithoutEntry
    <2>2. KeychainType' /\ ConfiguredKeysExist'
      BY <1>1, <2>1 DEF KeyInv, KeychainType, ConfiguredKeysExist
    <2>3. CASE Release
      BY <2>2, <2>3, ReleaseLeavesNothing DEF KeyInv
    <2>4. CASE GoOn("delete")
      <3>1. MutexType' /\ mutex'.task = "remove" /\ mutex'.config = mutex.config
        BY <1>1, <2>4, TaskGoesOn
      <3>2. UpsertIsBacked' /\ DeletedIsUnused'
        BY <2>1, <3>1 DEF UpsertIsBacked, DeletedIsUnused, UsesKeychain
      <3> QED
        BY <2>2, <3>1, <3>2 DEF KeyInv
    <2> QED
      BY <1>3, <2>3, <2>4
  <1> QED
    BY <1>2, <1>3 DEF RemoveConfig, AfterUpsert

LEMMA DeleteKeyKeeps ==
    ASSUME KeyInv, DeleteKey
    PROVE  KeyInv'
  <1>1. /\ ~UsesKeychain(mutex.config) /\ Release /\ UNCHANGED <<configs, unflushed>>
    BY DEF DeleteKey, KeyInv, DeletedIsUnused
  <1>2. CASE UNCHANGED keychain
    BY <1>1, <1>2, ReleaseLeavesNothing DEF KeyInv, KeychainType, ConfiguredKeysExist
  <1>3. CASE keychain' = Without(keychain, mutex.config)
    <2>1. /\ DOMAIN keychain' = DOMAIN keychain \ {mutex.config}
          /\ \A y \in DOMAIN keychain : y # mutex.config => keychain'[y] = keychain[y]
      BY <1>3, WithoutEntry
    <2> QED
      BY <1>1, <2>1, ReleaseLeavesNothing
         DEF KeyInv, KeychainType, ConfiguredKeysExist, UsesKeychain
  <1> QED
    BY <1>2, <1>3 DEF DeleteKey

-----------------------------------------------------------------------------
LEMMA KeyInit == Init => KeyInv
  BY FreeHasNoTask DEF Init, KeyInv, MutexType, KeychainType, UpsertIsBacked, DeletedIsUnused,
                       ConfiguredKeysExist

LEMMA KeyStep == KeyInv /\ [Next]_vars => KeyInv'
  <1> SUFFICES ASSUME KeyInv, [Next]_vars PROVE KeyInv'
    OBVIOUS
  <1>1. ASSUME NEW c \in Config, NEW s \in Source, NEW v \in BOOLEAN,
               NEW key \in {{}} \cup {{x} : x \in Key}, BeginUpsert(c, s, key, v)
        PROVE  KeyInv'
    <2>1. key \in SUBSET Key
      OBVIOUS
    <2> QED
      BY <1>1, <2>1, BeginUpsertKeeps
  <1>2. ASSUME NEW c \in Config, BeginRemove(c) PROVE KeyInv'
    BY <1>2, BeginRemoveKeeps
  <1>3. CASE BeginDiscover
    <2>1. mutex' \in DiscoverTask /\ mutex'.task = "discover"
      BY <1>3 DEF BeginDiscover, DiscoverTask
    <2> QED
      BY <1>3, <2>1 DEF BeginDiscover, KeyInv, MutexType, KeychainType, UpsertIsBacked,
                        DeletedIsUnused, ConfiguredKeysExist
  <1>4. CASE EndDiscover
    BY <1>4, ReleaseLeavesNothing DEF EndDiscover, KeyInv, KeychainType, ConfiguredKeysExist
  <1>5. ASSUME NEW k \in Call, LoadPair(k) \/ CallStep(k) PROVE KeyInv'
    BY <1>5, SettingsKept DEF LoadPair, CallStep, Prepare, Ask, BeginStore, CreateFolder,
                              WriteRecord, RemoveFolder, StoreFile, OtherSettings
  <1>6. ASSUME NEW k \in Call, NEW t \in Target, NEW pair \in [Side -> Config],
               StartCall(k, t, pair)
        PROVE  KeyInv'
    BY <1>6, SettingsKept DEF StartCall, OtherSettings
  <1>7. CASE Crash
    <2>1. Release /\ UNCHANGED <<configs, keychain, unflushed>>
      BY <1>7 DEF Crash, Release
    <2> QED
      BY <2>1, ReleaseLeavesNothing DEF KeyInv, KeychainType, ConfiguredKeysExist
  <1>8. CASE UNCHANGED vars
    BY <1>8, SettingsKept DEF vars
  <1>9. CASE SetKey \/ WriteConfig \/ RefuseConfig \/ RestoreKey \/ RemoveConfig \/ DeleteKey
    BY <1>9, SetKeyKeeps, WriteConfigKeeps, RefuseConfigKeeps, RestoreKeyKeeps,
       RemoveConfigKeeps, DeleteKeyKeeps
  <1> QED
    BY <1>1, <1>2, <1>3, <1>4, <1>5, <1>6, <1>7, <1>8, <1>9 DEF Next, User, Change

(* A configuration that takes its key from the credential vault finds one there, wherever a    *)
(* change fails or the process ends (upsert, remove), for any number of configurations, keys,  *)
(* failures and crashes.                                                                        *)
THEOREM ConfiguredKeysAreKept == Spec => []ConfiguredKeysExist
  <1>1. KeyInv => ConfiguredKeysExist
    BY DEF KeyInv
  <1> QED
    BY <1>1, KeyInit, KeyStep, PTL DEF Spec

-----------------------------------------------------------------------------
(* The comparisons on disk.  A folder without a record belongs to a call that *)
(* is about to write it, or to remove the folder; what is written was valid   *)
(* when the call began to store it, and the call still has it.                *)

HasRecord(c) == c = [step |-> c.step, target |-> c.target, record |-> c.record]

CallsHaveRecords ==
    /\ calls = [k \in Call |-> calls[k]]
    /\ \A k \in Call : calls[k].step \in {"store", "folder", "record"} => HasRecord(calls[k])
    /\ \A k \in Call : calls[k].step \in {"folder", "record"} => ValidRecord(calls[k].record)

RecordsAreValid == \A f \in DOMAIN records : ValidRecord(records[f])

FoldersAreTended ==
    /\ folders \subseteq Call /\ IsFiniteSet(folders)
    /\ \A k \in folders : k \in DOMAIN records \/ calls[k].step \in Writing \cup {"cut"}

ListInv == CallsHaveRecords /\ RecordsAreValid /\ FoldersAreTended

LEMMA ListInit == Init => ListInv
  BY FS_EmptySet DEF Init, ListInv, CallsHaveRecords, RecordsAreValid, FoldersAreTended, NoCall

(* The steps that leave the files alone, and bring no call to a folder. *)
LEMMA OtherStepsKeep ==
    ASSUME ListInv, NEW k \in Call, NEW c, calls' = [calls EXCEPT ![k] = c],
           c.step \notin {"folder", "record", "tidy"}, c.step = "store" => HasRecord(c),
           ~At(k, "record"), ~At(k, "tidy"), ~At(k, "cut"), UNCHANGED stored
    PROVE  ListInv'
  <1>1. /\ calls'[k] = c /\ \A z \in Call : z # k => calls'[z] = calls[z]
        /\ calls' = [z \in Call |-> calls'[z]]
    BY DEF ListInv, CallsHaveRecords
  <1>2. CallsHaveRecords'
    BY <1>1 DEF ListInv, CallsHaveRecords
  <1>3. FoldersAreTended'
    BY <1>1 DEF ListInv, FoldersAreTended, Writing, stored, At
  <1> QED
    BY <1>2, <1>3 DEF ListInv, RecordsAreValid, stored

(* A call that goes on with its record. *)
LEMMA RecordGoesOn ==
    ASSUME NEW c, HasRecord(c), NEW step, NEW d, d = [c EXCEPT !.step = step]
    PROVE  HasRecord(d) /\ d.step = step /\ d.record = c.record
  BY DEF HasRecord

LEMMA GotoKeepsOthers ==
    ASSUME CallsHaveRecords, NEW k \in Call, NEW step, Goto(k, step)
    PROVE  /\ calls' = [calls EXCEPT ![k] = [calls[k] EXCEPT !.step = step]]
           /\ calls'[k] = [calls[k] EXCEPT !.step = step]
           /\ \A z \in Call : z # k => calls'[z] = calls[z]
           /\ calls' = [z \in Call |-> calls'[z]]
  BY DEF CallsHaveRecords, Goto

LEMMA EndedHasNoFolder == Ended.step = "ended"
  BY DEF Ended

LEMMA EndKeepsOthers ==
    ASSUME CallsHaveRecords, NEW k \in Call, End(k)
    PROVE  /\ calls' = [calls EXCEPT ![k] = Ended] /\ calls'[k] = Ended
           /\ \A z \in Call : z # k => calls'[z] = calls[z]
           /\ calls' = [z \in Call |-> calls'[z]]
           /\ CallsHaveRecords'
  <1>1. /\ calls' = [calls EXCEPT ![k] = Ended] /\ calls'[k] = Ended
        /\ \A z \in Call : z # k => calls'[z] = calls[z]
        /\ calls' = [z \in Call |-> calls'[z]]
    BY DEF CallsHaveRecords, End
  <1> QED
    BY <1>1, EndedHasNoFolder DEF CallsHaveRecords

LEMMA BeginStoreKeeps ==
    ASSUME ListInv, NEW k \in Call, BeginStore(k)
    PROVE  ListInv'
  <1>1. At(k, "store") /\ HasRecord(calls[k]) /\ UNCHANGED stored
    BY DEF BeginStore, OtherSettings, At, ListInv, CallsHaveRecords
  <1>2. CASE End(k)
    BY <1>1, <1>2, EndKeepsOthers, EndedHasNoFolder, OtherStepsKeep DEF ListInv, At
  <1>3. CASE Goto(k, "folder") /\ ValidRecord(calls[k].record)
    <2>1. /\ calls'[k] = [calls[k] EXCEPT !.step = "folder"]
          /\ \A z \in Call : z # k => calls'[z] = calls[z]
          /\ calls' = [z \in Call |-> calls'[z]]
      BY <1>3, GotoKeepsOthers DEF ListInv
    <2>2. /\ HasRecord(calls'[k]) /\ calls'[k].step = "folder"
          /\ calls'[k].record = calls[k].record
      BY <1>1, <2>1, RecordGoesOn
    <2>3. CallsHaveRecords'
      BY <1>1, <1>3, <2>1, <2>2 DEF ListInv, CallsHaveRecords
    <2>4. FoldersAreTended' /\ RecordsAreValid'
      BY <1>1, <2>1 DEF ListInv, FoldersAreTended, RecordsAreValid, Writing, stored, At
    <2> QED
      BY <1>1, <2>3, <2>4 DEF ListInv
  <1> QED
    BY <1>2, <1>3 DEF BeginStore

LEMMA CreateFolderKeeps ==
    ASSUME ListInv, NEW k \in Call, CreateFolder(k)
    PROVE  ListInv'
  <1>1. At(k, "folder") /\ UNCHANGED records
    BY DEF CreateFolder, OtherSettings
  <1>2. HasRecord(calls[k]) /\ ValidRecord(calls[k].record)
    BY <1>1 DEF At, ListInv, CallsHaveRecords
  <1>3. CASE folders' = folders \cup {k} /\ Goto(k, "record") /\ UNCHANGED faults
    <2>1. /\ calls'[k] = [calls[k] EXCEPT !.step = "record"]
          /\ \A z \in Call : z # k => calls'[z] = calls[z]
          /\ calls' = [z \in Call |-> calls'[z]]
      BY <1>3, GotoKeepsOthers DEF ListInv
    <2>2. /\ HasRecord(calls'[k]) /\ calls'[k].step = "record"
          /\ calls'[k].record = calls[k].record
      BY <1>2, <2>1, RecordGoesOn
    <2>3. CallsHaveRecords'
      BY <1>2, <1>3, <2>1, <2>2 DEF ListInv, CallsHaveRecords
    <2>4. FoldersAreTended' /\ RecordsAreValid'
      BY <1>1, <1>3, <2>1, <2>2, FS_AddElement
      DEF ListInv, FoldersAreTended, RecordsAreValid, Writing
    <2> QED
      BY <1>1, <1>3, <2>3, <2>4 DEF ListInv
  <1>4. CASE End(k) /\ UNCHANGED folders
    <2>1. /\ calls'[k] = Ended /\ CallsHaveRecords'
          /\ \A z \in Call : z # k => calls'[z] = calls[z]
      BY <1>4, EndKeepsOthers DEF ListInv
    <2>2. FoldersAreTended' /\ RecordsAreValid'
      BY <1>1, <1>4, <2>1 DEF ListInv, FoldersAreTended, RecordsAreValid, Writing, At
    <2> QED
      BY <2>1, <2>2 DEF ListInv
  <1> QED
    BY <1>3, <1>4 DEF CreateFolder

(* A record that a call writes is valid. *)
LEMMA WrittenIsValid ==
    ASSUME RecordsAreValid, NEW k, NEW r, ValidRecord(r), records' = With(records, k, r)
    PROVE  RecordsAreValid' /\ DOMAIN records' = DOMAIN records \cup {k}
  <1>1. /\ DOMAIN records' = DOMAIN records \cup {k} /\ records'[k] = r
        /\ \A f \in DOMAIN records : f # k => records'[f] = records[f]
    BY DEF With
  <1>2. \A f \in DOMAIN records' : records'[f] = r \/ (f \in DOMAIN records /\ records'[f] = records[f])
    BY <1>1
  <1> QED
    BY <1>1, <1>2 DEF RecordsAreValid

LEMMA WriteRecordKeeps ==
    ASSUME ListInv, NEW k \in Call, WriteRecord(k)
    PROVE  ListInv'
  <1>1. At(k, "record") /\ UNCHANGED folders
    BY DEF WriteRecord
  <1>2. HasRecord(calls[k]) /\ ValidRecord(calls[k].record)
    BY <1>1 DEF At, ListInv, CallsHaveRecords
  <1>3. CASE records' = With(records, k, calls[k].record) /\ End(k)
    <2>1. /\ calls'[k] = Ended /\ CallsHaveRecords'
          /\ \A z \in Call : z # k => calls'[z] = calls[z]
      BY <1>3, EndKeepsOthers DEF ListInv
    <2>2. RecordsAreValid' /\ DOMAIN records' = DOMAIN records \cup {k}
      BY <1>2, <1>3, WrittenIsValid DEF ListInv
    <2>3. FoldersAreTended'
      BY <1>1, <2>1, <2>2 DEF ListInv, FoldersAreTended
    <2> QED
      BY <2>1, <2>2, <2>3 DEF ListInv
  <1>4. CASE Goto(k, "tidy") /\ UNCHANGED records
    <2>1. /\ calls'[k] = [calls[k] EXCEPT !.step = "tidy"]
          /\ \A z \in Call : z # k => calls'[z] = calls[z]
          /\ calls' = [z \in Call |-> calls'[z]]
      BY <1>4, GotoKeepsOthers DEF ListInv
    <2>2. calls'[k].step = "tidy"
      BY <1>2, <2>1, RecordGoesOn
    <2>3. CallsHaveRecords'
      BY <2>1, <2>2 DEF ListInv, CallsHaveRecords
    <2>4. FoldersAreTended' /\ RecordsAreValid'
      BY <1>1, <1>4, <2>1, <2>2 DEF ListInv, FoldersAreTended, RecordsAreValid, Writing
    <2> QED
      BY <2>3, <2>4 DEF ListInv
  <1> QED
    BY <1>3, <1>4 DEF WriteRecord

\* A call that ends without its record keeps the directory, or has removed it.
LEMMA RemoveFolderKeeps ==
    ASSUME ListInv, NEW k \in Call, RemoveFolder(k)
    PROVE  ListInv'
  <1>1. PICK c \in {Ended, Cut} :
           /\ calls' = [calls EXCEPT ![k] = c]
           /\ folders' = folders \ {k} \/ (folders' = folders /\ c = Cut)
    BY DEF RemoveFolder
  <1>2. UNCHANGED records
    BY DEF RemoveFolder
  <1>3. /\ calls'[k] = c /\ \A z \in Call : z # k => calls'[z] = calls[z]
        /\ calls' = [z \in Call |-> calls'[z]]
    BY <1>1 DEF ListInv, CallsHaveRecords
  <1>4. CallsHaveRecords' /\ RecordsAreValid'
    BY <1>1, <1>2, <1>3 DEF ListInv, CallsHaveRecords, RecordsAreValid, Ended, Cut
  <1>5. FoldersAreTended'
    BY <1>1, <1>2, <1>3, FS_RemoveElement DEF ListInv, FoldersAreTended, Cut
  <1> QED
    BY <1>4, <1>5 DEF ListInv

LEMMA StoreFileKeeps ==
    ASSUME ListInv, NEW k \in Call, StoreFile(k)
    PROVE  ListInv'
  <1>1. At(k, "store") /\ End(k) /\ UNCHANGED folders
    BY DEF StoreFile
  <1>2. /\ calls'[k] = Ended /\ CallsHaveRecords'
        /\ \A z \in Call : z # k => calls'[z] = calls[z]
    BY <1>1, EndKeepsOthers DEF ListInv
  <1>3. RecordsAreValid' /\ DOMAIN records \subseteq DOMAIN records'
    BY WrittenIsValid DEF StoreFile, ListInv, RecordsAreValid
  <1>4. FoldersAreTended'
    BY <1>1, <1>2, <1>3 DEF ListInv, FoldersAreTended, Writing, At
  <1> QED
    BY <1>2, <1>3, <1>4 DEF ListInv

(* The steps of a change of the settings touch no comparison. *)
LEMMA ChangesKeep ==
    ASSUME ListInv, UNCHANGED <<calls, stored>>
    PROVE  ListInv'
  BY DEF ListInv, CallsHaveRecords, RecordsAreValid, FoldersAreTended, stored

LEMMA ListStep == ListInv /\ [Next]_vars => ListInv'
  <1> SUFFICES ASSUME ListInv, [Next]_vars PROVE ListInv'
    OBVIOUS
  <1>1. CASE User
    <2>1. ASSUME NEW k \in Call, NEW t \in Target, NEW pair \in [Side -> Config],
                 StartCall(k, t, pair)
          PROVE  ListInv'
      <3> DEFINE c == [step |-> "load", target |-> t, pair |-> pair]
      <3>1. /\ At(k, "idle") /\ calls' = [calls EXCEPT ![k] = c] /\ c.step = "load"
            /\ UNCHANGED stored
        BY <2>1 DEF StartCall, OtherSettings
      <3> HIDE DEF c
      <3> QED
        BY <3>1, OtherStepsKeep DEF At
    <2>2. ASSUME NEW c \in Config, NEW s \in Source, NEW v \in BOOLEAN,
                 NEW key \in {{}} \cup {{x} : x \in Key}, BeginUpsert(c, s, key, v)
          PROVE  ListInv'
      BY <2>2, ChangesKeep DEF BeginUpsert, OtherCalls
    <2>3. ASSUME NEW c \in Config, BeginRemove(c) PROVE ListInv'
      BY <2>3, ChangesKeep DEF BeginRemove, OtherCalls
    <2>4. CASE BeginDiscover
      BY <2>4, ChangesKeep DEF BeginDiscover, OtherCalls
    <2> QED
      BY <1>1, <2>1, <2>2, <2>3, <2>4 DEF User
  <1>2. CASE Change
    <2>1. CASE SetKey
      BY <2>1, ChangesKeep DEF SetKey, OtherCalls
    <2>2. CASE WriteConfig
      BY <2>2, ChangesKeep DEF WriteConfig, OtherCalls
    <2>3. CASE RefuseConfig
      BY <2>3, ChangesKeep DEF RefuseConfig, OtherCalls
    <2>4. CASE RestoreKey
      BY <2>4, ChangesKeep DEF RestoreKey, OtherCalls
    <2>5. CASE RemoveConfig
      BY <2>5, ChangesKeep DEF RemoveConfig, OtherCalls
    <2>6. CASE DeleteKey
      BY <2>6, ChangesKeep DEF DeleteKey, OtherCalls
    <2>7. CASE EndDiscover
      BY <2>7, ChangesKeep DEF EndDiscover, OtherCalls
    <2> QED
      BY <1>2, <2>1, <2>2, <2>3, <2>4, <2>5, <2>6, <2>7 DEF Change
  <1>3. ASSUME NEW k \in Call, LoadPair(k) PROVE ListInv'
    <2>1. At(k, "load") /\ UNCHANGED stored
      BY <1>3 DEF LoadPair, OtherSettings
    <2>2. CASE End(k)
      BY <2>1, <2>2, EndKeepsOthers, EndedHasNoFolder, OtherStepsKeep DEF ListInv, At
    <2>3. CASE ~End(k)
      <3> DEFINE c == [step |-> "prepare", target |-> calls[k].target,
                       silent |-> {side \in Side : ~Answerable(calls[k].pair[side])}]
      <3>1. calls' = [calls EXCEPT ![k] = c]
        BY <1>3, <2>3 DEF LoadPair
      <3>2. c.step = "prepare"
        OBVIOUS
      <3> HIDE DEF c
      <3> QED
        BY <2>1, <3>1, <3>2, OtherStepsKeep DEF At
    <2> QED
      BY <2>2, <2>3
  <1>4. ASSUME NEW k \in Call, Prepare(k) PROVE ListInv'
    <2>1. At(k, "prepare") /\ UNCHANGED stored
      BY <1>4 DEF Prepare, OtherSettings
    <2>2. CASE End(k)
      BY <2>1, <2>2, EndKeepsOthers, EndedHasNoFolder, OtherStepsKeep DEF ListInv, At
    <2>3. CASE Goto(k, "ask")
      <3>1. PICK c : c = [calls[k] EXCEPT !.step = "ask"]
        OBVIOUS
      <3>2. calls' = [calls EXCEPT ![k] = c]
        BY <2>3, <3>1, GotoKeepsOthers DEF ListInv
      <3>3. c.step = "ask"
        BY <3>1 DEF ListInv, CallsHaveRecords
      <3> QED
        BY <2>1, <3>2, <3>3, OtherStepsKeep DEF At
    <2> QED
      BY <1>4, <2>2, <2>3 DEF Prepare
  <1>5. ASSUME NEW k \in Call, Ask(k) PROVE ListInv'
    <2>1. At(k, "ask") /\ UNCHANGED stored
      BY <1>5 DEF Ask, OtherSettings
    <2>2. PICK t, r : calls' = [calls EXCEPT ![k] = [step |-> "store", target |-> t, record |-> r]]
      BY <1>5 DEF Ask
    <2>3. PICK c : c = [step |-> "store", target |-> t, record |-> r]
      OBVIOUS
    <2>4. c.step = "store" /\ HasRecord(c)
      BY <2>3 DEF HasRecord
    <2> QED
      BY <2>1, <2>2, <2>3, <2>4, OtherStepsKeep DEF At
  <1>6. ASSUME NEW k \in Call, CallStep(k) PROVE ListInv'
    BY <1>4, <1>5, <1>6, BeginStoreKeeps, CreateFolderKeeps, WriteRecordKeeps, RemoveFolderKeeps,
       StoreFileKeeps DEF CallStep
  <1>7. CASE Crash
    <2>1. /\ UNCHANGED stored
          /\ \A k \in Call : /\ calls'[k].step \in {"idle", "ended", "cut"}
                             /\ calls[k].step \in Writing \cup {"cut"} => calls'[k].step = "cut"
          /\ calls' = [k \in Call |-> calls'[k]]
      BY <1>7 DEF Crash, NoCall, Ended, Cut, Writing
    <2>2. CallsHaveRecords'
      BY <2>1 DEF CallsHaveRecords
    <2>3. FoldersAreTended' /\ RecordsAreValid'
      BY <2>1 DEF ListInv, FoldersAreTended, RecordsAreValid, stored
    <2> QED
      BY <2>2, <2>3 DEF ListInv
  <1>8. CASE UNCHANGED vars
    BY <1>8, ChangesKeep DEF vars
  <1> QED
    BY <1>1, <1>2, <1>3, <1>6, <1>7, <1>8 DEF Next

(* All comparisons on disk can be read and the next one stored, unless a directory waits for  *)
(* its record or was left without one by a comparison that was cut short, or comparisons that *)
(* were stored together went past the limit (persist_comparison_record): for any number of    *)
(* calls, models, answers and configurations, any limit, and any failures and crashes.        *)
THEOREM ComparisonsCanBeListed == Spec => []ComparisonsStayListable
  <1>1. ASSUME ListInv PROVE ComparisonsStayListable
    <2>1. CASE \A f \in folders : f \in DOMAIN records
      <3>1. \A f \in folders : ValidRecord(records[f])
        BY <1>1, <2>1 DEF ListInv, RecordsAreValid
      <3>2. Cardinality(folders) \in Nat /\ MaxRecords \in Nat
        BY <1>1, FS_CardinalityType, RuntimeBounds DEF ListInv, FoldersAreTended
      <3> QED
        BY <2>1, <3>1, <3>2 DEF ComparisonsStayListable, Lists
    <2>2. CASE \E f \in folders : f \notin DOMAIN records
      BY <1>1, <2>2 DEF ListInv, FoldersAreTended, ComparisonsStayListable
    <2> QED
      BY <2>1, <2>2
  <1> QED
    BY <1>1, ListInit, ListStep, PTL DEF Spec
=============================================================================
