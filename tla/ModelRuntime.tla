---------------------------- MODULE ModelRuntime ----------------------------
(***************************************************************************)
(* The models the user configures, with their keys, and the comparisons    *)
(* that are run with them (src-tauri/src/model_runtime/mod.rs, config.rs,  *)
(* credential.rs, store.rs, file_semantics.rs).                            *)
(*                                                                         *)
(* A configuration lives in one file and its key in the system's           *)
(* credential vault; a change writes one after the other, under the mutex  *)
(* ModelRuntimeAuthority.operation, which the discovery of models also     *)
(* holds.  A comparison takes a permit for its target, a snapshot of two   *)
(* configurations under the mutex, and runs without it; its record is a    *)
(* directory with one file, or for the file task one file.                 *)
(*                                                                         *)
(* Abstractions.  Of a configuration only the source of its key is told    *)
(* apart, and "environment" stands for one without authentication too; a   *)
(* request that validate_input refuses is one flag.  Comparisons have      *)
(* fresh identifiers, here those of the calls.  The two providers and the  *)
(* Agent answer in one step, for nothing is read or written meanwhile.     *)
(***************************************************************************)
EXTENDS ComparisonProtocol

CONSTANTS
    Config,             \* configuration identifiers
    Key,                \* keys that a user enters
    Call,               \* calls of run_model_comparison and run_file_semantic_comparison
    Target,             \* the keys of the permits: a document, or an item of a proposal
    Envelope,           \* what is prepared for each target
    Proposals,          \* the answers of a provider to each target
    Verdicts,           \* the answers of the Agent to each target
    MaxConfigs,         \* MAX_CONFIGS
    MaxRecords,         \* MAX_COMPARISON_RECORDS
    MaxChanges,         \* bound: changes of the configurations
    MaxFaults,          \* bound: file and credential operations that fail
    MaxCrashes          \* bound: ends of the process

ASSUME RuntimeBounds == 
    {MaxConfigs, MaxRecords, MaxChanges, MaxFaults, MaxCrashes} \subseteq Nat

\* A provider may fail, whatever it is asked.
ASSUME ProvidersMayFail ==
    \A t \in Target : /\ \E answer \in Proposals[t] : answer.value = {}
                      /\ \E answer \in Verdicts[t] : answer.value = {}

VARIABLES
    configs,            \* model-runtime-v1.json: the source of each configuration's key
    keychain,           \* the keys in the credential vault
    mutex,              \* who holds ModelRuntimeAuthority.operation
    unflushed,          \* the configurations whose directory could not be synced after the rename
    permits,            \* active_comparisons
    calls,              \* the state of each call
    folders,            \* .aiks/comparisons/<comparison>
    records,            \* the record files, of both tasks
    changes, faults, crashes

settings == <<configs, keychain, mutex, unflushed>>
stored == <<folders, records>>
vars == <<settings, permits, calls, stored, changes, faults, crashes>>

-----------------------------------------------------------------------------
Source == {"environment", "keychain"}
Free == [task |-> "none"]
NoCall == [step |-> "idle"]
Ended == [step |-> "ended"]
Cut == [step |-> "cut"]     \* ended, after it created a directory and before it wrote the record

Fault == faults < MaxFaults /\ faults' = faults + 1
Without(f, x) == [y \in DOMAIN f \ {x} |-> f[y]]
With(f, x, v) == [y \in DOMAIN f \cup {x} |-> IF y = x THEN v ELSE f[y]]

UsesKeychain(c) == c \in DOMAIN configs /\ configs[c] = "keychain"

Init ==
    /\ configs = <<>> /\ keychain = <<>> /\ mutex = Free /\ unflushed = {}
    /\ permits = {} /\ calls = [k \in Call |-> NoCall]
    /\ folders = {} /\ records = <<>>
    /\ changes = 0 /\ faults = 0 /\ crashes = 0

-----------------------------------------------------------------------------
(* Changing a configuration.  The change holds the mutex from its first step *)
(* to its last; key is the key entered, as an option, and before what the    *)
(* credential vault held.                                                    *)

Held(task, step) == mutex.task = task /\ mutex.step = step
GoOn(step) == mutex' = [mutex EXCEPT !.step = step]
Release == mutex' = Free

OtherCalls == UNCHANGED <<permits, calls, stored, crashes>>

BeginChange == changes < MaxChanges /\ changes' = changes + 1 /\ mutex = Free

\* A keychain configuration needs a key: one that was entered, or the one that is stored.
BeginUpsert(c, source, key, valid) ==
    /\ BeginChange
    /\ source # "keychain" => key = {}
    /\ source = "keychain" => key # {} \/ c \in DOMAIN keychain
    /\ mutex' = [task |-> "upsert", step |-> IF key # {} THEN "key" ELSE "file",
                 config |-> c, source |-> source, key |-> key, valid |-> valid,
                 before |-> {keychain[x] : x \in {c} \cap DOMAIN keychain},
                 leaves |-> UsesKeychain(c) /\ source # "keychain"]
    /\ UNCHANGED <<configs, keychain, unflushed, faults>> /\ OtherCalls

SetKey ==
    /\ Held("upsert", "key")
    /\ \/ /\ \E key \in mutex.key : keychain' = With(keychain, mutex.config, key)
          /\ GoOn("file") /\ UNCHANGED faults
       \/ Fault /\ Release /\ UNCHANGED keychain
    /\ UNCHANGED <<configs, unflushed>> /\ OtherCalls /\ UNCHANGED changes

AcceptsUpsert ==
    mutex.valid /\ (mutex.config \in DOMAIN configs \/ Cardinality(DOMAIN configs) < MaxConfigs)

\* What follows a change of the file, and what follows its refusal.
AfterUpsert == IF mutex.leaves THEN GoOn("delete") ELSE Release
AfterRefusal == IF mutex.key # {} THEN GoOn("restore") ELSE Release

WriteConfig ==
    /\ Held("upsert", "file") /\ AcceptsUpsert
    /\ configs' = With(configs, mutex.config, mutex.source)
    /\ \/ /\ unflushed' = unflushed \ {mutex.config}
          /\ AfterUpsert /\ UNCHANGED faults
       \/ /\ Fault
          /\ unflushed' = unflushed \cup {mutex.config}
          /\ AfterRefusal
    /\ UNCHANGED keychain /\ OtherCalls /\ UNCHANGED changes

RefuseConfig ==
    /\ Held("upsert", "file")
    /\ \/ ~AcceptsUpsert /\ UNCHANGED faults
       \/ Fault
    /\ AfterRefusal
    /\ UNCHANGED <<configs, keychain, unflushed>> /\ OtherCalls /\ UNCHANGED changes

\* Mutant: the restoration deletes the key that was entered.
RestoredByDeletion == Without(keychain, mutex.config)

Restored ==
    IF mutex.before = {} THEN Without(keychain, mutex.config)
    ELSE With(keychain, mutex.config, CHOOSE key \in mutex.before : TRUE)

\* The restoration is best effort.
RestoreKey ==
    /\ Held("upsert", "restore")
    /\ \/ keychain' = Restored /\ UNCHANGED faults
       \/ Fault /\ UNCHANGED keychain
    /\ Release
    /\ UNCHANGED <<configs, unflushed>> /\ OtherCalls /\ UNCHANGED changes

BeginRemove(c) ==
    /\ BeginChange /\ c \in DOMAIN configs
    /\ mutex' = [task |-> "remove", step |-> "file", config |-> c, leaves |-> UsesKeychain(c)]
    /\ UNCHANGED <<configs, keychain, unflushed, faults>> /\ OtherCalls

\* An error of the directory's sync comes after the rename, and ends the removal.
RemoveConfig ==
    /\ Held("remove", "file")
    /\ \/ /\ configs' = Without(configs, mutex.config)
          /\ \/ AfterUpsert /\ UNCHANGED faults
             \/ Fault /\ Release
       \/ Fault /\ Release /\ UNCHANGED configs
    /\ UNCHANGED <<keychain, unflushed>> /\ OtherCalls /\ UNCHANGED changes

DeleteKey ==
    /\ mutex.task \in {"upsert", "remove"} /\ mutex.step = "delete"
    /\ \/ keychain' = Without(keychain, mutex.config) /\ UNCHANGED faults
       \/ Fault /\ UNCHANGED keychain
    /\ Release
    /\ UNCHANGED <<configs, unflushed>> /\ OtherCalls /\ UNCHANGED changes

\* The discovery of models asks a server while it holds the mutex.
BeginDiscover ==
    /\ mutex = Free
    /\ mutex' = [task |-> "discover", step |-> "ask"]
    /\ UNCHANGED <<configs, keychain, unflushed, faults>> /\ OtherCalls /\ UNCHANGED changes

EndDiscover ==
    /\ Held("discover", "ask") /\ Release
    /\ UNCHANGED <<configs, keychain, unflushed, faults>> /\ OtherCalls /\ UNCHANGED changes

-----------------------------------------------------------------------------
(* A comparison. *)

At(k, step) == calls[k].step = step
Goto(k, step) == calls' = [calls EXCEPT ![k].step = step]
OtherSettings == UNCHANGED <<settings, changes, crashes>>

\* Mutant: an error ends the call without its permit.
EndWithPermit(k) ==
    /\ calls' = [calls EXCEPT ![k] = Ended]
    /\ permits' = IF At(k, "prepare") THEN permits ELSE permits \ {calls[k].target}

\* A call ends, and drops its permit.
End(k) ==
    /\ calls' = [calls EXCEPT ![k] = Ended]
    /\ permits' = permits \ {calls[k].target}

StartCall(k, t, pair) ==
    /\ At(k, "idle") /\ t \notin permits
    /\ permits' = permits \cup {t}
    /\ calls' = [calls EXCEPT ![k] = [step |-> "load", target |-> t, pair |-> pair]]
    /\ UNCHANGED <<stored, faults>> /\ OtherSettings

\* A provider whose key is missing fails, and so does one that does not answer in time.
Answerable(c) == UsesKeychain(c) => c \in DOMAIN keychain

\* load_pair: both configurations at one moment, so between two changes.
LoadPair(k) ==
    /\ At(k, "load") /\ mutex = Free
    /\ LET pair == calls[k].pair
       IN  IF {pair[side] : side \in Side} \subseteq DOMAIN configs
             THEN /\ calls' = [calls EXCEPT ![k] =
                        [step |-> "prepare", target |-> @.target,
                         silent |-> {side \in Side : ~Answerable(pair[side])}]]
                  /\ UNCHANGED permits
             ELSE End(k)
    /\ UNCHANGED <<stored, faults>> /\ OtherSettings

\* The document, the source or the profile may not be there any more.
Prepare(k) ==
    /\ At(k, "prepare")
    /\ \/ Goto(k, "ask") /\ UNCHANGED permits
       \/ End(k)
    /\ UNCHANGED <<stored, faults>> /\ OtherSettings

\* The providers answer, then the Agent's provider if it is asked.
Ask(k) ==
    /\ At(k, "ask")
    /\ \E answers \in [Side -> Proposals[calls[k].target]], verdict \in Verdicts[calls[k].target] :
           /\ \A side \in calls[k].silent : answers[side].value = {}
           /\ "agent" \in calls[k].silent => verdict.value = {}
           /\ calls' = [calls EXCEPT ![k] =
                 [step |-> "store", target |-> @.target,
                  record |-> Comparison(Envelope[@.target], answers["desktop"],
                                        answers["agent"], verdict)]]
    /\ UNCHANGED <<permits, stored, faults>> /\ OtherSettings

Task(k) == Envelope[calls[k].target].task

\* inspect_comparison_records: every directory is read, and one too many is an error.
Lists ==
    /\ Cardinality(folders) <= MaxRecords
    /\ \A f \in folders : f \in DOMAIN records /\ ValidRecord(records[f])

\* The limit is tested here, and the directory created in a later step.
BeginStore(k) ==
    /\ At(k, "store") /\ Task(k) = "relations"
    /\ IF ValidRecord(calls[k].record) /\ Lists /\ Cardinality(folders) < MaxRecords
         THEN Goto(k, "folder") /\ UNCHANGED permits
         ELSE End(k)
    /\ UNCHANGED <<stored, faults>> /\ OtherSettings

CreateFolder(k) ==
    /\ At(k, "folder")
    /\ \/ /\ folders' = folders \cup {k}
          /\ Goto(k, "record") /\ UNCHANGED <<permits, faults>>
       \/ Fault /\ End(k) /\ UNCHANGED folders
    /\ UNCHANGED records /\ OtherSettings

\* Mutant: the folder of a failed write is not removed.
WriteOrLeaveFolder(k) ==
    /\ At(k, "record")
    /\ \/ records' = With(records, k, calls[k].record) /\ UNCHANGED faults
       \/ Fault /\ UNCHANGED records
    /\ End(k)
    /\ UNCHANGED folders /\ OtherSettings

WriteRecord(k) ==
    /\ At(k, "record")
    /\ \/ /\ records' = With(records, k, calls[k].record)
          /\ End(k) /\ UNCHANGED faults
       \/ Fault /\ Goto(k, "tidy") /\ UNCHANGED <<permits, records>>
    /\ UNCHANGED folders /\ OtherSettings

\* remove_dir after a failed write, best effort.
RemoveFolder(k) ==
    /\ At(k, "tidy")
    /\ \/ folders' = folders \ {k} /\ UNCHANGED faults /\ calls' = [calls EXCEPT ![k] = Ended]
       \/ Fault /\ UNCHANGED folders /\ calls' = [calls EXCEPT ![k] = Cut]
    /\ permits' = permits \ {calls[k].target}
    /\ UNCHANGED records /\ OtherSettings

\* persist_file_semantic_comparison: one file, and nothing to list.
StoreFile(k) ==
    /\ At(k, "store") /\ Task(k) = "file"
    /\ \/ /\ records' = IF ValidRecord(calls[k].record)
                           THEN With(records, k, calls[k].record) ELSE records
          /\ UNCHANGED faults
       \/ Fault /\ UNCHANGED records
    /\ End(k)
    /\ UNCHANGED folders /\ OtherSettings

-----------------------------------------------------------------------------
\* The steps of a call whose directory has no record yet.
Writing == {"record", "tidy"}

\* The files and the credential vault outlive the process.
Crash ==
    /\ crashes < MaxCrashes /\ crashes' = crashes + 1
    /\ mutex' = Free /\ permits' = {}
    /\ calls' = [k \in Call |-> CASE calls[k].step = "idle" -> NoCall
                                 [] calls[k].step \in Writing \cup {"cut"} -> Cut
                                 [] OTHER -> Ended]
    /\ UNCHANGED <<configs, keychain, unflushed, stored, changes, faults>>

User ==
    \/ \E c \in Config : BeginRemove(c)
    \/ \E c \in Config, s \in Source, v \in BOOLEAN : \E key \in {{}} \cup {{x} : x \in Key} :
           BeginUpsert(c, s, key, v)
    \/ BeginDiscover
    \/ \E k \in Call, t \in Target : \E pair \in [Side -> Config] :
           pair["desktop"] # pair["agent"] /\ StartCall(k, t, pair)

Change == SetKey \/ WriteConfig \/ RefuseConfig \/ RestoreKey \/ RemoveConfig \/ DeleteKey
          \/ EndDiscover

CallStep(k) ==
    \/ Prepare(k) \/ Ask(k)
    \/ BeginStore(k) \/ CreateFolder(k) \/ WriteRecord(k) \/ RemoveFolder(k) \/ StoreFile(k)

Next == User \/ Change \/ (\E k \in Call : LoadPair(k) \/ CallStep(k)) \/ Crash

Spec == Init /\ [][Next]_vars

(* Commands run to their end, for every request to a server has a timeout;   *)
(* a thread that waits for the mutex is not passed over for ever.            *)
Fairness == /\ WF_vars(Change)
            /\ \A k \in Call : WF_vars(CallStep(k)) /\ SF_vars(LoadPair(k))

FairSpec == Spec /\ Fairness

-----------------------------------------------------------------------------
(* A configuration that takes its key from the credential vault finds one    *)
(* there, at every moment, so in whatever step the process ends and whatever *)
(* operation fails, except when the directory could not be synced after the  *)
(* new file was in place: the error takes the key back, not the file (upsert,*)
(* remove).                                                                  *)
ConfiguredKeysExist ==
    \A c \in DOMAIN configs :
        configs[c] = "keychain" => c \in DOMAIN keychain \/ c \in unflushed

(* A comparison can be stored after those that are on disk, for all of them  *)
(* can be read, whatever fails and wherever the process ends, unless a       *)
(* directory waits for its record, or was left without one by a comparison   *)
(* that was cut short; or unless comparisons that were stored at one time    *)
(* all passed the test of the limit, for then inspect_comparison_records     *)
(* fails ever after (persist_comparison_record).                             *)
ComparisonsStayListable ==
    \/ Lists
    \/ Cardinality(folders) > MaxRecords
    \/ \E k \in folders \ DOMAIN records : calls[k].step \in Writing \cup {"cut"}

(* Whatever the models, the discovery of models and the file system do, a    *)
(* comparison ends and its target can be compared again (ComparisonPermit).  *)
TargetsComeFree == \A t \in Target : []<>(t \notin permits)
=============================================================================
