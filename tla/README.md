# TLA+ verification of AI Knowledge Sort

AI Knowledge Sort archives files the user drops on it into a *Vault*, keeps one verified original
of each, writes Markdown and graph knowledge about it, and lets agents read parts of it. The
program is a Rust core (`src-tauri/src`) that owns every file, and a TypeScript front end
(`src`) that only sends commands to it. What is hard to get right is in the core: file operations
that a crash may stop anywhere, blocking threads that work on the same files, plans that are
reviewed first and executed later, and audits that a later run must be able to read.

This directory models that core in TLA+, checks the models with TLC and proves the most important
of their invariants with TLAPS. Paths below are relative to `src-tauri/src` unless they start with
`src/`, `docs/` or `README.md`.

1. [The system](#the-system)
2. [Modules](#modules)
3. [Runs, bounds and fairness](#runs-bounds-and-fairness)
4. [What is proved](#what-is-proved)
5. [Divergences](#divergences)
6. [What is not modelled](#what-is-not-modelled)
7. [Plan](#plan)

## The system

### Components, their state and their operations

| component | state | operations |
| --- | --- | --- |
| Vault authority (`vault/mod.rs`) | in memory: the one authoritative Vault, its count of leases, prepared transfers with an expiry; on disk: `.aiks/vault.json`, `.aiks/vault-transfers/` | `authorize_path` (runs the three reconciliations, then publishes the Vault), `lease`, `prepare_transfer_path`, `confirm_transfer` |
| Vault records (`vault/records.rs`) | none | `write_new_bytes`: refuse a taken name, write a temporary file, look again, rename |
| Archive plans (`archive/plan.rs`) | in memory: single-use plans with an expiry | `create` (consumes a naming and a classification batch), `consume` |
| Archive transaction (`archive/transaction.rs`) | on disk: the record streams `.aiks/operations`, their anchors, staged files, pending and active registrations, `Originals/<digest>/<name>` | `commit_plan`/`execute_operation`, `cleanup_rejected_operation`, `verified_registered_original` and listings (which may anchor a stream), `reconcile_vault` |
| Archive undo (`archive/undo.rs`, `archive/undo/recovery.rs`) | in memory: plans; on disk: `.aiks/archive-undo/<undo>/`, `.aiks/undo-staging`, `.aiks/undo-trash`, `.aiks/undone-registrations` | `create_at`, `consume_at`, `execute_with` with its rollbacks, `operation_is_undone`, `reconcile_vault` |
| Source cleanup (`cleanup/`) | in memory: plans; on disk: `.aiks/cleanup/<plan>/` | `create_at`, `escalate_at` (permanent deletion), `consume_at`, `execute_with`, `reconcile_vault` |
| Discovery (`discovery/`) | in memory: single-use grants (30 s, 32), four work permits, reviewed sources (15 min, 32) | `issue_local_source_grant`, `propose_local_drop` (a blocking worker with a 5 s deadline), `resolve_selection` |
| Naming (`naming/`) | in memory: single-use batches | `propose`, `consume_at`; canonical names and collisions as a pure algorithm (`normalize.rs`) |
| Classification profiles (`profiles/`) | on disk, under a mutex: candidates, decisions, installed versions, activations; in memory: classification batches | `import`, `decide`, `reconcile_approved_decisions`, `ensure_activation`, `classify`; `remote.rs` downloads a candidate, `compiler.rs` makes one from a document |
| Knowledge (`knowledge/`) | on disk: revisions of one document per operation; in memory: one write permit per document | `open`, `save_document` |
| Graph (`graph/`) | on disk: at most 100 versions per relation; in memory: write permits | `propose`, `import`, `decide`, `inspect_graph` |
| Agent access (`agent_access/`) | on disk: grants, numbered audit events; in memory: selections, sessions, request identifiers already used | `select_paths`, `create_grant`, `revoke`, `open_session`, `authorize_request`, `close_session` |
| MCP transport (`mcp_transport/`) | in memory: the running HTTP server, a service with the caller of each session | `start`, `stop`, `initialize`, `list_tools`, `call_tool`; a stdio relay of frames |
| Model runtime (`model_runtime/`) | on disk: configurations, comparison records; in the keychain: credentials; in memory: active comparisons | `upsert`, `remove`, `discover`, `run_model_comparison`, `run_file_semantic_comparison` |
| Identity, evidence (`identity.rs`, `evidence_extraction.rs`) | none | SHA-256 of a file, text of a file |
| Shell (`lib.rs`, `main.rs`) | owns one of each registry above | starts the desktop, a smoke test or the stdio relay |
| Front end (`src/`) | selections, panes, the late answers of commands | sends commands; every one is checked again in the core |

### How they interact

A command of the front end runs on the asynchronous runtime; whatever touches files runs on a
blocking thread. A drop gives a *grant*, a grant a *proposal* of reviewed sources, a proposal a
naming and a classification *batch*, and both batches an archive *plan*; each is consumed by the
next and expires on its own. A confirmed plan takes a *lease* on the Vault and runs the archive
transaction. From then on the operation id is what undo, cleanup, knowledge, graph and agents
refer to, and all of them call `verified_registered_original`, which reads the archive's records,
its registration and **every** undo audit of the Vault. There is no lock on the Vault's files: a
lease only counts, so confirmed archives, undos, cleanups, saves and listings interleave at every
file operation. When a Vault is opened, `authorize_path` holds the authority lock and runs the
reconciliation of undo, then of archive, then of cleanup; an error of any of them refuses the
Vault.

Knowledge is saved under a permit per document, which is in memory while the revisions are on
disk. A graph relation cites a revision of a document; it is proposed by the user or imported from
a *comparison*, in which two configured models and an Agent answer the same question, and then
decided by the user. Agents act under a *grant* that the user gave over directories he selected: a
request passes the HTTP boundary, a service per MCP session, the authority (which writes its audit
first) and a tool, and nothing is locked from one to the next.

### What is hard, and what makes each component correct

| component | hard behaviour | what must hold |
| --- | --- | --- |
| Archive transaction | a crash between any two of a dozen file operations; a record whose write fails after the record in memory moved on; readers that write anchors; two operations with one destination; a source edited during the copy | only verified bytes are ever visible; a reported commit is never taken back; each operation ends in one anchored outcome; reopening always works and leaves no debris |
| Archive undo | the file is at its destination, in quarantine, in the trash or staged when the process stops; two undos of one operation; an archive of the same bytes afterwards; a knowledge save in between | the bytes stay in the Vault until the undo is committed; a failed undo leaves the archive as it was; a committed one stays retired; each end is reached |
| Source cleanup | several removals of which some fail; a plan escalated to permanent deletion; an undo that removes the retained original | the audit says what happened to the sources; one confirmation never serves two dispositions; the last original stays |
| Vault authority | plans in memory outlive an exchange of Vaults; a transfer between a plan's confirmation and its lease | no operation runs in a Vault that is no longer the authority; a plan abandoned on disk never executes |
| Registries of plans and batches | confirmation against expiry; limits; a batch consumed by a plan that then fails | one use each, and never a use of something not reviewed |
| Discovery | permits exchanged without a lock; a worker that outlives its deadline; overlapping roots and a budget | permits are counted and come back; a grant is walked once; the registry keeps its limit; what is not listed is disclosed |
| Knowledge, graph | read, compare and write as several steps; listings during a write; crashes in a relation's directory | revisions form a register; no write is lost; what is committed reads back; a decision rests on what was reviewed |
| Profiles | approval in three writes; two files that claim one version; imports from a URL or a model beside the commands | what is active was reviewed byte for byte; records never change; a batch uses the last approval |
| Agent access, MCP | a revocation or an expiry against a running call; failed writes; restarts | no session beyond its grant, no request authorized twice, no effect without its audit |
| Model runtime | a credential and its configuration in two stores; comparisons that list each other; a discovery that waits with the lock in its hand | a configured key exists; stored comparisons stay listable; a target comes free; whatever is answered can be stored, and what is concluded cites its evidence |

## Modules

| module | role | extends / instantiates |
| --- | --- | --- |
| `ArchiveTransaction` | the transaction, its readers and its reconciliation, one action per file operation | `ArchiveLifecycle` (refinement) |
| `ArchiveLifecycle` | what the archive promises: propose, expose, register or reject, nothing taken back | |
| `ArchiveUndo` | the undo and its reconciliation, one action per file operation | |
| `SourceCleanup` | the cleanup, its escalation and its reconciliation | |
| `OriginalCustody` | undo and cleanup over the same files | `ArchiveUndo`, an instance of `SourceCleanup` |
| `ArchiveReview` | from a reviewed proposal to the archive: naming and classification batches, plans, leases, transfers of authority | |
| `SourceWalk` | the walk of a dropped selection, as a function from a walk to the next | |
| `Discovery` | drop grants, work permits, deadlines, workers and proposals | `SourceWalk` |
| `RevisionRegister` | what the knowledge and the graph promise: a register with compare-and-set | |
| `KnowledgeStore` | the revisions of Markdown, write by write | `RevisionRegister` (refinement) |
| `GraphStore` | the versions of relations, write by write, over the documents they cite | `KnowledgeStore`, `RevisionRegister` (refinement) |
| `ProfileSchema` | profiles, their differences and the classification they propose, as operators | |
| `ProfileStore` | candidates, decisions, installed versions and activations, write by write | `ProfileSchema` |
| `ProfileSources` | imports from a URL and from the compiler beside the commands | `ProfileStore` |
| `AgentAccess` | the authority: selections, grants, sessions, requests, the audit and the state file | |
| `McpService` | the exchanges of Agents over the authority | `AgentAccess` |
| `ComparisonProtocol` | what models and the Agent may answer and what is concluded from it, as operators | |
| `ModelRuntime` | configurations and their keys, discovery of models, comparisons and their records | `ComparisonProtocol` |
| `...Proofs` | the proofs | the module they are about (`ArchiveReviewProofs`: `ArchiveReview` and `Discovery`) |
| `...MC` | values of the constants for TLC | |

### Conventions of the models

* A variable `pc`, or a record with a field `pc` or `step`, names the next file operation of a
  thread. In the archive modules `vault` is `closed` (no authority, or another Vault is it),
  `reconciling` (inside `authorize_path`), `open` or `refused` (`authorize_path` returned an error;
  the user may retry), and one step name is run by a live thread when `vault = "open"` and by the
  reconciliation when `vault = "reconciling"`, because the code calls the same helper from both.
* A file operation of the program that fails is an action (`CommitFails`, `AnchorFails`,
  `RemovalFails`, `StepFails`, `RefuseWrite`, `EventFails` ...) or an outcome of one (`Outcome` in
  `AgentAccess`), bounded by `MaxFaults` where the bound is needed. `AfterFault` and its like give
  the error path the code takes from each step.
* `Crash` (`Quit`, `Restart`) keeps what is on disk and loses what is in memory; a record in flight
  may leave its temporary file (`torn`) where a reader would meet it, which is what
  `write_new_bytes` leaves when it is stopped before its rename.
* A record name is fixed by its sequence number or its content, and `write_new_bytes` refuses a
  taken name: that a name is free is therefore part of the models (`SequenceOf`, `Numbered`,
  `RecordExists`, `PutNew`).
* Bytes are reduced to "they hash to the reviewed identity" or not, or to a model value per text;
  the digest is part of a destination's path, so that two operations share a destination only when
  they share it.
* Definitions whose comment says `Mutant:` are single changes to one definition that a plausible
  bug would make; each property is violated under one of them, which shows that the run that checks
  the property does reach the case the property is about. No specification uses them.

### `ArchiveTransaction`

| variable | code |
| --- | --- |
| `memory`, `exposed` | `OperationContext.record` and `.target_exposed` of the thread |
| `journal` | `.aiks/operations/<operation>-<sequence>-<state>.json`, one stream per operation |
| `anchor` | `.aiks/archive-audit-anchors/<operation>.json` |
| `staging`, `pending`, `registration`, `dest` | the files of the operation and of the Vault |
| `source` | whether the reviewed source still has its reviewed identity |
| `result` | what `confirm_archive_plan` returned for the item |
| `reads` | a reader between `verify_operation_audit_stream` and its anchor write |

`Commit` is `execute_operation` in program order, `Rejection` is `cleanup_rejected_operation` and
the Failed record, `Recovery` is `reconcile_vault`. `AnchorRead` is a listing of originals that
finishes what a writer has begun: the anchor is inspected in one step and written in another, in
readers and writers alike. `Damage` is the user who damages, plants or removes a file of the Vault.

### `ArchiveUndo`

`staging`, `quarantine` and `dest` are the three links of the archived file; `registration` and
`tombstone` the two names of its registration; `history`, `auditDir` and `torn` the audit of each
undo. `Create`, `Confirm` and `Expire` are the plan registry; `Reverify` to `Recheck` are
`execute_with`; `Rollback`, `Unstage`, `Restore`, `RestoreRegistration`, `DropRestored` and
`DropStaging` are its error paths; `BeginReconcile`, `Inspect` and `FinishReconcile` the recovery,
which takes the undos in no particular order as a directory listing does. `Archive` is a whole
archive transaction and `VerifyForSave`/`WriteKnowledge` are the two ends of a knowledge save.
`TransferAway` makes another Vault the authority while nothing runs: the registry of plans
survives, the reconciliation on return abandons the plan on disk (`inspectKept`, `abandonKept`),
and a confirmation of it must come to nothing: it does, since the record it would write has a
number that is taken (`HistoriesAreReadable`). An opening or a listing scans the audit directories
of the Vault and refuses more than `MaxUndoOperations` of them (`Audited`, the directories that
exist): every plan makes one, and nothing removes it.

### `SourceCleanup`

A request of the user makes a trash plan, and may turn it into a plan to delete, so that a plan is
a pair of a request and a disposition. `source` and `trash` are the source files and what the
operating system's trash holds; `retained` tells whether `verified_registered_original` accepts an
operation. `removed`, `gone` and `putBack` are history variables that the properties compare the
audit with. `Remove` takes whatever file stands at the path, as the code does. An opening refuses
more than `MaxCleanupOperations` audits, as that of the undo does.

### `OriginalCustody`

The steps of `ArchiveUndo` and of an instance of `SourceCleanup` over the same source files, with
`retained` computed from the undo's files and registrations. Openings happen once, and neither
crashes nor failures are needed for what it shows.

### `ArchiveReview`

| variable | code |
| --- | --- |
| `authority`, `transfers` | `VaultAuthorityRegistry`, in memory |
| `audits` | `.aiks/vault-transfers/` of each Vault |
| `approved`, `active` | the profiles a Vault approved and the one in force (an approval is one step here) |
| `expires` | the discovery proposals, which show every item |
| `namings`, `classifications`, `plans` | the three registries, as sets of entries with the time they were made |
| `namers`, `commits` | the blocking threads of `create_naming_batch` and `confirm_archive_plan` |
| `originals` | `Originals/<digest>/<name>` with, as history, the plan each came from and when |

`StartNaming`, `LeaseForNaming` and `CreateNaming` are one call of `create_naming_batch`;
`ConfirmPlan`, `LeaseForCommit` and `CommitItem` one of `confirm_archive_plan`: between any two a
transfer, another call or the end of the process may fall. The synchronous commands
(`create_classification_batch`, `create_archive_plan`) are one action each. `Retained` is the purge
with which every registry begins each access. A registry whose call is refused is purged all the
same in the code; the model leaves the purge to the next access, which no one can tell from it,
since every access purges first. `Quit` ends the process anywhere, also between the audit of a
transfer and the exchange of authority, and leaves what is on disk. A Vault is a directory and
`AuthorityOf` the identity in its record, which a copy of the directory shares: `IsCurrent`
compares identities, a transfer directories.

### `SourceWalk` and `Discovery`

`SourceWalk` is `walker.rs` as a function: a walk is what is left to inspect, the budget used, the
paths seen and listed, and what was left out: `counted` are the paths that the counters count, and
`told` those that a diagnostic names, of which there are `MaxDiagnostics` at most. `Included` and
`Listing` are `include_open_file` and the expansion of a directory, each of which may fail. `Discovery` has one
record per call, which is the caller, its permit and its worker: `Load` and `TryAcquire` are the
compare-and-exchange loop of `DropWorkLimiter`, `Consume` takes the grant, `WalkOn` one entry,
`Insert` looks at the clock and at the limit of the registry of grants with its lock in the hand
(`RegistryFree`) and `Place` inserts, `Register` makes a proposal, and `Return` is the end of the
worker, whose permit goes with it. `PassDeadline` makes the call late: its caller is answered with
the timeout at any moment from then on, also between `Insert` and `Place`, and the worker runs on.
The state of this module and its specification (`IntakeInit`,
`IntakeNext`, `IntakeSpec`) have names of their own, so that one module can extend it and
`ArchiveReview`: `permits` is the counter `DropWorkLimiter.active`.

### `KnowledgeStore` and `GraphStore`

| variable | code |
| --- | --- |
| `records`, `markdown` | `.aiks/knowledge/<document>/<revision>.json` (the commit) and `Knowledge/<document>/<revision>.md` |
| `active`, `permits` | `KnowledgeWriteRegistry` and `GraphWriteRegistry`, in memory |
| `savers`, `writers` | the calls of `save_document`, and of `propose_relation`, `import_comparison_relations` and `decide_relation` |
| `folders`, `versions`, `torn` | `.aiks/graph/relations/<relation>/`, its files, and the temporary files that a crash left |

A save verifies the revision, removes Markdown without a record, writes the Markdown and writes the
record: four steps, and a failure, an edit by the user, an undo or the end of the process may fall
anywhere. A graph write is a permit, what it reads, and for each relation the folder, the temporary
file and the rename: the temporary file is a step of its own because `relation_versions` reads
every file of the folder. A listing refuses more than `MaxRelations` folders, and no writer does.
`RevisionRegister` is what both promise: a key has a history that only
grows, by the value of a caller who named the length it saw, and not after a final value.

### `ProfileSchema`, `ProfileStore` and `ProfileSources`

`ProfileSchema` is `schema.rs`, `profile_diff` and `proposal.rs` as operators: which profiles are
valid, how two differ, and which destination a profile proposes for a set of evidence terms. In
`ProfileStore` a command takes the lock with the list of the writes it still has to do: what it
read cannot change under the lock, while a write may fail or the process stop between any two.
`ImportLocal`, `Approve`, `Reject`, `Inspect` and `StartClassify` are the commands, `ReadActive`
the tool of an Agent, which takes the active profile without completing anything. In
`ProfileSources` a fetch is a chain of redirects, each target checked, resolved and requested at
its addresses, and a compilation is a base profile with a document that a model turns into a
candidate: both run without the lock and end in an import.

### `AgentAccess` and `McpService`

| variable | code |
| --- | --- |
| `file`, `trail` | `agent-access-v1.json` and the audit events on disk |
| `grants`, `active` | the grants in memory, and those whose directories this process holds open |
| `sessions`, `used` | the sessions of the authority and the identifiers it has authorized |
| `chosen`, `selections` | the directories picked by the user and when each pick expires |
| `revoked` | history: the grants whose revocation was reported to the user |
| `begun`, `services`, `exchanges` | the MCP sessions asked for, `GovernedMcpService.session`, and the HTTP requests under way |

A change of a grant writes its event and then the state file, and may fail before the event,
before the file, or after the rename; a session or a request writes its event first. An exchange
is `Admit` (the HTTP boundary), `Handle` (the handler reads the clock and verifies the
credentials), `Open` or `Authorize`, and `Dispatch`; the clock, revocations and a restart may fall
between any two, and the `now` of a handler may be old when it is used.

### `ComparisonProtocol` and `ModelRuntime`

`ComparisonProtocol` has the checks of `protocol.rs` on proposals and verdicts of both tasks, the
conclusion of `run_comparison_with_transport`, the acceptance of `validate_comparison_record` and
the suggestions that the graph imports. `ModelRuntime` writes a configuration and its key in the
order of `upsert` and `remove`, with the restoration of the key after an error; a comparison takes
the permit of its target, loads its two configurations under the mutex, asks, and stores its record
after listing all others. The limit of the listing is tested there, and the directory made in a later
step, under no common lock. A call that ends between the directory and the record, with the process
or because the removal of the directory fails too, is `Cut`. `unflushed` marks a configuration whose file was renamed in place and
whose directory then could not be synced: the one case in which the code takes back the key and
not the file.

## Runs, bounds and fairness

| run | instance | what it checks |
| --- | --- | --- |
| `archive_crash` | 2 operations, 1 destination, 2 crashes | every crash point is recovered, so that files and records agree (`FilesMatchRecords`); the transaction with its crashes implements `ArchiveLifecycle`; every started operation ends |
| `archive_faults` | the same, a reader, 2 failed operations, 1 crash, 1 file damaged, planted or removed by the user | a reported commit is preserved until somebody damages the Vault; only verified bytes are exposed; the Vault opens only over verified originals |
| `undo_crash` | 3 undos of 3 operations, 2 crashes, room for 2 audits | what a recovery restores and completes (`OutcomesHold`), and exactly which crash points and which number of audits it refuses |
| `undo_faults` | 2 undos of 1 operation, a second archive of the same bytes, a knowledge save, 2 failed operations, 1 crash | the archived bytes stay until an undo is committed; the audit stays readable; every confirmed undo and every opening ends, on each error path |
| `cleanup` | 2 requests over 2 operations, 1 failed operation, 1 crash, room for 3 audits of 4 | the audit of a cleanup tells what happened to the sources (`AuditTellsRemovals`); the escalation; the audit stays readable; a recovered commit keeps its originals; every cleanup ends |
| `custody_conflict` | 1 undo, 1 cleanup of 1 operation, nothing fails | finding: together they remove the last original |
| `review` | 2 Vaults, 1 proposal of 2 items, 2 namings, 2 classifications, 2 plans, 1 transfer, 1 end of the process | an archived original goes back to one fresh review; workers work in the authoritative Vault; confirmed plans end |
| `discovery` | a tree of 6 paths, 3 calls, 2 grants over overlapping roots, 2 permits, 1 grant and 1 proposal in the registries, 1 diagnostic | permits are counted and come back; one walk per grant; the registry keeps its limit; walks disclose what they leave out |
| `profiles` | 4 files and the bundled draft, 2 candidates at most, 2 times, 3 URLs, 1 fetch or compilation at a time | what is active was reviewed; records are final; batches use the last approval, also after a stop between two writes |
| `graph` | 1 document, 2 revisions, 2 saves; 2 relations, 1 comparison, 2 writers; a listing of 1 relation; 1 failure, edit, undo or crash | documents and relations are registers; committed text reads back; decisions rest on what was reviewed; what a listing may fail over |
| `agents` | 2 grants, 3 selections, 1 session, 1 request identifier, 2 exchanges, times up to 2, 1 failed write or restart | grants govern sessions; the audit comes first; no request is authorized twice |
| `models` | 2 configurations, 1 key, 2 comparisons over 2 documents and 1 file, 2 changes, 2 failed operations, 1 crash, 1 record | configured keys exist; what a listing of comparisons may fail over; targets come free |

**Bounds.** Two actors are the number at which the races of this code appear: each of them is
between one thread that looked and one that changed. Two operations on one destination cover the
sharing of a path; two crashes cover a crash of the recovery of a crash; two failures cover the
failure of an error path. In `cleanup` two items are the number at which a removal is partial and
two requests the number at which one cleanup finds what another removed; there one crash and one
failure keep the run small, since a failed step or a crash ends a cleanup and its recovery has
only one write to fail. `MaxDamage` is 1 because one missing or wrong file is enough for each
verification to fail. `MAX_OPERATION_RECORDS` is out of reach in every run; the other limits
(10,000 audits, relations or comparisons, 256 diagnostics) are constants that the runs make small
enough to be passed, by one more undo, plan, relation, comparison or path than they allow. The
operations of `undo_crash` are alike with their undos and destinations, which is its symmetry, and
its properties are symmetric in them. In
`review` two batches of each kind are what it takes to use one twice or to mix two, two plans what
it takes for one to find the other's name taken; a registry holds one entry (`MaxActive`), so that
its limit is met, and every lifetime is one `Tick`, so that an entry may expire between any two
steps.

In `discovery` the limit of each registry is 1, so that it is met, and 3 calls compete for two
permits: two calls work at once, on one grant or on two, and the third has read the counter or comes
late. One drop has more entries than the budget of a walk (3); the other reaches one file twice, by
its directory and as a root, and a directory below the depth of a walk (0); there is one diagnostic
for all that is left out. In
`profiles` two files claim one version and one is no candidate; a later version adds a rule, and
the destination of a file follows the version in force; two candidates are what it takes to approve
one after the other with a stop between, and two times what it takes to order them. One URL is
served by a redirect to another, one is refused. In `graph` two saves and two writers race for each
permit; `MaxRevision` and `MaxVersion` are 2, so that the limits are met; an import and a proposal
write different relations over the same document; saves, writers and texts are symmetric, and every
property is symmetric in them. In `agents` one session with one identifier is the instance in which
two exchanges collide, in every other they differ; a grant lives 2, a selection 1, a session 2, so
that each expiry falls before or after each other one; a restart or a failed write may fall
anywhere. In `models` two comparisons share the limit of one stored record, which both may pass the test of;
two failures are what it takes to leave a directory without a record; a change may put a key,
replace it by the environment, or remove it, while the other configuration stays.

**Deadlock.** In the archive runs and in those with `CHECK_DEADLOCK FALSE` the system may stop: no
fresh operation or identifier is left, and opening again needs a closed or refused Vault. It is
checked in the runs of the undo and the cleanup, where the user may always quit and open again.

**Fairness.** A thread that runs goes on (`WF` of the steps of each operation, undo, plan or call),
and an opening that has begun goes on (`WF` of `FinishReconcile`): the code takes no lock that
another thread holds while it waits, and every loop is bounded. Nothing forces the user to start,
confirm or open anything, no failure or crash is forced, and none is forbidden. In `ArchiveReview`
the thread of each confirmed plan goes on; nothing else is fair, and no transfer is. In
`SourceCleanup` the fairness is weaker, one `WF` for "some plan takes a step or the opening ends",
which suffices because a plan is used once and none can run for ever. In `Discovery` each call and
its worker proceed (`WF` of `Proceed`); a deadline or an expiry need not come. In `ModelRuntime`
the holder of the mutex proceeds (each request to a server has a timeout), each comparison
proceeds, and a comparison that waits for the mutex is not passed over for ever, which is `SF` of
`LoadPair`, since the mutex may be taken again and again before it: the queue of the operating
system's mutex is the justification, and without it `TargetsComeFree` fails.

## What is proved

TLAPS checks these for every set of operations, destinations, undos, requests, readers, callers,
Vaults, sessions and documents, every sharing of destinations, and every bound on failures, crashes
and damage, unless an item says otherwise. Every safety and action property of the passing runs is
stated by one of them. The assumptions are the named ones of the modules: the types of the constants,
that the values that stand for "nothing" (`NoAnchor`, `NoRead`, `NoVersion`, the absent session and
grant) are not what they are the absence of, that a selection for cleanup names an
operation and none twice, and that the relations of one comparison differ. An invariant that is not inductive is
strengthened first; TLC checked each strengthening on a small instance before it was proved.

### Archive and undo

* **`ArchiveTransactionProofs!TypeCorrect`**: the type invariant, by one step per action.
* **`ReportedCommitsArePreserved`**: until the Vault's files are damaged, an item the desktop was
  told is Committed keeps its verified original, its registration and its anchored record;
  **`ExposedBytesAreVerified`**: until then no destination shows other bytes. Neither is inductive:
  that a rejection of one operation does not remove the original of another follows from who may
  have made the destination visible. `CommitInvariant` says it: a visible original has one *owner*
  from `hard_link` until its commit is reported or its removal (`OwnedOriginals`); the owner's files
  are complete at each step that counts on them (`CommitsComplete`); the record in memory is the
  latest on disk where an anchor is written from it (`RecordsCurrent`); and nothing but a later
  opening touches a reported commit (`ReportsFinal`).
* **`OpeningsAreVerified`**: a Vault opens only over verified originals, with any failures, crashes,
  readers and damage. The opening verifies one operation after the other; `OpeningInvariant` says
  that what it has passed, or is about to record, is still there, since nothing else writes then.
* **`CrashesAreRecovered`** (`FilesMatchRecords`) and **`TransactionsKeepThePromise`** (the refinement
  of `ArchiveLifecycle`): after any number of crashes, of recoveries too, every file is one that a
  record tells of, and each step is one of the abstract archive or none. Both assume `CrashesAlone`: no
  failed file operation, no damage, no reader. That is what the run assumes, and the assumption is
  needed: TLC refutes `FilesMatchRecords` with one failure, with one damaged file, or with one reader (the
  first and the last case are the first two rows under "Divergences"). `CrashInvariant` says, per operation,
  that its step tells its stream (`StreamFollowsStep`), that the anchor comes last (`AnchorIsLast`),
  that a commit on record has its files (`CommitIsBacked`) and that the files of a transaction at its
  end are gone (`LeftoversGone`), and that every visible original has an operation that has committed it or will
  (`OriginalsAreClaimed`).
* **`ArchiveUndoProofs!TypeCorrect`**: the type invariant of the undo.
* **`ArchivedBytesRemain`**: the bytes of an archived original are at the destination,
  in a quarantine or staged until an undo of them is recorded Committed, however undos, failures and
  crashes interleave. The difficulty is that an undo gives its staged link up on several exits and
  counts on a copy that another undo may be moving. `HoldInvariant` discounts the link of an undo
  that is about to give it up (`GivingUp`) and asks that something else holds the bytes
  (`ArchiveHeld`); it also says that an undo past its staging owns its link (`StagedLinksOwned`),
  and that a recovery has put the file back before it drops a link and works on one undo at a time
  (`RecoveryRestores`, `RecoveryAlone`).
* **`AuditsStayReadable`**: no interleaving of an execution, a recovery and a registry that outlives
  it makes an audit that the reader refuses, or skips a number. `HistoryInvariant` says what the
  audit is at each step (`Fits`) and which steps a reconciliation takes (`Allowed`).
* **`OutcomesAreTrue`** and **`RefusalsAreExplained`**: what an undo reports is what became of the
  archive, and a Vault refuses to open only over more audits than a scan may pass, an audit that cannot
  be read or an archive restored without its registration. Both assume `UndosApart`: no failed file operation, no two operations
  with one destination, and one undo for each operation at most, as the run does. TLC
  refutes both with two undos of one operation or with a shared destination, which the divergences
  of the undo describe. `OutcomeInvariant` tells, for each step of an executing
  undo and for a crash there, which of the links and registrations exist (`Executed`), and
  that an archive without such an undo is whole or taken back as a whole (`AsArchived`, `AsUndone`);
  `AuditsCounted` that the audits a scan meets are finitely many, whatever the number of undos.

### Cleanup

All of `SourceCleanup`'s safety is proved from one invariant, `CleanupInv`, with any selections,
failures and crashes: **`AuditsTellRemovals`** (only a recorded execution removes, a commit has every
source gone, an abandonment left nothing removed that the user did not put back),
**`DeletionsAreReviewedTwice`**, **`RecoveriesKeepOriginals`** and **`AuditsStayReadable`** (executions,
escalations, recoveries and a registry that outlives a transfer extend an audit only in an order that
the next opening accepts, without a gap). The parts of
`CleanupInv` are: which steps a Vault in each state allows (`StepsMatchVault`); what a step relies on
of the audit (`StepsFollowAudits`); a plan to delete exists because its trash plan was superseded
(`PlansAreMadeOnce`); items are removed in order, by an execution only (`RemovalsAreExecuted`); the
history variables know of what is absent (`ReturnsAreKnown`); and what a recovery is about to record
holds already (`RecoveriesAreVerified`), which is the part that a reading of the code does not show,
because it is checked in one step and recorded in another.

### Review and discovery

* **`ArchiveReviewProofs!TypeCorrect`**, and **`LeasesFollowAuthority`**: a worker that holds a
  lease works in the authoritative Vault. A transfer looks for leases of the current Vault only;
  that there are no others is the invariant itself, and that a process without a Vault has no
  lease either (`LeaseInv`) covers the first authorization.
* **`TransfersAreAudited`**: the only step that passes authority on is a recorded transfer.
* **`ApprovedProfilesOnly`**: an archived classification cites a profile that the Vault it was made
  in has approved. `ApprovalInv` follows a classification from its batch to its plan, to the thread that
  commits it and to the original, while approvals only grow.
* **`CommitsAreReviewedOnce`**: every original comes from one confirmation of one plan, which used its
  two batches up. `ReviewInv` says that batches of a kind are distinct and none is still in its registry
  once a plan has it (`NamingsAreDistinct`, `ClassificationsAreDistinct`, `PlansAreDistinct`),
  that plans are made of complete, fresh batches of one review (`PlansAreReviewed`), and follows a plan
  to its one confirmation and to its originals (`CommitsFollowPlans`, `OriginalsFollowPlans`).
* **`CollisionsAreExplained`**: an original in the way of a plan came after its names were proposed,
  in the Vault they were proposed for (`NamesInv`).
* **`NothingDroppedIsLost`**: for any tree, any overlapping roots, any budget and any failures, a walk keeps
  to its budget, lists no file twice, and at its end each file below its roots is listed or counted as left
  out. What is counted is named in a diagnostic too, unless there are as many diagnostics as there can
  be. What is below a path is the least set that holds the path and the entries of its directories
  (`Reached`), so that no induction over the depth is needed: what a walk has seen, counted or still to
  inspect is such a set (`FollowsUp`). That the budget is kept rests on the order of the work left:
  counted entries before roots (`RootsComeLast`); `NotesAreCounted` is the part about the diagnostics.
* **`PermitsStayCounted`**: the counter of `DropWorkLimiter` is the number of permits held, which needs
  the set of their holders to stay finite. **`GrantsLeadToOneWalk`** and **`GrantsStayWithinLimit`**:
  a grant is walked once, and the registry keeps to its limit although a call tests it in one step and
  inserts in another: while a call has the lock, there is room for its grant (`RoomInvariant`).
  `IntakeInvariant` puts these together; `GrantInvariant` says that a grant being issued is new and of one
  call, and that it is gone
  before anything is made of it. These four are in `ArchiveReviewProofs`, which
  extends both modules.

### Knowledge and graph

* **`GraphStoreProofs!RevisionsReadBack`**: as long as nobody edits a Markdown file, every committed
  revision reads back as it was saved. `SaveInv` adds that a save past its check holds the permit of
  its document, so that there is one (`SavesHoldPermits`), that it writes the successor of what is
  on disk (`RevisionsFollow`, `SavesFollow`), and its own text (`SavesWriteTheirs`).
* **`SavesAreARegister`**: every step of a save is a step of `RevisionRegister` or none: a save takes
  effect at most once, and only over the revision its caller had opened.
* **`DecisionsRestOnEvidence`**: every version of a relation cites committed text, and an
  acceptance or rejection is the last version and keeps what was reviewed. `RelationInv` says that
  the versions on disk form a chain without a gap, that a proposal, an import or a decision underway
  builds on what it read, and that whoever writes a relation holds its permit.
* **`DecisionsAreARegister`**: every step of a graph write is a step of `RevisionRegister` or none,
  also for an import of any number of relations, which publishes one version at a time.
* **`GraphCanBeListed`**: while no original is retired and no Markdown edited, the versions in every folder
  follow one another and the last one's evidence verifies, wherever a write is cut short; and a listing
  fails only over more relations than it passes or over the temporary file of a write.

### Agents

* **`AgentAccessProofs!TypeCorrect`**, and **`SessionsAreGoverned`**: a revocation that was reported is in the
  state file and leaves no session, and every session belongs to a grant whose directories are open
  and ends no later than it. `GrantInv` ties sessions to grants (`OpenGrantsExist`,
  `SessionsFollowGrants`), the grants in memory to the state file (`MemoryIsWritten`) and
  reported revocations to the grants in memory (`RevocationsAreKept`).
* **`EffectsAreAudited`**: every grant, revocation, session and spent identifier has its event in the
  audit. `AuditComesFirst` is inductive together with the type invariant.
* **`IdentifiersAreSpentOnce`**: of the requests with one identifier in one session at most one is
  authorized. `ServedInv` says that an identifier whose authorization the audit names is remembered
  while its session lives (`SpentIsRemembered`), and that a session is asked for once, so that none is
  opened over the events of another (`SessionsWereAsked`, `OpenersComeFirst`, `OpenersAreAlone`,
  `HandlersFollowTheAsk`).

### Profiles and comparisons

* **`ProfileStoreProofs!DifferencesAreExact`** and **`ProposalsFollowTheProfile`**: the
  difference shown for review is empty exactly when nothing differs, and a destination proposed
  without review is in the taxonomy and is what every matching rule asks for.
* **`ActiveProfilesAreReviewed`**, **`RecordsStay`** and **`BatchesFollowApprovals`**: whatever command
  fails or stops between two of its writes, the active profile was approved by a decision on the file
  that is installed, no record is changed or removed, and a batch uses the latest approval, also one
  whose activation is still missing. `StoreInv` speaks of the files (`VaultInv`) and of
  the list of writes that a command still has to do (`CommandInv`): each is new, and a decision in
  the list comes after the version it approves and before its activation, so that a list cut short
  anywhere leaves files that the invariant allows.
* **`ModelRuntimeProofs!ComparisonsAreAccepted`**: whatever the two models and the Agent answer, the
  record of the comparison passes the checks of the store; a suggestion that is resolved
  names a category of the profile and cites evidence of the envelope
  (**`ResolvedSuggestionsAreSupported`**), as does each relation handed to the graph
  (**`ImportedRelationsAreSupported`**), and a completed file comparison has a suggestion
  (**`CompletedComparisonsResolve`**).
* **`ConfiguredKeysAreKept`**: a configuration that names a key finds it in the
  keychain, unless its directory could not be synced after the rename. `KeyInv` adds that an upsert has put its key before it
  writes (`UpsertIsBacked`) and that a key about to be deleted belongs to no configuration
  (`DeletedIsUnused`), which needs the mutex of the configuration file (`MutexType`).
* **`ComparisonsCanBeListed`**: wherever the process ends and whatever fails, all stored comparisons can
  be read, unless a folder waits for its record or was left by a comparison cut short, or there are
  more folders than a listing passes. `ListInv` carries `ComparisonsAreAccepted` to the store: what a
  call has still to write is valid; and it tells whose folder has no record.

### Only model-checked

* Liveness under fairness (`OperationsSettle`, `UndosSettle`, `CleanupsSettle`, `ConfirmedPlansEnd`,
  `PermitsReturn`, `TargetsComeFree`), which is beyond the prover.
* `FilesMatchRecords`, `ImplementsLifecycle`, `OutcomesHold` and `RefusalHasCause` of the undo
  outside `CrashesAlone` and `UndosApart`, where they are false.
* `OriginalCustody`, of which a run shows a violation, and `ProfileSources`, whose imports are those of
  `ProfileStore` and whose network steps only the run `profiles` explores.

## Divergences

### Shown by a run

`custody_conflict`: an undo and a cleanup of the same item, both confirmed, remove the last
original; the finding in `PROJECT.json` quotes the documents.

### Shown by an instance

Four more are short counterexamples of TLC in instances of these modules; the constants below
reproduce each, with `CHECK_DEADLOCK FALSE` and the property as an `INVARIANT`. The modules keep the
definitions.

| what happens | instance | invariant that fails | what the documents say |
| --- | --- | --- | --- |
| A record whose write fails (`archive/transaction.rs:661`) has already taken its number and hash in memory: the next record chains to one that is not on disk, and no later opening reads the stream. | `ArchiveTransactionMC`, 2 operations on 1 destination, no reader, `MaxFaults = 1`, `MaxCrashes = 0`, `MaxDamage = 0`, `SPECIFICATION Spec` | `StreamsReadable` | `docs/FUNCTIONAL_CONTRACTS.md:569` "On interruption, the persistent lifecycle exposes a recoverable state or a safe terminal failure" |
| A listing that finds a terminal record without an anchor writes the anchor (`archive/transaction.rs:1054`); the writer then fails over its own anchor, withdraws the commit and extends a stream that has ended. | the same with `Reader = {r1}`, `MaxFaults = 0` | `StreamsReadable` | the same |
| A file archived again after its undo stands where the Committed undo requires nothing to be: every later listing and opening fails (`archive/undo/recovery.rs:279`). | `ArchiveUndoMC`, `Op = {o1, o2}`, `Dest = {d1}`, `DestOf <- SharedDest`, `Undo = {u1}`, `TargetOf <- FirstOperation`, `Saver = {}`, no faults, no crashes | `NeverRefused` | `README.md:278` "Vault authorization reconciles unconfirmed, quarantined, post-trash, committed, and rolled-back undo states before normal archive verification" |
| Knowledge is written about an operation that was undone after the save had verified it (`archive/undo.rs:220`). | `ArchiveUndoMC`, `Op = {o1}`, `Dest = {d1}`, `DestOf <- OneDest`, `Undo = {u1}`, `TargetOf <- FirstOperation`, `Saver = {o1}`, no faults, no crashes | `UndoneHasNoKnowledge` | `README.md:268` "Undo is refused when [...] authoritative knowledge already depends on the archive" |

### Met while modelling

The models contain the behaviour, and where a property would otherwise fail it names the case
(`RefusalHasCause`, `WalksDisclose`, `CommittedIsReadable`, `GraphIsListable`, `ConfiguredKeysExist`,
`ComparisonsStayListable`).

* Archive: a commit withdrawn because its anchor could not be written is found committed by the
  recovery when the process stops before the withdrawal is recorded (`archive/transaction.rs:675`).
  An operation interrupted at Verified whose destination another operation has since filled
  registers that file a second time (`:877`). The number of journal files is limited (`:943`) and
  never reduced.
* Undo: a restoration cut short between the file and its registration is not completed by the next
  opening, which refuses the Vault (`archive/undo/recovery.rs:174`, `HalfRestored`;
  `README.md:276` promises that an interrupted undo restores both). The staged link is removed
  before the Failed record is written, so that a crash between the two leaves an Executing undo
  whose recovery fails (`archive/undo.rs:489`, `archive/undo/recovery.rs:147`). An audit directory
  left empty or with a temporary file blocks the Vault (`archive/undo/recovery.rs:118`). An error
  of `deactivate_registration` returns without `rollback_archive` (`archive/undo.rs:556`). An undo
  committed while another one of the same operation restores the file is contradicted later
  (`archive/undo/recovery.rs:203`). A recovery commits without verifying the source again after it
  has deactivated the registration (`archive/undo/recovery.rs:190`; `README.md:275` promises both).
  A failure to stage leaves no outcome record (`archive/undo.rs:466`;
  `docs/FUNCTIONAL_CONTRACTS.md:569` a failure "blocks commit or undo, preserves valid originals,
  and records the reason"). Every plan of an undo, confirmed or not, leaves an audit directory that
  nothing removes: with one more than 10,000, every opening of the Vault is refused and every
  verification of an original fails, for ever (`archive/undo/recovery.rs:103`); nothing has to crash.
* Cleanup: an empty or torn audit directory blocks the Vault (`cleanup/recovery.rs:113`), and so do
  more than 10,000 plans of cleanups, confirmed or not (`cleanup/recovery.rs:29`). A source
  edited after the verification is removed unverified (`cleanup/mod.rs:369`; `README.md:245`). When
  the Executing record cannot be written the plan is used up with only Proposed on disk.
* Review: after a transfer, a plan may be made and committed in the new Vault with a profile that
  only the old one approved and with names that were checked against the old one only
  (`archive/mod.rs:52`; `docs/IMPLEMENTATION_SPEC.md:55` "only an approved profile may support a
  committed classification"); `ClassificationIsApproved` and `CollisionsHaveCause` name the case.
  Authority is kept in memory, so that after a restart any directory may be chosen without a
  transfer (`vault/mod.rs:282`), and the property on transfers speaks of one process. The audit of
  a transfer says "committed" before the exchange (`vault/mod.rs:439`): a process that ends in
  between leaves a record of a transfer that did not happen. A copied Vault shares its identity, so
  that a plan reviewed for one directory may run in its copy after two transfers
  (`vault/mod.rs:233`). Two selected files with the same bytes and the same facts get the same
  name, so that the plan is refused and both batches are lost (`archive/plan.rs:243`).
* Discovery: a worker that has looked at its deadline inserts its grant although the caller may have
  been told of the timeout since (`discovery/grant.rs:107`, `discovery/mod.rs:179`): the grant keeps
  its place in the registry until it expires, and nobody knows of it. A walk records 256 diagnostics
  (`discovery/walker.rs:339`): what it leaves out after them is counted, and not named, also the
  entry that says that the deadline was over.
* Graph: a temporary file that a crash left in a relation's folder makes every listing fail, and the
  import of its comparison too; a folder that was left empty is passed by listings and makes the
  import of its comparison fail; nothing removes either (`graph/store.rs:605`). No writer tests the
  number of relations, and every listing fails from relation 10,001 on (`graph/store.rs:413`).
* Agents: a request that the transport refuses before it asks the authority leaves no audit event
  (`mcp_transport/service.rs`), nor does a denial of the
  authority (`docs/IMPLEMENTATION_SPEC.md:173` "permission denial [...] shall be auditable").
  The numbers of runtime events are counted in memory, so that a restart uses them again
  (`agent_access/authority.rs:645`). A selection is consumed although the registry of grants is
  full, and grants are never removed from it.
* Profiles: importing the same file again is refused as a conflict after the active base or the
  locator has changed (`docs/superpowers/plans/2026-07-29-declarative-profile-kernel.md:203`
  "repeated identical import is idempotent"). A stop after an approved
  version was installed and before its decision leaves the version installed as approved, and the
  candidate may then be rejected.
* Models: `persist_comparison_record` lists all comparisons before it stores one, and a folder
  that another comparison has just made, without its record yet, fails the listing; one that a
  crash left empty fails every later one, for ever (`model_runtime/store.rs:626`;
  `README.md:344` "Each valid comparison attempt is stored as one immutable Vault record"). The limit is
  tested before the directory is made and permits are per target, so that two comparisons stored at
  once at the last place below the limit both succeed, and every later one fails (`:635`, `:655`). A
  comparison that was accepted and stored may be refused by the graph, whose rules are stricter:
  160 and 80 characters instead of 512, source and target that differ, evidence that is not blank,
  and no line after a final newline, which `exact_lines` counts and `lines()` does not
  (`README.md:494`). An error after the configuration file was renamed puts the key back and not
  the file (`unflushed`); a deletion of a key that fails leaves the key in the keychain, where a
  later configuration with the same identifier takes it up.

## What is not modelled

* The bytes, hashes, formats and paths of files; path containment, symbolic links and handle-based
  traversal, which are the platform's.
* Within the modelled parts: reading the sources and registrations of *one* plan during a recovery
  is one step; the removal of the temporary file of a failed record succeeds in the archive modules
  (in `GraphStore` it may fail); an operation's chain of hashes is its chain of sequence numbers. In
  `ArchiveUndo` an archive is one step that needs a free destination, so the second registration of
  one file (above) does not occur there; in `SourceCleanup` an undo is one step, whose steps
  `OriginalCustody` has.
* In `ArchiveReview`: leases are taken by naming and by commits only (the other commands take them
  alike); a failed opening of the target of a transfer loses the transfer and nothing else; what a
  stem is made of, the case-folding of names, and the evidence of a classification beyond whether it may be
  committed; the approval of a profile in one step.
* In `GraphStore` what a relation says; in `ProfileStore` the limit of 1000 records of a kind and
  its leases; in `ProfileSources` authorization headers, which no caller sends, and the parsing of a
  workbook; in `AgentAccess` `close_session`, which only tests call, and the listing of the audit;
  in `ModelRuntime` the addresses of servers and the formats of their requests.
* Concurrent cleanups and undos under crashes: `OriginalCustody` has neither crashes nor failures.
* The start and stop of the HTTP server (`mcp_transport/http.rs`; `stop` takes the runtime out of
  the registry before it waits for its end, so that a start in between may find its port taken) and
  the relay of frames.
* The components without a module in `PROJECT.json`, with the reason there: identities, evidence
  extraction and the shell have no state of their own; the front end's panes and the release
  scripts present and package what the core does.

## Plan

In the order of what a failure would cost the user.

1. `ArchiveTransaction` with `ArchiveLifecycle`: modelled, checked, proved (all safety, the
   refinement). To come: what remains of `FilesMatchRecords` under failed operations and readers.
2. `ArchiveUndo`: modelled, checked, proved (all safety). To come: `OutcomesHold` for several undos of
   one operation, as far as it holds.
3. `SourceCleanup`: modelled, checked, proved (all safety).
4. `OriginalCustody`: modelled and checked. To come: an abstract custody (an original is in the
   Vault, at its source or in the trash) and the condition on the schedule under which both implement it.
5. `ArchiveReview`: modelled, checked, proved (all safety). To come: two directories with one
   authority record.
6. `KnowledgeStore` and `GraphStore`: modelled, checked, proved (all safety, both refinements).
7. `AgentAccess` and `McpService`: modelled, checked, proved. To come: the start and stop of the
   HTTP server and the relay.
8. `SourceWalk` and `Discovery`: modelled, checked, proved (all safety).
9. `ProfileSchema`, `ProfileStore`, `ProfileSources`: modelled and checked; the operators and the
   store are proved. To come: that every step of `ProfileSources` is one of the store or none.
10. `ComparisonProtocol`, `ModelRuntime`: modelled, checked, proved (all safety).
11. Pure algorithms against reference definitions: the source selection of
    `src/features/sources/selection.ts`, and the collision names of `naming/normalize.rs`.
