--------------------------- MODULE KnowledgeStore ---------------------------
(***************************************************************************)
(* The revisions of the Markdown of archived originals                     *)
(* (src-tauri/src/knowledge/mod.rs, store.rs).  Revision n of a document   *)
(* is two files: the Markdown, and a record with the identity of the       *)
(* Markdown, which commits it.                                             *)
(*                                                                         *)
(* A save runs on a blocking thread: each of its reads and writes of the   *)
(* Vault is a step, and any of them may fail.  The permits of              *)
(* KnowledgeWriteRegistry are in memory and are lost when the process      *)
(* ends.  The user may edit or delete Markdown, and an undo may retire an  *)
(* original, at any time.                                                  *)
(*                                                                         *)
(* Abstractions.  A file is published by one rename; the temporary file of *)
(* a write cut short is never read (latest_revision skips every name that  *)
(* is not .json).  An identity is the text it is computed from.            *)
(***************************************************************************)
EXTENDS Naturals, Sequences, FiniteSets

CONSTANTS
    Document,           \* documents of one Vault, named by the operation of their original
    Saver,              \* calls of save_knowledge_document
    Text, NoText,       \* Markdown; no file
    MaxRevision,        \* MAX_REVISIONS
    MaxFaults           \* bound: edits by hand, retired originals, ends of the process

ASSUME TextAssumption == NoText \notin Text
ASSUME RevisionAssumption == MaxRevision \in Nat /\ MaxFaults \in Nat

VARIABLES
    registered,         \* the documents whose original is registered and verifies
    records,            \* .aiks/knowledge/<document>/<revision>.json: the identity of the Markdown
    markdown,           \* Knowledge/<document>/<revision>.md
    active,             \* KnowledgeWriteRegistry.active
    savers,             \* the state of each call
    edits, faults       \* edits by hand; with retired originals and ends of the process

kfiles == <<registered, records, markdown>>
kvars == <<registered, records, markdown, active, savers, edits, faults>>

-----------------------------------------------------------------------------
Revision == 1 .. MaxRevision
NewText == [Document -> [Revision -> Text \cup {NoText}]]
Stage == {"verify", "clean", "markdown", "record"}
NoSave == [pc |-> "idle"]
Save == [pc: Stage, doc: Document, expected: 0 .. MaxRevision, text: Text,
         revision: 0 .. MaxRevision]

KTypeOK ==
    /\ registered \in SUBSET Document
    /\ records \in NewText
    /\ markdown \in NewText
    /\ active \in SUBSET Document
    /\ savers \in [Saver -> Save \cup {NoSave}]
    /\ edits \in 0 .. faults /\ faults \in 0 .. MaxFaults

Running(s) == savers[s] # NoSave

Committed(d) == {n \in Revision : records[d][n] # NoText}

\* latest_revision: 0 when there is none.
Latest(d) == CHOOSE n \in {0} \cup Committed(d) : \A m \in Committed(d) : m <= n

\* read_committed_revision: the Markdown is compared with the identity in its record.
ReadsBack(d, n) == markdown[d][n] = records[d][n]

\* Mutant: the Markdown is opened without its record.
OpensMarkdown(d, n) == d \in registered /\ markdown[d][n] # NoText

\* open_committed_revision succeeds.
Opens(d, n) ==
    /\ d \in registered
    /\ n \in Committed(d)
    /\ ReadsBack(d, n)

-----------------------------------------------------------------------------
KInit ==
    /\ registered = Document
    /\ records = [d \in Document |-> [n \in Revision |-> NoText]]
    /\ markdown = [d \in Document |-> [n \in Revision |-> NoText]]
    /\ active = {}
    /\ savers = [s \in Saver |-> NoSave]
    /\ edits = 0 /\ faults = 0

Goto(s, pc) == savers' = [savers EXCEPT ![s].pc = pc]

\* The call ends: its permit is dropped with the closure of the worker.
EndSave(s) ==
    /\ savers' = [savers EXCEPT ![s] = NoSave]
    /\ active' = active \ {savers[s].doc}

\* Mutant: nothing keeps a second save of the document from starting.
StartUnlocked(s, d, n, t) ==
    /\ ~Running(s)
    /\ active' = active \cup {d}
    /\ savers' = [savers EXCEPT ![s] = [pc |-> "verify", doc |-> d, expected |-> n,
                                        text |-> t, revision |-> 0]]
    /\ UNCHANGED <<registered, records, markdown, edits, faults>>

\* A second save of a document is refused while one is under way.
StartSave(s, d, n, t) ==
    /\ ~Running(s)
    /\ d \notin active
    /\ active' = active \cup {d}
    /\ savers' = [savers EXCEPT ![s] = [pc |-> "verify", doc |-> d, expected |-> n,
                                        text |-> t, revision |-> 0]]
    /\ UNCHANGED <<registered, records, markdown, edits, faults>>

\* Mutant: the caller's revision is not compared.
IncreaseRevision(s) ==
    LET n == Latest(savers[s].doc) + 1
    IN  /\ savers[s].pc = "verify"
        /\ savers[s].doc \in registered
        /\ n \in Revision
        /\ savers' = [savers EXCEPT ![s].pc = "clean", ![s].revision = n]
        /\ UNCHANGED <<registered, records, markdown, active, edits, faults>>

\* The revision is compared with the one the caller saw, and increased.
VerifyRevision(s) ==
    LET d == savers[s].doc
        n == Latest(d) + 1
    IN  /\ savers[s].pc = "verify"
        /\ d \in registered
        /\ savers[s].expected = Latest(d)
        /\ n \in Revision
        /\ savers' = [savers EXCEPT ![s].pc = "clean", ![s].revision = n]
        /\ UNCHANGED <<registered, records, markdown, active, edits, faults>>

\* Markdown without a record is left by a save cut short, and is removed.
RemoveUncommittedMarkdown(s) ==
    LET d == savers[s].doc
        n == savers[s].revision
    IN  /\ savers[s].pc = "clean"
        /\ records[d][n] = NoText
        /\ markdown' = [markdown EXCEPT ![d][n] = NoText]
        /\ Goto(s, "markdown")
        /\ UNCHANGED <<registered, records, active, edits, faults>>

WriteMarkdown(s) ==
    LET d == savers[s].doc
        n == savers[s].revision
    IN  /\ savers[s].pc = "markdown"
        /\ markdown[d][n] = NoText
        /\ markdown' = [markdown EXCEPT ![d][n] = savers[s].text]
        /\ Goto(s, "record")
        /\ UNCHANGED <<registered, records, active, edits, faults>>

WriteRecord(s) ==
    LET d == savers[s].doc
        n == savers[s].revision
    IN  /\ savers[s].pc = "record"
        /\ records[d][n] = NoText
        /\ records' = [records EXCEPT ![d][n] = savers[s].text]
        /\ EndSave(s)
        /\ UNCHANGED <<registered, markdown, edits, faults>>

\* A check fails, or an operation on a file does: what is written stays.
RefuseSave(s) ==
    /\ Running(s)
    /\ EndSave(s)
    /\ UNCHANGED <<registered, records, markdown, edits, faults>>

SaveStep(s) == \/ VerifyRevision(s) \/ RemoveUncommittedMarkdown(s)
               \/ WriteMarkdown(s) \/ WriteRecord(s) \/ RefuseSave(s)

Fault == faults < MaxFaults /\ faults' = faults + 1

\* An undo of the archive retires the original.
RetireOriginal(d) ==
    /\ d \in registered
    /\ registered' = registered \ {d}
    /\ Fault
    /\ UNCHANGED <<records, markdown, active, savers, edits>>

\* The user changes or deletes a Markdown file.
EditMarkdown(d, n, t) ==
    /\ markdown[d][n] # NoText
    /\ t # markdown[d][n]
    /\ markdown' = [markdown EXCEPT ![d][n] = t]
    /\ edits' = edits + 1
    /\ Fault
    /\ UNCHANGED <<registered, records, active, savers>>

\* The process ends between two steps, and starts again.
EndSaves ==
    /\ active' = {}
    /\ savers' = [s \in Saver |-> NoSave]

KCrash ==
    /\ Fault
    /\ EndSaves
    /\ UNCHANGED <<registered, records, markdown, edits>>

KUser == \/ \E s \in Saver, d \in Document, n \in 0 .. MaxRevision - 1, t \in Text :
                StartSave(s, d, n, t)
         \/ \E d \in Document : RetireOriginal(d)
         \/ \E d \in Document, n \in Revision, t \in Text \cup {NoText} : EditMarkdown(d, n, t)

KNext == KUser \/ (\E s \in Saver : SaveStep(s)) \/ KCrash

KSpec == KInit /\ [][KNext]_kvars

-----------------------------------------------------------------------------
(* Every revision that has a record is read back as it was saved, unless    *)
(* somebody edited a Markdown file: two saves of one document, a failure or *)
(* the end of the process between the two writes, never leave a record      *)
(* whose Markdown is another's (save_document, open_committed_revision).    *)
CommittedIsReadable ==
    edits = 0 => \A d \in Document : \A n \in Committed(d) : ReadsBack(d, n)

History == [d \in Document |-> [n \in 1 .. Latest(d) |-> records[d][n]]]
Wanted(s) == [by |-> s, key |-> savers[s].doc, expected |-> savers[s].expected,
              value |-> savers[s].text]

(* The revisions of a document are a register that only grows, and a save   *)
(* succeeds only over the revision that its caller had opened.              *)
Revisions == INSTANCE RevisionRegister WITH
    Key <- Document,
    Caller <- Saver,
    Value <- Text,
    Final <- {},
    history <- History,
    requests <- {Wanted(s) : s \in {z \in Saver : Running(z)}}

RevisionsAreARegister == Revisions!Spec
=============================================================================
