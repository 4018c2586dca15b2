-------------------------- MODULE GraphStoreProofs --------------------------
(***************************************************************************)
(* Proofs about the revisions of documents (KnowledgeStore) and about the  *)
(* relations over them (GraphStore), for any number of documents, calls,   *)
(* texts, relations and comparisons, and any limits.                       *)
(*                                                                         *)
(* A save is four steps, and the permit in memory is what makes them one.  *)
(* SaveInv says what the permit gives: no other save of the document is    *)
(* under way, so that the revision that a save has verified is still the   *)
(* last one when it writes, and the Markdown it wrote is still there.      *)
(***************************************************************************)
EXTENDS GraphStore, FiniteSetTheorems, WellFoundedInduction, TLAPS

-----------------------------------------------------------------------------
(* A save under way has the only permit of its document. *)
SavesHoldPermits ==
    \A s \in Saver : Running(s) =>
        /\ savers[s].doc \in active
        /\ \A z \in Saver : Running(z) /\ savers[z].doc = savers[s].doc => z = s

(* The revisions of a document follow one another. *)
RevisionsFollow == \A d \in Document : \E n \in Nat : Committed(d) = 1 .. n

(* A save that has verified its revision writes the next one. *)
SavesFollow ==
    \A s \in Saver : Running(s) /\ savers[s].pc # "verify" =>
        /\ Committed(savers[s].doc) = 1 .. savers[s].expected
        /\ savers[s].revision = savers[s].expected + 1
        /\ savers[s].revision \in Revision

(* What a save has written is what it is about to record. *)
SavesWriteTheirs ==
    edits = 0 => \A s \in Saver : Running(s) /\ savers[s].pc = "record" =>
        markdown[savers[s].doc][savers[s].revision] = savers[s].text

SaveInv == /\ SavesHoldPermits /\ RevisionsFollow /\ SavesFollow /\ SavesWriteTheirs
           /\ CommittedIsReadable

-----------------------------------------------------------------------------
(* A save is a record of its own, whose fields have their types. *)
LEMMA SaveType ==
    ASSUME KTypeOK, NEW s \in Saver, Running(s)
    PROVE  /\ savers[s] \in Save
           /\ savers[s].pc \in Stage /\ savers[s].doc \in Document /\ savers[s].text \in Text
           /\ savers[s].expected \in 0 .. MaxRevision /\ savers[s].revision \in 0 .. MaxRevision
  BY DEF KTypeOK, Running, Save

LEMMA IdleHasNoStage ==
    ASSUME KTypeOK, NEW s \in Saver, savers[s].pc \in Stage
    PROVE  Running(s)
  BY DEF KTypeOK, Running, NoSave, Stage

(* The last revision of a document whose revisions are 1 to n. *)
LEMMA LatestIsLast ==
    ASSUME NEW d, NEW n \in Nat, Committed(d) = 1 .. n
    PROVE  Latest(d) = n
  <1>1. n \in {0} \cup Committed(d) /\ \A m \in Committed(d) : m <= n
    OBVIOUS
  <1>2. Latest(d) \in {0} \cup Committed(d) /\ \A m \in Committed(d) : m <= Latest(d)
    BY <1>1 DEF Latest
  <1> QED
    BY <1>1, <1>2

-----------------------------------------------------------------------------
(* Each action of the documents. *)
LEMMA KTypeInit == KInit => KTypeOK
  BY RevisionAssumption DEF KInit, KTypeOK, NewText

LEMMA KTypeStep == KTypeOK /\ SaveInv /\ [KNext]_kvars => KTypeOK'
  <1> SUFFICES ASSUME KTypeOK, SaveInv, [KNext]_kvars PROVE KTypeOK'
    OBVIOUS
  <1> USE RevisionAssumption
  <1>1. ASSUME NEW s \in Saver, NEW d \in Document, NEW n \in 0 .. MaxRevision - 1, NEW t \in Text,
               StartSave(s, d, n, t)
        PROVE  KTypeOK'
    <2>1. [pc |-> "verify", doc |-> d, expected |-> n, text |-> t, revision |-> 0] \in Save
      BY DEF Save, Stage
    <2> QED
      BY <1>1, <2>1 DEF KTypeOK, StartSave
  <1>2. ASSUME NEW s \in Saver, VerifyRevision(s) PROVE KTypeOK'
    <2>1. Running(s)
      BY <1>2, IdleHasNoStage DEF VerifyRevision, Stage
    <2> DEFINE n == Latest(savers[s].doc) + 1
    <2>2. n \in 0 .. MaxRevision
      BY <1>2 DEF VerifyRevision, Revision
    <2>3. savers' = [savers EXCEPT ![s].pc = "clean", ![s].revision = n]
      BY <1>2 DEF VerifyRevision
    <2> HIDE DEF n
    <2>4. [savers[s] EXCEPT !.pc = "clean", !.revision = n] \in Save
      BY <2>1, <2>2, SaveType DEF Save, Stage
    <2>5. savers'[s] = [savers[s] EXCEPT !.pc = "clean", !.revision = n]
          /\ \A z \in Saver : z # s => savers'[z] = savers[z]
      BY <2>3 DEF KTypeOK
    <2> QED
      BY <1>2, <2>3, <2>4, <2>5 DEF KTypeOK, VerifyRevision
  <1>3. ASSUME NEW s \in Saver, RemoveUncommittedMarkdown(s) PROVE KTypeOK'
    <2>1. Running(s)
      BY <1>3, IdleHasNoStage DEF RemoveUncommittedMarkdown, Stage
    <2>2. savers'[s] \in Save /\ \A z \in Saver : z # s => savers'[z] = savers[z]
      BY <1>3, <2>1, SaveType DEF RemoveUncommittedMarkdown, Goto, KTypeOK, Save, Stage
    <2>3. markdown' \in NewText
      BY <1>3 DEF KTypeOK, RemoveUncommittedMarkdown, NewText
    <2> QED
      BY <1>3, <2>2, <2>3 DEF KTypeOK, RemoveUncommittedMarkdown, Goto
  <1>4. ASSUME NEW s \in Saver, WriteMarkdown(s) PROVE KTypeOK'
    <2>1. Running(s)
      BY <1>4, IdleHasNoStage DEF WriteMarkdown, Stage
    <2>2. savers'[s] \in Save /\ \A z \in Saver : z # s => savers'[z] = savers[z]
      BY <1>4, <2>1, SaveType DEF WriteMarkdown, Goto, KTypeOK, Save, Stage
    <2>3. markdown' \in NewText
      BY <1>4, <2>1, SaveType DEF KTypeOK, WriteMarkdown, NewText
    <2> QED
      BY <1>4, <2>2, <2>3 DEF KTypeOK, WriteMarkdown, Goto
  <1>5. ASSUME NEW s \in Saver, WriteRecord(s) PROVE KTypeOK'
    <2>1. Running(s)
      BY <1>5, IdleHasNoStage DEF WriteRecord, Stage
    <2>2. records' \in NewText
      BY <1>5, <2>1, SaveType DEF KTypeOK, WriteRecord, NewText
    <2> QED
      BY <1>5, <2>2 DEF KTypeOK, WriteRecord, EndSave
  <1>6. ASSUME NEW s \in Saver, RefuseSave(s) PROVE KTypeOK'
    BY <1>6 DEF KTypeOK, RefuseSave, EndSave
  <1>7. ASSUME NEW d \in Document, RetireOriginal(d) PROVE KTypeOK'
    BY <1>7 DEF KTypeOK, RetireOriginal, Fault
  <1>8. ASSUME NEW d \in Document, NEW n \in Revision, NEW t \in Text \cup {NoText},
               EditMarkdown(d, n, t)
        PROVE  KTypeOK'
    <2>1. markdown' \in NewText
      BY <1>8 DEF KTypeOK, EditMarkdown, NewText
    <2> QED
      BY <1>8, <2>1 DEF KTypeOK, EditMarkdown, Fault
  <1>9. CASE KCrash
    BY <1>9 DEF KTypeOK, KCrash, EndSaves, Fault
  <1>10. CASE UNCHANGED kvars
    BY <1>10 DEF KTypeOK, kvars
  <1> QED
    BY <1>1, <1>2, <1>3, <1>4, <1>5, <1>6, <1>7, <1>8, <1>9, <1>10 DEF KNext, KUser, SaveStep

-----------------------------------------------------------------------------
LEMMA SaveInit == KInit => SaveInv
  <1> SUFFICES ASSUME KInit PROVE SaveInv
    OBVIOUS
  <1>1. \A s \in Saver : ~Running(s)
    BY DEF KInit, Running
  <1>2. \A d \in Document : Committed(d) = 1 .. 0
    BY DEF KInit, Committed
  <1>3. RevisionsFollow /\ CommittedIsReadable
    <2>1. RevisionsFollow
      BY <1>2 DEF RevisionsFollow
    <2>2. \A d \in Document : Committed(d) = {}
      BY <1>2
    <2> QED
      BY <2>1, <2>2 DEF CommittedIsReadable
  <1>4. SavesHoldPermits
    BY <1>1 DEF SavesHoldPermits
  <1>5. SavesFollow /\ SavesWriteTheirs
    BY <1>1 DEF SavesFollow, SavesWriteTheirs
  <1> QED
    BY <1>3, <1>4, <1>5 DEF SaveInv

(* A step that leaves the files alone and changes no save but one. *)
LEMMA FilesKept ==
    ASSUME UNCHANGED <<records, markdown, edits>>
    PROVE  /\ \A d : Committed(d)' = Committed(d)
           /\ RevisionsFollow => RevisionsFollow'
           /\ CommittedIsReadable => CommittedIsReadable'
  BY DEF Committed, RevisionsFollow, CommittedIsReadable, ReadsBack

LEMMA StartKeeps ==
    ASSUME KTypeOK, SaveInv, NEW s \in Saver, NEW d \in Document, NEW n \in 0 .. MaxRevision - 1,
           NEW t \in Text, StartSave(s, d, n, t)
    PROVE  SaveInv'
  <1>1. /\ savers'[s].pc = "verify" /\ savers'[s].doc = d
        /\ \A z \in Saver : z # s => savers'[z] = savers[z]
    BY DEF StartSave, KTypeOK
  <1>2. \A z \in Saver : z # s => (Running(z)' <=> Running(z))
    BY <1>1 DEF Running
  <1>3. \A z \in Saver : Running(z) => savers[z].doc # d
    BY DEF StartSave, SaveInv, SavesHoldPermits
  <1>4. SavesHoldPermits'
    BY <1>1, <1>2, <1>3 DEF StartSave, SaveInv, SavesHoldPermits
  <1>5. RevisionsFollow' /\ CommittedIsReadable'
    BY FilesKept DEF StartSave, SaveInv
  <1>6. SavesFollow'
    BY <1>1, <1>2, FilesKept DEF StartSave, SaveInv, SavesFollow
  <1>7. SavesWriteTheirs'
    BY <1>1, <1>2 DEF StartSave, SaveInv, SavesWriteTheirs
  <1> QED
    BY <1>4, <1>5, <1>6, <1>7 DEF SaveInv

LEMMA VerifyKeeps ==
    ASSUME KTypeOK, SaveInv, NEW s \in Saver, VerifyRevision(s)
    PROVE  SaveInv'
  <1> DEFINE d == savers[s].doc
  <1>1. Running(s)
    BY IdleHasNoStage DEF VerifyRevision, Stage
  <1>2. savers[s] \in Save /\ d \in Document
    BY <1>1, SaveType
  <1>3. PICK n \in Nat : Committed(d) = 1 .. n
    BY <1>2 DEF SaveInv, RevisionsFollow
  <1>4. Latest(d) = n
    BY <1>3, LatestIsLast
  <1>5. savers' = [savers EXCEPT ![s].pc = "clean", ![s].revision = n + 1]
    BY <1>4 DEF VerifyRevision
  <1>6. savers[s].expected = n /\ n + 1 \in Revision
    BY <1>4 DEF VerifyRevision
  <1>7. /\ savers'[s] = [savers[s] EXCEPT !.pc = "clean", !.revision = n + 1]
        /\ \A z \in Saver : z # s => savers'[z] = savers[z]
    BY <1>5 DEF KTypeOK
  <1>8. /\ savers'[s].pc = "clean" /\ savers'[s].doc = savers[s].doc
        /\ savers'[s].expected = n /\ savers'[s].revision = n + 1
    BY <1>2, <1>6, <1>7 DEF Save
  <1>91. \A z \in Saver : (Running(z)' <=> Running(z)) /\ savers'[z].doc = savers[z].doc
    <2>1. savers'[s] # NoSave
      BY <1>8 DEF NoSave
    <2> QED
      BY <2>1, <1>1, <1>7, <1>8 DEF Running
  <1> HIDE DEF d
  <1>92. active' = active /\ UNCHANGED <<records, markdown, edits>>
    BY DEF VerifyRevision
  <1>9. SavesHoldPermits'
    BY <1>91, <1>92 DEF SaveInv, SavesHoldPermits
  <1>10. RevisionsFollow' /\ CommittedIsReadable'
    BY FilesKept DEF VerifyRevision, SaveInv
  <1>11. SavesFollow'
    <2>1. \A e : Committed(e)' = Committed(e)
      BY <1>92, FilesKept
    <2>2. Committed(savers[s].doc) = 1 .. n
      BY <1>3 DEF d
    <2> QED
      BY <2>1, <2>2, <1>6, <1>7, <1>8, <1>91 DEF SaveInv, SavesFollow
  <1>12. SavesWriteTheirs'
    BY <1>7, <1>8, <1>91, <1>92 DEF SaveInv, SavesWriteTheirs
  <1> QED
    BY <1>9, <1>10, <1>11, <1>12 DEF SaveInv

(* A save at work on the Markdown of its revision: no other save has that document, and the *)
(* revision is not committed.                                                               *)
LEMMA SaveIsAlone ==
    ASSUME KTypeOK, SaveInv, NEW s \in Saver, savers[s].pc \in Stage \ {"verify"}
    PROVE  /\ Running(s) /\ savers[s] \in Save
           /\ savers[s].doc \in Document /\ savers[s].revision \in Revision
           /\ \A z \in Saver : Running(z) /\ z # s => savers[z].doc # savers[s].doc
           /\ Committed(savers[s].doc) = 1 .. savers[s].expected
           /\ savers[s].revision = savers[s].expected + 1
           /\ savers[s].revision \notin Committed(savers[s].doc)
  <1>1. Running(s)
    BY IdleHasNoStage
  <1>2. savers[s].expected \in Nat
    BY <1>1, SaveType, RevisionAssumption
  <1>3. /\ Committed(savers[s].doc) = 1 .. savers[s].expected
        /\ savers[s].revision = savers[s].expected + 1
        /\ savers[s].revision \in Revision
    BY <1>1 DEF SaveInv, SavesFollow
  <1> QED
    BY <1>1, <1>2, <1>3, SaveType DEF SaveInv, SavesHoldPermits

(* The steps on the Markdown of the revision. *)
LEMMA MarkdownKeeps ==
    ASSUME KTypeOK, SaveInv, NEW s \in Saver, NEW pc \in {"markdown", "record"},
           savers[s].pc \in {"clean", "markdown"}, Goto(s, pc),
           NEW t, markdown' = [markdown EXCEPT ![savers[s].doc][savers[s].revision] = t],
           pc = "record" => t = savers[s].text,
           UNCHANGED <<records, active, edits>>
    PROVE  SaveInv'
  <1> DEFINE d == savers[s].doc
             n == savers[s].revision
  <1>1. /\ Running(s) /\ savers[s] \in Save /\ d \in Document /\ n \in Revision
        /\ \A z \in Saver : Running(z) /\ z # s => savers[z].doc # d
        /\ Committed(d) = 1 .. savers[s].expected
        /\ n = savers[s].expected + 1 /\ n \notin Committed(d)
    BY SaveIsAlone DEF Stage
  <1>2. /\ savers'[s] = [savers[s] EXCEPT !.pc = pc]
        /\ \A z \in Saver : z # s => savers'[z] = savers[z]
    BY DEF Goto, KTypeOK
  <1>3. /\ savers'[s].pc = pc /\ savers'[s].doc = d /\ savers'[s].text = savers[s].text
        /\ savers'[s].expected = savers[s].expected /\ savers'[s].revision = n
    BY <1>1, <1>2 DEF Save
  <1>4. /\ markdown'[d][n] = t
        /\ \A e \in Document, m \in Revision : e # d \/ m # n => markdown'[e][m] = markdown[e][m]
    BY <1>1 DEF KTypeOK, NewText
  <1>5. \A z \in Saver : (Running(z)' <=> Running(z)) /\ savers'[z].doc = savers[z].doc
    <2>1. savers'[s] # NoSave
      BY <1>3 DEF NoSave
    <2> QED
      BY <2>1, <1>1, <1>2, <1>3 DEF Running
  <1> HIDE DEF d, n
  <1>6. \A e : Committed(e)' = Committed(e)
    BY DEF Committed
  <1>7. SavesHoldPermits'
    BY <1>5 DEF SaveInv, SavesHoldPermits
  <1>8. RevisionsFollow'
    BY <1>6 DEF SaveInv, RevisionsFollow
  <1>9. SavesFollow'
    <2> SUFFICES ASSUME NEW z \in Saver, Running(z)', savers'[z].pc # "verify"
                 PROVE  /\ Committed(savers'[z].doc) = 1 .. savers'[z].expected
                        /\ savers'[z].revision = savers'[z].expected + 1
                        /\ savers'[z].revision \in Revision
      BY <1>6 DEF SavesFollow
    <2>1. CASE z = s
      BY <2>1, <1>1, <1>3
    <2>2. CASE z # s
      BY <2>2, <1>2, <1>5 DEF SaveInv, SavesFollow
    <2> QED
      BY <2>1, <2>2
  <1>10. SavesWriteTheirs'
    <2> SUFFICES ASSUME edits = 0, NEW z \in Saver, Running(z)', savers'[z].pc = "record"
                 PROVE  markdown'[savers'[z].doc][savers'[z].revision] = savers'[z].text
      BY DEF SavesWriteTheirs
    <2>1. CASE z = s
      BY <2>1, <1>3, <1>4
    <2>2. CASE z # s
      <3>1. savers'[z] = savers[z] /\ Running(z) /\ savers[z].doc # d
        BY <2>2, <1>1, <1>2, <1>5
      <3>2. savers[z].doc \in Document /\ savers[z].revision \in Revision
        BY <3>1, SaveIsAlone DEF Stage
      <3> QED
        BY <3>1, <3>2, <1>4 DEF SaveInv, SavesWriteTheirs
    <2> QED
      BY <2>1, <2>2
  <1>11. CommittedIsReadable'
    BY <1>1, <1>4, <1>6 DEF SaveInv, CommittedIsReadable, ReadsBack, Committed
  <1> QED
    BY <1>7, <1>8, <1>9, <1>10, <1>11 DEF SaveInv

(* A record commits the revision after the last one, and nothing else. *)
LEMMA RecordCommits ==
    ASSUME KTypeOK, SaveInv, NEW s \in Saver, WriteRecord(s),
           NEW d, NEW n, d = savers[s].doc, n = savers[s].revision
    PROVE  /\ Running(s) /\ d \in Document /\ n \in Revision
           /\ savers[s].expected \in Nat /\ n = savers[s].expected + 1
           /\ \A z \in Saver : Running(z) /\ z # s => savers[z].doc # d
           /\ Committed(d) = 1 .. savers[s].expected
           /\ Committed(d)' = 1 .. n
           /\ records'[d][n] = savers[s].text
           /\ \A m \in Revision : m # n => records'[d][m] = records[d][m]
           /\ \A e \in Document \ {d} : records'[e] = records[e] /\ Committed(e)' = Committed(e)
  <1>1. savers[s].pc = "record"
    BY DEF WriteRecord
  <1>2. /\ Running(s) /\ d \in Document /\ n \in Revision
        /\ \A z \in Saver : Running(z) /\ z # s => savers[z].doc # d
        /\ Committed(d) = 1 .. savers[s].expected
        /\ n = savers[s].expected + 1 /\ n \notin Committed(d)
    BY <1>1, SaveIsAlone DEF Stage
  <1>3. savers[s].text \in Text /\ savers[s].expected \in Nat
    BY <1>2, SaveType, RevisionAssumption
  <1>4. /\ records'[d][n] = savers[s].text
        /\ \A m \in Revision : m # n => records'[d][m] = records[d][m]
        /\ \A e \in Document \ {d} : records'[e] = records[e]
    BY <1>2 DEF WriteRecord, KTypeOK, NewText
  <1>5. Committed(d)' = Committed(d) \cup {n}
    <2>1. savers[s].text # NoText
      BY <1>3, TextAssumption
    <2>2. \A m \in Revision : records'[d][m] # NoText <=> records[d][m] # NoText \/ m = n
      BY <1>2, <1>4, <2>1
    <2> QED
      BY <1>2, <2>2 DEF Committed
  <1>6. Committed(d)' = 1 .. n
    BY <1>2, <1>3, <1>5
  <1>7. \A e \in Document \ {d} : Committed(e)' = Committed(e)
    BY <1>4 DEF Committed
  <1> QED
    BY <1>2, <1>3, <1>4, <1>6, <1>7

LEMMA RecordKeeps ==
    ASSUME KTypeOK, SaveInv, NEW s \in Saver, WriteRecord(s)
    PROVE  SaveInv'
  <1>1. PICK d \in Document, n \in Revision :
           /\ Running(s) /\ d = savers[s].doc /\ n = savers[s].revision /\ n \in Nat
           /\ \A z \in Saver : Running(z) /\ z # s => savers[z].doc # d
           /\ Committed(d)' = 1 .. n /\ Committed(d) = 1 .. n - 1
           /\ records'[d][n] = savers[s].text
           /\ \A m \in Revision : m # n => records'[d][m] = records[d][m]
           /\ \A e \in Document \ {d} : records'[e] = records[e] /\ Committed(e)' = Committed(e)
    BY RecordCommits
  <1>2. /\ savers'[s] = NoSave /\ active' = active \ {d}
        /\ \A z \in Saver : z # s => savers'[z] = savers[z]
    BY <1>1 DEF WriteRecord, EndSave, KTypeOK
  <1>3. edits' = edits /\ markdown' = markdown
    BY DEF WriteRecord
  <1>4. edits = 0 => markdown[d][n] = savers[s].text
    BY <1>1 DEF SaveInv, SavesWriteTheirs, WriteRecord
  <1>5. \A z \in Saver : Running(z)' => z # s /\ Running(z) /\ savers'[z] = savers[z]
                                       /\ savers[z].doc # d /\ savers[z].doc \in Document
    BY <1>1, <1>2, SaveType DEF Running
  <1>6. SavesHoldPermits'
    BY <1>2, <1>5 DEF SaveInv, SavesHoldPermits
  <1>7. RevisionsFollow'
    <2>1. \A e \in Document \ {d} : \E m \in Nat : Committed(e)' = 1 .. m
      BY <1>1 DEF SaveInv, RevisionsFollow
    <2>2. \A e \in Document : \E m \in Nat : Committed(e)' = 1 .. m
      <3> TAKE e \in Document
      <3>1. CASE e = d
        BY <3>1, <1>1
      <3>2. CASE e # d
        BY <3>2, <2>1
      <3> QED
        BY <3>1, <3>2
    <2> QED
      BY <2>2 DEF RevisionsFollow
  <1>8. SavesFollow'
    BY <1>1, <1>5 DEF SaveInv, SavesFollow
  <1>9. SavesWriteTheirs'
    BY <1>3, <1>5 DEF SaveInv, SavesWriteTheirs
  <1>10. CommittedIsReadable'
    <2> SUFFICES ASSUME edits = 0, NEW e \in Document, NEW m \in Revision, m \in Committed(e)'
                 PROVE  markdown[e][m] = records'[e][m]
      BY <1>3 DEF CommittedIsReadable, ReadsBack, Committed
    <2>1. CASE e = d /\ m = n
      BY <2>1, <1>1, <1>4
    <2>2. CASE ~(e = d /\ m = n)
      <3>1. m \in Committed(e) /\ records'[e][m] = records[e][m]
        BY <2>2, <1>1 DEF Committed
      <3> QED
        BY <3>1 DEF SaveInv, CommittedIsReadable, ReadsBack
    <2> QED
      BY <2>1, <2>2
  <1> QED
    BY <1>6, <1>7, <1>8, <1>9, <1>10 DEF SaveInv

LEMMA RefuseKeeps ==
    ASSUME KTypeOK, SaveInv, NEW s \in Saver, RefuseSave(s)
    PROVE  SaveInv'
  <1>1. /\ savers'[s] = NoSave /\ active' = active \ {savers[s].doc}
        /\ \A z \in Saver : z # s => savers'[z] = savers[z]
        /\ Running(s) /\ UNCHANGED <<records, markdown, edits>>
    BY DEF RefuseSave, EndSave, KTypeOK
  <1>2. \A z \in Saver : Running(z)' => Running(z) /\ savers'[z] = savers[z]
                                       /\ savers[z].doc # savers[s].doc
    BY <1>1 DEF Running, SaveInv, SavesHoldPermits
  <1>3. SavesHoldPermits'
    BY <1>1, <1>2 DEF SaveInv, SavesHoldPermits
  <1>4. RevisionsFollow' /\ CommittedIsReadable' /\ \A e : Committed(e)' = Committed(e)
    BY <1>1, FilesKept DEF SaveInv
  <1>5. SavesFollow'
    BY <1>2, <1>4 DEF SaveInv, SavesFollow
  <1>6. SavesWriteTheirs'
    BY <1>1, <1>2 DEF SaveInv, SavesWriteTheirs
  <1> QED
    BY <1>3, <1>4, <1>5, <1>6 DEF SaveInv

LEMMA EditKeeps ==
    ASSUME KTypeOK, SaveInv, NEW d \in Document, NEW n \in Revision, NEW t, EditMarkdown(d, n, t)
    PROVE  SaveInv'
  <1>1. edits' # 0 /\ UNCHANGED <<records, active, savers>>
    BY RevisionAssumption DEF EditMarkdown, KTypeOK
  <1> QED
    BY <1>1 DEF SaveInv, SavesHoldPermits, RevisionsFollow, SavesFollow, SavesWriteTheirs,
       CommittedIsReadable, Running, Committed

LEMMA SaveInvStep == KTypeOK /\ SaveInv /\ [KNext]_kvars => SaveInv'
  <1> SUFFICES ASSUME KTypeOK, SaveInv, [KNext]_kvars PROVE SaveInv'
    OBVIOUS
  <1>1. ASSUME NEW s \in Saver, RemoveUncommittedMarkdown(s) PROVE SaveInv'
    BY <1>1, MarkdownKeeps DEF RemoveUncommittedMarkdown
  <1>2. ASSUME NEW s \in Saver, WriteMarkdown(s) PROVE SaveInv'
    BY <1>2, MarkdownKeeps DEF WriteMarkdown
  <1>3. ASSUME UNCHANGED <<records, markdown, active, savers, edits>> PROVE SaveInv'
    BY <1>3 DEF SaveInv, SavesHoldPermits, RevisionsFollow, SavesFollow, SavesWriteTheirs,
       CommittedIsReadable, Running, Committed, ReadsBack
  <1>4. ASSUME NEW d \in Document, RetireOriginal(d) PROVE SaveInv'
    BY <1>3, <1>4 DEF RetireOriginal
  <1>5. CASE KCrash
    <2>1. \A s \in Saver : ~Running(s)'
      BY <1>5 DEF KCrash, EndSaves, Running
    <2>2. RevisionsFollow' /\ CommittedIsReadable'
      BY <1>5, FilesKept DEF KCrash, SaveInv
    <2> QED
      BY <2>1, <2>2 DEF SaveInv, SavesHoldPermits, SavesFollow, SavesWriteTheirs
  <1>6. CASE UNCHANGED kvars
    BY <1>3, <1>6 DEF kvars
  <1> QED
    BY <1>1, <1>2, <1>4, <1>5, <1>6, StartKeeps, VerifyKeeps, RecordKeeps, RefuseKeeps, EditKeeps
       DEF KNext, KUser, SaveStep

(* The documents of a graph are those of KnowledgeStore: no step of a relation, and no end of *)
(* the process, does to them what they do not do by themselves.                               *)
LEMMA GraphInit == Init => KInit
  BY DEF Init

LEMMA GraphStep == [Next]_vars => [KNext]_kvars
  BY DEF Next, vars, kvars, Knowledge, Graph, Crash, KNext

(* Every committed revision reads back as it was saved, unless somebody edited a file,        *)
(* however many saves, failures and ends of the process there are (save_document).            *)
THEOREM RevisionsReadBack == Spec => []CommittedIsReadable
  <1>1. Init => KTypeOK /\ SaveInv
    BY GraphInit, KTypeInit, SaveInit
  <1>2. KTypeOK /\ SaveInv /\ [Next]_vars => (KTypeOK /\ SaveInv)'
    BY GraphStep, KTypeStep, SaveInvStep
  <1>3. KTypeOK /\ SaveInv => CommittedIsReadable
    BY DEF SaveInv
  <1> QED
    BY <1>1, <1>2, <1>3, PTL DEF Spec

-----------------------------------------------------------------------------
(* What the calls of save_document ask for. *)
Requested == {Wanted(s) : s \in {z \in Saver : Running(z)}}

LEMMA RequestedType == KTypeOK => Requested \subseteq Revisions!Request
  <1> SUFFICES ASSUME KTypeOK, NEW s \in Saver, Running(s) PROVE Wanted(s) \in Revisions!Request
    BY DEF Requested
  <1> QED
    BY SaveType, RevisionAssumption DEF Wanted, Revisions!Request

LEMMA HistoryKept ==
    ASSUME records' = records
    PROVE  History' = History
  BY DEF History, Latest, Committed

LEMMA RequestedKept ==
    ASSUME \A s \in Saver : Running(s)' <=> Running(s),
           \A s \in Saver : Running(s) => Wanted(s)' = Wanted(s)
    PROVE  Requested' = Requested
  BY DEF Requested

(* A step of a save that goes on is no step of the register. *)
LEMMA ProceedStutters ==
    ASSUME KTypeOK, NEW s \in Saver, Running(s), records' = records,
           NEW call, savers' = [savers EXCEPT ![s] = call], call \in Save,
           call.doc = savers[s].doc, call.expected = savers[s].expected,
           call.text = savers[s].text
    PROVE  UNCHANGED <<History, Requested>>
  <1>1. /\ savers'[s] = call /\ call # NoSave
        /\ \A z \in Saver : z # s => savers'[z] = savers[z]
    BY DEF KTypeOK, Save, NoSave, Stage
  <1>2. \A z \in Saver : Running(z)' <=> Running(z)
    BY <1>1 DEF Running
  <1>3. \A z \in Saver : Wanted(z)' = Wanted(z)
    BY <1>1 DEF Wanted
  <1> QED
    BY <1>2, <1>3, RequestedKept, HistoryKept

(* A save that writes its record puts its value at the end of the history. *)
LEMMA RecordApplies ==
    ASSUME KTypeOK, SaveInv, NEW s \in Saver, WriteRecord(s)
    PROVE  \E r \in Requested : Revisions!Apply(r)
  <1>1. PICK d \in Document, n \in Revision, k \in Nat, t \in Text :
           /\ Running(s) /\ d = savers[s].doc /\ n = savers[s].revision
           /\ k = savers[s].expected /\ t = savers[s].text /\ n = k + 1
           /\ Committed(d)' = 1 .. n /\ Committed(d) = 1 .. k
           /\ records'[d][n] = t
           /\ \A m \in Revision : m # n => records'[d][m] = records[d][m]
           /\ \A e \in Document \ {d} : records'[e] = records[e] /\ Committed(e)' = Committed(e)
    BY RecordCommits, SaveType
  <1>2. /\ savers'[s] = NoSave
        /\ \A z \in Saver : z # s => savers'[z] = savers[z]
    BY DEF WriteRecord, EndSave, KTypeOK
  <1>3. Requested' = Requested \ {Wanted(s)}
    <2>1. \A z \in Saver : Running(z)' <=> Running(z) /\ z # s
      BY <1>2 DEF Running
    <2>2. \A z \in Saver : z # s => Wanted(z)' = Wanted(z) /\ Wanted(z) # Wanted(s)
      BY <1>2 DEF Wanted
    <2> QED
      BY <2>1, <2>2 DEF Requested
  <1>4. Latest(d) = k
    BY <1>1, LatestIsLast
  <1>5. Latest(d)' = n
    <2>1. /\ n \in {0} \cup Committed(d)' /\ \A m \in Committed(d)' : m <= n
          /\ n \in Nat
      BY <1>1
    <2>2. Latest(d)' \in {0} \cup Committed(d)' /\ \A m \in Committed(d)' : m <= Latest(d)'
      BY <2>1 DEF Latest
    <2> QED
      BY <1>1, <2>1, <2>2
  <1>6. \A e \in Document \ {d} : Latest(e)' = Latest(e)
    BY <1>1 DEF Latest
  <1>7. History[d] = [m \in 1 .. k |-> records[d][m]] /\ Len(History[d]) = k
    BY <1>4 DEF History
  <1>8. History' = [History EXCEPT ![d] = Append(@, t)]
    <2>1. History'[d] = Append(History[d], t)
      <3>1. History'[d] = [m \in 1 .. n |-> records'[d][m]]
        BY <1>5 DEF History
      <3>2. \A m \in 1 .. k : m \in Revision /\ m # n
        BY <1>1 DEF Committed
      <3>3. \A m \in 1 .. n : records'[d][m] = IF m = n THEN t ELSE records[d][m]
        BY <1>1, <3>2
      <3>4. Append([m \in 1 .. k |-> records[d][m]], t)
                = [m \in 1 .. n |-> IF m = n THEN t ELSE records[d][m]]
        BY <1>1
      <3> QED
        BY <1>7, <3>1, <3>3, <3>4
    <2>2. \A e \in Document \ {d} : History'[e] = History[e]
      BY <1>1, <1>6 DEF History
    <2> QED
      BY <2>1, <2>2 DEF History
  <1>9. Wanted(s) \in Requested /\ Wanted(s).key = d /\ Wanted(s).expected = k /\ Wanted(s).value = t
    BY <1>1 DEF Requested, Wanted
  <1>10. Revisions!Apply(Wanted(s))
    BY <1>3, <1>7, <1>8, <1>9 DEF Revisions!Apply, Revisions!IsOver, Requested
  <1> QED
    BY <1>9, <1>10

LEMMA RegisterInit == KInit => Revisions!Init
  <1> SUFFICES ASSUME KInit PROVE Revisions!Init
    OBVIOUS
  <1>1. \A d \in Document : Committed(d) = 1 .. 0
    BY DEF KInit, Committed
  <1>2. \A d \in Document : Latest(d) = 0
    BY <1>1, LatestIsLast
  <1>3. History = [d \in Document |-> << >>]
    BY <1>2 DEF History
  <1>4. \A s \in Saver : ~Running(s)
    BY DEF KInit, Running
  <1> QED
    BY <1>3, <1>4 DEF Revisions!Init

(* Every step of the documents is a step of the register or none. *)
LEMMA RegisterStep ==
    KTypeOK /\ SaveInv /\ [KNext]_kvars => [Revisions!Next]_<<History, Requested>>
  <1> SUFFICES ASSUME KTypeOK, SaveInv, [KNext]_kvars
               PROVE  [Revisions!Next]_<<History, Requested>>
    OBVIOUS
  <1>1. ASSUME NEW s \in Saver, NEW d \in Document, NEW n \in 0 .. MaxRevision - 1, NEW t \in Text,
               StartSave(s, d, n, t)
        PROVE  Revisions!Next
    <2>1. KTypeOK' /\ Requested' \in SUBSET Revisions!Request
      <3>1. KTypeOK'
        BY KTypeStep
      <3>2. ASSUME NEW z \in Saver, Running(z)' PROVE Wanted(z)' \in Revisions!Request
        <4>1. savers'[z] \in Save
          BY <3>1, <3>2 DEF KTypeOK, Running
        <4>2. Wanted(z)' = [by |-> z, key |-> savers'[z].doc, expected |-> savers'[z].expected,
                            value |-> savers'[z].text]
          BY DEF Wanted
        <4> QED
          BY <4>1, <4>2, RevisionAssumption DEF Save, Revisions!Request
      <3> QED
        BY <3>1, <3>2 DEF Requested
    <2>2. \A z \in Saver : Running(z) => z # s /\ savers'[z] = savers[z]
      BY <1>1 DEF StartSave, KTypeOK
    <2>3. Requested \subseteq Requested'
      BY <2>2 DEF Requested, Wanted, Running
    <2>4. History' = History
      BY <1>1, HistoryKept DEF StartSave
    <2> QED
      BY <2>1, <2>3, <2>4 DEF Revisions!Next, Revisions!Submit, Requested
  <1>2. ASSUME NEW s \in Saver, VerifyRevision(s) PROVE UNCHANGED <<History, Requested>>
    <2> DEFINE n == Latest(savers[s].doc) + 1
    <2>1. Running(s) /\ savers[s] \in Save
      BY <1>2, IdleHasNoStage, SaveType DEF VerifyRevision, Stage
    <2>2. n \in 0 .. MaxRevision
      BY <1>2, RevisionAssumption DEF VerifyRevision, Revision
    <2>3. savers' = [savers EXCEPT ![s].pc = "clean", ![s].revision = n] /\ records' = records
      BY <1>2 DEF VerifyRevision
    <2> HIDE DEF n
    <2> DEFINE call == [savers[s] EXCEPT !.pc = "clean", !.revision = n]
    <2>4. savers' = [savers EXCEPT ![s] = call]
      BY <2>3 DEF KTypeOK
    <2>5. /\ call \in Save /\ call.doc = savers[s].doc /\ call.expected = savers[s].expected
          /\ call.text = savers[s].text
      BY <2>1, <2>2 DEF Save, Stage
    <2> HIDE DEF call
    <2> QED
      BY <2>1, <2>3, <2>4, <2>5, ProceedStutters
  <1>3. ASSUME NEW s \in Saver, NEW pc \in {"markdown", "record"}, Goto(s, pc), records' = records,
               savers[s].pc \in Stage
        PROVE  UNCHANGED <<History, Requested>>
    <2>1. Running(s) /\ savers[s] \in Save
      BY <1>3, IdleHasNoStage, SaveType
    <2> DEFINE call == [savers[s] EXCEPT !.pc = pc]
    <2>2. savers' = [savers EXCEPT ![s] = call]
      BY <1>3 DEF Goto, KTypeOK
    <2>3. /\ call \in Save /\ call.doc = savers[s].doc /\ call.expected = savers[s].expected
          /\ call.text = savers[s].text
      BY <2>1 DEF Save, Stage
    <2> HIDE DEF call
    <2> QED
      BY <1>3, <2>1, <2>2, <2>3, ProceedStutters
  <1>4. ASSUME NEW s \in Saver, RemoveUncommittedMarkdown(s) PROVE UNCHANGED <<History, Requested>>
    BY <1>3, <1>4 DEF RemoveUncommittedMarkdown, Stage
  <1>5. ASSUME NEW s \in Saver, WriteMarkdown(s) PROVE UNCHANGED <<History, Requested>>
    BY <1>3, <1>5 DEF WriteMarkdown, Stage
  <1>6. ASSUME NEW s \in Saver, WriteRecord(s) PROVE Revisions!Next
    BY <1>6, RecordApplies DEF Revisions!Next, Requested
  <1>7. ASSUME records' = records, \A z \in Saver : Running(z)' => Running(z) /\ savers'[z] = savers[z]
        PROVE  Revisions!Next
    <2>1. Requested' \subseteq Requested
      BY <1>7 DEF Requested, Wanted
    <2>2. History' = History
      BY <1>7, HistoryKept
    <2> QED
      BY <2>1, <2>2 DEF Revisions!Next, Revisions!Withdraw, Requested
  <1>8. ASSUME NEW s \in Saver, RefuseSave(s) PROVE Revisions!Next
    BY <1>7, <1>8 DEF RefuseSave, EndSave, Running, KTypeOK
  <1>9. CASE KCrash
    BY <1>7, <1>9 DEF KCrash, EndSaves, Running
  <1>10. ASSUME records' = records, savers' = savers PROVE UNCHANGED <<History, Requested>>
    BY <1>10, HistoryKept DEF Requested, Wanted, Running
  <1>11. ASSUME NEW d \in Document, RetireOriginal(d) PROVE UNCHANGED <<History, Requested>>
    BY <1>10, <1>11 DEF RetireOriginal
  <1>12. ASSUME NEW d \in Document, NEW n \in Revision, NEW t \in Text \cup {NoText},
                EditMarkdown(d, n, t)
         PROVE  UNCHANGED <<History, Requested>>
    BY <1>10, <1>12 DEF EditMarkdown
  <1>13. CASE UNCHANGED kvars
    BY <1>10, <1>13 DEF kvars
  <1> QED
    BY <1>1, <1>2, <1>4, <1>5, <1>6, <1>8, <1>9, <1>11, <1>12, <1>13 DEF KNext, KUser, SaveStep

(* The revisions of every document are a register: a save takes effect at most once, and only *)
(* over the revision that its caller had opened (save_document).                              *)
THEOREM SavesAreARegister == Spec => RevisionsAreARegister
  <1>1. Init => KTypeOK /\ SaveInv /\ Revisions!Init
    BY GraphInit, KTypeInit, SaveInit, RegisterInit
  <1>2. KTypeOK /\ SaveInv /\ [Next]_vars => (KTypeOK /\ SaveInv)'
    BY GraphStep, KTypeStep, SaveInvStep
  <1>3. KTypeOK /\ SaveInv /\ [Next]_vars =>
            [Revisions!Next]_<<History, {Wanted(s) : s \in {z \in Saver : Running(z)}}>>
    BY GraphStep, RegisterStep DEF Requested
  <1> QED
    BY <1>1, <1>2, <1>3, PTL DEF Spec, RevisionsAreARegister, Revisions!Spec

-----------------------------------------------------------------------------
(* The relations.  The files of a relation are a chain of versions; a call   *)
(* under way knows what its version will follow, and its permit keeps every  *)
(* other decision about that relation away.                                  *)

Cites(v, rs) == rs[v.evidence.doc][v.evidence.revision] = v.evidence.text

\* v may follow u: u was under review, and a decision keeps what it cites.
Follows(v, u) ==
    u.status = "review" /\ (v.status = "review" \/ u = [v EXCEPT !.status = "review"])

\* The versions h of a relation are 1 to k, over the records rs.
Length(h, k) == \A n \in Version : h[n] # NoVersion <=> n <= k

Chain(h, rs, k) ==
    /\ Length(h, k)
    /\ \A n \in 1 .. k : Cites(h[n], rs)
    /\ k > 0 => h[1].status = "review"
    /\ \A n \in 2 .. k : Follows(h[n], h[n - 1])

FilesOK(vs, rs) ==
    /\ vs \in [Relation -> [Version -> GraphRelation \cup {NoVersion}]]
    /\ \A r \in Relation : \E k \in 0 .. MaxVersion : Chain(vs[r], rs, k)

\* The calls: a proposal or an import writes first versions, a decision the next one.
HasFields(t) ==
    t = [pc |-> t.pc, permit |-> t.permit, relations |-> t.relations, todo |-> t.todo,
         version |-> t.version, expected |-> t.expected, next |-> t.next]

\* A call names each of its relations once, and goes on while one is left.
NamesOK(t) ==
    /\ t.relations \in Seq(Relation)
    /\ \A i, j \in DOMAIN t.relations : t.relations[i] = t.relations[j] => i = j
    /\ t.todo \subseteq DOMAIN t.relations
    /\ \/ t.todo # {}
       \/ t.pc = "read" /\ \E c \in Comparison : t.permit = ComparisonKey(c)
    /\ \A c \in Comparison : t.permit = ComparisonKey(c) => t.relations = Suggested[c]

ReviewTask(t) ==
    /\ t.version = 1
    /\ \A r \in Relation : t.permit # RelationKey(r)
    /\ t.pc # "read" => t.next.status = "review"

DecisionTask(t, vs) ==
    \E r \in Relation :
        /\ t.permit = RelationKey(r) /\ t.relations = <<r>> /\ t.todo = {1} /\ t.pc # "folder"
        /\ t.pc # "read" =>
              /\ t.version \in Version /\ t.version > 1 /\ t.version = t.expected + 1
              /\ Length(vs[r], t.version - 1) /\ Follows(t.next, vs[r][t.version - 1])

TaskOK(t, vs, rs) ==
    /\ HasFields(t) /\ t.pc \in {"read", "folder", "stage", "publish"}
    /\ NamesOK(t) /\ t.expected \in 0 .. MaxVersion
    /\ IF t.pc = "read" THEN t.next = NoVersion ELSE t.next \in GraphRelation /\ Cites(t.next, rs)
    /\ ReviewTask(t) \/ DecisionTask(t, vs)

WritersHoldPermits ==
    \A w \in Writer : Writing(w) =>
        /\ writers[w].permit \in permits
        /\ \A z \in Writer : Writing(z) /\ writers[z].permit = writers[w].permit => z = w

RelationInv ==
    /\ FilesOK(versions, records)
    /\ writers = [w \in Writer |-> writers[w]]
    /\ \A w \in Writer : Writing(w) => TaskOK(writers[w], versions, records)
    /\ WritersHoldPermits

LEMMA KeysDiffer ==
    ASSUME NEW r
    PROVE  /\ \A q : RelationKey(r) = RelationKey(q) => r = q
           /\ \A c : ComparisonKey(r) = ComparisonKey(c) => r = c
           /\ \A c, d : ComparisonKey(c) # DocumentKey(d)
           /\ \A d : DocumentKey(d) # RelationKey(r)
           /\ \A c : ComparisonKey(c) # RelationKey(r)
  <1>1. \A q : RelationKey(q)[1] = "relation" /\ RelationKey(q)[2] = q
    BY DEF RelationKey
  <1>2. \A d : /\ DocumentKey(d)[1] = "document" /\ ComparisonKey(d)[1] = "comparison"
              /\ ComparisonKey(d)[2] = d
    BY DEF DocumentKey, ComparisonKey
  <1> QED
    BY <1>1, <1>2

LEMMA TaskIsNoIdle ==
    ASSUME NEW t, t.pc \in {"read", "folder", "stage", "publish"}
    PROVE  t # NoWrite
  BY DEF NoWrite

LEMMA LengthIsTop ==
    ASSUME NEW r \in Relation, NEW k \in 0 .. MaxVersion, Length(versions[r], k)
    PROVE  Written(r) = 1 .. k /\ Top(r) = k
  <1>1. Written(r) = 1 .. k
    BY VersionAssumption DEF Written, Length, Version
  <1>2. Cardinality(1 .. k) = k
    BY FS_Interval, VersionAssumption
  <1> QED
    BY <1>1, <1>2 DEF Top

(* Nothing that was cited changes when a document gets a new revision. *)
LEMMA RecordsGrow ==
    ASSUME KTypeOK, SaveInv, [KNext]_kvars, NEW d \in Document, NEW n \in Revision,
           records[d][n] # NoText
    PROVE  records'[d][n] = records[d][n]
  <1>1. ASSUME NEW s \in Saver, WriteRecord(s) PROVE records'[d][n] = records[d][n]
    <2>1. PICK e \in Document, m \in Revision :
              /\ records' = [records EXCEPT ![e][m] = savers[s].text]
              /\ records[e][m] = NoText
      <3>1. savers[s].doc \in Document /\ savers[s].revision \in Revision
        BY <1>1, SaveIsAlone DEF WriteRecord, Stage
      <3> QED
        BY <1>1, <3>1 DEF WriteRecord
    <2> QED
      BY <2>1 DEF KTypeOK, NewText
  <1>2. ASSUME records' = records PROVE records'[d][n] = records[d][n]
    BY <1>2
  <1>3. CASE UNCHANGED kvars
    BY <1>2, <1>3 DEF kvars
  <1>4. CASE KCrash
    BY <1>2, <1>4 DEF KCrash
  <1>5. CASE KUser
    BY <1>2, <1>5 DEF KUser, StartSave, RetireOriginal, EditMarkdown
  <1>6. ASSUME NEW s \in Saver, SaveStep(s), ~WriteRecord(s) PROVE records' = records
    BY <1>6 DEF SaveStep, VerifyRevision, RemoveUncommittedMarkdown, WriteMarkdown, RefuseSave
  <1> QED
    BY <1>1, <1>2, <1>3, <1>4, <1>5, <1>6 DEF KNext

LEMMA CitesGrow ==
    ASSUME NEW v \in GraphRelation, NEW rs, NEW qs, Cites(v, rs),
           \A d \in Document, n \in Revision : rs[d][n] # NoText => qs[d][n] = rs[d][n]
    PROVE  Cites(v, qs)
  BY TextAssumption DEF Cites, GraphRelation, Evidence

LEMMA DocumentsKeepRelations ==
    ASSUME KTypeOK, SaveInv, [KNext]_kvars, RelationInv, UNCHANGED gvars
    PROVE  RelationInv'
  <1>1. \A d \in Document, n \in Revision : records[d][n] # NoText => records'[d][n] = records[d][n]
    BY RecordsGrow
  <1>2. \A v \in GraphRelation : Cites(v, records) => Cites(v, records')
    BY <1>1, CitesGrow
  <1>3. UNCHANGED <<versions, permits, writers>>
    BY DEF gvars
  <1>4. ASSUME NEW r \in Relation, NEW k \in 0 .. MaxVersion, Chain(versions[r], records, k)
        PROVE  Chain(versions[r], records', k)
    <2>1. \A n \in 1 .. k : versions[r][n] \in GraphRelation
      BY <1>4, VersionAssumption DEF Chain, Length, Version, RelationInv, FilesOK
    <2> QED
      BY <1>2, <1>4, <2>1 DEF Chain
  <1>5. FilesOK(versions, records')
    BY <1>4 DEF RelationInv, FilesOK
  <1>6. \A w \in Writer : Writing(w) => TaskOK(writers[w], versions, records')
    BY <1>2 DEF RelationInv, TaskOK
  <1> QED
    BY <1>3, <1>5, <1>6 DEF RelationInv, WritersHoldPermits, Writing

-----------------------------------------------------------------------------
(* The calls come, go on and end. *)
LEMMA StartKeepsRelations ==
    ASSUME RelationInv, NEW w \in Writer, NEW key, NEW t, Start(w, key, t), t.permit = key,
           TaskOK(t, versions, records), records' = records
    PROVE  RelationInv'
  <1>1. /\ UNCHANGED versions /\ permits' = permits \cup {key} /\ key \notin permits
        /\ writers' = [writers EXCEPT ![w] = t] /\ ~Writing(w)
    BY DEF Start
  <1>2. /\ writers'[w] = t /\ \A z \in Writer : z # w => writers'[z] = writers[z]
        /\ writers' = [z \in Writer |-> writers'[z]]
    BY <1>1 DEF RelationInv
  <1>3. WritersHoldPermits'
    BY <1>1, <1>2 DEF RelationInv, WritersHoldPermits, Writing
  <1>4. \A z \in Writer : Writing(z)' => TaskOK(writers'[z], versions, records)
    BY <1>2 DEF RelationInv, Writing
  <1> QED
    BY <1>1, <1>2, <1>3, <1>4 DEF RelationInv

LEMMA GoingOnKeepsRelations ==
    ASSUME RelationInv, NEW w \in Writer, NEW t, Writing(w),
           writers' = [writers EXCEPT ![w] = t], t.permit = writers[w].permit,
           TaskOK(t, versions, records), UNCHANGED <<records, versions, permits>>
    PROVE  RelationInv'
  <1>1. /\ writers'[w] = t /\ \A z \in Writer : z # w => writers'[z] = writers[z]
        /\ writers' = [z \in Writer |-> writers'[z]]
    BY DEF RelationInv
  <1>2. WritersHoldPermits'
    BY <1>1 DEF RelationInv, WritersHoldPermits, Writing
  <1>3. \A z \in Writer : Writing(z)' => TaskOK(writers'[z], versions, records)
    BY <1>1 DEF RelationInv, Writing
  <1> QED
    BY <1>1, <1>2, <1>3 DEF RelationInv

LEMMA EndKeepsPermits ==
    ASSUME RelationInv, NEW w \in Writer, Writing(w), EndWrite(w)
    PROVE  /\ writers' = [z \in Writer |-> writers'[z]]
           /\ \A z \in Writer : Writing(z)' => z # w /\ Writing(z) /\ writers'[z] = writers[z]
           /\ WritersHoldPermits'
  <1>1. /\ writers'[w] = NoWrite /\ \A z \in Writer : z # w => writers'[z] = writers[z]
        /\ writers' = [z \in Writer |-> writers'[z]]
        /\ permits' = permits \ {writers[w].permit}
    BY DEF RelationInv, EndWrite
  <1>2. \A z \in Writer : Writing(z)' => z # w /\ Writing(z) /\ writers'[z] = writers[z]
    BY <1>1 DEF Writing
  <1>3. WritersHoldPermits'
    BY <1>1, <1>2 DEF RelationInv, WritersHoldPermits
  <1> QED
    BY <1>1, <1>2, <1>3

LEMMA EndKeepsRelations ==
    ASSUME RelationInv, NEW w \in Writer, Writing(w), EndWrite(w), UNCHANGED <<records, versions>>
    PROVE  RelationInv'
  BY EndKeepsPermits DEF RelationInv

(* What is cited of a revision that opens. *)
LEMMA EvidenceType ==
    ASSUME KTypeOK, NEW d \in Document, NEW n, Opens(d, n), NEW v,
           v = [status |-> "review", evidence |-> EvidenceOf(d, n)]
    PROVE  v \in GraphRelation /\ v.status = "review" /\ Cites(v, records)
  <1>1. n \in Revision /\ records[d][n] \in Text
    BY DEF Opens, Committed, KTypeOK, NewText
  <1> QED
    BY <1>1 DEF EvidenceOf, GraphRelation, Evidence, Status, Cites

\* The task t at the step pc, with the relations todo, the version n and what it will write.
IsTask(u, t, pc, todo, n, v) ==
    /\ HasFields(u) /\ u.pc = pc /\ u.permit = t.permit /\ u.relations = t.relations
    /\ u.todo = todo /\ u.version = n /\ u.expected = t.expected /\ u.next = v

LEMMA TaskGoesOn ==
    ASSUME NEW t, HasFields(t), NEW pc, NEW todo, NEW n, NEW v
    PROVE  /\ IsTask([t EXCEPT !.pc = pc], t, pc, t.todo, t.version, t.next)
           /\ IsTask([t EXCEPT !.pc = pc, !.next = v], t, pc, t.todo, t.version, v)
           /\ IsTask([t EXCEPT !.pc = pc, !.todo = todo], t, pc, todo, t.version, t.next)
           /\ IsTask([t EXCEPT !.pc = pc, !.todo = todo, !.next = v], t, pc, todo, t.version, v)
           /\ IsTask([t EXCEPT !.pc = pc, !.version = n, !.next = v], t, pc, t.todo, n, v)
  <1>1. IsTask([t EXCEPT !.pc = pc], t, pc, t.todo, t.version, t.next)
    <2> SUFFICES ASSUME NEW u, u = [t EXCEPT !.pc = pc]
                 PROVE  IsTask(u, t, pc, t.todo, t.version, t.next)
      OBVIOUS
    <2> QED
      BY DEF HasFields, IsTask
  <1>2. IsTask([t EXCEPT !.pc = pc, !.next = v], t, pc, t.todo, t.version, v)
    <2> SUFFICES ASSUME NEW u, u = [t EXCEPT !.pc = pc, !.next = v]
                 PROVE  IsTask(u, t, pc, t.todo, t.version, v)
      OBVIOUS
    <2> QED
      BY DEF HasFields, IsTask
  <1>3. IsTask([t EXCEPT !.pc = pc, !.todo = todo], t, pc, todo, t.version, t.next)
    <2> SUFFICES ASSUME NEW u, u = [t EXCEPT !.pc = pc, !.todo = todo]
                 PROVE  IsTask(u, t, pc, todo, t.version, t.next)
      OBVIOUS
    <2> QED
      BY DEF HasFields, IsTask
  <1>4. IsTask([t EXCEPT !.pc = pc, !.todo = todo, !.next = v], t, pc, todo, t.version, v)
    <2> SUFFICES ASSUME NEW u, u = [t EXCEPT !.pc = pc, !.todo = todo, !.next = v]
                 PROVE  IsTask(u, t, pc, todo, t.version, v)
      OBVIOUS
    <2> QED
      BY DEF HasFields, IsTask
  <1>5. IsTask([t EXCEPT !.pc = pc, !.version = n, !.next = v], t, pc, t.todo, n, v)
    <2> SUFFICES ASSUME NEW u, u = [t EXCEPT !.pc = pc, !.version = n, !.next = v]
                 PROVE  IsTask(u, t, pc, t.todo, n, v)
      OBVIOUS
    <2> QED
      BY DEF HasFields, IsTask
  <1> QED
    BY <1>1, <1>2, <1>3, <1>4, <1>5

(* The relation that a call writes next is one of those it has named. *)
LEMMA TargetIsNamed ==
    ASSUME NEW t, NamesOK(t), t.todo # {}
    PROVE  /\ Min(t.todo) \in t.todo /\ t.todo \subseteq Nat
           /\ Target(t) = t.relations[Min(t.todo)] /\ Target(t) \in Relation
  <1>1. t.todo \subseteq Nat
    BY DEF NamesOK
  <1> DEFINE less == OpToRel(<, Nat)
  <1>2. IsWellFoundedOn(less, Nat) /\ \A m, n \in Nat : m < n => <<m, n>> \in less
    BY NatLessThanWellFounded DEF OpToRel
  <1> HIDE DEF less
  <1>3. \E n \in t.todo : \A m \in t.todo : n <= m
    <2>1. PICK n \in t.todo : \A m \in t.todo : ~ (<<m, n>> \in less)
      BY <1>1, <1>2, WFMin
    <2>2. ASSUME NEW m \in t.todo PROVE n <= m
      <3>1. m \in Nat /\ n \in Nat /\ ~ (m < n)
        BY <1>1, <1>2, <2>1
      <3> QED
        BY <3>1
    <2> QED
      BY <2>2
  <1>4. Min(t.todo) \in t.todo
    BY <1>3 DEF Min
  <1> QED
    BY <1>1, <1>4 DEF NamesOK, Target

LEMMA NamesKept ==
    ASSUME NEW t, NamesOK(t), NEW u, NEW pc, NEW todo, NEW n, NEW v, IsTask(u, t, pc, todo, n, v),
           todo \subseteq DOMAIN t.relations, todo # {}
    PROVE  NamesOK(u)
  BY DEF NamesOK, IsTask

LEMMA WriterType ==
    ASSUME RelationInv, NEW w \in Writer, Writing(w)
    PROVE  /\ TaskOK(writers[w], versions, records) /\ HasFields(writers[w])
           /\ writers = [z \in Writer |-> writers[z]]
  BY DEF RelationInv, TaskOK

LEMMA BuildKeepsRelations ==
    ASSUME KTypeOK, RelationInv, NEW w \in Writer, NEW d \in Document, NEW n \in Revision,
           BuildProposal(w, d, n), records' = records
    PROVE  RelationInv'
  <1> DEFINE t == writers[w]
             v == [status |-> "review", evidence |-> EvidenceOf(d, n)]
  <1>1. /\ Writing(w) /\ Opens(d, n) /\ t.permit = DocumentKey(d)
        /\ TaskOK(t, versions, records) /\ HasFields(t)
    BY WriterType DEF BuildProposal
  <1>2. v \in GraphRelation /\ v.status = "review" /\ Cites(v, records)
    BY <1>1, EvidenceType
  <1>3. writers' = [writers EXCEPT ![w].pc = "folder", ![w].next = v]
    BY DEF BuildProposal
  <1> HIDE DEF v
  <1> DEFINE u == [t EXCEPT !.pc = "folder", !.next = v]
  <1>4. writers' = [writers EXCEPT ![w] = u]
    BY <1>1, <1>3, WriterType
  <1>5. IsTask(u, t, "folder", t.todo, t.version, v)
    BY <1>1, TaskGoesOn
  <1> HIDE DEF u
  <1>6. ReviewTask(t)
    BY <1>1, KeysDiffer DEF TaskOK, DecisionTask
  <1>7. NamesOK(t) /\ t.todo # {} /\ t.todo \subseteq DOMAIN t.relations
    BY <1>1, KeysDiffer DEF TaskOK, NamesOK
  <1>8. NamesOK(u)
    BY <1>5, <1>7, NamesKept
  <1>9. TaskOK(u, versions, records)
    BY <1>1, <1>2, <1>5, <1>6, <1>8 DEF IsTask, TaskOK, ReviewTask
  <1> QED
    BY <1>1, <1>4, <1>5, <1>9, GoingOnKeepsRelations DEF BuildProposal, IsTask

LEMMA PrepareKeepsRelations ==
    ASSUME KTypeOK, RelationInv, NEW w \in Writer, NEW c \in Comparison, PrepareImport(w, c),
           records' = records
    PROVE  RelationInv'
  <1> DEFINE t == writers[w]
             d == Cited[c].doc
             n == Cited[c].revision
             v == [status |-> "review", evidence |-> EvidenceOf(d, n)]
  <1>1. /\ Writing(w) /\ Opens(d, n) /\ t.permit = ComparisonKey(c) /\ UNCHANGED versions
        /\ TaskOK(t, versions, records) /\ HasFields(t) /\ d \in Document
    BY WriterType, ComparisonAssumption DEF PrepareImport
  <1>2. v \in GraphRelation /\ v.status = "review" /\ Cites(v, records)
    BY <1>1, EvidenceType
  <1>3. CASE EndWrite(w)
    BY <1>1, <1>3, EndKeepsRelations
  <1>4. ASSUME NEW todo, UNCHANGED permits, todo \subseteq DOMAIN Suggested[c], todo # {},
               writers' = [writers EXCEPT ![w].pc = "folder", ![w].todo = todo, ![w].next = v]
        PROVE  RelationInv'
    <2>0. writers' = [writers EXCEPT ![w].pc = "folder", ![w].todo = todo, ![w].next = v]
      BY <1>4
    <2> HIDE DEF v
    <2> DEFINE u == [t EXCEPT !.pc = "folder", !.todo = todo, !.next = v]
    <2>1. writers' = [writers EXCEPT ![w] = u]
      BY <1>1, <2>0, WriterType
    <2>2. IsTask(u, t, "folder", todo, t.version, v)
      BY <1>1, TaskGoesOn
    <2> HIDE DEF u
    <2>3. ReviewTask(t)
      BY <1>1, KeysDiffer DEF TaskOK, DecisionTask
    <2>4. NamesOK(t) /\ t.relations = Suggested[c]
      BY <1>1 DEF TaskOK, NamesOK
    <2>5. NamesOK(u)
      BY <1>4, <2>2, <2>4, NamesKept
    <2>6. TaskOK(u, versions, records)
      BY <1>1, <1>2, <2>2, <2>3, <2>5 DEF IsTask, TaskOK, ReviewTask
    <2> QED
      BY <1>1, <1>4, <2>1, <2>2, <2>6, GoingOnKeepsRelations DEF IsTask
  <1> DEFINE missing == {i \in DOMAIN Suggested[c] : Suggested[c][i] \notin folders}
  <1>5. missing \subseteq DOMAIN Suggested[c]
    OBVIOUS
  <1>6. \/ EndWrite(w)
        \/ /\ writers' = [writers EXCEPT ![w].pc = "folder", ![w].todo = missing, ![w].next = v]
           /\ UNCHANGED permits /\ missing # {}
    BY DEF PrepareImport
  <1> HIDE DEF missing, v
  <1> QED
    BY <1>3, <1>4, <1>5, <1>6

(* What a decision makes of the current version may follow it. *)
LEMMA DecidedFollows ==
    ASSUME KTypeOK, NEW current \in GraphRelation, current.status = "review",
           Cites(current, records), NEW status \in Status, NEW n \in Revision,
           status = "review" => Opens(current.evidence.doc, n),
           NEW v, v = Decided(current, status, current.evidence.doc, n)
    PROVE  v \in GraphRelation /\ Cites(v, records) /\ Follows(v, current)
  <1>1. current.evidence.doc \in Document
    BY DEF GraphRelation, Evidence
  <1>2. CASE status = "review"
    BY <1>1, <1>2, EvidenceType DEF Decided, Follows
  <1>3. CASE status # "review"
    <2>1. v = [current EXCEPT !.status = status]
      BY <1>3 DEF Decided
    <2>2. v \in GraphRelation /\ v.evidence = current.evidence
      BY <2>1 DEF GraphRelation
    <2>3. current = [v EXCEPT !.status = "review"]
      BY <2>1 DEF GraphRelation
    <2> QED
      BY <2>2, <2>3 DEF Cites, Follows
  <1> QED
    BY <1>2, <1>3

LEMMA ReadKeepsRelations ==
    ASSUME KTypeOK, RelationInv, NEW w \in Writer, NEW r \in Relation, NEW status \in Status,
           NEW n \in Revision, ReadForDecision(w, r, status, n), records' = records
    PROVE  RelationInv'
  <1>1. PICK k \in 0 .. MaxVersion : Chain(versions[r], records, k)
    BY DEF RelationInv, FilesOK
  <1>2. Top(r) = k /\ k \in Nat
    BY <1>1, LengthIsTop, VersionAssumption DEF Chain
  <1> DEFINE t == writers[w]
             current == versions[r][k]
             v == Decided(current, status, current.evidence.doc, n)
  <1>3. /\ Writing(w) /\ t.permit = RelationKey(r) /\ k > 0 /\ k + 1 \in Version
        /\ current.status = "review"
        /\ status = "review" => Opens(current.evidence.doc, n)
        /\ TaskOK(t, versions, records) /\ HasFields(t) /\ t.expected = k
    BY <1>2, WriterType DEF ReadForDecision
  <1>4. current \in GraphRelation /\ Cites(current, records)
    BY <1>1, <1>3, VersionAssumption DEF Chain, Length, Version, RelationInv, FilesOK
  <1>5. v \in GraphRelation /\ Cites(v, records) /\ Follows(v, current)
    BY <1>3, <1>4, DecidedFollows
  <1>6. writers' = [writers EXCEPT ![w].pc = "stage", ![w].version = k + 1, ![w].next = v]
    BY <1>2 DEF ReadForDecision
  <1> HIDE DEF v
  <1> DEFINE u == [t EXCEPT !.pc = "stage", !.version = k + 1, !.next = v]
  <1>7. writers' = [writers EXCEPT ![w] = u]
    BY <1>3, <1>6, WriterType
  <1>8. IsTask(u, t, "stage", t.todo, k + 1, v)
    BY <1>3, TaskGoesOn
  <1> HIDE DEF u
  <1>9. t.relations = <<r>> /\ t.todo = {1}
    BY <1>3, KeysDiffer DEF TaskOK, ReviewTask, DecisionTask
  <1>10. DecisionTask(u, versions)
    <2>1. k + 1 - 1 = k /\ k + 1 > 1
      BY <1>2, <1>3
    <2> QED
      BY <1>1, <1>3, <1>5, <1>8, <1>9, <2>1 DEF IsTask, DecisionTask, Chain
  <1>11. NamesOK(u)
    BY <1>3, <1>8, <1>9, NamesKept DEF TaskOK
  <1>12. TaskOK(u, versions, records)
    BY <1>3, <1>5, <1>8, <1>10, <1>11 DEF IsTask, TaskOK
  <1> QED
    BY <1>3, <1>7, <1>8, <1>12, GoingOnKeepsRelations DEF ReadForDecision, IsTask

(* The steps that change nothing but the place of the call. *)
LEMMA StepKeepsRelations ==
    ASSUME RelationInv, NEW w \in Writer, Writing(w), writers[w].pc # "read",
           NEW pc \in {"stage", "publish"}, writers' = [writers EXCEPT ![w].pc = pc],
           UNCHANGED <<records, versions, permits>>
    PROVE  RelationInv'
  <1> DEFINE t == writers[w]
             u == [t EXCEPT !.pc = pc]
  <1>1. TaskOK(t, versions, records) /\ HasFields(t)
    BY WriterType
  <1>2. writers' = [writers EXCEPT ![w] = u]
    BY <1>1, WriterType
  <1>3. IsTask(u, t, pc, t.todo, t.version, t.next)
    BY <1>1, TaskGoesOn
  <1> HIDE DEF u
  <1>4. NamesOK(t) /\ t.todo # {} /\ t.todo \subseteq DOMAIN t.relations
    BY <1>1 DEF TaskOK, NamesOK
  <1>5. NamesOK(u)
    BY <1>3, <1>4, NamesKept
  <1>6. TaskOK(u, versions, records)
    BY <1>1, <1>3, <1>5 DEF IsTask, TaskOK, ReviewTask, DecisionTask
  <1> QED
    BY <1>2, <1>3, <1>6, GoingOnKeepsRelations DEF IsTask

(* One more version of a relation. *)
LEMMA VersionFollows ==
    ASSUME NEW vs, NEW rs, FilesOK(vs, rs), NEW r \in Relation, NEW n \in Version,
           NEW v \in GraphRelation, Cites(v, rs), Length(vs[r], n - 1),
           n = 1 => v.status = "review", n > 1 => Follows(v, vs[r][n - 1]),
           NEW us, us \in [Relation -> [Version -> GraphRelation \cup {NoVersion}]],
           us[r][n] = v, \A m \in Version : m # n => us[r][m] = vs[r][m],
           \A q \in Relation : q # r => us[q] = vs[q]
    PROVE  FilesOK(us, rs)
  <1> USE VersionAssumption
  <1>1. /\ vs \in [Relation -> [Version -> GraphRelation \cup {NoVersion}]]
        /\ \A q \in Relation : \E k \in 0 .. MaxVersion : Chain(vs[q], rs, k)
    BY DEF FilesOK
  <1>2. PICK k \in 0 .. MaxVersion : Chain(vs[r], rs, k)
    BY <1>1
  <1>3. k = n - 1
    <2>1. \A m \in Version : m <= k <=> m <= n - 1
      BY <1>2 DEF Chain, Length
    <2>2. k \in Version => (k <= k <=> k <= n - 1)
      BY <2>1
    <2>3. n - 1 \in Version => (n - 1 <= k <=> n - 1 <= n - 1)
      BY <2>1
    <2>4. n <= k <=> n <= n - 1
      BY <2>1
    <2> QED
      BY <2>2, <2>3, <2>4 DEF Version
  <1>4. Chain(us[r], rs, n)
    <2>1. Length(us[r], n)
      BY DEF Length, Version
    <2>2. \A m \in 1 .. n : Cites(us[r][m], rs)
      BY <1>2, <1>3 DEF Chain, Version
    <2>3. us[r][1].status = "review"
      <3>1. CASE n = 1
        BY <3>1
      <3>2. CASE n # 1
        BY <3>2, <1>2, <1>3 DEF Chain, Version
      <3> QED
        BY <3>1, <3>2
    <2>4. \A m \in 2 .. n : Follows(us[r][m], us[r][m - 1])
      <3> TAKE m \in 2 .. n
      <3>1. m \in Version /\ m - 1 \in Version /\ m - 1 # n
        BY DEF Version
      <3>2. CASE m = n
        BY <3>1, <3>2
      <3>3. CASE m # n
        BY <3>1, <3>3, <1>2, <1>3 DEF Chain, Version
      <3> QED
        BY <3>2, <3>3
    <2> QED
      BY <2>1, <2>2, <2>3, <2>4 DEF Chain
  <1>5. \A q \in Relation : \E m \in 0 .. MaxVersion : Chain(us[q], rs, m)
    <2> TAKE q \in Relation
    <2>1. CASE q = r
      BY <2>1, <1>4 DEF Version
    <2>2. CASE q # r
      BY <2>2, <1>1
    <2> QED
      BY <2>1, <2>2
  <1> QED
    BY <1>5 DEF FilesOK

LEMMA PublishKeepsRelations ==
    ASSUME RelationInv, NEW w \in Writer, PublishVersion(w), records' = records
    PROVE  RelationInv'
  <1> USE VersionAssumption
  <1> DEFINE t == writers[w]
             r == Target(t)
             n == t.version
  <1>1. /\ Writing(w) /\ t.pc = "publish" /\ versions[r][n] = NoVersion
        /\ versions' = [versions EXCEPT ![r][n] = t.next]
        /\ TaskOK(t, versions, records) /\ HasFields(t)
    BY WriterType DEF PublishVersion
  <1>2. /\ t.next \in GraphRelation /\ Cites(t.next, records) /\ FilesOK(versions, records)
        /\ NamesOK(t) /\ t.todo # {} /\ t.expected \in 0 .. MaxVersion
    BY <1>1 DEF TaskOK, NamesOK, RelationInv
  <1>3. \A z \in Writer : Writing(z) => TaskOK(writers[z], versions, records)
    BY DEF RelationInv
  <1>4. CASE ReviewTask(t)
    <2>1. n = 1 /\ n \in Version /\ t.next.status = "review"
      BY <1>1, <1>4 DEF ReviewTask, Version
    <2>2. ASSUME r \in Relation
          PROVE  /\ FilesOK(versions', records)
                 /\ \A q \in Relation : q # r => versions'[q] = versions[q]
                 /\ \A k \in Nat : k > 0 => ~Length(versions[r], k)
      <3>1. PICK k \in 0 .. MaxVersion : Chain(versions[r], records, k)
        BY <1>2, <2>2 DEF FilesOK
      <3>2. k = 0
        BY <1>1, <2>1, <3>1 DEF Chain, Length
      <3>3. Length(versions[r], n - 1)
        BY <2>1, <3>1, <3>2 DEF Chain
      <3>4. \A m \in Nat : m > 0 => ~Length(versions[r], m)
        BY <1>1, <2>1 DEF Length
      <3>5. /\ FilesOK(versions', records)
            /\ \A q \in Relation : q # r => versions'[q] = versions[q]
        <4>1. (n = 1 => t.next.status = "review") /\ ~(n > 1)
          BY <2>1
        <4> HIDE DEF r, n, t
        <4>2. /\ versions' \in [Relation -> [Version -> GraphRelation \cup {NoVersion}]]
              /\ versions'[r][n] = t.next
              /\ \A m \in Version : m # n => versions'[r][m] = versions[r][m]
              /\ \A q \in Relation : q # r => versions'[q] = versions[q]
          BY <1>1, <1>2, <2>1, <2>2 DEF FilesOK
        <4>3. FilesOK(versions', records)
          BY <1>2, <2>1, <2>2, <3>3, <4>1, <4>2, VersionFollows
        <4> QED
          BY <4>2, <4>3
      <3> QED
        BY <3>4, <3>5
    <2>3. r \notin Relation => versions' = versions
      BY <1>1, <1>2 DEF FilesOK
    <2>4. FilesOK(versions', records)
      BY <1>2, <2>2, <2>3
    <2>5. ASSUME NEW u, TaskOK(u, versions, records) PROVE TaskOK(u, versions', records)
      <3>1. ASSUME NEW q \in Relation, u.pc # "read", u.version \in Version, u.version > 1,
                   Length(versions[q], u.version - 1)
            PROVE  versions'[q] = versions[q]
        <4>1. u.version - 1 \in Nat /\ u.version - 1 > 0
          BY <3>1 DEF Version
        <4> QED
          BY <2>2, <2>3, <3>1, <4>1
      <3>2. DecisionTask(u, versions) => DecisionTask(u, versions')
        BY <3>1 DEF DecisionTask
      <3> QED
        BY <2>5, <3>2 DEF TaskOK
    <2>6. CASE EndWrite(w)
      <3>1. \A z \in Writer : Writing(z)' => TaskOK(writers'[z], versions', records)
        BY <1>1, <1>3, <2>5, <2>6, EndKeepsPermits
      <3> QED
        BY <1>1, <2>4, <2>6, <3>1, EndKeepsPermits DEF RelationInv
    <2>7. CASE /\ writers' = [writers EXCEPT ![w].pc = "folder", ![w].todo = t.todo \ {Min(t.todo)}]
               /\ t.todo \ {Min(t.todo)} # {}
               /\ UNCHANGED permits
      <3> DEFINE rest == t.todo \ {Min(t.todo)}
      <3>1. /\ writers' = [writers EXCEPT ![w].pc = "folder", ![w].todo = rest]
            /\ rest # {} /\ rest \subseteq DOMAIN t.relations
        BY <1>2, <2>7 DEF NamesOK
      <3> HIDE DEF rest
      <3> DEFINE u == [t EXCEPT !.pc = "folder", !.todo = rest]
      <3>2. IsTask(u, t, "folder", rest, t.version, t.next)
        BY <1>1, TaskGoesOn
      <3>3. /\ writers'[w] = u /\ \A z \in Writer : z # w => writers'[z] = writers[z]
            /\ writers' = [z \in Writer |-> writers'[z]]
        BY <3>1 DEF RelationInv
      <3> HIDE DEF u
      <3>8. NamesOK(u)
        BY <1>2, <3>1, <3>2, NamesKept
      <3>4. TaskOK(u, versions, records)
        BY <1>1, <1>2, <1>4, <3>2, <3>8 DEF TaskOK, ReviewTask, IsTask
      <3>5. \A z \in Writer : Writing(z)' => TaskOK(writers'[z], versions, records)
        BY <1>3, <3>3, <3>4 DEF Writing
      <3>6. \A z \in Writer : Writing(z)' => TaskOK(writers'[z], versions', records)
        BY <2>5, <3>5
      <3>7. WritersHoldPermits'
        BY <1>1, <2>7, <3>2, <3>3 DEF RelationInv, WritersHoldPermits, Writing, IsTask
      <3> QED
        BY <2>4, <3>3, <3>6, <3>7 DEF RelationInv
    <2> QED
      BY <2>6, <2>7 DEF PublishVersion
  <1>5. CASE ~ReviewTask(t)
    <2>1. PICK q \in Relation :
              /\ t.permit = RelationKey(q) /\ t.relations = <<q>> /\ t.todo = {1}
              /\ n \in Version /\ n > 1
              /\ Length(versions[q], n - 1) /\ Follows(t.next, versions[q][n - 1])
      BY <1>1, <1>5 DEF TaskOK, DecisionTask
    <2>2. r = q /\ t.todo \ {Min(t.todo)} = {}
      <3>1. /\ Min(t.todo) \in {1} /\ r = t.relations[Min(t.todo)]
            /\ t.relations = <<q>> /\ t.todo = {1}
        BY <1>2, <2>1, TargetIsNamed
      <3> HIDE DEF r, t
      <3> QED
        BY <3>1
    <2>3. versions' = [versions EXCEPT ![q][n] = t.next]
      BY <1>1, <2>2
    <2>4. /\ FilesOK(versions', records)
          /\ \A p \in Relation : p # q => versions'[p] = versions[p]
      <3>1. n > 1 /\ n # 1
        BY <2>1 DEF Version
      <3> HIDE DEF r, n, t
      <3>2. /\ versions' \in [Relation -> [Version -> GraphRelation \cup {NoVersion}]]
            /\ versions'[q][n] = t.next
            /\ \A m \in Version : m # n => versions'[q][m] = versions[q][m]
            /\ \A p \in Relation : p # q => versions'[p] = versions[p]
        BY <1>2, <2>1, <2>3 DEF FilesOK
      <3>3. FilesOK(versions', records)
        BY <1>2, <2>1, <3>1, <3>2, VersionFollows
      <3> QED
        BY <3>2, <3>3
    <2>5. EndWrite(w)
      BY <2>2 DEF PublishVersion
    <2>6. ASSUME NEW z \in Writer, Writing(z), z # w
          PROVE  TaskOK(writers[z], versions', records)
      <3>1. writers[z].permit # RelationKey(q)
        BY <1>1, <2>1, <2>6 DEF RelationInv, WritersHoldPermits
      <3>2. DecisionTask(writers[z], versions) => DecisionTask(writers[z], versions')
        BY <2>4, <3>1 DEF DecisionTask
      <3> QED
        BY <1>3, <2>6, <3>2 DEF TaskOK
    <2>7. \A z \in Writer : Writing(z)' => TaskOK(writers'[z], versions', records)
      BY <1>1, <2>5, <2>6, EndKeepsPermits
    <2> QED
      BY <1>1, <2>4, <2>5, <2>7, EndKeepsPermits DEF RelationInv
  <1> QED
    BY <1>4, <1>5

-----------------------------------------------------------------------------
LEMMA RelationInit == Init => RelationInv
  <1> SUFFICES ASSUME Init PROVE RelationInv
    OBVIOUS
  <1>1. \A w \in Writer : ~Writing(w)
    BY DEF Init, GInit, Writing
  <1>2. \A r \in Relation : Chain(versions[r], records, 0)
    BY DEF Init, GInit, Chain, Length, Version
  <1>3. FilesOK(versions, records)
    BY <1>2, VersionAssumption DEF Init, GInit, FilesOK
  <1> QED
    BY <1>1, <1>3 DEF Init, GInit, RelationInv, WritersHoldPermits

LEMMA StartsKeepRelations ==
    ASSUME RelationInv, NEW w \in Writer, StartWrite(w), records' = records
    PROVE  RelationInv'
  <1>1. ASSUME NEW key, NEW names, NEW n \in 0 .. MaxVersion, Start(w, key, Task(key, names, n)),
               \/ \E d \in Document, r \in Relation : key = DocumentKey(d) /\ names = <<r>>
               \/ \E c \in Comparison : key = ComparisonKey(c) /\ names = Suggested[c]
               \/ \E r \in Relation : key = RelationKey(r) /\ names = <<r>>
        PROVE  RelationInv'
    <2> DEFINE t == Task(key, names, n)
    <2>1. /\ HasFields(t) /\ t.pc = "read" /\ t.permit = key /\ t.version = 1
          /\ t.relations = names /\ t.todo = DOMAIN names /\ t.expected = n /\ t.next = NoVersion
      BY DEF Task, HasFields
    <2> HIDE DEF t
    <2>3. NamesOK(t) /\ (ReviewTask(t) \/ DecisionTask(t, versions))
      <3>1. ASSUME NEW d \in Document, NEW r \in Relation, key = DocumentKey(d), names = <<r>>
            PROVE  NamesOK(t) /\ ReviewTask(t)
        BY <2>1, <3>1, KeysDiffer DEF NamesOK, ReviewTask
      <3>2. ASSUME NEW c \in Comparison, key = ComparisonKey(c), names = Suggested[c]
            PROVE  NamesOK(t) /\ ReviewTask(t)
        BY <2>1, <3>2, KeysDiffer, ComparisonAssumption DEF NamesOK, ReviewTask
      <3>3. ASSUME NEW r \in Relation, key = RelationKey(r), names = <<r>>
            PROVE  NamesOK(t) /\ DecisionTask(t, versions)
        BY <2>1, <3>3, KeysDiffer DEF NamesOK, DecisionTask
      <3> QED
        BY <1>1, <3>1, <3>2, <3>3
    <2>2. TaskOK(t, versions, records)
      BY <1>1, <2>1, <2>3 DEF TaskOK
    <2> QED
      BY <1>1, <2>1, <2>2, StartKeepsRelations DEF t
  <1>2. ASSUME NEW d \in Document, NEW r \in Relation, StartPropose(w, d, r) PROVE RelationInv'
    BY <1>1, <1>2, VersionAssumption DEF StartPropose
  <1>3. ASSUME NEW c \in Comparison, StartImport(w, c) PROVE RelationInv'
    BY <1>1, <1>3, VersionAssumption DEF StartImport
  <1>4. ASSUME NEW r \in Relation, NEW n \in Version, StartDecide(w, r, n) PROVE RelationInv'
    BY <1>1, <1>4, VersionAssumption DEF StartDecide, Version
  <1> QED
    BY <1>2, <1>3, <1>4 DEF StartWrite

LEMMA RelationStep == KTypeOK /\ SaveInv /\ RelationInv /\ [Next]_vars => RelationInv'
  <1> SUFFICES ASSUME KTypeOK, SaveInv, RelationInv, [Next]_vars PROVE RelationInv'
    OBVIOUS
  <1>1. CASE Knowledge \/ UNCHANGED vars
    <2>1. [KNext]_kvars /\ UNCHANGED gvars
      BY <1>1 DEF Knowledge, KNext, vars
    <2> QED
      BY <2>1, DocumentsKeepRelations
  <1>2. ASSUME NEW w \in Writer, StartWrite(w) \/ WriteStep(w), UNCHANGED kvars PROVE RelationInv'
    <2>1. records' = records
      BY <1>2 DEF kvars
    <2>2. ASSUME EnsureFolder(w) PROVE RelationInv'
      BY <2>1, <2>2, StepKeepsRelations DEF EnsureFolder
    <2>3. ASSUME StageVersion(w) PROVE RelationInv'
      BY <2>1, <2>3, StepKeepsRelations DEF StageVersion
    <2>4. ASSUME RefuseWrite(w) PROVE RelationInv'
      BY <2>1, <2>4, EndKeepsRelations DEF RefuseWrite
    <2> QED
      BY <1>2, <2>1, <2>2, <2>3, <2>4, StartsKeepRelations, BuildKeepsRelations,
         PrepareKeepsRelations, ReadKeepsRelations, PublishKeepsRelations DEF WriteStep
  <1>3. CASE Crash
    <2>1. UNCHANGED <<records, versions>> /\ writers' = [w \in Writer |-> NoWrite]
      BY <1>3 DEF Crash, KCrash, GCrash
    <2>2. \A w \in Writer : ~Writing(w)'
      BY <2>1 DEF Writing
    <2> QED
      BY <2>1, <2>2 DEF RelationInv, WritersHoldPermits
  <1> QED
    BY <1>1, <1>2, <1>3 DEF Next, Graph

LEMMA RelationsAreGrounded == RelationInv => DecisionsAreGrounded
  <1> SUFFICES ASSUME RelationInv PROVE DecisionsAreGrounded
    OBVIOUS
  <1> SUFFICES ASSUME NEW r \in Relation, NEW n \in Written(r)
               PROVE  /\ Cites(versions[r][n], records)
                      /\ versions[r][n].status # "review" =>
                            /\ n = Top(r) /\ n > 1
                            /\ versions[r][n - 1] = [versions[r][n] EXCEPT !.status = "review"]
    BY DEF DecisionsAreGrounded, EvidenceIsCommitted, DecisionsEndAReview, Cites
  <1>1. PICK k \in 0 .. MaxVersion : Chain(versions[r], records, k)
    BY DEF RelationInv, FilesOK
  <1>2. Written(r) = 1 .. k /\ Top(r) = k /\ k \in Nat
    BY <1>1, LengthIsTop, VersionAssumption DEF Chain
  <1>3. n \in 1 .. k
    BY <1>2
  <1>4. Cites(versions[r][n], records)
    BY <1>1, <1>3 DEF Chain
  <1>5. ASSUME versions[r][n].status # "review"
        PROVE  /\ n = Top(r) /\ n > 1
               /\ versions[r][n - 1] = [versions[r][n] EXCEPT !.status = "review"]
    <2>1. n > 1
      BY <1>1, <1>3, <1>5 DEF Chain
    <2>2. versions[r][n - 1] = [versions[r][n] EXCEPT !.status = "review"]
      BY <1>1, <1>3, <1>5, <2>1 DEF Chain, Follows
    <2>3. n = k
      <3> SUFFICES ASSUME n # k PROVE FALSE
        OBVIOUS
      <3>1. ASSUME NEW m, m = n + 1 PROVE FALSE
        <4>1. m \in 2 .. k /\ m - 1 = n
          BY <1>2, <1>3, <3>1
        <4>2. Follows(versions[r][m], versions[r][m - 1])
          BY <1>1, <4>1 DEF Chain
        <4> QED
          BY <1>5, <4>1, <4>2 DEF Follows
      <3> QED
        BY <3>1
    <2> QED
      BY <1>2, <2>1, <2>2, <2>3
  <1> QED
    BY <1>4, <1>5

(* What the graph cites was committed, and a decision is the last version of its relation and *)
(* keeps what was reviewed (build_relation, decide_relation), for any number of relations,    *)
(* calls, saves and ends of the process.                                                      *)
THEOREM DecisionsRestOnEvidence == Spec => []DecisionsAreGrounded
  <1>1. Init => KTypeOK /\ SaveInv /\ RelationInv
    BY GraphInit, KTypeInit, SaveInit, RelationInit
  <1>2. KTypeOK /\ SaveInv /\ RelationInv /\ [Next]_vars => (KTypeOK /\ SaveInv /\ RelationInv)'
    BY GraphStep, KTypeStep, SaveInvStep, RelationStep
  <1> QED
    BY <1>1, <1>2, RelationsAreGrounded, PTL DEF Spec

-----------------------------------------------------------------------------
(* Folders are made one by one, for the relations that the calls name. *)
FoldersOK == folders \subseteq Relation /\ IsFiniteSet(folders)

LEMMA FoldersStep == RelationInv /\ FoldersOK /\ [Next]_vars => FoldersOK'
  <1> SUFFICES ASSUME RelationInv, FoldersOK, [Next]_vars
               PROVE  FoldersOK'
    OBVIOUS
  <1>1. ASSUME NEW w \in Writer, EnsureFolder(w) PROVE FoldersOK'
    <2>1. TaskOK(writers[w], versions, records) /\ writers[w].pc = "folder"
      BY <1>1, WriterType DEF EnsureFolder
    <2>2. Target(writers[w]) \in Relation
      BY <2>1, TargetIsNamed DEF TaskOK, NamesOK
    <2>3. folders' = folders \cup {Target(writers[w])}
      BY <1>1 DEF EnsureFolder
    <2> QED
      BY <2>2, <2>3, FS_AddElement DEF FoldersOK
  <1>2. ASSUME UNCHANGED folders PROVE FoldersOK'
    BY <1>2 DEF FoldersOK
  <1>3. ASSUME NEW w \in Writer, StartWrite(w) PROVE UNCHANGED folders
    BY <1>3 DEF StartWrite, StartPropose, StartImport, StartDecide, Start
  <1>4. ASSUME NEW w \in Writer, WriteStep(w), ~EnsureFolder(w) PROVE UNCHANGED folders
    BY <1>4 DEF WriteStep, BuildProposal, PrepareImport, ReadForDecision, StageVersion,
       PublishVersion, RefuseWrite
  <1> QED
    BY <1>1, <1>2, <1>3, <1>4 DEF Next, Knowledge, Graph, Crash, GCrash, vars, gvars

(* What a version cites is what build_relation extracts from a revision that opens. *)
LEMMA CitedVerifies ==
    ASSUME KTypeOK, SaveInv, edits = 0, registered = Document,
           NEW v \in GraphRelation, Cites(v, records)
    PROVE  Verifies(v)
  <1> DEFINE d == v.evidence.doc
             n == v.evidence.revision
  <1>1. d \in Document /\ n \in Revision /\ v.evidence.text \in Text
    BY DEF GraphRelation, Evidence
  <1>2. records[d][n] = v.evidence.text
    BY DEF Cites
  <1>3. n \in Committed(d)
    BY <1>1, <1>2, TextAssumption DEF Committed
  <1>4. Opens(d, n)
    BY <1>1, <1>3 DEF SaveInv, CommittedIsReadable, Opens
  <1>5. v.evidence = EvidenceOf(d, n)
    BY <1>2 DEF EvidenceOf, GraphRelation, Evidence
  <1> QED
    BY <1>4, <1>5 DEF Verifies

LEMMA GroundedGraphLists ==
    ASSUME KTypeOK, SaveInv, RelationInv, FoldersOK
    PROVE  GraphIsListable
  <1> SUFFICES ASSUME edits = 0, registered = Document
               PROVE  /\ \A r \in folders :
                            /\ Written(r) = 1 .. Top(r)
                            /\ Written(r) # {} => Verifies(versions[r][Top(r)])
                      /\ \A d \in Document :
                            \/ Lists(d)
                            \/ Cardinality(folders) > MaxRelations
                            \/ \E r \in folders : HasTemporary(r)
    BY DEF GraphIsListable
  <1>1. ASSUME NEW r \in folders
        PROVE  /\ Written(r) = 1 .. Top(r)
               /\ Written(r) # {} => Verifies(versions[r][Top(r)])
    <2>1. PICK k \in 0 .. MaxVersion : Chain(versions[r], records, k)
      BY DEF RelationInv, FilesOK, FoldersOK
    <2>2. Written(r) = 1 .. k /\ Top(r) = k /\ k \in Nat
      BY <2>1, LengthIsTop, VersionAssumption DEF Chain, FoldersOK
    <2>3. ASSUME Written(r) # {} PROVE Verifies(versions[r][Top(r)])
      <3>1. k \in 1 .. k /\ k \in Version
        BY <2>2, <2>3, VersionAssumption DEF Version
      <3>2. versions[r][k] \in GraphRelation /\ Cites(versions[r][k], records)
        BY <2>1, <3>1 DEF Chain, Length, RelationInv, FilesOK, FoldersOK
      <3> QED
        BY <2>2, <3>2, CitedVerifies
    <2> QED
      BY <2>2, <2>3
  <1>2. Cardinality(folders) <= MaxRelations \/ Cardinality(folders) > MaxRelations
    BY FS_CardinalityType, VersionAssumption DEF FoldersOK
  <1>3. ASSUME \A r \in folders : ~HasTemporary(r) PROVE \A r \in folders : Readable(r)
    BY <1>1, <1>3 DEF Readable
  <1> QED
    BY <1>1, <1>2, <1>3 DEF Lists

(* While no original was retired and no Markdown file edited, no proposal, import or decision, *)
(* finished, refused or cut short, leaves a gap between the versions of a relation or evidence *)
(* that does not verify, and everybody can list the graph (inspect_graph) but for its limit    *)
(* and the temporary file of a write.                                                          *)
THEOREM GraphCanBeListed == Spec => []GraphIsListable
  <1>1. Init => KTypeOK /\ SaveInv /\ RelationInv /\ FoldersOK
    BY GraphInit, KTypeInit, SaveInit, RelationInit, FS_EmptySet DEF Init, GInit, FoldersOK
  <1>2. KTypeOK /\ SaveInv /\ RelationInv /\ FoldersOK /\ [Next]_vars =>
            (KTypeOK /\ SaveInv /\ RelationInv /\ FoldersOK)'
    BY GraphStep, KTypeStep, SaveInvStep, RelationStep, FoldersStep
  <1> QED
    BY <1>1, <1>2, GroundedGraphLists, PTL DEF Spec

-----------------------------------------------------------------------------
(* The versions of the relations as a register.  A call asks for each of the  *)
(* relations it has still to write, from the moment it knows what to write.   *)

VersionHistory == [r \in Relation |-> [n \in 1 .. Top(r) |-> versions[r][n].status]]

Ask(w, t, r) ==
    [by |-> w, key |-> r, expected |-> IF t.permit = RelationKey(r) THEN t.expected ELSE 0,
     value |-> t.next.status]

Asks(w, t) ==
    IF t # NoWrite /\ t.next # NoVersion THEN {Ask(w, t, r) : r \in Named(t)} ELSE {}

Asked == UNION {{Intended(w, r) : r \in Named(writers[w])}
                : w \in {z \in Writer : Writing(z) /\ writers[z].next # NoVersion}}

LEMMA AskedIs ==
    /\ \A x : x \in Asked <=> \E w \in Writer : x \in Asks(w, writers[w])
    /\ \A x : x \in Asked' <=> \E w \in Writer : x \in Asks(w, writers'[w])
  <1>1. \A w, r : Intended(w, r) = Ask(w, writers[w], r) /\ Intended(w, r)' = Ask(w, writers'[w], r)
    BY DEF Intended, Ask
  <1>2. \A x : x \in Asked <=> \E w \in Writer : x \in Asks(w, writers[w])
    BY <1>1 DEF Asked, Asks, Writing
  <1>3. \A x : x \in Asked' <=> \E w \in Writer : x \in Asks(w, writers'[w])
    BY <1>1 DEF Asked, Asks, Writing
  <1> QED
    BY <1>2, <1>3

(* What a call asks for is a request of its own. *)
LEMMA AskIsRequest ==
    ASSUME NEW w \in Writer, NEW t, NEW vs, NEW rs, TaskOK(t, vs, rs), NEW x \in Asks(w, t)
    PROVE  x \in Versions!Request /\ x.by = w
  <1>1. PICK r \in Named(t) : x = Ask(w, t, r) /\ t.next # NoVersion
    BY DEF Asks
  <1>2. t.next \in GraphRelation /\ t.next.status \in Status
    BY <1>1 DEF TaskOK, GraphRelation
  <1>3. r \in Relation
    BY DEF TaskOK, NamesOK, Named
  <1>4. t.expected \in Nat
    BY VersionAssumption DEF TaskOK
  <1> QED
    BY <1>1, <1>2, <1>3, <1>4 DEF Ask, Versions!Request

LEMMA AskedType ==
    ASSUME RelationInv'
    PROVE  Asked' \subseteq Versions!Request
  <1> SUFFICES ASSUME NEW x \in Asked' PROVE x \in Versions!Request
    OBVIOUS
  <1>1. PICK w \in Writer : x \in Asks(w, writers'[w])
    BY AskedIs
  <1>2. writers'[w] # NoWrite
    BY <1>1 DEF Asks
  <1>3. TaskOK(writers'[w], versions', records')
    BY <1>2 DEF RelationInv, Writing
  <1> QED
    BY <1>1, <1>3, AskIsRequest

(* One call changes. *)
LEMMA OneAsks ==
    ASSUME NEW w \in Writer, \A z \in Writer : z # w => writers'[z] = writers[z]
    PROVE  /\ Asks(w, writers'[w]) \subseteq Asks(w, writers[w]) => Asked' \subseteq Asked
           /\ Asks(w, writers[w]) \subseteq Asks(w, writers'[w]) => Asked \subseteq Asked'
  <1>1. ASSUME Asks(w, writers'[w]) \subseteq Asks(w, writers[w]) PROVE Asked' \subseteq Asked
    <2> SUFFICES ASSUME NEW x \in Asked' PROVE x \in Asked
      OBVIOUS
    <2>1. PICK z \in Writer : x \in Asks(z, writers'[z])
      BY AskedIs
    <2>2. x \in Asks(z, writers[z])
      BY <1>1, <2>1
    <2> QED
      BY <2>2, AskedIs
  <1>2. ASSUME Asks(w, writers[w]) \subseteq Asks(w, writers'[w]) PROVE Asked \subseteq Asked'
    <2> SUFFICES ASSUME NEW x \in Asked PROVE x \in Asked'
      OBVIOUS
    <2>1. PICK z \in Writer : x \in Asks(z, writers[z])
      BY AskedIs
    <2>2. x \in Asks(z, writers'[z])
      BY <1>2, <2>1
    <2> QED
      BY <2>2, AskedIs
  <1> QED
    BY <1>1, <1>2

(* A call that publishes a version has asked for it, and asks for it no more. *)
LEMMA OneIsGiven ==
    ASSUME RelationInv, NEW w \in Writer, \A z \in Writer : z # w => writers'[z] = writers[z],
           NEW x \in Asks(w, writers[w]), Asks(w, writers'[w]) = Asks(w, writers[w]) \ {x}
    PROVE  x \in Asked /\ Asked' = Asked \ {x}
  <1>1. \A z \in Writer : \A y \in Asks(z, writers[z]) : y.by = z
    BY AskIsRequest DEF RelationInv, Writing, Asks
  <1>2. x \in Asked
    BY AskedIs
  <1>3. ASSUME NEW y PROVE y \in Asked' <=> y \in Asked /\ y # x
    <2>1. \A z \in Writer : y \in Asks(z, writers'[z]) <=> y \in Asks(z, writers[z]) /\ y # x
      BY <1>1
    <2> QED
      BY <2>1, AskedIs
  <1> QED
    BY <1>2, <1>3

(* The steps that write no version: calls ask, or withdraw what they asked for. *)
LEMMA NoVersionWritten ==
    ASSUME versions' = versions, \/ Asked' \subseteq Asked
                                 \/ RelationInv' /\ Asked \subseteq Asked'
    PROVE  Versions!Next
  <1>1. VersionHistory' = VersionHistory
    BY DEF VersionHistory, Top, Written
  <1>2. Asked' \subseteq Asked => Versions!Withdraw
    BY <1>1 DEF Versions!Withdraw, Asked, VersionHistory
  <1>3. RelationInv' /\ Asked \subseteq Asked' => Versions!Submit
    BY <1>1, AskedType DEF Versions!Submit, Asked, VersionHistory
  <1> QED
    BY <1>2, <1>3 DEF Versions!Next

(* A call in its first step asks for nothing. *)
LEMMA ReadersAskNothing ==
    ASSUME RelationInv, NEW w \in Writer, ~Writing(w) \/ writers[w].pc = "read"
    PROVE  Asks(w, writers[w]) = {}
  BY DEF RelationInv, TaskOK, Asks, Writing

LEMMA EndAsksNothing ==
    ASSUME RelationInv, NEW w \in Writer, EndWrite(w)
    PROVE  /\ Asks(w, writers'[w]) = {}
           /\ \A z \in Writer : z # w => writers'[z] = writers[z]
  <1>1. writers'[w] = NoWrite /\ \A z \in Writer : z # w => writers'[z] = writers[z]
    BY DEF EndWrite, RelationInv
  <1> QED
    BY <1>1 DEF Asks

(* A step to another place of the code changes nothing of what is asked. *)
LEMMA GoingOnAsksTheSame ==
    ASSUME RelationInv, NEW w \in Writer, Writing(w), NEW pc \in {"stage", "publish"},
           writers' = [writers EXCEPT ![w].pc = pc]
    PROVE  /\ Asks(w, writers'[w]) = Asks(w, writers[w])
           /\ \A z \in Writer : z # w => writers'[z] = writers[z]
  <1> DEFINE t == writers[w]
             u == [t EXCEPT !.pc = pc]
  <1>1. HasFields(t) /\ writers = [z \in Writer |-> writers[z]]
    BY WriterType
  <1>2. writers'[w] = u /\ \A z \in Writer : z # w => writers'[z] = writers[z]
    BY <1>1
  <1>3. IsTask(u, t, pc, t.todo, t.version, t.next)
    BY <1>1, TaskGoesOn
  <1> HIDE DEF u
  <1>4. u # NoWrite /\ t # NoWrite
    BY <1>3, TaskIsNoIdle DEF IsTask, Writing
  <1>5. Named(u) = Named(t) /\ \A r : Ask(w, u, r) = Ask(w, t, r)
    BY <1>3 DEF IsTask, Named, Ask
  <1>6. Asks(w, u) = Asks(w, t)
    BY <1>3, <1>4, <1>5 DEF Asks, IsTask
  <1> QED
    BY <1>2, <1>6

LEMMA StartAsksNothing ==
    ASSUME RelationInv, NEW w \in Writer, StartWrite(w)
    PROVE  versions' = versions /\ Asked' \subseteq Asked
  <1>1. ASSUME NEW key, NEW names, NEW n, Start(w, key, Task(key, names, n))
        PROVE  versions' = versions /\ Asked' \subseteq Asked
    <2>1. /\ writers'[w] = Task(key, names, n) /\ versions' = versions
          /\ \A z \in Writer : z # w => writers'[z] = writers[z]
      BY <1>1 DEF Start, RelationInv
    <2>2. Asks(w, writers'[w]) = {}
      BY <2>1 DEF Asks, Task
    <2> QED
      BY <2>1, <2>2, OneAsks
  <1> QED
    BY <1>1 DEF StartWrite, StartPropose, StartImport, StartDecide

(* What a published version is: the next one of its relation, over a version under review. *)
LEMMA PublishedFollows ==
    ASSUME RelationInv, RelationInv', NEW w \in Writer, PublishVersion(w),
           NEW t, t = writers[w], NEW r, r = Target(t), NEW n, n = t.version
    PROVE  /\ r \in Relation /\ n \in Version /\ t.next \in GraphRelation
           /\ Top(r) = n - 1 /\ Top(r)' = n
           /\ Ask(w, t, r).expected = n - 1
           /\ n > 1 => versions[r][n - 1].status = "review"
           /\ versions'[r][n] = t.next
           /\ \A m \in Version : m # n => versions'[r][m] = versions[r][m]
           /\ \A q \in Relation : q # r => versions'[q] = versions[q]
  <1> USE VersionAssumption
  <1>1. /\ Writing(w) /\ t.pc = "publish" /\ versions[r][n] = NoVersion
        /\ versions' = [versions EXCEPT ![r][n] = t.next]
        /\ TaskOK(t, versions, records)
    BY WriterType DEF PublishVersion
  <1>2. /\ t.next \in GraphRelation /\ NamesOK(t) /\ t.todo # {} /\ t.expected \in 0 .. MaxVersion
    BY <1>1 DEF TaskOK, NamesOK
  <1>3. r \in Relation
    BY <1>2, TargetIsNamed
  <1>4. PICK k \in 0 .. MaxVersion : Chain(versions[r], records, k)
    BY <1>3 DEF RelationInv, FilesOK
  <1>5. Length(versions[r], k) /\ Top(r) = k
    BY <1>3, <1>4, LengthIsTop DEF Chain
  <1>6. /\ n \in Version /\ k = n - 1 /\ Ask(w, t, r).expected = n - 1
        /\ n > 1 => versions[r][n - 1].status = "review"
    <2>1. CASE ReviewTask(t)
      <3>1. n = 1 /\ t.permit # RelationKey(r)
        BY <1>3, <2>1 DEF ReviewTask
      <3>2. n \in Version /\ k = 0
        BY <1>1, <1>5, <3>1 DEF Length, Version
      <3> QED
        BY <3>1, <3>2 DEF Ask
    <2>2. CASE DecisionTask(t, versions)
      <3>1. PICK q \in Relation :
                /\ t.permit = RelationKey(q) /\ t.relations = <<q>> /\ t.todo = {1}
                /\ n \in Version /\ n > 1 /\ n = t.expected + 1
                /\ Length(versions[q], n - 1) /\ Follows(t.next, versions[q][n - 1])
        BY <1>1, <2>2 DEF DecisionTask
      <3>2. r = q
        <4>1. Min(t.todo) \in {1} /\ r = t.relations[Min(t.todo)]
          BY <1>2, <3>1, TargetIsNamed
        <4> QED
          BY <3>1, <4>1
      <3>3. n - 1 \in 0 .. MaxVersion /\ t.expected = n - 1
        BY <1>2, <3>1 DEF Version
      <3>4. Top(r) = n - 1
        BY <1>3, <3>1, <3>2, <3>3, LengthIsTop
      <3> QED
        BY <1>5, <3>1, <3>2, <3>3, <3>4 DEF Ask, Follows
    <2> QED
      BY <1>1, <2>1, <2>2 DEF TaskOK
  <1>7. versions \in [Relation -> [Version -> GraphRelation \cup {NoVersion}]]
    BY DEF RelationInv, FilesOK
  <1>8. /\ versions'[r][n] = t.next
        /\ \A m \in Version : m # n => versions'[r][m] = versions[r][m]
        /\ \A q \in Relation : q # r => versions'[q] = versions[q]
    BY <1>1, <1>3, <1>6, <1>7
  <1>9. Top(r)' = n
    <2>1. \A m \in Version : versions'[r][m] # NoVersion <=> m <= n
      BY <1>2, <1>5, <1>6, <1>8 DEF Length, Version
    <2>2. Written(r)' = 1 .. n
      BY <1>6, <2>1 DEF Written, Version
    <2>3. Cardinality(1 .. n) = n
      <3>1. n \in Nat /\ n >= 1
        BY <1>6, VersionAssumption DEF Version
      <3>2. Cardinality(1 .. n) = IF 1 > n THEN 0 ELSE n - 1 + 1
        BY <3>1, FS_Interval
      <3> QED
        BY <3>1, <3>2
    <2> QED
      BY <2>2, <2>3 DEF Top
  <1> QED
    BY <1>2, <1>3, <1>5, <1>6, <1>8, <1>9

LEMMA PublisherAsked ==
    ASSUME RelationInv, NEW w \in Writer, PublishVersion(w),
           NEW t, t = writers[w], NEW r, r = Target(t), NEW x, x = Ask(w, t, r)
    PROVE  /\ x \in Asks(w, writers[w]) /\ Asks(w, writers'[w]) = Asks(w, writers[w]) \ {x}
           /\ \A z \in Writer : z # w => writers'[z] = writers[z]
  <1>1. Writing(w) /\ t.pc = "publish" /\ TaskOK(t, versions, records)
    BY WriterType DEF PublishVersion
  <1>2. /\ t.next \in GraphRelation /\ NamesOK(t) /\ t.todo # {} /\ HasFields(t)
    BY <1>1 DEF TaskOK, NamesOK
  <1> DEFINE i == Min(t.todo)
             rest == t.todo \ {i}
  <1>3. i \in t.todo /\ r = t.relations[i]
    BY <1>2, TargetIsNamed
  <1> HIDE DEF i
  <1>4. t # NoWrite /\ t.next # NoVersion
    BY <1>1, <1>2, VersionAssumption DEF Writing
  <1>5. Asks(w, writers[w]) = {Ask(w, t, q) : q \in Named(t)} /\ r \in Named(t)
    BY <1>3, <1>4 DEF Asks, Named
  <1>6. {t.relations[j] : j \in rest} = Named(t) \ {r}
    BY <1>2, <1>3 DEF NamesOK, Named
  <1>7. \A q : Ask(w, t, q).key = q
    BY DEF Ask
  <1>8. Asks(w, writers[w]) \ {x} = {Ask(w, t, q) : q \in Named(t) \ {r}}
    BY <1>5, <1>7
  <1>9. CASE EndWrite(w) /\ rest = {}
    <2>1. Asks(w, writers'[w]) = {}
      BY <1>9, EndAsksNothing
    <2>2. Named(t) \ {r} = {}
      BY <1>6, <1>9
    <2> QED
      BY <1>5, <1>8, <1>9, <2>1, <2>2, EndAsksNothing
  <1>10. CASE writers' = [writers EXCEPT ![w].pc = "folder", ![w].todo = rest]
    <2> HIDE DEF rest
    <2> DEFINE u == [t EXCEPT !.pc = "folder", !.todo = rest]
    <2>1. writers = [z \in Writer |-> writers[z]]
      BY DEF RelationInv
    <2>2. writers'[w] = u /\ \A z \in Writer : z # w => writers'[z] = writers[z]
      BY <1>10, <2>1
    <2>3. IsTask(u, t, "folder", rest, t.version, t.next)
      BY <1>2, TaskGoesOn
    <2> HIDE DEF u
    <2>4. u # NoWrite
      BY <2>3, TaskIsNoIdle DEF IsTask
    <2>5. Named(u) = Named(t) \ {r} /\ \A q : Ask(w, u, q) = Ask(w, t, q)
      BY <1>6, <2>3 DEF IsTask, Named, Ask
    <2>6. Asks(w, u) = {Ask(w, t, q) : q \in Named(t) \ {r}}
      BY <1>4, <2>3, <2>4, <2>5 DEF Asks, IsTask
    <2> QED
      BY <1>5, <1>8, <2>2, <2>6
  <1>11. (EndWrite(w) /\ rest = {}) \/ writers' = [writers EXCEPT ![w].pc = "folder", ![w].todo = rest]
    BY DEF PublishVersion, i
  <1> QED
    BY <1>9, <1>10, <1>11

(* A call that publishes a version puts its status at the end of the history. *)
LEMMA PublishApplies ==
    ASSUME RelationInv, RelationInv', NEW w \in Writer, PublishVersion(w)
    PROVE  Versions!Next
  <1>1. PICK t, r, n, x : t = writers[w] /\ r = Target(t) /\ n = t.version /\ x = Ask(w, t, r)
    OBVIOUS
  <1>2. /\ r \in Relation /\ n \in Version /\ t.next \in GraphRelation
        /\ Top(r) = n - 1 /\ Top(r)' = n /\ x.expected = n - 1
        /\ n > 1 => versions[r][n - 1].status = "review"
        /\ versions'[r][n] = t.next
        /\ \A m \in Version : m # n => versions'[r][m] = versions[r][m]
        /\ \A q \in Relation : q # r => versions'[q] = versions[q]
    BY <1>1, PublishedFollows
  <1>3. x \in Asked /\ Asked' = Asked \ {x}
    <2>1. /\ x \in Asks(w, writers[w]) /\ Asks(w, writers'[w]) = Asks(w, writers[w]) \ {x}
          /\ \A z \in Writer : z # w => writers'[z] = writers[z]
      BY <1>1, PublisherAsked
    <2> QED
      BY <2>1, OneIsGiven
  <1>4. x.key = r /\ x.value = t.next.status
    BY <1>1 DEF Ask
  <1>5. n \in Nat /\ n > 0 /\ n <= MaxVersion
    BY <1>2, VersionAssumption DEF Version
  <1>6. VersionHistory[r] = [m \in 1 .. n - 1 |-> versions[r][m].status]
    BY <1>2 DEF VersionHistory
  <1>7. Len(VersionHistory[r]) = n - 1
    BY <1>5, <1>6
  <1>8. n > 1 => VersionHistory[r][n - 1] = "review"
    BY <1>2, <1>5, <1>6
  <1>9. VersionHistory' = [VersionHistory EXCEPT ![r] = Append(@, t.next.status)]
    <2>1. VersionHistory'[r] = Append(VersionHistory[r], t.next.status)
      <3>1. VersionHistory'[r] = [m \in 1 .. n |-> versions'[r][m].status]
        BY <1>2 DEF VersionHistory
      <3>2. \A m \in 1 .. n - 1 : m \in Version /\ m # n
        BY <1>5, VersionAssumption DEF Version
      <3> QED
        BY <1>2, <1>5, <1>6, <3>1, <3>2
    <2>2. \A q \in Relation \ {r} : VersionHistory'[q] = VersionHistory[q]
      <3> TAKE q \in Relation \ {r}
      <3>1. versions'[q] = versions[q] /\ Written(q)' = Written(q)
        BY <1>2 DEF Written
      <3>2. Top(q)' = Top(q)
        BY <3>1 DEF Top
      <3> QED
        BY <3>1, <3>2 DEF VersionHistory
    <2> QED
      BY <2>1, <2>2 DEF VersionHistory
  <1>10. ~(VersionHistory[r] # << >>
           /\ VersionHistory[r][Len(VersionHistory[r])] \in {"accepted", "rejected"})
    <2>1. CASE n = 1
      BY <2>1, <1>6
    <2>2. CASE n # 1
      BY <2>2, <1>5, <1>7, <1>8
    <2> QED
      BY <2>1, <2>2
  <1>11. Versions!Apply(x)
    BY <1>2, <1>3, <1>4, <1>7, <1>9, <1>10
       DEF Versions!Apply, Versions!IsOver, Asked, VersionHistory
  <1> QED
    BY <1>3, <1>11 DEF Versions!Next, Asked

(* Every step of the relations is a step of the register or none. *)
LEMMA VersionStep ==
    KTypeOK /\ SaveInv /\ RelationInv /\ [Next]_vars => [Versions!Next]_<<VersionHistory, Asked>>
  <1> SUFFICES ASSUME KTypeOK, SaveInv, RelationInv, [Next]_vars
               PROVE  [Versions!Next]_<<VersionHistory, Asked>>
    OBVIOUS
  <1>1. RelationInv'
    BY RelationStep
  <1>2. ASSUME versions' = versions, Asked' \subseteq Asked PROVE Versions!Next
    BY <1>2, NoVersionWritten
  <1>3. ASSUME NEW w \in Writer, versions' = versions, writers[w].pc = "read", Writing(w),
               \A z \in Writer : z # w => writers'[z] = writers[z]
        PROVE  Versions!Next
    BY <1>1, <1>3, ReadersAskNothing, OneAsks, NoVersionWritten
  <1>4. ASSUME NEW w \in Writer, versions' = versions, EndWrite(w) PROVE Versions!Next
    BY <1>2, <1>4, EndAsksNothing, OneAsks
  <1>5. ASSUME NEW w \in Writer, versions' = versions, Writing(w),
               NEW pc \in {"stage", "publish"}, writers' = [writers EXCEPT ![w].pc = pc]
        PROVE  Versions!Next
    BY <1>2, <1>5, GoingOnAsksTheSame, OneAsks
  <1>6. ASSUME NEW w \in Writer, StartWrite(w) PROVE Versions!Next
    BY <1>2, <1>6, StartAsksNothing
  <1>7. ASSUME NEW w \in Writer, WriteStep(w) PROVE Versions!Next
    <2>1. ASSUME NEW d \in Document, NEW n \in Revision, BuildProposal(w, d, n)
          PROVE  Versions!Next
      BY <1>3, <2>1 DEF BuildProposal, RelationInv
    <2>2. ASSUME NEW c \in Comparison, PrepareImport(w, c) PROVE Versions!Next
      BY <1>3, <1>4, <2>2 DEF PrepareImport, RelationInv
    <2>3. ASSUME NEW r \in Relation, NEW status \in Status, NEW n \in Revision,
                 ReadForDecision(w, r, status, n)
          PROVE  Versions!Next
      BY <1>3, <2>3 DEF ReadForDecision, RelationInv
    <2>4. ASSUME EnsureFolder(w) PROVE Versions!Next
      BY <1>5, <2>4 DEF EnsureFolder
    <2>5. ASSUME StageVersion(w) PROVE Versions!Next
      BY <1>5, <2>5 DEF StageVersion
    <2>6. ASSUME PublishVersion(w) PROVE Versions!Next
      BY <1>1, <2>6, PublishApplies
    <2>7. ASSUME RefuseWrite(w) PROVE Versions!Next
      BY <1>4, <2>7 DEF RefuseWrite
    <2> QED
      BY <1>7, <2>1, <2>2, <2>3, <2>4, <2>5, <2>6, <2>7 DEF WriteStep
  <1>8. CASE Crash
    <2>1. versions' = versions /\ \A w \in Writer : writers'[w] = NoWrite
      BY <1>8 DEF Crash, GCrash
    <2>2. \A w \in Writer : Asks(w, writers'[w]) = {}
      BY <2>1 DEF Asks
    <2>3. Asked' \subseteq Asked
      BY <2>2, AskedIs
    <2> QED
      BY <1>2, <2>1, <2>3
  <1>9. CASE Knowledge \/ UNCHANGED vars
    <2>1. UNCHANGED <<versions, writers>>
      BY <1>9 DEF Knowledge, gvars, vars
    <2>2. \A x : x \in Asked' <=> x \in Asked
      BY <2>1, AskedIs
    <2> QED
      BY <1>2, <2>1, <2>2
  <1> QED
    BY <1>6, <1>7, <1>8, <1>9 DEF Next, Graph

LEMMA VersionInit == Init => Versions!Init
  <1> SUFFICES ASSUME Init PROVE Versions!Init
    OBVIOUS
  <1>1. \A r \in Relation : Written(r) = {}
    BY DEF Init, GInit, Written, Version
  <1>2. \A r \in Relation : Top(r) = 0
    BY <1>1, FS_EmptySet DEF Top
  <1>3. VersionHistory = [r \in Relation |-> << >>]
    BY <1>2 DEF VersionHistory
  <1>4. Asked = {}
    BY DEF Init, GInit, Asked, Writing
  <1> QED
    BY <1>3, <1>4 DEF Versions!Init, VersionHistory, Asked

(* The versions of every relation are a register: a proposal, each relation of an import and  *)
(* a decision take effect at most once, a decision only over the version its caller had       *)
(* inspected, and nothing follows an acceptance or a rejection (decide_relation).             *)
THEOREM DecisionsAreARegister == Spec => VersionsAreARegister
  <1>1. Init => KTypeOK /\ SaveInv /\ RelationInv /\ Versions!Init
    BY GraphInit, KTypeInit, SaveInit, RelationInit, VersionInit
  <1>2. KTypeOK /\ SaveInv /\ RelationInv /\ [Next]_vars => (KTypeOK /\ SaveInv /\ RelationInv)'
    BY GraphStep, KTypeStep, SaveInvStep, RelationStep
  <1>3. KTypeOK /\ SaveInv /\ RelationInv /\ [Next]_vars =>
            [Versions!Next]_<<[r \in Relation |-> [n \in 1 .. Top(r) |-> versions[r][n].status]],
                UNION {{Intended(w, r) : r \in Named(writers[w])}
                       : w \in {z \in Writer : Writing(z) /\ writers[z].next # NoVersion}}>>
    BY VersionStep DEF VersionHistory, Asked
  <1> QED
    BY <1>1, <1>2, <1>3, PTL DEF Spec, VersionsAreARegister, Versions!Spec
=============================================================================
