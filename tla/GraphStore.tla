----------------------------- MODULE GraphStore -----------------------------
(***************************************************************************)
(* The relations of the knowledge graph (src-tauri/src/graph/mod.rs,       *)
(* store.rs), composed with the documents they cite (KnowledgeStore).  A   *)
(* relation is a directory with one file per version; a version cites      *)
(* evidence in one revision of a document.                                 *)
(*                                                                         *)
(* propose, import and decide run on blocking threads, each under a permit *)
(* of GraphWriteRegistry whose key names the document, the comparison or   *)
(* the relation.  Each of their writes is two steps, the temporary file in *)
(* the relation's directory and the rename, because every reader of a      *)
(* directory reads every file it finds there.                              *)
(*                                                                         *)
(* Abstractions.  The nodes and the type of a relation are left out: a     *)
(* version is its status and the evidence it cites, which is the text of   *)
(* the revision.  A comparison is one that an Agent adjudicated; what it   *)
(* suggests is a sequence of relations.  A new identifier is unused.       *)
(***************************************************************************)
EXTENDS KnowledgeStore, FiniteSetsExt

CONSTANTS
    Relation,           \* identifiers of relations
    Writer,             \* calls of propose, import and decide
    Comparison,         \* completed comparisons
    Suggested,          \* the relations that each suggests: imported_relation_id of each index
    Cited,              \* the document and the revision of its envelope
    NoVersion,
    MaxVersion,         \* MAX_RELATION_VERSIONS
    MaxRelations        \* folders that one listing passes; no writer looks at it

Imported == UNION {{Suggested[c][i] : i \in DOMAIN Suggested[c]} : c \in Comparison}

\* An identifier is made of the comparison and the index: those of a comparison differ.
ASSUME ComparisonAssumption ==
    /\ \A c \in Comparison :
          /\ Suggested[c] \in Seq(Relation)
          /\ \A i, j \in DOMAIN Suggested[c] : Suggested[c][i] = Suggested[c][j] => i = j
    /\ Cited \in [Comparison -> [doc: Document, revision: 1 .. MaxRevision]]

VARIABLES
    folders,            \* .aiks/graph/relations/<relation>
    versions,           \* the files in them
    torn,               \* the folders in which a crash left a temporary file
    permits,            \* GraphWriteRegistry.active
    writers             \* the state of each call

gvars == <<folders, versions, torn, permits, writers>>
vars == <<kvars, gvars>>

-----------------------------------------------------------------------------
Version == 1 .. MaxVersion
Status == {"review", "accepted", "rejected"}
Evidence == [doc: Document, revision: Revision, text: Text]
GraphRelation == [status: Status, evidence: Evidence]

ASSUME VersionAssumption ==
    MaxVersion \in Nat \ {0} /\ MaxRelations \in Nat /\ NoVersion \notin GraphRelation

\* The keys of the permits.
DocumentKey(d) == <<"document", d>>
ComparisonKey(c) == <<"comparison", c>>
RelationKey(r) == <<"relation", r>>
PermitKey == {DocumentKey(d) : d \in Document} \cup {ComparisonKey(c) : c \in Comparison}
             \cup {RelationKey(r) : r \in Relation}

\* todo: the positions, in "relations", of those still to write, in the version "version".
NoWrite == [pc |-> "idle"]
WriteTask == [pc: {"read", "folder", "stage", "publish"}, permit: PermitKey,
              relations: Seq(Relation), todo: SUBSET Nat, version: Version,
              expected: 0 .. MaxVersion, next: GraphRelation \cup {NoVersion}]

TypeOK ==
    /\ KTypeOK
    /\ folders \in SUBSET Relation
    /\ versions \in [Relation -> [Version -> GraphRelation \cup {NoVersion}]]
    /\ torn \in SUBSET folders
    /\ permits \in SUBSET PermitKey
    /\ \A w \in Writer : \/ writers[w] = NoWrite
                         \/ /\ writers[w].pc \in {"read", "folder", "stage", "publish"}
                            /\ writers[w].permit \in permits
                            /\ writers[w].next \in GraphRelation \cup {NoVersion}

Writing(w) == writers[w] # NoWrite
Written(r) == {n \in Version : versions[r][n] # NoVersion}
Top(r) == Cardinality(Written(r))

\* The relation that a call writes next: they are written in their order.
Target(t) == t.relations[Min(t.todo)]
Named(t) == {t.relations[i] : i \in t.todo}

\* The temporary file of a write under way is in its relation's folder.
HasTemporary(r) ==
    \/ r \in torn
    \/ \E w \in Writer : Writing(w) /\ writers[w].pc = "publish" /\ Target(writers[w]) = r

\* relation_versions: every file of the folder is read, and their versions follow one another.
Readable(r) == /\ r \in folders
               /\ ~HasTemporary(r)
               /\ Written(r) = 1 .. Top(r)

\* Mutant: the evidence is extracted from the latest revision.
EvidenceOfLatest(d, n) == [doc |-> d, revision |-> n, text |-> records[d][Latest(d)]]

\* build_relation and extract_evidence: what a version cites of a revision.
EvidenceOf(d, n) == [doc |-> d, revision |-> n, text |-> records[d][n]]

\* verify_relation_evidence.
Verifies(v) == /\ Opens(v.evidence.doc, v.evidence.revision)
               /\ v.evidence = EvidenceOf(v.evidence.doc, v.evidence.revision)

\* same_import_origin: what an earlier import of the comparison wrote.
SameImportOrigin(r, c) ==
    versions[r][1] = [status |-> "review", evidence |-> EvidenceOf(Cited[c].doc, Cited[c].revision)]

\* inspect_graph succeeds: every folder is read, whichever document its relation cites.
Lists(d) ==
    /\ d \in registered
    /\ Cardinality(folders) <= MaxRelations
    /\ \A r \in folders :
          /\ Readable(r)
          /\ Written(r) # {} /\ versions[r][Top(r)].evidence.doc = d => Verifies(versions[r][Top(r)])

\* The relations that the calls under way have named or will name.
Reserved == Imported \cup
            UNION {Named(writers[w]) : w \in {z \in Writer : Writing(z)}}

-----------------------------------------------------------------------------
GInit ==
    /\ folders = {} /\ torn = {} /\ permits = {}
    /\ versions = [r \in Relation |-> [n \in Version |-> NoVersion]]
    /\ writers = [w \in Writer |-> NoWrite]

Start(w, key, task) ==
    /\ ~Writing(w)
    /\ key \notin permits
    /\ permits' = permits \cup {key}
    /\ writers' = [writers EXCEPT ![w] = task]
    /\ UNCHANGED <<folders, versions, torn>>

\* The permit is dropped with the closure of the worker.
EndWrite(w) == /\ writers' = [writers EXCEPT ![w] = NoWrite]
               /\ permits' = permits \ {writers[w].permit}

Task(key, relations, expected) ==
    [pc |-> "read", permit |-> key, relations |-> relations, todo |-> DOMAIN relations,
     version |-> 1, expected |-> expected, next |-> NoVersion]

StartPropose(w, d, r) ==
    r \notin folders \cup Reserved /\ Start(w, DocumentKey(d), Task(DocumentKey(d), <<r>>, 0))

StartImport(w, c) == Start(w, ComparisonKey(c), Task(ComparisonKey(c), Suggested[c], 0))

StartDecide(w, r, n) == Start(w, RelationKey(r), Task(RelationKey(r), <<r>>, n))

\* propose_relation: the evidence is read from a committed revision.
BuildProposal(w, d, n) ==
    /\ Writing(w) /\ writers[w].pc = "read" /\ writers[w].permit = DocumentKey(d)
    /\ Opens(d, n)
    /\ writers' = [writers EXCEPT ![w].pc = "folder",
                        ![w].next = [status |-> "review", evidence |-> EvidenceOf(d, n)]]
    /\ UNCHANGED <<folders, versions, torn, permits>>

\* import_comparison_relations: all the relations are built and all those that exist are
\* read before the first is written; only the missing ones are.
PrepareImport(w, c) ==
    LET cited == Cited[c]
        missing == {i \in DOMAIN Suggested[c] : Suggested[c][i] \notin folders}
    IN  /\ Writing(w) /\ writers[w].pc = "read" /\ writers[w].permit = ComparisonKey(c)
        /\ Opens(cited.doc, cited.revision)
        /\ \A i \in DOMAIN Suggested[c] : LET r == Suggested[c][i] IN
              r \in folders => /\ Readable(r) /\ Top(r) > 0
                               /\ SameImportOrigin(r, c) /\ Verifies(versions[r][Top(r)])
        /\ IF missing = {} THEN EndWrite(w)
           ELSE /\ writers' = [writers EXCEPT ![w].pc = "folder", ![w].todo = missing,
                        ![w].next = [status |-> "review",
                                     evidence |-> EvidenceOf(cited.doc, cited.revision)]]
                /\ UNCHANGED permits
        /\ UNCHANGED <<folders, versions, torn>>

\* What a decision makes of the current version: accept and reject keep what it cites.
Decided(v, status, d, n) ==
    IF status = "review" THEN [status |-> "review", evidence |-> EvidenceOf(d, n)]
    ELSE [v EXCEPT !.status = status]

\* Mutant: the version the caller had inspected is not compared.
ReadWithoutVersion(w, r, status, n) ==
    LET current == versions[r][Top(r)]
    IN  /\ Writing(w) /\ writers[w].pc = "read" /\ writers[w].permit = RelationKey(r)
        /\ Readable(r) /\ Top(r) > 0 /\ Top(r) + 1 \in Version
        /\ current.status = "review"
        /\ IF status = "review" THEN Opens(current.evidence.doc, n) ELSE Verifies(current)
        /\ writers' = [writers EXCEPT ![w].pc = "stage", ![w].version = Top(r) + 1,
                            ![w].next = Decided(current, status, current.evidence.doc, n)]
        /\ UNCHANGED <<folders, versions, torn, permits>>

ReadForDecision(w, r, status, n) ==
    LET current == versions[r][Top(r)]
    IN  /\ Writing(w) /\ writers[w].pc = "read" /\ writers[w].permit = RelationKey(r)
        /\ Readable(r) /\ Top(r) > 0
        /\ writers[w].expected = Top(r)
        /\ current.status = "review"
        /\ Top(r) + 1 \in Version
        /\ IF status = "review" THEN Opens(current.evidence.doc, n) ELSE Verifies(current)
        /\ writers' = [writers EXCEPT ![w].pc = "stage", ![w].version = Top(r) + 1,
                            ![w].next = Decided(current, status, current.evidence.doc, n)]
        /\ UNCHANGED <<folders, versions, torn, permits>>

\* The folder of a new relation.
EnsureFolder(w) ==
    /\ Writing(w) /\ writers[w].pc = "folder"
    /\ folders' = folders \cup {Target(writers[w])}
    /\ writers' = [writers EXCEPT ![w].pc = "stage"]
    /\ UNCHANGED <<versions, torn, permits>>

\* write_new_bytes up to its second look at the name.
StageVersion(w) ==
    /\ Writing(w) /\ writers[w].pc = "stage"
    /\ versions[Target(writers[w])][writers[w].version] = NoVersion
    /\ writers' = [writers EXCEPT ![w].pc = "publish"]
    /\ UNCHANGED <<folders, versions, torn, permits>>

PublishVersion(w) ==
    LET r == Target(writers[w])
        n == writers[w].version
        rest == writers[w].todo \ {Min(writers[w].todo)}
    IN  /\ Writing(w) /\ writers[w].pc = "publish"
        /\ versions[r][n] = NoVersion
        /\ versions' = [versions EXCEPT ![r][n] = writers[w].next]
        /\ IF rest = {} THEN EndWrite(w)
           ELSE /\ writers' = [writers EXCEPT ![w].pc = "folder", ![w].todo = rest]
                /\ UNCHANGED permits
        /\ UNCHANGED <<folders, torn>>

\* A check or an operation fails; the temporary file is removed, unless that fails too.
RefuseWrite(w) ==
    /\ Writing(w)
    /\ EndWrite(w)
    /\ \/ torn' = torn
       \/ writers[w].pc = "publish" /\ torn' = torn \cup {Target(writers[w])}
    /\ UNCHANGED <<folders, versions>>

WriteStep(w) ==
    \/ \E d \in Document, n \in Revision : BuildProposal(w, d, n)
    \/ \E c \in Comparison : PrepareImport(w, c)
    \/ \E r \in Relation, status \in Status, n \in Revision : ReadForDecision(w, r, status, n)
    \/ EnsureFolder(w) \/ StageVersion(w) \/ PublishVersion(w) \/ RefuseWrite(w)

StartWrite(w) ==
    \/ \E d \in Document, r \in Relation : StartPropose(w, d, r)
    \/ \E c \in Comparison : StartImport(w, c)
    \/ \E r \in Relation, n \in Version : StartDecide(w, r, n)

\* The end of the process leaves the temporary files of the writes under way.
GCrash ==
    /\ torn' = {r \in Relation : HasTemporary(r)}
    /\ permits' = {}
    /\ writers' = [w \in Writer |-> NoWrite]
    /\ UNCHANGED <<folders, versions>>

Crash == KCrash /\ GCrash
Knowledge == (KUser \/ \E s \in Saver : SaveStep(s)) /\ UNCHANGED gvars
Graph == (\E w \in Writer : StartWrite(w) \/ WriteStep(w)) /\ UNCHANGED kvars

Init == KInit /\ GInit
Next == Knowledge \/ Graph \/ Crash
Spec == Init /\ [][Next]_vars

-----------------------------------------------------------------------------
(* What a relation cites was committed: no version cites Markdown that was  *)
(* never recorded, or that a later save replaced (build_relation).          *)
EvidenceIsCommitted ==
    \A r \in Relation : \A n \in Written(r) :
        LET cited == versions[r][n].evidence
        IN  records[cited.doc][cited.revision] = cited.text

(* A decision ends what was reviewed: an accepted or rejected version is    *)
(* the last one and cites what the version under review before it cited     *)
(* (decide_relation).                                                       *)
DecisionsEndAReview ==
    \A r \in Relation : \A n \in Written(r) :
        versions[r][n].status # "review" =>
            /\ n = Top(r) /\ n > 1
            /\ versions[r][n - 1] = [versions[r][n] EXCEPT !.status = "review"]

(* What the user has decided rests on evidence that is there: the version    *)
(* reviewed, and the committed text it cites.                               *)
DecisionsAreGrounded == EvidenceIsCommitted /\ DecisionsEndAReview

(* While no original was retired and no Markdown file edited, every folder  *)
(* of a relation, also one in which a crash or a failure cut a write short, *)
(* holds versions that follow one another, the last of which cites evidence *)
(* that verifies; and inspect_graph succeeds for every document, unless     *)
(* there are more relations than it lists or a folder holds the temporary   *)
(* file of a write that is under way or was cut short.                      *)
GraphIsListable ==
    edits = 0 /\ registered = Document =>
        /\ \A r \in folders :
              /\ Written(r) = 1 .. Top(r)
              /\ Written(r) # {} => Verifies(versions[r][Top(r)])
        /\ \A d \in Document :
              \/ Lists(d)
              \/ Cardinality(folders) > MaxRelations
              \/ \E r \in folders : HasTemporary(r)

(* The versions of a relation are a register that only grows: a proposal    *)
(* and an import write its first version once, a decision follows the       *)
(* version its caller had inspected, and nothing follows an acceptance or a *)
(* rejection.                                                               *)
Intended(w, r) ==
    [by |-> w, key |-> r,
     expected |-> IF writers[w].permit = RelationKey(r) THEN writers[w].expected ELSE 0,
     value |-> writers[w].next.status]

Versions == INSTANCE RevisionRegister WITH
    Key <- Relation,
    Caller <- Writer,
    Value <- Status,
    Final <- {"accepted", "rejected"},
    history <- [r \in Relation |-> [n \in 1 .. Top(r) |-> versions[r][n].status]],
    requests <- UNION {{Intended(w, r) : r \in Named(writers[w])}
                       : w \in {z \in Writer : Writing(z) /\ writers[z].next # NoVersion}}

VersionsAreARegister == Versions!Spec

=============================================================================
