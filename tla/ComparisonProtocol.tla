------------------------- MODULE ComparisonProtocol -------------------------
(***************************************************************************)
(* What two models and the adjudicating Agent may answer, and what becomes *)
(* of it (src-tauri/src/model_runtime/protocol.rs, file_semantics.rs, the  *)
(* functions run_comparison_with_transport of mod.rs and                   *)
(* validate_comparison_record of store.rs), and what the graph takes over  *)
(* from a comparison (import_comparison_relations of graph/store.rs).      *)
(*                                                                         *)
(* There are two tasks: "relations" between the terms of a document, and   *)
(* the "file" task, which classifies a file and finds facts for its name.  *)
(*                                                                         *)
(* Abstractions.  An optional value is a set of at most one element.  A    *)
(* text is "sound" or one that validate_text refuses; a relation is a      *)
(* text, with what it cites.  An answer that is no JSON of the right shape *)
(* is one without a value, like a provider that fails.                     *)
(***************************************************************************)
EXTENDS Integers, Sequences, FiniteSets

CONSTANTS MaxCited, MaxRelations, MaxFacts, MaxExcerpts

ASSUME ProtocolLimits == {MaxCited, MaxRelations, MaxFacts, MaxExcerpts} \subseteq Nat

Side == {"desktop", "agent"}
AgentDecision == {"accept", "revise", "reject", "review"}

-----------------------------------------------------------------------------
(* Citations, proposals and adjudications. *)

Elements(s) == {s[i] : i \in DOMAIN s}
Distinct(s) == \A i, j \in DOMAIN s : s[i] = s[j] => i = j

ValidCitations(envelope, cites) ==
    /\ Len(cites) \in 1 .. MaxCited
    /\ Elements(cites) \subseteq envelope.evidence
    /\ Distinct(cites)

ValidRelations(envelope, relations) ==
    /\ Len(relations) <= MaxRelations
    /\ \A r \in Elements(relations) :
           r.text = "sound" /\ ValidCitations(envelope, r.cites)

\* One category of the profile with its evidence, or none and the reason.
ValidCategory(envelope, p) ==
    \/ /\ \E c \in envelope.categories : p.category = {c}
       /\ p.uncertainty = {}
       /\ ValidCitations(envelope, p.cites)
    \/ /\ p.category = {} /\ p.uncertainty = {"sound"}
       /\ p.cites = <<>>

ValidFacts(envelope, facts) ==
    /\ Len(facts) <= MaxFacts
    /\ \A i \in DOMAIN facts :
           facts[i].text = "sound" /\ ValidCitations(envelope, facts[i].cites)
    /\ \A i, j \in DOMAIN facts : facts[i].fact = facts[j].fact => i = j

ValidProposal(envelope, p) ==
    /\ p.summary = "sound"
    /\ IF envelope.task = "relations" THEN ValidRelations(envelope, p.relations)
       ELSE ValidCategory(envelope, p) /\ ValidFacts(envelope, p.facts)

\* An acceptance selects a side; only a revision, and every revision, brings relations.
RelationVerdictFits(envelope, v) ==
    /\ v.decision = "accept" => v.side # {}
    /\ v.decision = "revise" <=> v.relations # <<>>
    /\ ValidRelations(envelope, v.relations)

FileVerdictFits(envelope, v) ==
    \/ v.decision = "accept" /\ v.side # {} /\ v.revised = {}
    \/ /\ v.decision = "revise" /\ v.side = {}
       /\ v.revised # {} /\ \A p \in v.revised : ValidProposal(envelope, p)
    \/ v.decision \in {"reject", "review"} /\ v.side = {} /\ v.revised = {}

ValidVerdict(envelope, v) ==
    /\ v.decision \in AgentDecision
    /\ v.reason = "sound"
    /\ ValidCitations(envelope, v.cites)
    /\ IF envelope.task = "relations" THEN RelationVerdictFits(envelope, v)
       ELSE FileVerdictFits(envelope, v)

-----------------------------------------------------------------------------
(* Running a comparison. *)

\* bounded_failure: control characters become spaces, the ends are trimmed, what is too long
\* is cut and what is empty is replaced.
BoundedFailure(error) == "sound"

Failed(error) == [status |-> "failed", proposal |-> {}, reason |-> {BoundedFailure(error)}]
Succeeded(proposal) == [status |-> "succeeded", proposal |-> proposal, reason |-> {}]

ProviderOutcome(envelope, answer) ==
    LET accepted == {p \in answer.value : ValidProposal(envelope, p)}
    IN  IF accepted = {} THEN Failed(answer.error) ELSE Succeeded(accepted)

\* The decisions that complete a comparison; the others leave it to the user.
Completes(envelope) ==
    IF envelope.task = "relations" THEN {"accept", "revise", "reject"} ELSE {"accept", "revise"}

\* The Agent is asked only about two proposals.
IsAsked(desktop, agent) == desktop.proposal # {} /\ agent.proposal # {}

Adjudicated(envelope, desktop, agent, answer) ==
    {v \in answer.value : IsAsked(desktop, agent) /\ ValidVerdict(envelope, v)}

Status(envelope, desktop, agent, adjudication) ==
    IF ~IsAsked(desktop, agent) THEN "failed"
    ELSE IF \E v \in adjudication : v.decision \in Completes(envelope) THEN "completed"
    ELSE "review"

\* What the Agent accepted, or its revision, of a file comparison.
Resolved(envelope, desktop, agent, adjudication) ==
    UNION {IF v.decision = "accept" THEN (IF v.side = {"desktop"} THEN desktop.proposal
                                          ELSE agent.proposal)
           ELSE IF v.decision = "revise" THEN v.revised
           ELSE {} : v \in {w \in adjudication :
                                envelope.task = "file" /\ IsAsked(desktop, agent)}}

Concluded(envelope, desktop, agent, adjudication, error) ==
    [envelope |-> envelope, desktop |-> desktop, agent |-> agent,
     adjudication |-> adjudication,
     failure |-> IF IsAsked(desktop, agent) /\ adjudication = {} THEN {BoundedFailure(error)}
                 ELSE {},
     resolved |-> Resolved(envelope, desktop, agent, adjudication),
     status |-> Status(envelope, desktop, agent, adjudication)]

Comparison(envelope, desktopAnswer, agentAnswer, verdict) ==
    LET desktop == ProviderOutcome(envelope, desktopAnswer)
        agent == ProviderOutcome(envelope, agentAnswer)
    IN  Concluded(envelope, desktop, agent, Adjudicated(envelope, desktop, agent, verdict),
                  verdict.error)

-----------------------------------------------------------------------------
(* The checks of a record before it is written, and whenever it is read. *)

ValidOutcome(envelope, outcome) ==
    \/ /\ outcome.status = "succeeded" /\ outcome.reason = {}
       /\ outcome.proposal # {} /\ \A p \in outcome.proposal : ValidProposal(envelope, p)
    \/ /\ outcome.status = "failed" /\ outcome.proposal = {}
       /\ outcome.reason = {"sound"}

ValidEnvelope(envelope) == Cardinality(envelope.evidence) \in 1 .. MaxExcerpts

ValidRelationRecord(c) ==
    /\ ValidEnvelope(c.envelope)
    /\ c.adjudication = {} \/ c.failure = {}
    /\ c.failure \subseteq {"sound"}
    /\ \A v \in c.adjudication :
           /\ ValidVerdict(c.envelope, v)
           /\ v.decision = "review" <=> c.status = "review"
    /\ c.status = "completed" => /\ c.adjudication # {} /\ c.failure = {}
                                 /\ c.desktop.status = "succeeded"
                                 /\ c.agent.status = "succeeded"
    /\ c.status = "failed" => "failed" \in {c.desktop.status, c.agent.status}
    /\ c.status = "review" => c.adjudication # {} \/ c.failure # {}

ValidFileRecord(c) ==
    /\ c.resolved = Resolved(c.envelope, c.desktop, c.agent, c.adjudication)
    /\ \/ /\ c.status \in {"completed", "review"}
          /\ c.adjudication # {} /\ c.failure = {}
          /\ \A v \in c.adjudication : ValidVerdict(c.envelope, v)
       \/ /\ c.status = "review" /\ c.adjudication = {}
          /\ c.failure = {"sound"}
       \/ c.status = "failed" /\ c.adjudication = {} /\ c.failure = {}

ValidRecord(c) ==
    /\ ValidOutcome(c.envelope, c.desktop)
    /\ ValidOutcome(c.envelope, c.agent)
    /\ IF c.envelope.task = "relations" THEN ValidRelationRecord(c) ELSE ValidFileRecord(c)

-----------------------------------------------------------------------------
(* What enters the graph review. *)

Selected(c) ==
    UNION {IF v.decision = "revise" THEN {v.relations}
           ELSE {p.relations : p \in IF v.side = {"desktop"} THEN c.desktop.proposal
                                     ELSE c.agent.proposal} :
               v \in {w \in c.adjudication : w.decision \in {"accept", "revise"}}}

Suggested(c) ==
    IF c.status = "completed" THEN UNION {Elements(relations) : relations \in Selected(c)} ELSE {}
=============================================================================
