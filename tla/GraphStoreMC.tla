----------------------------- MODULE GraphStoreMC -----------------------------
(* A small instance of GraphStore: one document, one comparison that        *)
(* suggests one relation, and one relation for a proposal.                  *)
EXTENDS GraphStore, TLC

CONSTANTS d1, r1, r2, c1

\* Calls and texts are interchangeable.
Calls == Permutations(Saver) \cup Permutations(Writer) \cup Permutations(Text)

OneSuggestion == [c \in {c1} |-> <<r1>>]
FirstRevision == [c \in {c1} |-> [doc |-> d1, revision |-> 1]]
=============================================================================
