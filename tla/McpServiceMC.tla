---------------------------- MODULE McpServiceMC ----------------------------
(* A small instance of McpService: two grants of one tool.                  *)
EXTENDS McpService, TLC

OneTool == [g \in Grant |-> Tool]
NoOrigins == [g \in Grant |-> {}]

\* The identifiers are interchangeable.
Identifiers == Permutations(Grant) \cup Permutations(Selection) \cup Permutations(Session)
               \cup Permutations(Exchange)
=============================================================================
