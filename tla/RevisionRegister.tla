-------------------------- MODULE RevisionRegister --------------------------
(***************************************************************************)
(* What a store of numbered revisions promises: the history of a key only  *)
(* grows, by one value at a time, each put there by a caller who asked for *)
(* it and who had named the revision that was the last; a caller's request *)
(* takes effect at most once, and nothing follows a final value.           *)
(*                                                                         *)
(* KnowledgeStore (the revisions of a document) and GraphStore (the        *)
(* versions of a relation) implement it.                                   *)
(***************************************************************************)
EXTENDS Naturals, Sequences

CONSTANTS Key, Caller, Value,
          Final         \* the values that end a history

VARIABLES history,      \* the values of each key, oldest first
          requests      \* what the callers ask for and have not obtained

Request == [by: Caller, key: Key, expected: Nat, value: Value]

IsOver(k) == history[k] # << >> /\ history[k][Len(history[k])] \in Final

Init == history = [k \in Key |-> << >>] /\ requests = {}

\* Callers come, or give up.
Submit == requests' \in SUBSET Request /\ requests \subseteq requests' /\ UNCHANGED history
Withdraw == requests' \subseteq requests /\ UNCHANGED history

Apply(r) ==
    /\ r.expected = Len(history[r.key])
    /\ ~IsOver(r.key)
    /\ history' = [history EXCEPT ![r.key] = Append(@, r.value)]
    /\ requests' = requests \ {r}

Next == Submit \/ Withdraw \/ \E r \in requests : Apply(r)

Spec == Init /\ [][Next]_<<history, requests>>
=============================================================================
