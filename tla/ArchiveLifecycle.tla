-------------------------- MODULE ArchiveLifecycle --------------------------
(***************************************************************************)
(* What the archive promises to whoever relies on it: an item is           *)
(* registered only while its verified original is visible, and neither a   *)
(* registration nor its original is ever taken back.                       *)
(***************************************************************************)
CONSTANTS Op, Dest, DestOf

VARIABLES
    status,     \* none, underway, registered or rejected
    original    \* the destinations at which a verified original is visible

vars == <<status, original>>

Init ==
    /\ status = [o \in Op |-> "none"]
    /\ original = {}

Propose(o) ==
    /\ status[o] = "none"
    /\ status' = [status EXCEPT ![o] = "underway"]
    /\ UNCHANGED original

Expose(o) ==
    /\ status[o] = "underway" /\ DestOf[o] \notin original
    /\ original' = original \cup {DestOf[o]}
    /\ UNCHANGED status

Register(o) ==
    /\ status[o] = "underway" /\ DestOf[o] \in original
    /\ status' = [status EXCEPT ![o] = "registered"]
    /\ UNCHANGED original

Reject(o) ==
    /\ status[o] = "underway"
    /\ status' = [status EXCEPT ![o] = "rejected"]
    /\ UNCHANGED original

Next == \E o \in Op : Propose(o) \/ Expose(o) \/ Register(o) \/ Reject(o)

Spec == Init /\ [][Next]_vars
=============================================================================
