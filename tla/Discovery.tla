------------------------------ MODULE Discovery ------------------------------
(***************************************************************************)
(* What happens to files dropped on the window or picked in a dialog       *)
(* (src-tauri/src/discovery/mod.rs, grant.rs, proposal.rs).  A first call  *)
(* opens the roots and issues a grant; a second one consumes the grant,    *)
(* walks the roots (SourceWalk) and registers a proposal, from which the   *)
(* user selects what to archive.                                           *)
(*                                                                         *)
(* Either call takes one of a few permits and hands it to a worker on a    *)
(* blocking thread.  The caller waits for the worker until the deadline;   *)
(* the worker goes on after it, looks at the deadline from time to time,   *)
(* and returns its permit when it ends.                                    *)
(*                                                                         *)
(* Abstractions.  The roots of a grant are given with its identifier, and  *)
(* a root that could not be opened fails in the walk.  Deadlines and times *)
(* to live pass at any step after they began.                              *)
(***************************************************************************)
EXTENDS SourceWalk

CONSTANTS
    Call,               \* calls of the two commands
    Grant, RootsOf,     \* drop grants and their roots
    DropProposal,
    NoCall, NoProposal,
    MaxPermits, MaxGrants, MaxProposals     \* MAX_BLOCKING_DROP_WORK and the registries' limits

ASSUME RootAssumption == RootsOf \in [Grant -> Seq(Path)]
ASSUME PermitAssumption == {MaxPermits, MaxGrants, MaxProposals} \subseteq Nat

VARIABLES
    permits,            \* DropWorkLimiter.active
    grants,             \* DropGrantRegistry: "new", "live", "expired" or "gone"
    proposals,          \* ReviewedSourceRegistry
    calls               \* the state of each call and of its worker

intakeVars == <<permits, grants, proposals, calls>>

-----------------------------------------------------------------------------
\* The steps of a call, and those of its worker.
Asking == {"load", "exchange", "consume"}
Working == {"insert", "place", "walk", "return"}

\* read: the permits that the call saw; late: its deadline is over, for its worker and the caller.
NewCall(g, kind) == [pc |-> "load", kind |-> kind, grant |-> g, read |-> 0, late |-> FALSE, walk |-> Begun(<<>>)]

NewProposal(g) == [grant |-> g, live |-> TRUE]

\* A permit for a call, and what its worker does.
CallRecord == [pc: Asking \cup Working, kind: {"issue", "propose"}, grant: Grant, read: Nat,
               late: BOOLEAN, walk: Walk]
ProposalRecord == [grant: Grant, live: BOOLEAN]

ASSUME AbsenceAssumption == NoCall \notin CallRecord /\ NoProposal \notin ProposalRecord

Running(k) == calls[k] # NoCall
At(k, pc) == Running(k) /\ calls[k].pc = pc
Holds(k) == Running(k) /\ calls[k].pc \in {"consume"} \cup Working
End(k) == calls' = [calls EXCEPT ![k] = NoCall]

IntakeTypeOK ==
    /\ permits \in 0 .. MaxPermits
    /\ grants \in [Grant -> {"new", "live", "expired", "gone"}]
    /\ proposals \in [DropProposal -> ProposalRecord \cup {NoProposal}]
    /\ calls \in [Call -> CallRecord \cup {NoCall}]

-----------------------------------------------------------------------------
IntakeInit ==
    /\ permits = 0
    /\ grants = [g \in Grant |-> "new"]
    /\ proposals = [p \in DropProposal |-> NoProposal]
    /\ calls = [k \in Call |-> NoCall]

\* issue_local_source_grant or propose_local_drop is called.
Ask(k, g, kind) ==
    /\ ~Running(k)
    /\ kind = "issue" => grants[g] = "new" /\ \A j \in Call : Running(j) => calls[j].grant # g
    /\ kind = "propose" => grants[g] # "new"
    /\ calls' = [calls EXCEPT ![k] = NewCall(g, kind)]
    /\ UNCHANGED <<permits, grants, proposals>>

Load(k) ==
    /\ At(k, "load")
    /\ calls' = [calls EXCEPT ![k].pc = "exchange", ![k].read = permits]
    /\ UNCHANGED <<permits, grants, proposals>>

\* Mutant: the counter is increased from the value read.
StoreIncreased(k) == permits' = calls[k].read + 1

\* compare_exchange_weak succeeds.
Exchange(k) == permits = calls[k].read /\ permits' = permits + 1

\* try_acquire: a permit, another attempt, or a refusal.
TryAcquire(k) ==
    /\ At(k, "exchange")
    /\ \/ /\ calls[k].read < MaxPermits
          /\ Exchange(k)
          /\ calls' = [calls EXCEPT ![k].read = 0,
                 ![k].pc = IF calls[k].kind = "issue" THEN "insert" ELSE "consume"]
       \/ /\ calls[k].read < MaxPermits /\ permits # calls[k].read
          /\ calls' = [calls EXCEPT ![k].read = permits]
          /\ UNCHANGED permits
       \/ /\ calls[k].read >= MaxPermits
          /\ End(k)
          /\ UNCHANGED permits
    /\ UNCHANGED <<grants, proposals>>

\* Mutant: the worker waits for a caller to take its result before it drops the permit.
HandOver(k) == ~calls[k].late /\ permits' = permits - 1 /\ End(k)

\* The end of a call or of its worker drops the permit.
Drop(k) == permits' = permits - 1 /\ End(k)

\* Mutant: the grant stays in the registry.
LookUp(k) == UNCHANGED grants

Remove(k) == grants' = [grants EXCEPT ![calls[k].grant] = "gone"]

\* Mutant: the registry is locked for the check of its limit, and again for the insertion.
Unlocked == TRUE

\* The lock of DropGrantRegistry: a call between the check and the insertion holds it.
RegistryFree == \A j \in Call : ~At(j, "place")

\* consume_at: a grant that has expired is removed too.
Consume(k) ==
    LET g == calls[k].grant
    IN  /\ At(k, "consume") /\ RegistryFree
        /\ \/ /\ grants[g] = "live" /\ Remove(k)
              /\ calls' = [calls EXCEPT ![k].pc = "walk", ![k].walk = Begun(RootsOf[g])]
              /\ UNCHANGED permits
           \/ grants[g] = "expired" /\ Remove(k) /\ Drop(k)
           \/ grants[g] \notin {"live", "expired"} /\ Drop(k) /\ UNCHANGED grants
        /\ UNCHANGED proposals

\* issue_with_deadline, before the insertion: the clock is read for the last time and the limit
\* holds, or the worker fails.
Insert(k) ==
    LET live == {h \in Grant : grants[h] = "live"}
    IN  /\ At(k, "insert")
        /\ \/ /\ RegistryFree /\ ~calls[k].late /\ Cardinality(live) < MaxGrants
              /\ calls' = [calls EXCEPT ![k].pc = "place"]
              /\ UNCHANGED permits
           \/ RegistryFree /\ Cardinality(live) >= MaxGrants /\ Drop(k)
           \/ calls[k].late /\ Drop(k)
        /\ UNCHANGED <<grants, proposals>>

\* The insertion, with the deadline read before: it may be over meanwhile, for the caller too.
Place(k) ==
    /\ At(k, "place")
    /\ grants' = [grants EXCEPT ![calls[k].grant] = "live"]
    /\ calls' = [calls EXCEPT ![k].pc = "return"]
    /\ UNCHANGED <<permits, proposals>>

\* The worker inspects the next entry, or finds its deadline over.
WalkOn(k) ==
    /\ At(k, "walk")
    /\ calls[k].walk.todo # <<>>
    /\ \/ /\ calls[k].late
          /\ calls' = [calls EXCEPT ![k].walk = Stopped(@)]
       \/ /\ ~calls[k].late /\ First(calls[k].walk).depth = 0
          /\ \/ \E fails \in BOOLEAN : calls' = [calls EXCEPT ![k].walk = InspectedRoot(@, fails)]
             \/ calls' = [calls EXCEPT ![k].walk = UnopenedRoot(@)]
       \/ /\ ~calls[k].late /\ First(calls[k].walk).depth > 0
          /\ \E fails \in BOOLEAN : calls' = [calls EXCEPT ![k].walk = InspectedEntry(@, fails)]
    /\ UNCHANGED <<permits, grants, proposals>>

\* register_at, and resolve_selection_at, which finds all that was just registered: the worker
\* does not look at its deadline any more.
Register(k) ==
    LET live == {p \in DropProposal : proposals[p] # NoProposal /\ proposals[p].live}
    IN  /\ At(k, "walk")
        /\ calls[k].walk.todo = <<>>
        /\ \/ /\ Cardinality(live) < MaxProposals
              /\ \E p \in DropProposal :
                    /\ proposals[p] = NoProposal
                    /\ proposals' = [proposals EXCEPT ![p] = NewProposal(calls[k].grant)]
              /\ calls' = [calls EXCEPT ![k].pc = "return", ![k].walk = Begun(<<>>)]
              /\ UNCHANGED permits
           \/ Cardinality(live) >= MaxProposals /\ Drop(k) /\ UNCHANGED proposals
        /\ UNCHANGED grants

\* The worker ends; its caller has the answer if it still waits.
Return(k) ==
    /\ At(k, "return")
    /\ Drop(k)
    /\ UNCHANGED <<grants, proposals>>

\* DROP_WORK_TIMEOUT is over: the caller has its error, of which the worker learns nothing, and
\* the worker finds its deadline over when it looks at it.
PassDeadline(k) ==
    /\ Holds(k) /\ ~At(k, "consume") /\ ~calls[k].late
    /\ calls' = [calls EXCEPT ![k].late = TRUE]
    /\ UNCHANGED <<permits, grants, proposals>>

\* Times to live.
ExpireGrant(g) ==
    /\ grants[g] = "live"
    /\ grants' = [grants EXCEPT ![g] = "expired"]
    /\ UNCHANGED <<permits, proposals, calls>>

ExpireProposal(p) ==
    /\ proposals[p] # NoProposal /\ proposals[p].live
    /\ proposals' = [proposals EXCEPT ![p].live = FALSE]
    /\ UNCHANGED <<permits, grants, calls>>

Proceed(k) == \/ Load(k) \/ TryAcquire(k) \/ Consume(k) \/ Insert(k)
              \/ Place(k) \/ WalkOn(k) \/ Register(k) \/ Return(k)

IntakeNext ==
    \/ \E k \in Call : \/ \E g \in Grant, kind \in {"issue", "propose"} : Ask(k, g, kind)
                       \/ Proceed(k) \/ PassDeadline(k)
    \/ \E g \in Grant : ExpireGrant(g)
    \/ \E p \in DropProposal : ExpireProposal(p)

IntakeSpec == IntakeInit /\ [][IntakeNext]_intakeVars

\* Threads are scheduled and the file system answers.
FairIntakeSpec == IntakeSpec /\ \A k \in Call : WF_intakeVars(Proceed(k))

-----------------------------------------------------------------------------
\* The counter of the limiter is the number of permits held, whatever calls and workers do at
\* the same time, so that the limit is never passed and no permit is lost.
PermitsAreCounted ==
    /\ permits = Cardinality({k \in Call : Holds(k)})
    /\ permits <= MaxPermits

\* A grant leads to at most one walk, and a walk to at most one proposal.
GrantsAreWalkedOnce ==
    LET walked == {k \in Call : At(k, "walk")}
    IN  /\ \A j, k \in walked : calls[j].grant = calls[k].grant => j = k
        /\ \A p, q \in DropProposal : proposals[p] # NoProposal /\ proposals[q] # NoProposal =>
               (proposals[p].grant = proposals[q].grant => p = q)
        /\ \A k \in walked, p \in DropProposal :
               proposals[p] # NoProposal => proposals[p].grant # calls[k].grant

\* The grants that may still be used are at most as many as the registry allows, however many
\* calls check that limit before one of them inserts.
GrantsKeepTheirLimit == Cardinality({g \in Grant : grants[g] = "live"}) <= MaxGrants

\* No walk visits more than its budget or lists a file of two overlapping roots twice, and
\* each file that the user dropped is in its proposal, or is noted: it is counted, and named
\* unless the counters tell that there is more than the diagnostics name.
WalksDisclose ==
    \A k \in Call : Running(k) =>
        /\ Bounded(calls[k].walk)
        /\ At(k, "walk") /\ calls[k].walk.todo = <<>> =>
                Discloses(calls[k].walk, RootsOf[calls[k].grant])

\* The inductive strengthenings of these.  A grant is new while it is being issued, and one call
\* issues it; it is gone before anything is made of it.
Issuing(k) == Running(k) /\ calls[k].kind = "issue" /\ calls[k].pc # "return"

GrantInvariant ==
    /\ \A k \in Call : Running(k) /\ calls[k].kind = "propose" =>
           grants[calls[k].grant] # "new" /\ calls[k].pc \notin {"insert", "place"}
    /\ \A k \in Call : Running(k) /\ calls[k].kind = "issue" => calls[k].pc \notin {"consume", "walk"}
    /\ \A k \in Call : Issuing(k) => grants[calls[k].grant] = "new"
    /\ \A j, k \in Call : Issuing(k) /\ Running(j) /\ calls[j].grant = calls[k].grant => j = k
    /\ \A k \in Call : At(k, "walk") => grants[calls[k].grant] = "gone"
    /\ \A p \in DropProposal : proposals[p] # NoProposal => grants[proposals[p].grant] = "gone"

\* The count is that of a finite set, however many calls there are.
PermitInvariant == IsFiniteSet({k \in Call : Holds(k)}) /\ PermitsAreCounted

\* A call about to insert is alone, and has room.
RoomInvariant ==
    /\ IsFiniteSet({g \in Grant : grants[g] = "live"}) /\ GrantsKeepTheirLimit
    /\ \A k \in Call : At(k, "place") =>
           Cardinality({g \in Grant : grants[g] = "live"}) < MaxGrants
    /\ \A j, k \in Call : At(j, "place") /\ At(k, "place") => j = k

WalkingInvariant ==
    \A k \in Call : Running(k) =>
        WalkInvariant(calls[k].walk, IF At(k, "walk") THEN RootsOf[calls[k].grant] ELSE <<>>)

\* A permit that is held is returned, whether or not the caller of the worker still waits.  (A
\* call may retry its exchange for ever while others come and go.)
PermitsReturn == \A k \in Call : []<>~Holds(k)
=============================================================================
