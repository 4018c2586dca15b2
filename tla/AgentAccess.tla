----------------------------- MODULE AgentAccess -----------------------------
(***************************************************************************)
(* The grants of Agents (src-tauri/src/agent_access/authority.rs,          *)
(* store.rs, schema.rs).  The user selects directories in a native picker, *)
(* grants an Agent the use of a selection, and may revoke the grant.  A    *)
(* caller with the token of a grant opens sessions, and every request of a *)
(* session is authorized by itself.                                        *)
(*                                                                         *)
(* One mutex makes each operation of the authority one step.  A change of  *)
(* a grant writes an audit event, replaces the state file and synchronizes *)
(* its directory before the memory changes; each of the three may fail,    *)
(* and the outcome of an operation says which.  A process that ends in the *)
(* middle of a change leaves what a failure at that place leaves.          *)
(*                                                                         *)
(* Abstractions.  A token is the grant or the session that it was issued   *)
(* for.  The state file is read when the process starts: only this process *)
(* writes it, and no operation precedes its first reading.  The clock does *)
(* not run backwards; an operation has read it some time before its step.  *)
(* Numbers of audit events, labels and byte limits are left out.           *)
(***************************************************************************)
EXTENDS Naturals, FiniteSets

CONSTANTS
    Grant, Selection, Session,  \* identifiers; a new one is unused
    Request,                    \* request identifiers
    Tool, ToolsOf,              \* the tools, and those of each grant
    Origin, NoOrigin,           \* HTTP origins that a grant may list; a caller without one
    OriginsOf,                  \* those that each grant lists
    NoGrant, NoSession, NoTime,
    MaxGrants, MaxPending, MaxRequests,             \* the limits of the same names
    SelectionTtl, GrantTtl, SessionTtl,
    MaxTime, MaxFaults          \* bounds: the clock; failed writes and ends of the process

ASSUME LimitAssumption ==
    {MaxGrants, MaxPending, MaxRequests, SelectionTtl, GrantTtl, SessionTtl, MaxTime, MaxFaults}
        \subseteq Nat
ASSUME ToolAssumption == /\ ToolsOf \in [Grant -> SUBSET Tool]
                         /\ OriginsOf \in [Grant -> SUBSET Origin]
                         /\ NoOrigin \notin Origin

VARIABLES
    file,           \* agent-access-v1.json: the grants
    trail,          \* agent-access-audit: what the events are about
    grants,         \* State.persisted.grants
    active,         \* State.active_grants: those whose directories are open
    used,           \* ActiveGrant.used_request_ids
    sessions,       \* State.sessions
    chosen,         \* the selections that the user made
    selections,     \* State.pending_selections: when they expire
    clock, faults,
    revoked         \* history: the grants whose revocation was reported to the user

durable == <<file, trail>>
memory == <<grants, active, used, sessions, chosen, selections>>
avars == <<durable, memory, clock, faults, revoked>>

-----------------------------------------------------------------------------
Time == 0 .. MaxTime
Later == 0 .. MaxTime + GrantTtl + SelectionTtl
GrantRecord == [selection: Selection, expires: Later, revoked: BOOLEAN]
SessionRecord == [grant: Grant, origin: Origin \cup {NoOrigin}, expires: Later,
                  count: 0 .. MaxRequests]

ASSUME AbsenceAssumption == NoGrant \notin GrantRecord /\ NoSession \notin SessionRecord

\* What a caller sends with every request: the token of a grant and its origin.
Credential == [grant: Grant, origin: Origin \cup {NoOrigin}]

\* What audit events are about.
Created(g) == <<"grant.created", g>>
Revoked(g) == <<"grant.revoked", g>>
Opened(s) == <<"session.opened", s>>
Authorized(s, r) == <<"request.authorized", s, r>>

\* prune_pending, prune_sessions.
Pending(now) == {p \in Selection : selections[p] # NoTime /\ selections[p] > now}
Pruned(now) == [p \in Selection |-> IF p \in Pending(now) THEN selections[p] ELSE NoTime]
LiveSessions(now) == [s \in Session |->
                         IF sessions[s] # NoSession /\ sessions[s].expires <= now
                         THEN NoSession ELSE sessions[s]]

\* Grants that were never named in a record: a new identifier is one of them.
Unnamed == {g \in Grant : Created(g) \notin trail /\ grants[g] = NoGrant}
Existing == {g \in Grant : grants[g] # NoGrant}

\* ensure_grant_usable.
Usable(g, now) ==
    /\ g \in Existing
    /\ ~grants[g].revoked
    /\ grants[g].expires > now
    /\ g \in active

\* verify_transport_credentials, whose token is that of the grant.
Verified(c, now) ==
    /\ Usable(c.grant, now)
    /\ c.origin \in OriginsOf[c.grant] \cup {NoOrigin}

ATypeOK ==
    /\ file \in [Grant -> GrantRecord \cup {NoGrant}]
    /\ grants \in [Grant -> GrantRecord \cup {NoGrant}]
    /\ active \in SUBSET Grant
    /\ used \in SUBSET (Grant \X Session \X Request)
    /\ sessions \in [Session -> SessionRecord \cup {NoSession}]
    /\ chosen \in SUBSET Selection
    /\ selections \in [Selection -> Later \cup {NoTime}]
    /\ clock \in Time /\ faults \in 0 .. MaxFaults
    /\ revoked \in SUBSET Grant

-----------------------------------------------------------------------------
AInit ==
    /\ file = [g \in Grant |-> NoGrant] /\ grants = file
    /\ trail = {} /\ active = {} /\ used = {} /\ revoked = {}
    /\ sessions = [s \in Session |-> NoSession]
    /\ chosen = {} /\ selections = [p \in Selection |-> NoTime]
    /\ clock = 0 /\ faults = 0

Tick == /\ clock < MaxTime
        /\ clock' = clock + 1
        /\ UNCHANGED <<durable, memory, faults, revoked>>

\* The outcomes of a change: the place of the failure, or "done".
Outcome == {"event", "state", "directory", "done"}
Costs(outcome) ==
    /\ outcome # "done" => faults < MaxFaults
    /\ faults' = IF outcome = "done" THEN faults ELSE faults + 1

\* Mutant: the state file is replaced before the event is written.
StateFirst(next, about, outcome) ==
    /\ trail' = IF outcome \in {"event", "state"} THEN trail ELSE trail \cup {about}
    /\ file' = IF outcome = "state" THEN file ELSE next

\* write_change.
WriteChange(next, about, outcome) ==
    /\ trail' = IF outcome = "event" THEN trail ELSE trail \cup {about}
    /\ file' = IF outcome \in {"event", "state"} THEN file ELSE next

SelectPaths(p) ==
    /\ p \notin chosen
    /\ Cardinality(Pending(clock)) < MaxPending
    /\ chosen' = chosen \cup {p}
    /\ selections' = [Pruned(clock) EXCEPT ![p] = clock + SelectionTtl]
    /\ UNCHANGED <<durable, grants, active, used, sessions, clock, faults, revoked>>

\* The selection is consumed before anything else can fail.
Consume(p) == selections' = [Pruned(clock) EXCEPT ![p] = NoTime]

CreateGrant(g, p, outcome) ==
    LET next == [grants EXCEPT ![g] = [selection |-> p, expires |-> clock + GrantTtl,
                                       revoked |-> FALSE]]
    IN  /\ g \in Unnamed
        /\ p \in Pending(clock)
        /\ Cardinality(Existing) < MaxGrants
        /\ Consume(p)
        /\ Costs(outcome)
        /\ WriteChange(next, Created(g), outcome)
        /\ grants' = IF outcome = "done" THEN next ELSE grants
        /\ active' = IF outcome = "done" THEN active \cup {g} ELSE active
        /\ UNCHANGED <<used, sessions, chosen, clock, revoked>>

\* Grants are never removed, so that a full registry consumes selections for nothing.
RefuseGrant(p) ==
    /\ p \in Pending(clock)
    /\ Cardinality(Existing) >= MaxGrants
    /\ Consume(p)
    /\ UNCHANGED <<durable, grants, active, used, sessions, chosen, clock, faults, revoked>>

\* The grant is revoked in memory, and its sessions end.
Forgotten(g, next) ==
    /\ grants' = next
    /\ active' = active \ {g}
    /\ sessions' = [s \in Session |->
                       IF sessions[s] # NoSession /\ sessions[s].grant = g
                       THEN NoSession ELSE sessions[s]]
    /\ revoked' = revoked \cup {g}

\* Mutant: the memory changes whether or not the file was written.
ForgetAnyway(g, next, outcome) == Forgotten(g, next)

\* The memory changes when the file was written.
Forget(g, next, outcome) ==
    \/ outcome = "done" /\ Forgotten(g, next)
    \/ outcome # "done" /\ UNCHANGED <<grants, active, sessions, revoked>>

Revoke(g, outcome) ==
    LET next == [grants EXCEPT ![g].revoked = TRUE]
    IN  /\ g \in Existing
        /\ ~grants[g].revoked
        /\ Costs(outcome)
        /\ WriteChange(next, Revoked(g), outcome)
        /\ Forget(g, next, outcome)
        /\ UNCHANGED <<used, chosen, selections, clock>>

\* Revoking again writes nothing and succeeds.
RevokeAgain(g) ==
    /\ g \in Existing
    /\ grants[g].revoked
    /\ revoked' = revoked \cup {g}
    /\ UNCHANGED <<durable, memory, clock, faults>>

-----------------------------------------------------------------------------
\* write_runtime_event: the effect in memory follows the event.
WritesEvent(about) == trail' = trail \cup {about} /\ UNCHANGED <<file, faults>>

EventFails == faults < MaxFaults /\ faults' = faults + 1 /\ UNCHANGED durable

SessionExpiry(g, now) ==
    IF grants[g].expires < now + SessionTtl THEN grants[g].expires ELSE now + SessionTtl

\* open_session succeeds.
OpenSession(s, c, now) ==
    /\ Verified(c, now)
    /\ WritesEvent(Opened(s))
    /\ sessions' = [LiveSessions(now) EXCEPT
           ![s] = [grant |-> c.grant, origin |-> c.origin,
                   expires |-> SessionExpiry(c.grant, now), count |-> 0]]
    /\ UNCHANGED <<grants, active, used, chosen, selections, clock, revoked>>

\* open_session fails.
RefuseSession(c, now) ==
    /\ sessions' = LiveSessions(now)
    /\ \/ ~Verified(c, now) /\ UNCHANGED <<durable, faults>>
       \/ Verified(c, now) /\ EventFails
    /\ UNCHANGED <<grants, active, used, chosen, selections, clock, revoked>>

\* The request was authorized before.
AlreadyUsed(s, r) == <<sessions[s].grant, s, r>> \in used

WithinLimit(s) == sessions[s].count < MaxRequests

\* authorize_request finds no reason to deny it.  A scope is a directory of the selection.
Permitted(s, c, r, tool, scope, now) ==
    /\ Usable(c.grant, now)
    /\ LiveSessions(now)[s] # NoSession
    /\ sessions[s].grant = c.grant /\ sessions[s].origin = c.origin
    /\ ~AlreadyUsed(s, r)
    /\ WithinLimit(s)
    /\ tool \in ToolsOf[c.grant]
    /\ scope \in {{}, {grants[c.grant].selection}}

\* Mutant: the identifier is not remembered.
SpendNothing(s, r, now) ==
    /\ sessions' = [LiveSessions(now) EXCEPT ![s].count = @ + 1]
    /\ UNCHANGED used

\* The request counts, and its identifier is spent.
Spend(s, r, now) ==
    /\ sessions' = [LiveSessions(now) EXCEPT ![s].count = @ + 1]
    /\ used' = used \cup {<<sessions[s].grant, s, r>>}

\* authorize_request succeeds.
AuthorizeRequest(s, c, r, tool, scope, now) ==
    /\ Permitted(s, c, r, tool, scope, now)
    /\ WritesEvent(Authorized(s, r))
    /\ Spend(s, r, now)
    /\ UNCHANGED <<grants, active, chosen, selections, clock, revoked>>

\* authorize_request denies the request, or cannot record it.
DenyRequest(s, c, r, tool, scope, now) ==
    /\ sessions' = LiveSessions(now)
    /\ \/ ~Permitted(s, c, r, tool, scope, now) /\ UNCHANGED <<durable, faults>>
       \/ Permitted(s, c, r, tool, scope, now) /\ EventFails
    /\ UNCHANGED <<grants, active, used, chosen, selections, clock, revoked>>

\* The process ends and starts again: directories, sessions and selections are lost.
ARestart ==
    /\ faults < MaxFaults
    /\ faults' = faults + 1
    /\ grants' = file
    /\ active' = {} /\ used' = {}
    /\ sessions' = [s \in Session |-> NoSession]
    /\ selections' = [p \in Selection |-> NoTime]
    /\ UNCHANGED <<durable, chosen, clock, revoked>>

\* The user.
ANext ==
    \/ Tick
    \/ \E p \in Selection : SelectPaths(p) \/ RefuseGrant(p)
    \/ \E g \in Grant, p \in Selection, outcome \in Outcome : CreateGrant(g, p, outcome)
    \/ \E g \in Grant, outcome \in Outcome : Revoke(g, outcome)
    \/ \E g \in Grant : RevokeAgain(g)

-----------------------------------------------------------------------------
\* A revocation that was reported to the user is in the state file, and no session of the
\* grant is left, whatever failed or ended since.
ReportedRevocationsHold ==
    \A g \in revoked :
        /\ file[g] # NoGrant /\ file[g].revoked
        /\ g \notin active
        /\ \A s \in Session : sessions[s] # NoSession => sessions[s].grant # g

\* A session belongs to a grant whose directories this process opened, and does not outlive it.
SessionsFollowGrants ==
    \A s \in Session : sessions[s] # NoSession =>
        /\ sessions[s].grant \in active
        /\ sessions[s].expires <= grants[sessions[s].grant].expires

\* Sessions come and go with the grant they were opened under (authorize_request, revoke).
GrantsGovernSessions == ReportedRevocationsHold /\ SessionsFollowGrants

\* The audit knows of whatever took effect: of every grant and revocation in the state file
\* or in memory, of every session, and of every identifier spent.
AuditComesFirst ==
    /\ \A g \in Grant : \A a \in {file[g], grants[g]} \ {NoGrant} :
           Created(g) \in trail /\ (a.revoked => Revoked(g) \in trail)
    /\ \A s \in Session : sessions[s] # NoSession => Opened(s) \in trail
    /\ \A u \in used : Authorized(u[2], u[3]) \in trail
=============================================================================
