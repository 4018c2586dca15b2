-------------------------- MODULE AgentAccessProofs --------------------------
(***************************************************************************)
(* Proofs about AgentAccess and McpService, for any grants, selections,    *)
(* sessions, requests, tools and origins, any limits and lifetimes, and    *)
(* any number of exchanges, failures and restarts.                         *)
(***************************************************************************)
EXTENDS McpService, TLAPS

-----------------------------------------------------------------------------
(* Types. *)

LEMMA TypeInit == Init => TypeOK
  BY LimitAssumption DEF Init, AInit, TypeOK, ATypeOK, Time, Later

(* What lives of the sessions is a part of them. *)
LEMMA LiveAreSessions ==
    ASSUME TypeOK, NEW now, NEW s \in Session
    PROVE  /\ LiveSessions(now) \in [Session -> SessionRecord \cup {NoSession}]
           /\ LiveSessions(now)[s] \in {sessions[s], NoSession}
  BY DEF TypeOK, ATypeOK, LiveSessions

(* A selection that was pruned is one that was pending. *)
LEMMA PrunedType ==
    ASSUME TypeOK, NEW now
    PROVE  Pruned(now) \in [Selection -> Later \cup {NoTime}]
  BY DEF TypeOK, ATypeOK, Pruned

LEMMA ExchangeType ==
    ASSUME TypeOK, NEW x \in Exchange, ~Idle(x)
    PROVE  /\ exchanges[x] \in Call
           /\ exchanges[x].service \in Session /\ exchanges[x].cred \in Credential
           /\ exchanges[x].cred.grant \in Grant /\ exchanges[x].now \in Time
           /\ exchanges[x].id \in Request
  BY DEF TypeOK, Idle, Call, Credential

(* The new session of open_session: it ends with its grant at the latest. *)
LEMMA NewSessionType ==
    ASSUME TypeOK, NEW c \in Credential, NEW now \in Time, Verified(c, now)
    PROVE  /\ SessionExpiry(c.grant, now) <= grants[c.grant].expires
           /\ [grant |-> c.grant, origin |-> c.origin,
               expires |-> SessionExpiry(c.grant, now), count |-> 0] \in SessionRecord
           /\ c.grant \in active
  <1>1. c.grant \in Grant /\ c.grant \in active /\ grants[c.grant] \in GrantRecord
    BY DEF Verified, Usable, Existing, TypeOK, ATypeOK, Credential
  <1>2. grants[c.grant].expires \in Later
    BY <1>1 DEF GrantRecord
  <1>3. SessionExpiry(c.grant, now) \in Later /\ SessionExpiry(c.grant, now) <= grants[c.grant].expires
    BY <1>2, LimitAssumption DEF SessionExpiry, Later, Time
  <1> QED
    BY <1>1, <1>3, LimitAssumption DEF SessionRecord, Credential

(* The changes of write_change. *)
LEMMA WriteChangeType ==
    ASSUME TypeOK, NEW next \in [Grant -> GrantRecord \cup {NoGrant}], NEW about, NEW outcome,
           WriteChange(next, about, outcome), Costs(outcome)
    PROVE  /\ file' \in [Grant -> GrantRecord \cup {NoGrant}]
           /\ faults' \in 0 .. MaxFaults
  BY LimitAssumption DEF TypeOK, ATypeOK, WriteChange, Costs

LEMMA UserType == TypeOK /\ User => TypeOK'
  <1> SUFFICES ASSUME TypeOK, User PROVE TypeOK'
    OBVIOUS
  <1> USE LimitAssumption
  <1>0. UNCHANGED mvars
    BY DEF User
  <1>1. SUFFICES ATypeOK'
    BY <1>0 DEF TypeOK, mvars
  <1>2. CASE Tick
    BY <1>2 DEF Tick, TypeOK, ATypeOK, durable, memory, Time
  <1>3. ASSUME NEW p \in Selection, SelectPaths(p) PROVE ATypeOK'
    <2>1. Pruned(clock) \in [Selection -> Later \cup {NoTime}]
      BY PrunedType
    <2>2. clock + SelectionTtl \in Later
      BY DEF TypeOK, ATypeOK, Later, Time
    <2> QED
      BY <1>3, <2>1, <2>2 DEF SelectPaths, TypeOK, ATypeOK, durable
  <1>4. ASSUME NEW p \in Selection, RefuseGrant(p) PROVE ATypeOK'
    BY <1>4, PrunedType DEF RefuseGrant, Consume, TypeOK, ATypeOK, durable
  <1>5. ASSUME NEW g \in Grant, NEW p \in Selection, NEW outcome \in Outcome,
               CreateGrant(g, p, outcome)
        PROVE  ATypeOK'
    <2> DEFINE next == [grants EXCEPT ![g] = [selection |-> p, expires |-> clock + GrantTtl,
                                              revoked |-> FALSE]]
    <2>1. clock + GrantTtl \in Later
      BY DEF TypeOK, ATypeOK, Later, Time
    <2>2. next \in [Grant -> GrantRecord \cup {NoGrant}]
      BY <2>1 DEF TypeOK, ATypeOK, GrantRecord
    <2>3. file' \in [Grant -> GrantRecord \cup {NoGrant}] /\ faults' \in 0 .. MaxFaults
      BY <1>5, <2>2, WriteChangeType DEF CreateGrant
    <2>4. selections' \in [Selection -> Later \cup {NoTime}]
      BY <1>5, PrunedType DEF CreateGrant, Consume
    <2> QED
      BY <1>5, <2>2, <2>3, <2>4 DEF CreateGrant, TypeOK, ATypeOK
  <1>6. ASSUME NEW g \in Grant, NEW outcome \in Outcome, Revoke(g, outcome) PROVE ATypeOK'
    <2> DEFINE next == [grants EXCEPT ![g].revoked = TRUE]
    <2>1. next \in [Grant -> GrantRecord \cup {NoGrant}]
      BY <1>6 DEF Revoke, Existing, TypeOK, ATypeOK, GrantRecord
    <2>2. file' \in [Grant -> GrantRecord \cup {NoGrant}] /\ faults' \in 0 .. MaxFaults
      BY <1>6, <2>1, WriteChangeType DEF Revoke
    <2>3. /\ grants' \in {grants, next} /\ active' \in SUBSET Grant
          /\ revoked' \in SUBSET Grant
          /\ sessions' \in [Session -> SessionRecord \cup {NoSession}]
      BY <1>6 DEF Revoke, Forget, Forgotten, TypeOK, ATypeOK
    <2> QED
      BY <1>6, <2>1, <2>2, <2>3 DEF Revoke, TypeOK, ATypeOK
  <1>7. ASSUME NEW g \in Grant, RevokeAgain(g) PROVE ATypeOK'
    BY <1>7 DEF RevokeAgain, TypeOK, ATypeOK, durable, memory
  <1> QED
    BY <1>2, <1>3, <1>4, <1>5, <1>6, <1>7 DEF User, ANext

LEMMA OpenType ==
    ASSUME TypeOK, NEW x \in Exchange, Open(x)
    PROVE  TypeOK'
  <1> USE LimitAssumption
  <1> DEFINE s == exchanges[x].service
             c == exchanges[x].cred
             now == exchanges[x].now
  <1>1. s \in Session /\ c \in Credential /\ now \in Time
    BY ExchangeType DEF Open, At
  <1>2. LiveSessions(now) \in [Session -> SessionRecord \cup {NoSession}]
    BY <1>1, LiveAreSessions
  <1>3. exchanges' \in [Exchange -> Call \cup {NoExchange}] /\ begun' \in SUBSET Session
    BY DEF Open, End, TypeOK
  <1>4. CASE OpenSession(s, c, now) /\ services' = [services EXCEPT ![s] = c]
    <2> DEFINE new == [grant |-> c.grant, origin |-> c.origin,
                       expires |-> SessionExpiry(c.grant, now), count |-> 0]
    <2>1. new \in SessionRecord
      BY <1>1, <1>4, NewSessionType DEF OpenSession
    <2>2. sessions' = [LiveSessions(now) EXCEPT ![s] = new]
      BY <1>4 DEF OpenSession
    <2>3. sessions' \in [Session -> SessionRecord \cup {NoSession}]
      BY <1>2, <2>1, <2>2
    <2>4. services' \in [Session -> Credential \cup {NoCredential}]
      BY <1>1, <1>4 DEF TypeOK
    <2> QED
      BY <1>3, <1>4, <2>3, <2>4 DEF OpenSession, WritesEvent, TypeOK, ATypeOK
  <1>5. CASE RefuseSession(c, now) /\ UNCHANGED services
    BY <1>2, <1>3, <1>5 DEF RefuseSession, EventFails, durable, TypeOK, ATypeOK
  <1> QED
    BY <1>4, <1>5 DEF Open

(* A request that is authorized counts in a session that is alive. *)
LEMMA SpendType ==
    ASSUME TypeOK, NEW s \in Session, NEW c, NEW r \in Request, NEW tool, NEW scope, NEW now,
           AuthorizeRequest(s, c, r, tool, scope, now)
    PROVE  /\ sessions[s] \in SessionRecord /\ sessions[s] # NoSession
           /\ \A z \in Session \ {s} : sessions'[z] \in {sessions[z], NoSession}
           /\ sessions'[s].grant = sessions[s].grant
           /\ sessions'[s].expires = sessions[s].expires
           /\ sessions' \in [Session -> SessionRecord \cup {NoSession}]
           /\ used' = used \cup {<<sessions[s].grant, s, r>>}
           /\ used' \in SUBSET (Grant \X Session \X Request)
  <1>1. /\ sessions[s] \in SessionRecord /\ sessions[s] # NoSession
        /\ LiveSessions(now)[s] = sessions[s]
    BY LiveAreSessions DEF AuthorizeRequest, Permitted, TypeOK, ATypeOK
  <1>2. LiveSessions(now) \in [Session -> SessionRecord \cup {NoSession}]
    BY LiveAreSessions
  <1>3. sessions' = [LiveSessions(now) EXCEPT
                        ![s] = [sessions[s] EXCEPT !.count = sessions[s].count + 1]]
    BY <1>1, <1>2 DEF AuthorizeRequest, Spend
  <1>4. [sessions[s] EXCEPT !.count = sessions[s].count + 1] \in SessionRecord
    BY <1>1, LimitAssumption DEF AuthorizeRequest, Permitted, WithinLimit, SessionRecord
  <1>5. sessions' \in [Session -> SessionRecord \cup {NoSession}]
    BY <1>2, <1>3, <1>4
  <1>6. used' = used \cup {<<sessions[s].grant, s, r>>}
    BY DEF AuthorizeRequest, Spend
  <1>7. sessions[s].grant \in Grant
    BY <1>1 DEF SessionRecord
  <1>8. \A z \in Session \ {s} : sessions'[z] \in {sessions[z], NoSession}
    BY <1>3, LiveAreSessions
  <1>9. sessions'[s] = [sessions[s] EXCEPT !.count = sessions[s].count + 1]
    BY <1>2, <1>3
  <1>10. sessions'[s].grant = sessions[s].grant /\ sessions'[s].expires = sessions[s].expires
    BY <1>1, <1>9 DEF SessionRecord
  <1> QED
    BY <1>1, <1>5, <1>6, <1>7, <1>8, <1>10 DEF TypeOK, ATypeOK

LEMMA AuthorizeType ==
    ASSUME TypeOK, NEW x \in Exchange, Authorize(x)
    PROVE  TypeOK'
  <1> USE LimitAssumption
  <1> DEFINE s == exchanges[x].service
             c == exchanges[x].cred
             r == exchanges[x].id
             scope == exchanges[x].scope
             now == exchanges[x].now
  <1>1. s \in Session /\ r \in Request /\ exchanges[x] \in Call
    BY ExchangeType DEF Authorize, At
  <1>2. LiveSessions(now) \in [Session -> SessionRecord \cup {NoSession}]
    BY <1>1, LiveAreSessions
  <1>3. CASE AuthorizeRequest(s, c, r, ToolOf(x), scope, now) /\ Goto(x, "dispatch")
    <2>1. /\ sessions' \in [Session -> SessionRecord \cup {NoSession}]
          /\ used' \in SUBSET (Grant \X Session \X Request)
      BY <1>1, <1>3, SpendType
    <2>2. exchanges' \in [Exchange -> Call \cup {NoExchange}]
      BY <1>1, <1>3 DEF Goto, TypeOK, Call, Pc
    <2> QED
      BY <1>3, <2>1, <2>2 DEF Authorize, AuthorizeRequest, WritesEvent, TypeOK, ATypeOK
  <1>4. CASE DenyRequest(s, c, r, ToolOf(x), scope, now) /\ End(x)
    BY <1>2, <1>4 DEF Authorize, DenyRequest, EventFails, durable, End, TypeOK, ATypeOK
  <1> QED
    BY <1>3, <1>4 DEF Authorize

LEMMA TypeStep == TypeOK /\ [Next]_vars => TypeOK'
  <1> SUFFICES ASSUME TypeOK, [Next]_vars PROVE TypeOK'
    OBVIOUS
  <1> USE LimitAssumption
  <1>1. ASSUME NEW x \in Exchange, Asks(x) PROVE TypeOK'
    <2>1. PICK ask \in Ask, s \in Session, c \in Credential, r \in Request, scope \in Scope :
              Admit(x, ask, s, c, r, scope)
      BY <1>1 DEF Asks
    <2>2. [pc |-> "handler", ask |-> ask, service |-> s, cred |-> c, id |-> r, scope |-> scope,
           now |-> clock] \in Call
      BY DEF TypeOK, ATypeOK, Call, Pc
    <2>3. begun' \in SUBSET Session
      BY <2>1 DEF Admit, TypeOK
    <2> QED
      BY <2>1, <2>2, <2>3
      DEF Admit, avars, durable, memory, TypeOK, ATypeOK
  <1>2. ASSUME NEW x \in Exchange, Handle(x) PROVE TypeOK'
    <2>1. exchanges[x] \in Call
      BY <1>2, ExchangeType DEF Handle, At
    <2>2. exchanges' \in [Exchange -> Call \cup {NoExchange}]
      BY <1>2, <2>1 DEF Handle, TypeOK, ATypeOK, Call, Pc
    <2> QED
      BY <1>2, <2>2 DEF Handle, avars, durable, memory, TypeOK, ATypeOK
  <1>3. ASSUME NEW x \in Exchange, Refuse(x) \/ Dispatch(x) PROVE TypeOK'
    BY <1>3 DEF Refuse, Dispatch, End, avars, durable, memory, TypeOK, ATypeOK
  <1>4. CASE Restart
    BY <1>4 DEF Restart, ARestart, durable, TypeOK, ATypeOK
  <1>5. CASE UNCHANGED vars
    BY <1>5 DEF vars, avars, mvars, durable, memory, TypeOK, ATypeOK
  <1> QED
    BY <1>1, <1>2, <1>3, <1>4, <1>5, UserType, OpenType, AuthorizeType DEF Next

(* The variables keep their types. *)
THEOREM TypeCorrect == Spec => []TypeOK
  BY TypeInit, TypeStep, PTL DEF Spec

-----------------------------------------------------------------------------
(* Grants and their sessions.  A revocation that was reported is in memory,  *)
(* and what is in memory is in the file; that the file is never older than   *)
(* the memory is what a restart needs.                                       *)

OpenGrantsExist == \A g \in active : grants[g] # NoGrant /\ ~grants[g].revoked

MemoryIsWritten ==
    \A g \in Grant : grants[g] # NoGrant =>
        file[g] # NoGrant /\ (grants[g].revoked => file[g].revoked)

RevocationsAreKept == \A g \in revoked : grants[g] # NoGrant /\ grants[g].revoked

GrantInv == OpenGrantsExist /\ MemoryIsWritten /\ RevocationsAreKept /\ SessionsFollowGrants

GrantVars == <<file, grants, active, sessions, revoked>>

LEMMA GrantInit == Init => GrantInv
  BY DEF Init, AInit, GrantInv, OpenGrantsExist, MemoryIsWritten, RevocationsAreKept,
         SessionsFollowGrants

LEMMA GrantUnchanged == GrantInv /\ UNCHANGED GrantVars => GrantInv'
  BY DEF GrantVars, GrantInv, OpenGrantsExist, MemoryIsWritten, RevocationsAreKept,
         SessionsFollowGrants

LEMMA CreateKeepsGrants ==
    ASSUME TypeOK, GrantInv, NEW g \in Grant, NEW p \in Selection, NEW outcome \in Outcome,
           CreateGrant(g, p, outcome)
    PROVE  GrantInv'
  <1> DEFINE next == [grants EXCEPT ![g] = [selection |-> p, expires |-> clock + GrantTtl,
                                            revoked |-> FALSE]]
  <1>1. grants[g] = NoGrant /\ UNCHANGED <<sessions, revoked>>
    BY DEF CreateGrant, Unnamed
  <1>2. \A h \in Grant \ {g} : next[h] = grants[h]
    BY DEF TypeOK, ATypeOK
  <1>3. /\ next[g] = [selection |-> p, expires |-> clock + GrantTtl, revoked |-> FALSE]
        /\ next[g] # NoGrant /\ ~next[g].revoked
    <2>1. next[g] = [selection |-> p, expires |-> clock + GrantTtl, revoked |-> FALSE]
      BY DEF TypeOK, ATypeOK
    <2>2. clock + GrantTtl \in Later
      BY LimitAssumption DEF TypeOK, ATypeOK, Later, Time
    <2> DEFINE new == [selection |-> p, expires |-> clock + GrantTtl, revoked |-> FALSE]
    <2>3. new \in GrantRecord
      BY <2>2 DEF GrantRecord
    <2>4. new # NoGrant /\ ~new.revoked
      BY <2>3, AbsenceAssumption
    <2> HIDE DEF new
    <2>5. next[g] = new
      BY <2>1 DEF new
    <2> QED
      BY <2>1, <2>4, <2>5
  <1>4. g \notin active /\ g \notin revoked
    BY <1>1 DEF GrantInv, OpenGrantsExist, RevocationsAreKept
  <1>5. \A z \in Session : sessions[z] # NoSession => sessions[z].grant # g
    BY <1>4 DEF GrantInv, SessionsFollowGrants
  <1>6. active \subseteq Grant /\ revoked \subseteq Grant
    BY DEF TypeOK, ATypeOK
  <1>7. file' \in {file, next} /\ (outcome = "done" => file' = next)
    BY DEF CreateGrant, WriteChange, Outcome
  <1>8. CASE outcome = "done"
    <2>1. grants' = next /\ active' = active \cup {g} /\ file' = next
      BY <1>7, <1>8 DEF CreateGrant
    <2>2. \A h \in active : h \in Grant \ {g}
      BY <1>4, <1>6
    <2>3. \A h \in revoked : h \in Grant \ {g}
      BY <1>4, <1>6
    <2> QED
      BY <1>1, <1>2, <1>3, <1>5, <2>1, <2>2, <2>3
      DEF GrantInv, OpenGrantsExist, MemoryIsWritten, RevocationsAreKept, SessionsFollowGrants
  <1>9. CASE outcome # "done"
    <2>1. grants' = grants /\ active' = active
      BY <1>9 DEF CreateGrant
    <2> QED
      BY <1>1, <1>2, <1>3, <1>7, <2>1
      DEF GrantInv, OpenGrantsExist, MemoryIsWritten, RevocationsAreKept, SessionsFollowGrants
  <1> QED
    BY <1>8, <1>9

LEMMA RevokeKeepsGrants ==
    ASSUME TypeOK, GrantInv, NEW g \in Grant, NEW outcome \in Outcome, Revoke(g, outcome)
    PROVE  GrantInv'
  <1> DEFINE next == [grants EXCEPT ![g].revoked = TRUE]
  <1>1. /\ grants[g] # NoGrant /\ grants[g] \in GrantRecord
        /\ next[g] = [grants[g] EXCEPT !.revoked = TRUE]
        /\ \A h \in Grant \ {g} : next[h] = grants[h]
    BY DEF Revoke, Existing, TypeOK, ATypeOK
  <1>2. /\ next[g] \in GrantRecord /\ next[g] # NoGrant
        /\ next[g].revoked /\ next[g].expires = grants[g].expires
    <2> DEFINE closed == [grants[g] EXCEPT !.revoked = TRUE]
    <2>1. closed \in GrantRecord /\ closed.revoked /\ closed.expires = grants[g].expires
      BY <1>1 DEF GrantRecord
    <2>2. next[g] = closed
      BY <1>1
    <2> HIDE DEF closed, next
    <2> QED
      BY <2>1, <2>2, AbsenceAssumption
  <1>3. \A h \in Grant : /\ next[h] # NoGrant <=> grants[h] # NoGrant
                         /\ grants[h] # NoGrant /\ grants[h].revoked => next[h].revoked
                         /\ grants[h] # NoGrant => next[h].expires = grants[h].expires
    BY <1>1, <1>2
  <1>4. active \subseteq Grant /\ revoked \subseteq Grant
    BY DEF TypeOK, ATypeOK
  <1>5. file' \in {file, next} /\ (outcome = "done" => file' = next)
    BY DEF Revoke, WriteChange
  <1>6. CASE outcome = "done"
    <2>1. /\ file' = next /\ grants' = next
          /\ active' = active \ {g} /\ revoked' = revoked \cup {g}
          /\ \A z \in Session : sessions'[z] # NoSession =>
                sessions'[z] = sessions[z] /\ sessions[z].grant # g
      BY <1>5, <1>6 DEF Revoke, Forget, Forgotten
    <2>2. OpenGrantsExist'
      BY <1>1, <1>3, <1>4, <2>1 DEF GrantInv, OpenGrantsExist
    <2>3. MemoryIsWritten'
      BY <2>1 DEF MemoryIsWritten
    <2>4. RevocationsAreKept'
      BY <1>2, <1>3, <1>4, <2>1 DEF GrantInv, RevocationsAreKept
    <2>5. SessionsFollowGrants'
      BY <1>1, <1>4, <2>1 DEF GrantInv, SessionsFollowGrants
    <2> QED
      BY <2>2, <2>3, <2>4, <2>5 DEF GrantInv
  <1>7. CASE outcome # "done"
    <2>1. UNCHANGED <<grants, active, sessions, revoked>>
      BY <1>7 DEF Revoke, Forget
    <2>2. MemoryIsWritten'
      BY <1>3, <1>5, <2>1 DEF GrantInv, MemoryIsWritten
    <2> QED
      BY <2>1, <2>2 DEF GrantInv, OpenGrantsExist, RevocationsAreKept, SessionsFollowGrants
  <1> QED
    BY <1>6, <1>7

LEMMA GrantStep == TypeOK /\ GrantInv /\ [Next]_vars => GrantInv'
  <1> SUFFICES ASSUME TypeOK, GrantInv, [Next]_vars PROVE GrantInv'
    OBVIOUS
  <1>1. CASE User
    <2>1. CASE Tick
      BY <2>1, GrantUnchanged DEF Tick, durable, memory, GrantVars
    <2>2. ASSUME NEW p \in Selection, SelectPaths(p) \/ RefuseGrant(p) PROVE GrantInv'
      BY <2>2, GrantUnchanged DEF SelectPaths, RefuseGrant, durable, GrantVars
    <2>3. ASSUME NEW g \in Grant, RevokeAgain(g) PROVE GrantInv'
      BY <2>3 DEF RevokeAgain, Existing, durable, memory, GrantInv, OpenGrantsExist,
                  MemoryIsWritten, RevocationsAreKept, SessionsFollowGrants
    <2> QED
      BY <1>1, <2>1, <2>2, <2>3, CreateKeepsGrants, RevokeKeepsGrants DEF User, ANext
  <1>2. ASSUME NEW x \in Exchange, Asks(x) \/ Handle(x) \/ Refuse(x) \/ Dispatch(x)
        PROVE  GrantInv'
    BY <1>2, GrantUnchanged DEF Asks, Admit, Handle, Refuse, Dispatch, avars, durable, memory,
                                GrantVars
  <1>3. ASSUME NEW x \in Exchange, Open(x) PROVE GrantInv'
    <2> DEFINE s == exchanges[x].service
               c == exchanges[x].cred
               now == exchanges[x].now
               new == [grant |-> c.grant, origin |-> c.origin,
                       expires |-> SessionExpiry(c.grant, now), count |-> 0]
    <2>1. s \in Session /\ c \in Credential /\ now \in Time
      BY <1>3, ExchangeType DEF Open, At
    <2>2. UNCHANGED <<file, grants, active, revoked>>
      BY <1>3 DEF Open, OpenSession, RefuseSession, WritesEvent, EventFails, durable
    <2>3. \A z \in Session : sessions'[z] \in {sessions[z], NoSession} \/ sessions'[z] = new
      BY <1>3, <2>1, LiveAreSessions DEF Open, OpenSession, RefuseSession
    <2>4. (\E z \in Session : sessions'[z] \notin {sessions[z], NoSession}) => Verified(c, now)
      BY <1>3, <2>1, LiveAreSessions DEF Open, OpenSession, RefuseSession
    <2>5. Verified(c, now) => c.grant \in active /\ new.expires <= grants[c.grant].expires
      BY <2>1, NewSessionType
    <2>6. SessionsFollowGrants'
      BY <2>2, <2>3, <2>4, <2>5 DEF GrantInv, SessionsFollowGrants
    <2> QED
      BY <2>2, <2>6 DEF GrantInv, OpenGrantsExist, MemoryIsWritten, RevocationsAreKept
  <1>4. ASSUME NEW x \in Exchange, Authorize(x) PROVE GrantInv'
    <2> DEFINE s == exchanges[x].service
               c == exchanges[x].cred
               r == exchanges[x].id
               scope == exchanges[x].scope
               now == exchanges[x].now
    <2>1. s \in Session /\ r \in Request
      BY <1>4, ExchangeType DEF Authorize, At
    <2>2. UNCHANGED <<file, grants, active, revoked>>
      BY <1>4 DEF Authorize, AuthorizeRequest, DenyRequest, WritesEvent, EventFails, durable
    <2>3. CASE AuthorizeRequest(s, c, r, ToolOf(x), scope, now)
      <3>1. /\ sessions[s] # NoSession
            /\ sessions'[s].grant = sessions[s].grant
            /\ sessions'[s].expires = sessions[s].expires
        BY <2>1, <2>3, SpendType
      <3>2. \A z \in Session \ {s} : sessions'[z] \in {sessions[z], NoSession}
        BY <2>1, <2>3, SpendType
      <3>4. SessionsFollowGrants'
        BY <2>2, <3>1, <3>2 DEF GrantInv, SessionsFollowGrants
      <3> QED
        BY <2>2, <3>4 DEF GrantInv, OpenGrantsExist, MemoryIsWritten, RevocationsAreKept
    <2>4. CASE DenyRequest(s, c, r, ToolOf(x), scope, now)
      <3>1. \A z \in Session : sessions'[z] \in {sessions[z], NoSession}
        BY <2>4, LiveAreSessions DEF DenyRequest
      <3> QED
        BY <2>2, <3>1 DEF GrantInv, OpenGrantsExist, MemoryIsWritten, RevocationsAreKept,
                          SessionsFollowGrants
    <2> QED
      BY <1>4, <2>3, <2>4 DEF Authorize
  <1>5. CASE Restart
    BY <1>5 DEF Restart, ARestart, durable, GrantInv, OpenGrantsExist, MemoryIsWritten,
                RevocationsAreKept, SessionsFollowGrants, TypeOK, ATypeOK
  <1>6. CASE UNCHANGED vars
    BY <1>6, GrantUnchanged DEF vars, avars, durable, memory, GrantVars
  <1> QED
    BY <1>1, <1>2, <1>3, <1>4, <1>5, <1>6 DEF Next

LEMMA GrantsGovern == TypeOK /\ GrantInv => GrantsGovernSessions
  BY DEF GrantInv, OpenGrantsExist, MemoryIsWritten, RevocationsAreKept, SessionsFollowGrants,
         GrantsGovernSessions, ReportedRevocationsHold, TypeOK, ATypeOK

(* A revocation that was reported holds for ever, whatever fails or ends, and no session  *)
(* outlives its grant (authorize_request, revoke).                                         *)
THEOREM SessionsAreGoverned == Spec => []GrantsGovernSessions
  <1>1. Init => TypeOK /\ GrantInv
    BY TypeInit, GrantInit
  <1>2. TypeOK /\ GrantInv /\ [Next]_vars => (TypeOK /\ GrantInv)'
    BY TypeStep, GrantStep
  <1>3. TypeOK /\ GrantInv => GrantsGovernSessions
    BY GrantsGovern
  <1> QED
    BY <1>1, <1>2, <1>3, PTL DEF Spec

-----------------------------------------------------------------------------
(* The audit. *)

LEMMA AuditInit == Init => AuditComesFirst
  BY DEF Init, AInit, AuditComesFirst

(* The audit only grows, so that what takes effect needs its own event only. *)
LEMMA AuditKept ==
    ASSUME AuditComesFirst, trail \subseteq trail', used' \subseteq used,
           \A g \in Grant : file'[g] \in {file[g], grants[g]} /\ grants'[g] \in {file[g], grants[g]},
           \A s \in Session : sessions'[s] # NoSession =>
               sessions[s] # NoSession \/ Opened(s) \in trail'
    PROVE  AuditComesFirst'
  <1>1. \A g \in Grant : \A a \in {file'[g], grants'[g]} \ {NoGrant} :
           Created(g) \in trail' /\ (a.revoked => Revoked(g) \in trail')
    BY DEF AuditComesFirst
  <1>2. \A s \in Session : sessions'[s] # NoSession => Opened(s) \in trail'
    BY DEF AuditComesFirst
  <1>3. \A u \in used' : Authorized(u[2], u[3]) \in trail'
    BY DEF AuditComesFirst
  <1> QED
    BY <1>1, <1>2, <1>3 DEF AuditComesFirst

LEMMA AuditStep == TypeOK /\ AuditComesFirst /\ [Next]_vars => AuditComesFirst'
  <1> SUFFICES ASSUME TypeOK, AuditComesFirst, [Next]_vars PROVE AuditComesFirst'
    OBVIOUS
  <1>1. ASSUME UNCHANGED <<durable, grants, used, sessions>> PROVE AuditComesFirst'
    BY <1>1, AuditKept DEF durable
  <1>2. CASE User
    <2>1. ASSUME NEW g \in Grant, NEW p \in Selection, NEW outcome \in Outcome,
                 CreateGrant(g, p, outcome)
          PROVE  AuditComesFirst'
      <3> DEFINE new == [selection |-> p, expires |-> clock + GrantTtl, revoked |-> FALSE]
                 next == [grants EXCEPT ![g] = new]
      <3>1. /\ \A h \in Grant \ {g} : next[h] = grants[h]
            /\ next[g] = new /\ ~new.revoked
        BY DEF TypeOK, ATypeOK
      <3>2. /\ trail \subseteq trail' /\ UNCHANGED <<used, sessions>>
            /\ file' \in {file, next} /\ grants' \in {grants, next}
            /\ (file' = next \/ grants' = next) /\ (file' # file \/ grants' # grants)
                  => Created(g) \in trail'
        BY <2>1 DEF CreateGrant, WriteChange
      <3>3. \A h \in Grant : \A a \in {file'[h], grants'[h]} \ {NoGrant} :
                Created(h) \in trail' /\ (a.revoked => Revoked(h) \in trail')
        BY <3>1, <3>2 DEF AuditComesFirst
      <3> QED
        BY <3>2, <3>3 DEF AuditComesFirst
    <2>2. ASSUME NEW g \in Grant, NEW outcome \in Outcome, Revoke(g, outcome)
          PROVE  AuditComesFirst'
      <3> DEFINE next == [grants EXCEPT ![g].revoked = TRUE]
      <3>1. /\ \A h \in Grant \ {g} : next[h] = grants[h]
            /\ grants[g] # NoGrant
        BY <2>2 DEF Revoke, Existing, TypeOK, ATypeOK
      <3>2. /\ trail \subseteq trail' /\ used' = used
            /\ \A s \in Session : sessions'[s] # NoSession => sessions[s] # NoSession
            /\ file' \in {file, next} /\ grants' \in {grants, next}
            /\ file' # file \/ grants' # grants => Revoked(g) \in trail'
        BY <2>2 DEF Revoke, WriteChange, Forget, Forgotten
      <3>3. Created(g) \in trail
        BY <3>1 DEF AuditComesFirst
      <3>4. \A h \in Grant : \A a \in {file'[h], grants'[h]} \ {NoGrant} :
                Created(h) \in trail' /\ (a.revoked => Revoked(h) \in trail')
        BY <3>1, <3>2, <3>3 DEF AuditComesFirst
      <3> QED
        BY <3>2, <3>4 DEF AuditComesFirst
    <2> QED
      BY <1>1, <1>2, <2>1, <2>2 DEF User, ANext, Tick, SelectPaths, RefuseGrant, RevokeAgain, memory
  <1>3. ASSUME NEW x \in Exchange, Asks(x) \/ Handle(x) \/ Refuse(x) \/ Dispatch(x)
        PROVE  AuditComesFirst'
    BY <1>1, <1>3 DEF Asks, Admit, Handle, Refuse, Dispatch, avars, memory
  <1>4. ASSUME NEW x \in Exchange, Open(x) PROVE AuditComesFirst'
    <2>1. exchanges[x].service \in Session
      BY <1>4, ExchangeType DEF Open, At
    <2>2. /\ trail \subseteq trail' /\ UNCHANGED <<file, grants, used>>
          /\ \A s \in Session : sessions'[s] # NoSession =>
                sessions[s] # NoSession \/ Opened(s) \in trail'
      BY <1>4, <2>1, LiveAreSessions
      DEF Open, OpenSession, RefuseSession, WritesEvent, EventFails, durable
    <2> QED
      BY <2>2, AuditKept
  <1>5. ASSUME NEW x \in Exchange, Authorize(x) PROVE AuditComesFirst'
    <2> DEFINE s == exchanges[x].service
               c == exchanges[x].cred
               r == exchanges[x].id
               scope == exchanges[x].scope
               now == exchanges[x].now
    <2>1. s \in Session /\ r \in Request
      BY <1>5, ExchangeType DEF Authorize, At
    <2>2. CASE AuthorizeRequest(s, c, r, ToolOf(x), scope, now)
      <3>1. /\ sessions[s] # NoSession /\ UNCHANGED <<file, grants>>
            /\ trail' = trail \cup {Authorized(s, r)}
            /\ used' = used \cup {<<sessions[s].grant, s, r>>}
        BY <2>1, <2>2, SpendType DEF AuthorizeRequest, WritesEvent
      <3>2. \A z \in Session \ {s} : sessions'[z] \in {sessions[z], NoSession}
        BY <2>1, <2>2, SpendType
      <3> QED
        BY <3>1, <3>2 DEF AuditComesFirst
    <2>3. CASE DenyRequest(s, c, r, ToolOf(x), scope, now)
      <3>1. /\ UNCHANGED <<durable, grants, used>>
            /\ \A z \in Session : sessions'[z] # NoSession => sessions[z] # NoSession
        BY <2>3, LiveAreSessions DEF DenyRequest, EventFails
      <3> QED
        BY <3>1, AuditKept DEF durable
    <2> QED
      BY <1>5, <2>2, <2>3 DEF Authorize
  <1>6. CASE Restart
    BY <1>6, AuditKept DEF Restart, ARestart, durable
  <1>7. CASE UNCHANGED vars
    BY <1>1, <1>7 DEF vars, avars, memory
  <1> QED
    BY <1>2, <1>3, <1>4, <1>5, <1>6, <1>7 DEF Next

(* Whatever took effect is in the audit, whichever write failed (write_change,            *)
(* write_runtime_event).                                                                   *)
THEOREM EffectsAreAudited == Spec => []AuditComesFirst
  BY TypeInit, TypeStep, AuditInit, AuditStep, PTL DEF Spec

-----------------------------------------------------------------------------
(* Requests.  The identifiers that the audit names are remembered by the     *)
(* grant as long as the session lives; a session is asked for once, so none  *)
(* is opened over the events of another.                                     *)

SessionsWereAsked == \A s \in Session : sessions[s] # NoSession => s \in begun

SpentIsRemembered ==
    \A s \in Session, r \in Request : Authorized(s, r) \in trail =>
        s \in begun /\ (sessions[s] # NoSession => <<sessions[s].grant, s, r>> \in used)

Opening(x) == ~Idle(x) /\ exchanges[x].ask = "initialize"

OpenersComeFirst ==
    \A x \in Exchange : Opening(x) =>
        /\ exchanges[x].service \in begun /\ sessions[exchanges[x].service] = NoSession
        /\ \A r \in Request : Authorized(exchanges[x].service, r) \notin trail

OpenersAreAlone ==
    \A x \in Exchange, y \in Exchange :
        Opening(x) /\ Opening(y) /\ exchanges[x].service = exchanges[y].service => x = y

HandlersFollowTheAsk ==
    \A x \in Exchange : /\ At(x, "open") => Opening(x)
                        /\ At(x, "authorize") \/ At(x, "dispatch") => ~Opening(x)

ServedInv == /\ SessionsWereAsked /\ SpentIsRemembered
             /\ OpenersComeFirst /\ OpenersAreAlone /\ HandlersFollowTheAsk

LEMMA EventsDiffer ==
    ASSUME NEW s, NEW r
    PROVE  /\ \A g : Authorized(s, r) # Created(g) /\ Authorized(s, r) # Revoked(g)
           /\ \A z : Authorized(s, r) # Opened(z)
           /\ \A z, q : Authorized(s, r) = Authorized(z, q) => s = z /\ r = q
  <1>1. \A g : /\ Authorized(s, r)[1] = "request.authorized"
               /\ Created(g)[1] = "grant.created" /\ Revoked(g)[1] = "grant.revoked"
               /\ Opened(g)[1] = "session.opened"
    BY DEF Authorized, Created, Revoked, Opened
  <1>2. \A z, q : Authorized(z, q)[2] = z /\ Authorized(z, q)[3] = q
    BY DEF Authorized
  <1>3. \A g : Authorized(s, r) # Created(g) /\ Authorized(s, r) # Revoked(g)
    BY <1>1
  <1>4. \A z : Authorized(s, r) # Opened(z)
    BY <1>1
  <1>5. \A z, q : Authorized(s, r) = Authorized(z, q) => s = z /\ r = q
    <2> SUFFICES ASSUME NEW z, NEW q, Authorized(s, r) = Authorized(z, q)
                 PROVE  s = z /\ r = q
      OBVIOUS
    <2>1. Authorized(s, r)[2] = Authorized(z, q)[2] /\ Authorized(s, r)[3] = Authorized(z, q)[3]
      OBVIOUS
    <2> QED
      BY <1>2, <2>1
  <1> QED
    BY <1>3, <1>4, <1>5

\* Nothing is authorized and nothing is opened.
LEMMA ServedKept ==
    ASSUME ServedInv, UNCHANGED begun, used' = used,
           \A s \in Session, r \in Request : Authorized(s, r) \in trail' => Authorized(s, r) \in trail,
           \A s \in Session : sessions'[s] \in {sessions[s], NoSession},
           \A x \in Exchange : exchanges'[x] \in {exchanges[x], NoExchange},
           TypeOK
    PROVE  ServedInv'
  <1>1. SessionsWereAsked' /\ SpentIsRemembered'
    BY DEF ServedInv, SessionsWereAsked, SpentIsRemembered
  <1>2. \A x \in Exchange : /\ Opening(x)' => Opening(x)
                            /\ ~Idle(x)' => exchanges'[x] = exchanges[x]
    BY DEF Opening, Idle
  <1>3. \A x \in Exchange : Opening(x) => exchanges[x].service \in Session
    BY ExchangeType DEF Opening
  <1>4. OpenersComeFirst'
    BY <1>2, <1>3 DEF ServedInv, OpenersComeFirst, Opening
  <1>5. OpenersAreAlone' /\ HandlersFollowTheAsk'
    BY <1>2 DEF ServedInv, OpenersAreAlone, HandlersFollowTheAsk, Opening, At, Idle
  <1> QED
    BY <1>1, <1>4, <1>5 DEF ServedInv

LEMMA ServedInit == Init => ServedInv
  BY DEF Init, AInit, ServedInv, SessionsWereAsked, SpentIsRemembered, OpenersComeFirst,
         OpenersAreAlone, HandlersFollowTheAsk, Opening, Idle, At

LEMMA AdmitKeepsServed ==
    ASSUME TypeOK, ServedInv, NEW x \in Exchange, NEW ask \in Ask, NEW s \in Session, NEW c, NEW r,
           NEW scope, Admit(x, ask, s, c, r, scope)
    PROVE  ServedInv'
  <1> DEFINE call == [pc |-> "handler", ask |-> ask, service |-> s, cred |-> c, id |-> r,
                      scope |-> scope, now |-> clock]
  <1>1. /\ exchanges' = [exchanges EXCEPT ![x] = call] /\ begun \subseteq begun'
        /\ UNCHANGED <<trail, used, sessions>>
    BY DEF Admit, avars, durable, memory
  <1>2. call.pc = "handler" /\ call.ask = ask /\ call.service = s
    OBVIOUS
  <1> HIDE DEF call
  <1>3. exchanges'[x] = call /\ \A y \in Exchange : y # x => exchanges'[y] = exchanges[y]
    BY <1>1 DEF TypeOK
  <1>4. SessionsWereAsked' /\ SpentIsRemembered'
    BY <1>1 DEF ServedInv, SessionsWereAsked, SpentIsRemembered
  <1>5. ask = "initialize" => s \notin begun /\ s \in begun'
    BY DEF Admit
  <1>6. s \notin begun => /\ sessions[s] = NoSession
                          /\ \A q \in Request : Authorized(s, q) \notin trail
                          /\ \A y \in Exchange : Opening(y) => exchanges[y].service # s
    BY DEF ServedInv, SessionsWereAsked, SpentIsRemembered, OpenersComeFirst
  <1>7. /\ \A y \in Exchange : y # x => (Opening(y)' <=> Opening(y))
        /\ Opening(x)' => ask = "initialize"
    BY <1>2, <1>3 DEF Opening, Idle
  <1>8. OpenersComeFirst'
    BY <1>1, <1>2, <1>3, <1>5, <1>6, <1>7 DEF ServedInv, OpenersComeFirst
  <1>9. OpenersAreAlone'
    BY <1>2, <1>3, <1>5, <1>6, <1>7 DEF ServedInv, OpenersAreAlone
  <1>10. HandlersFollowTheAsk'
    BY <1>2, <1>3, <1>7 DEF ServedInv, HandlersFollowTheAsk, At, Idle
  <1> QED
    BY <1>4, <1>8, <1>9, <1>10 DEF ServedInv

LEMMA HandleKeepsServed ==
    ASSUME TypeOK, ServedInv, NEW x \in Exchange, Handle(x)
    PROVE  ServedInv'
  <1> DEFINE pc == IF exchanges[x].ask = "initialize" THEN "open" ELSE "authorize"
             call == [exchanges[x] EXCEPT !.pc = pc, !.now = clock]
  <1>1. exchanges[x] \in Call /\ ~Idle(x)
    BY ExchangeType DEF Handle, At
  <1>2. /\ exchanges' = [exchanges EXCEPT ![x] = call]
        /\ UNCHANGED <<trail, used, sessions, begun>>
    BY <1>1 DEF Handle, avars, durable, memory, TypeOK
  <1>3. /\ call.pc = pc /\ call.ask = exchanges[x].ask
        /\ call.service = exchanges[x].service
    BY <1>1 DEF Call
  <1> HIDE DEF call
  <1>4. exchanges'[x] = call /\ \A y \in Exchange : y # x => exchanges'[y] = exchanges[y]
    BY <1>2 DEF TypeOK
  <1>5. /\ \A y \in Exchange : Opening(y)' => Opening(y)
        /\ \A y \in Exchange : Opening(y)' => exchanges'[y].service = exchanges[y].service
        /\ Opening(x)' => exchanges[x].ask = "initialize"
    BY <1>1, <1>3, <1>4 DEF Opening, Idle
  <1>6. SessionsWereAsked' /\ SpentIsRemembered'
    BY <1>2 DEF ServedInv, SessionsWereAsked, SpentIsRemembered
  <1>7. OpenersComeFirst' /\ OpenersAreAlone'
    BY <1>2, <1>5 DEF ServedInv, OpenersComeFirst, OpenersAreAlone
  <1>8. \A y \in Exchange : y # x => /\ At(y, "open") <=> At(y, "open")'
                                     /\ At(y, "authorize") <=> At(y, "authorize")'
                                     /\ At(y, "dispatch") <=> At(y, "dispatch")'
                                     /\ Opening(y) <=> Opening(y)'
    BY <1>4 DEF At, Idle, Opening
  <1>9. At(x, "open")' => Opening(x)'
    BY <1>3, <1>4 DEF At, Idle, Opening
  <1>10. At(x, "authorize")' \/ At(x, "dispatch")' => ~Opening(x)'
    BY <1>3, <1>4 DEF At, Idle, Opening
  <1>11. HandlersFollowTheAsk'
    BY <1>8, <1>9, <1>10 DEF ServedInv, HandlersFollowTheAsk
  <1> QED
    BY <1>6, <1>7, <1>11 DEF ServedInv

LEMMA OpenKeepsServed ==
    ASSUME TypeOK, ServedInv, NEW x \in Exchange, Open(x)
    PROVE  ServedInv'
  <1> DEFINE s == exchanges[x].service
             c == exchanges[x].cred
             now == exchanges[x].now
  <1>1. s \in Session /\ Opening(x)
    BY ExchangeType DEF Open, At, ServedInv, HandlersFollowTheAsk
  <1>2. /\ exchanges'[x] = NoExchange /\ UNCHANGED begun
        /\ \A y \in Exchange : y # x => exchanges'[y] = exchanges[y]
    BY DEF Open, End, TypeOK
  <1>3. CASE RefuseSession(c, now)
    <2>1. /\ UNCHANGED <<trail, used>>
          /\ \A z \in Session : sessions'[z] \in {sessions[z], NoSession}
      BY <1>3, LiveAreSessions DEF RefuseSession, EventFails, durable
    <2> QED
      BY <1>2, <2>1, ServedKept
  <1>4. CASE OpenSession(s, c, now)
    <2>1. /\ trail' = trail \cup {Opened(s)} /\ used' = used
          /\ \A z \in Session \ {s} : sessions'[z] \in {sessions[z], NoSession}
      BY <1>4, LiveAreSessions DEF OpenSession, WritesEvent
    <2>2. \A z \in Session, r \in Request : Authorized(z, r) \in trail' => Authorized(z, r) \in trail
      BY <2>1, EventsDiffer
    <2>3. /\ s \in begun
          /\ \A r \in Request : Authorized(s, r) \notin trail
      BY <1>1 DEF ServedInv, OpenersComeFirst
    <2>4. SessionsWereAsked'
      BY <1>2, <2>1, <2>3 DEF ServedInv, SessionsWereAsked
    <2>5. SpentIsRemembered'
      BY <1>2, <2>1, <2>2, <2>3 DEF ServedInv, SpentIsRemembered
    <2>6. \A y \in Exchange : Opening(y)' => /\ y # x /\ Opening(y) /\ exchanges[y].service # s
                                             /\ exchanges'[y] = exchanges[y]
                                             /\ exchanges[y].service \in Session
      <3>1. \A y \in Exchange : Opening(y)' => y # x /\ Opening(y) /\ exchanges'[y] = exchanges[y]
        BY <1>2 DEF Opening, Idle
      <3>2. \A y \in Exchange : Opening(y) => exchanges[y].service \in Session
        BY ExchangeType DEF Opening
      <3> QED
        BY <1>1, <3>1, <3>2 DEF ServedInv, OpenersAreAlone
    <2>7. OpenersComeFirst' /\ OpenersAreAlone'
      BY <1>2, <2>1, <2>2, <2>6 DEF ServedInv, OpenersComeFirst, OpenersAreAlone
    <2>8. HandlersFollowTheAsk'
      BY <1>2 DEF ServedInv, HandlersFollowTheAsk, At, Idle, Opening
    <2> QED
      BY <2>4, <2>5, <2>7, <2>8 DEF ServedInv
  <1> QED
    BY <1>3, <1>4 DEF Open

LEMMA AuthorizeKeepsServed ==
    ASSUME TypeOK, ServedInv, NEW x \in Exchange, Authorize(x)
    PROVE  ServedInv'
  <1> DEFINE s == exchanges[x].service
             c == exchanges[x].cred
             r == exchanges[x].id
             scope == exchanges[x].scope
             now == exchanges[x].now
  <1>1. s \in Session /\ r \in Request /\ exchanges[x] \in Call /\ ~Idle(x) /\ ~Opening(x)
    BY ExchangeType DEF Authorize, At, ServedInv, HandlersFollowTheAsk
  <1>2. CASE DenyRequest(s, c, r, ToolOf(x), scope, now) /\ End(x)
    <2>1. /\ UNCHANGED <<trail, used, begun>>
          /\ \A z \in Session : sessions'[z] \in {sessions[z], NoSession}
          /\ \A y \in Exchange : exchanges'[y] \in {exchanges[y], NoExchange}
      BY <1>2, LiveAreSessions DEF Authorize, DenyRequest, EventFails, durable, End, TypeOK
    <2> QED
      BY <2>1, ServedKept
  <1>3. CASE AuthorizeRequest(s, c, r, ToolOf(x), scope, now) /\ Goto(x, "dispatch")
    <2>1. /\ sessions[s] # NoSession
          /\ sessions'[s].grant = sessions[s].grant
          /\ used' = used \cup {<<sessions[s].grant, s, r>>}
      BY <1>1, <1>3, SpendType
    <2>2. \A z \in Session \ {s} : sessions'[z] \in {sessions[z], NoSession}
      BY <1>1, <1>3, SpendType
    <2>3. trail' = trail \cup {Authorized(s, r)} /\ UNCHANGED begun
      BY <1>3 DEF Authorize, AuthorizeRequest, WritesEvent
    <2>4. s \in begun
      BY <1>1, <2>1 DEF ServedInv, SessionsWereAsked
    <2>5. SessionsWereAsked'
      BY <2>2, <2>3, <2>4 DEF ServedInv, SessionsWereAsked
    <2>6. \A z \in Session, q \in Request :
              Authorized(z, q) \in trail' => Authorized(z, q) \in trail \/ (z = s /\ q = r)
      BY <2>3, EventsDiffer
    <2>7. SpentIsRemembered'
      BY <2>1, <2>2, <2>3, <2>4, <2>6 DEF ServedInv, SpentIsRemembered
    <2> DEFINE call == [exchanges[x] EXCEPT !.pc = "dispatch"]
    <2>8. call.pc = "dispatch" /\ call.ask = exchanges[x].ask
      BY <1>1 DEF Call
    <2>9. exchanges'[x] = call /\ \A y \in Exchange : y # x => exchanges'[y] = exchanges[y]
      BY <1>3 DEF Goto, TypeOK
    <2> HIDE DEF call
    <2>10. /\ ~Opening(x)'
           /\ \A y \in Exchange : Opening(y)' => /\ Opening(y) /\ exchanges'[y] = exchanges[y]
                                                 /\ exchanges[y].service \in Session
      <3>1. ~Opening(x)'
        BY <1>1, <2>8, <2>9 DEF Opening
      <3>2. \A y \in Exchange : Opening(y) => exchanges[y].service \in Session
        BY ExchangeType DEF Opening
      <3>3. \A y \in Exchange : y # x => (Opening(y)' <=> Opening(y))
        BY <2>9 DEF Opening, Idle
      <3> QED
        BY <2>9, <3>1, <3>2, <3>3
    <2>11. \A y \in Exchange : Opening(y) => exchanges[y].service # s
      BY <2>1 DEF ServedInv, OpenersComeFirst
    <2>12. OpenersComeFirst' /\ OpenersAreAlone'
      BY <2>2, <2>3, <2>6, <2>10, <2>11 DEF ServedInv, OpenersComeFirst, OpenersAreAlone
    <2>13. ~At(x, "open")'
      BY <2>8, <2>9 DEF At
    <2>14. \A y \in Exchange : y # x => /\ At(y, "open") <=> At(y, "open")'
                                        /\ At(y, "authorize") <=> At(y, "authorize")'
                                        /\ At(y, "dispatch") <=> At(y, "dispatch")'
                                        /\ Opening(y) <=> Opening(y)'
      BY <2>9 DEF At, Idle, Opening
    <2>15. HandlersFollowTheAsk'
      BY <2>10, <2>13, <2>14 DEF ServedInv, HandlersFollowTheAsk
    <2> QED
      BY <2>5, <2>7, <2>12, <2>15 DEF ServedInv
  <1> QED
    BY <1>2, <1>3 DEF Authorize

LEMMA ServedStep == TypeOK /\ ServedInv /\ [Next]_vars => ServedInv'
  <1> SUFFICES ASSUME TypeOK, ServedInv, [Next]_vars PROVE ServedInv'
    OBVIOUS
  <1>1. ASSUME UNCHANGED <<trail, used, sessions, begun>>,
               \A x \in Exchange : exchanges'[x] \in {exchanges[x], NoExchange}
        PROVE  ServedInv'
    BY <1>1, ServedKept
  <1>2. CASE User
    <2>1. ASSUME NEW g \in Grant, NEW p \in Selection, NEW outcome \in Outcome,
                 CreateGrant(g, p, outcome)
          PROVE  ServedInv'
      <3>1. trail' \in {trail, trail \cup {Created(g)}} /\ UNCHANGED <<used, sessions>>
        BY <2>1 DEF CreateGrant, WriteChange
      <3> QED
        BY <1>2, <3>1, EventsDiffer, ServedKept DEF User, mvars
    <2>2. ASSUME NEW g \in Grant, NEW outcome \in Outcome, Revoke(g, outcome)
          PROVE  ServedInv'
      <3>1. trail' \in {trail, trail \cup {Revoked(g)}} /\ UNCHANGED used
        BY <2>2 DEF Revoke, WriteChange
      <3>2. \A z \in Session : sessions'[z] \in {sessions[z], NoSession}
        BY <2>2 DEF Revoke, Forget, Forgotten
      <3> QED
        BY <1>2, <3>1, <3>2, EventsDiffer, ServedKept DEF User, mvars
    <2>3. CASE Tick \/ (\E p \in Selection : SelectPaths(p) \/ RefuseGrant(p))
               \/ (\E g \in Grant : RevokeAgain(g))
      BY <1>1, <1>2, <2>3 DEF User, mvars, Tick, SelectPaths, RefuseGrant, RevokeAgain, durable,
                              memory
    <2> QED
      BY <1>2, <2>1, <2>2, <2>3 DEF User, ANext
  <1>3. ASSUME NEW x \in Exchange, Asks(x) PROVE ServedInv'
    BY <1>3, AdmitKeepsServed DEF Asks
  <1>4. ASSUME NEW x \in Exchange, Refuse(x) \/ Dispatch(x) PROVE ServedInv'
    BY <1>1, <1>4 DEF Refuse, Dispatch, End, avars, durable, memory, TypeOK
  <1>5. CASE Restart
    <2>1. /\ UNCHANGED <<trail, begun>>
          /\ \A s \in Session : sessions'[s] = NoSession
          /\ \A x \in Exchange : Idle(x)'
      BY <1>5 DEF Restart, ARestart, durable, Idle
    <2> QED
      BY <2>1 DEF ServedInv, SessionsWereAsked, SpentIsRemembered, OpenersComeFirst,
                  OpenersAreAlone, HandlersFollowTheAsk, Opening, At
  <1>6. CASE UNCHANGED vars
    BY <1>1, <1>6 DEF vars, avars, mvars, durable, memory
  <1> QED
    BY <1>2, <1>3, <1>4, <1>5, <1>6, HandleKeepsServed, OpenKeepsServed, AuthorizeKeepsServed
    DEF Next

ServedOnce ==
    \A x \in Exchange :
        At(x, "authorize") /\ At(x, "dispatch")' =>
            Authorized(exchanges[x].service, exchanges[x].id) \notin trail

LEMMA ServesOnce == TypeOK /\ ServedInv /\ [Next]_vars => ServedOnce
  <1> SUFFICES ASSUME TypeOK, ServedInv, [Next]_vars, NEW x \in Exchange,
                      At(x, "authorize"), At(x, "dispatch")'
               PROVE  Authorized(exchanges[x].service, exchanges[x].id) \notin trail
    BY DEF ServedOnce
  <1>1. Authorize(x)
    <2>1. exchanges'[x] # exchanges[x] /\ exchanges'[x] # NoExchange
      BY DEF At, Idle
    <2>2. ASSUME NEW y \in Exchange, y # x,
                 Asks(y) \/ Handle(y) \/ Refuse(y) \/ Open(y) \/ Authorize(y) \/ Dispatch(y)
          PROVE  FALSE
      BY <2>1, <2>2 DEF Asks, Admit, Handle, Refuse, Open, Authorize, Dispatch, End, Goto, TypeOK
    <2>3. ~User /\ ~Restart /\ ~UNCHANGED vars
      BY <2>1 DEF User, Restart, vars, mvars
    <2>4. ~Asks(x) /\ ~Handle(x) /\ ~Refuse(x) /\ ~Open(x) /\ ~Dispatch(x)
      BY DEF Asks, Admit, Handle, Refuse, Open, Dispatch, At
    <2> QED
      BY <2>2, <2>3, <2>4 DEF Next
  <1> DEFINE s == exchanges[x].service
             c == exchanges[x].cred
             r == exchanges[x].id
             scope == exchanges[x].scope
             now == exchanges[x].now
  <1>2. s \in Session /\ r \in Request
    BY ExchangeType DEF At
  <1>3. AuthorizeRequest(s, c, r, ToolOf(x), scope, now)
    BY <1>1 DEF Authorize, End, TypeOK, At, Idle
  <1>4. sessions[s] # NoSession
    BY <1>2, <1>3, SpendType
  <1>5. <<sessions[s].grant, s, r>> \notin used
    BY <1>3 DEF AuthorizeRequest, Permitted, AlreadyUsed
  <1> QED
    BY <1>2, <1>4, <1>5 DEF ServedInv, SpentIsRemembered

(* Of the requests with one identifier in one session at most one is authorized, however  *)
(* many exchanges are under way and whatever fails (authorize_request).                    *)
THEOREM IdentifiersAreSpentOnce == Spec => RequestsAreServedOnce
  <1>1. Init => TypeOK /\ ServedInv
    BY TypeInit, ServedInit
  <1>2. TypeOK /\ ServedInv /\ [Next]_vars => (TypeOK /\ ServedInv)'
    BY TypeStep, ServedStep
  <1>3. TypeOK /\ ServedInv /\ [Next]_vars => [ServedOnce]_vars
    BY ServesOnce
  <1> QED
    BY <1>1, <1>2, <1>3, PTL DEF Spec, RequestsAreServedOnce, ServedOnce
=============================================================================
