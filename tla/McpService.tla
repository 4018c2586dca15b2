----------------------------- MODULE McpService -----------------------------
(***************************************************************************)
(* The calls of Agents over the local MCP transport                        *)
(* (src-tauri/src/mcp_transport/http.rs, service.rs, auth.rs, tools.rs),   *)
(* composed with the authority that admits them (AgentAccess).             *)
(*                                                                         *)
(* An exchange is one HTTP request.  It is admitted at the boundary by the *)
(* credentials in its headers, handled by the service of its MCP session,  *)
(* which asks the authority again, and answered by a tool.  The authority  *)
(* is locked for each question and free in between, so that grants are     *)
(* revoked and expire at any point of an exchange.                         *)
(*                                                                         *)
(* Abstractions.  A service opens one session of the authority and has its *)
(* name.  The tools read and compute: what they answer is left out here.   *)
(***************************************************************************)
EXTENDS AgentAccess

CONSTANTS
    Exchange,           \* HTTP requests under way
    NoExchange, NoCredential

VARIABLES
    begun,              \* MCP sessions for which a caller has asked
    services,           \* GovernedMcpService.session: the caller of each
    exchanges           \* the state of each request

mvars == <<begun, services, exchanges>>
vars == <<avars, mvars>>

-----------------------------------------------------------------------------
\* What is asked: a session, the list of the tools, or a tool.
Ask == {"initialize", "list"} \cup Tool
Scope == {{}} \cup {{p} : p \in Selection}
Pc == {"handler", "open", "authorize", "dispatch"}
Call == [pc: Pc, ask: Ask, service: Session, cred: Credential, id: Request, scope: Scope,
         now: Time]

TypeOK ==
    /\ ATypeOK
    /\ begun \in SUBSET Session
    /\ services \in [Session -> Credential \cup {NoCredential}]
    /\ exchanges \in [Exchange -> Call \cup {NoExchange}]

Idle(x) == exchanges[x] = NoExchange
At(x, pc) == ~Idle(x) /\ exchanges[x].pc = pc
Goto(x, pc) == exchanges' = [exchanges EXCEPT ![x].pc = pc]
End(x) == exchanges' = [exchanges EXCEPT ![x] = NoExchange]

\* The tool that an exchange needs: any tool of the grant for the list.
ToolOf(x) == IF exchanges[x].ask = "list"
             THEN CHOOSE t \in ToolsOf[exchanges[x].cred.grant] : TRUE
             ELSE exchanges[x].ask

-----------------------------------------------------------------------------
Init ==
    /\ AInit
    /\ begun = {} /\ services = [s \in Session |-> NoCredential]
    /\ exchanges = [x \in Exchange |-> NoExchange]

\* enforce_http_boundary admits a request; it answers the others itself.  The request for a
\* session gets a new service, the others name one that was opened.
Admit(x, ask, s, c, r, scope) ==
    /\ Idle(x)
    /\ Verified(c, clock)
    /\ IF ask = "initialize"
       THEN s \notin begun /\ begun' = begun \cup {s}
       ELSE services[s] # NoCredential /\ UNCHANGED begun
    /\ ask \notin Tool => scope = {}
    /\ exchanges' = [exchanges EXCEPT ![x] =
           [pc |-> "handler", ask |-> ask, service |-> s, cred |-> c, id |-> r, scope |-> scope,
            now |-> clock]]
    /\ UNCHANGED <<avars, services>>

\* The handler reads the clock and verifies the credentials; a call must come from the caller
\* that the session was opened by.
Handle(x) ==
    LET c == exchanges[x].cred
        s == exchanges[x].service
    IN  /\ At(x, "handler")
        /\ Verified(c, clock)
        /\ exchanges[x].ask # "initialize" => services[s] = c
        /\ exchanges[x].ask \in Tool => exchanges[x].ask \in ToolsOf[c.grant]
        /\ exchanges' = [exchanges EXCEPT
               ![x].pc = IF exchanges[x].ask = "initialize" THEN "open" ELSE "authorize",
               ![x].now = clock]
        /\ UNCHANGED <<avars, begun, services>>

\* The handler finds a reason to refuse.
Refuse(x) ==
    /\ At(x, "handler")
    /\ \/ ~Verified(exchanges[x].cred, clock)
       \/ exchanges[x].ask # "initialize" /\ services[exchanges[x].service] # exchanges[x].cred
       \/ exchanges[x].ask \in Tool \ ToolsOf[exchanges[x].cred.grant]
    /\ End(x)
    /\ UNCHANGED <<avars, begun, services>>

\* initialize_from_headers opens the session of its service.
Open(x) ==
    LET s == exchanges[x].service
        c == exchanges[x].cred
    IN  /\ At(x, "open")
        /\ End(x)
        /\ \/ /\ OpenSession(s, c, exchanges[x].now)
              /\ services' = [services EXCEPT ![s] = c]
           \/ RefuseSession(c, exchanges[x].now) /\ UNCHANGED services
        /\ UNCHANGED begun

\* list_tools_from_headers and call_tool_from_headers: the one authorization of the call.
Authorize(x) ==
    LET s == exchanges[x].service
        c == exchanges[x].cred
        r == exchanges[x].id
        scope == exchanges[x].scope
        now == exchanges[x].now
    IN  /\ At(x, "authorize")
        /\ \/ AuthorizeRequest(s, c, r, ToolOf(x), scope, now) /\ Goto(x, "dispatch")
           \/ DenyRequest(s, c, r, ToolOf(x), scope, now) /\ End(x)
        /\ UNCHANGED <<begun, services>>

\* The tool answers, or its answer exceeds the budget: it keeps the directory that it was
\* given, whatever becomes of the grant.
Dispatch(x) ==
    /\ At(x, "dispatch")
    /\ End(x)
    /\ UNCHANGED <<avars, begun, services>>

\* The process ends: the sessions of the transport are in memory.
Restart ==
    /\ ARestart
    /\ services' = [s \in Session |-> NoCredential]
    /\ UNCHANGED begun
    /\ exchanges' = [x \in Exchange |-> NoExchange]

User == ANext /\ UNCHANGED mvars

Asks(x) == \E ask \in Ask, s \in Session, c \in Credential, r \in Request, scope \in Scope :
               Admit(x, ask, s, c, r, scope)

Next ==
    \/ User
    \/ \E x \in Exchange : \/ Asks(x)
                           \/ Handle(x) \/ Refuse(x) \/ Open(x) \/ Authorize(x) \/ Dispatch(x)
    \/ Restart

Spec == Init /\ [][Next]_vars

-----------------------------------------------------------------------------
\* Of the requests with one identifier in one session, however many are under way at once and
\* whatever fails, at most one is authorized.
RequestsAreServedOnce ==
    [][\A x \in Exchange :
          At(x, "authorize") /\ At(x, "dispatch")' =>
              Authorized(exchanges[x].service, exchanges[x].id) \notin trail]_vars
=============================================================================
