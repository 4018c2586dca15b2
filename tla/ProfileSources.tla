---------------------------- MODULE ProfileSources ----------------------------
(***************************************************************************)
(* Where candidates come from besides a local file: a URL (remote.rs) and  *)
(* a document that a model turns into a profile (compiler.rs).  Both run   *)
(* beside the commands of ProfileStore and end in an import there.         *)
(*                                                                         *)
(* A fetch follows redirects itself: each URL is checked, resolved, and    *)
(* requested at the addresses it was resolved to.                          *)
(*                                                                         *)
(* Abstractions.  A URL is permitted or not, an address public or not; an  *)
(* answer is a redirect, one of the files a URL may serve, or an error.    *)
(* The authorization headers that a redirect drops are used by tests only. *)
(***************************************************************************)
EXTENDS ProfileStore

CONSTANTS
    Url, PermittedUrl,          \* https, without credentials, not a local name
    Address, PublicAddress,
    Serves,                     \* the files that each URL may serve
    Original, Generated,        \* documents for the compiler, and what the model makes of them
    MaxRedirects,
    NoJob,
    MaxJobs                     \* fetches and compilations at a time, a bound of the model

ASSUME SourcesAssumption ==
    /\ PermittedUrl \subseteq Url /\ PublicAddress \subseteq Address
    /\ Serves \in [Url -> SUBSET Source] /\ Generated \subseteq Source
    /\ {MaxRedirects, MaxJobs} \subseteq Nat

VARIABLES
    fetch,      \* the import from a URL under way
    compile     \* the compilation under way

vars == <<vault, op, answer, fetch, compile>>

-----------------------------------------------------------------------------
Jobs == (IF fetch = NoJob THEN 0 ELSE 1) + (IF compile = NoJob THEN 0 ELSE 1)

Fetching(pc) == fetch # NoJob /\ fetch.pc = pc
NewFetch(u, redirects) ==
    [pc |-> "resolve", url |-> u, redirects |-> redirects, source |-> NoVia]

StartFetch(u) ==
    /\ fetch = NoJob /\ Jobs < MaxJobs
    /\ u \in PermittedUrl
    /\ fetch' = NewFetch(u, 0)
    /\ UNCHANGED <<svars, compile>>

\* One address that is not public refuses them all.
AddressesPermitted(addresses) == addresses # {} /\ addresses \subseteq PublicAddress

ResolveTarget(addresses) ==
    /\ Fetching("resolve")
    /\ fetch' = IF AddressesPermitted(addresses)
                THEN [fetch EXCEPT !.pc = "request"] ELSE NoJob
    /\ UNCHANGED <<svars, compile>>

FollowRedirect(next) ==
    /\ Fetching("request")
    /\ fetch' = IF fetch.redirects < MaxRedirects /\ next \in PermittedUrl
                THEN NewFetch(next, fetch.redirects + 1) ELSE NoJob
    /\ UNCHANGED <<svars, compile>>

Receive(s) ==
    /\ Fetching("request")
    /\ fetch' = [fetch EXCEPT !.pc = "received", !.source = s]
    /\ UNCHANGED <<svars, compile>>

\* An error of the network, of the answer or of the import, or the fifteen seconds are over.
FailFetch ==
    /\ fetch # NoJob
    /\ fetch' = NoJob
    /\ UNCHANGED <<svars, compile>>

\* The URL that served the file, after every redirect.
MinimizedLocator(f) == f.url

ImportFetched ==
    /\ Fetching("received")
    /\ LET via == MinimizedLocator(fetch)
       IN  Import(CandidateId("remoteUrl", fetch.source, via), via, NoVia)
    /\ fetch' = NoJob
    /\ UNCHANGED compile

-----------------------------------------------------------------------------
\* A base that is installed, approved or not, and a document for the worker.
StartCompile(ref, o) ==
    /\ compile = NoJob /\ Jobs < MaxJobs
    /\ ~Running
    /\ Has("installed", ref)
    /\ compile' = [base |-> ref, original |-> o]
    /\ UNCHANGED <<svars, fetch>>

ImportCompiled(s) ==
    /\ compile # NoJob
    /\ Import(CandidateId("modelGenerated", s, compile), compile, compile.original)
    /\ compile' = NoJob
    /\ UNCHANGED fetch

FailCompile ==
    /\ compile # NoJob
    /\ compile' = NoJob
    /\ UNCHANGED <<svars, fetch>>

-----------------------------------------------------------------------------
\* The process stops: the lock, the fetch and the worker are gone, the files stay.
Crash ==
    /\ Running \/ fetch # NoJob \/ compile # NoJob
    /\ op' = NoOp /\ fetch' = NoJob /\ compile' = NoJob
    /\ answer' = NoAnswer
    /\ UNCHANGED vault

Init == SInit /\ fetch = NoJob /\ compile = NoJob

FetchStep ==
    \/ \E addresses \in SUBSET Address : ResolveTarget(addresses)
    \/ \E u \in Url : FollowRedirect(u)
    \/ fetch # NoJob /\ \E s \in Serves[fetch.url] : Receive(s)
    \/ FailFetch
    \/ ImportFetched

Next ==
    \/ (StoreCommand \/ StoreStep) /\ UNCHANGED <<fetch, compile>>
    \/ (\E evidence \in SUBSET Term : ReadActive(evidence)) /\ UNCHANGED <<fetch, compile>>
    \/ \E u \in Url : StartFetch(u)
    \/ FetchStep
    \/ \E ref \in DOMAIN vault.installed, o \in Original : StartCompile(ref, o)
    \/ \E s \in Generated : ImportCompiled(s)
    \/ FailCompile
    \/ Crash

Spec == Init /\ [][Next]_vars

=============================================================================
