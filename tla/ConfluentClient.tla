-------------------------- MODULE ConfluentClient --------------------------
(***************************************************************************)
(* One caller of a ConfluentSchemaRegistryPlugin instance                  *)
(* (src/plugins/confluent/plugin.py) and the Confluent server behind it.  *)
(*                                                                         *)
(* Each plugin call sends an HTTP request through a requests.Session whose *)
(* urllib3 Retry (plugin.py 47-61) retries every method, POST, PUT and     *)
(* DELETE included, on connection and read errors and on 5xx answers, up  *)
(* to max_retries times.  One attempt of a request:                      *)
(*  - is lost before the server acts (a connection error, or a 5xx the   *)
(*    server answers without acting): LoseRequest;                        *)
(*  - reaches the server, which acts on it atomically: Serve; then its    *)
(*    answer reaches the plugin (Deliver) or is lost (LoseResponse, a    *)
(*    read timeout).                                                      *)
(* When the budget is spent the call fails: it raises a RequestException,*)
(* or, for set_compatibility_mode, returns False.                        *)
(*                                                                         *)
(* The server acts on each request as the contract's atomic operation     *)
(* (RegistryContract's Effect and Result): the Confluent REST API keeps    *)
(* the versions of a subject, answers a registration of a content that   *)
(* is already live with its version, and answers 404 for an absent      *)
(* subject or version, and for a schema id never assigned (a soft-deleted *)
(* version keeps its id).  POST /subjects/{s}/versions answers {"id": n}, *)
(* the schema's global id and not its version.  GET /config/{subject} answers 404 when the    *)
(* subject has no subject-level mode.  Other clients change the server  *)
(* between any two steps.                                               *)
(***************************************************************************)
EXTENDS Naturals, Sequences, FiniteSets, Functions

CONSTANTS
    Subjects, Contents, Modes, MaxVersion, Global, NoMode, NoCall, NoResult,
    Calls,          \* the calls the caller makes
    MaxRetries,     \* RegistryConfig.max_retries: the urllib3 Retry total
    MaxFailures,    \* bound on failed attempts in a behaviour
    MaxExternal,    \* bound on changes by other clients in a behaviour
    OtherModeScopes \* the scopes whose mode other clients set

VARIABLES
    store, nextVer, gmode, smode, ids,  \* the server, as in RegistryContract
    call,       \* the caller's call in progress, or NoCall
    resp,       \* what the caller's last completed call returned or raised
    req,        \* the request the call is on: "main", or for a subject's
                \* mode "subject" (GET /config/{s}) then "global" (GET /config)
    answer,     \* the server's answer to the latest attempt it acted on
    inflight,   \* an answer is on its way to the plugin
    tries,      \* retries spent on the current request
    failures,   \* failed attempts so far
    ext         \* changes by other clients so far

vars == <<store, nextVer, gmode, smode, ids, call, resp, req, answer, inflight, tries, failures, ext>>
serverVars == <<store, nextVer, gmode, smode, ids>>

\* GET /config/{subject}'s 404.
NoSubjectMode == [error |-> "notFound"]

(***************************************************************************)
(* register_schema builds its Schema from the answer: id=data.get("id"),  *)
(* version=data.get("version", 1) (plugin.py 124-134).  With the id-only  *)
(* answer every registration reports version 1.                           *)
(***************************************************************************)
RegisterReturns(a) == [id |-> a.id, version |-> 1]

\* What a call returns for the server's answer a.
Returned(a) == IF call.op = "register_schema" THEN RegisterReturns(a) ELSE a

\* A returned value as the contract states it: a registration by its id.
AsContract(r) == IF r # NoResult /\ DOMAIN r = {"id", "version"} THEN [id |-> r.id] ELSE r

\* The caller's view as the contract sees it: a call has taken effect
\* once the server acted on a request that answers it.
C == INSTANCE RegistryContract
        WITH lin <- IF req = "subject" /\ answer = NoSubjectMode THEN NoResult ELSE answer,
             resp <- AsContract(resp)

ASSUME MaxRetries \in Nat /\ OtherModeScopes \subseteq C!Scopes

TypeOK ==
    /\ C!TypeOK
    /\ req \in {"main", "subject", "global"}
    /\ answer = NoResult \/ C!IsResult(answer)
    /\ inflight \in BOOLEAN
    /\ tries \in 0..MaxRetries
    /\ failures \in 0..MaxFailures /\ ext \in 0..MaxExternal

Init ==
    /\ req = "main" /\ answer = NoResult /\ inflight = FALSE
    /\ tries = 0 /\ failures = 0 /\ ext = 0 /\ resp = NoResult
    /\ C!Init

(***************************************************************************)
(* A plugin call sends its first request.  get_compatibility_mode with a *)
(* subject asks GET /config/{subject}, otherwise GET /config (plugin.py   *)
(* 303-312); every other call has a single request.                       *)
(***************************************************************************)
Invoke(c) ==
    /\ call = NoCall
    /\ call' = c
    /\ req' = IF c.op = "get_compatibility_mode" /\ c.subject # Global THEN "subject" ELSE "main"
    /\ answer' = NoResult /\ inflight' = FALSE /\ tries' = 0
    /\ UNCHANGED <<serverVars, resp, failures, ext>>

\* The server acts on the current request.
Serve ==
    /\ call # NoCall /\ ~inflight
    /\ CASE req = "subject" ->
              /\ answer' = IF smode[call.subject] = NoMode THEN NoSubjectMode
                           ELSE C!ModeIs(smode[call.subject])
              /\ UNCHANGED serverVars
         [] req = "global" ->
              answer' = C!ModeIs(gmode) /\ UNCHANGED serverVars
         [] OTHER ->
              C!Effect(call) /\ answer' = C!Result(call)
    /\ inflight' = TRUE
    /\ UNCHANGED <<call, resp, req, tries, failures, ext>>

\* Mutant of Deliver: the fallback calls get_compatibility_mode(subject)
\* again instead of get_compatibility_mode().
DeliverAsksSubjectAgain ==
    /\ inflight
    /\ inflight' = FALSE
    /\ IF req = "subject" /\ answer = NoSubjectMode
       THEN /\ req' = "subject" /\ answer' = NoResult /\ tries' = 0
            /\ UNCHANGED <<call, resp>>
       ELSE /\ resp' = Returned(answer) /\ call' = NoCall
            /\ UNCHANGED <<req, answer, tries>>
    /\ UNCHANGED <<serverVars, failures, ext>>

\* Mutant of Deliver: delete_schema_version catches the 404 and returns
\* True, as set_compatibility_mode does with its errors.
DeliverSwallowsNotFound ==
    /\ inflight
    /\ inflight' = FALSE
    /\ IF req = "subject" /\ answer = NoSubjectMode
       THEN /\ req' = "global" /\ answer' = NoResult /\ tries' = 0
            /\ UNCHANGED <<call, resp>>
       ELSE /\ resp' = IF call.op = "delete_schema_version" /\ answer = C!NotFound
                       THEN C!Done ELSE Returned(answer)
            /\ call' = NoCall
            /\ UNCHANGED <<req, answer, tries>>
    /\ UNCHANGED <<serverVars, failures, ext>>

(***************************************************************************)
(* The answer reaches the plugin.  A 404 of GET /config/{subject} makes    *)
(* get_compatibility_mode ask for the global mode (plugin.py 322-326), a  *)
(* new request with its own retry budget; any other answer is what the   *)
(* call returns, a 404 raised as KeyError (plugin.py 162-165, 194-196,   *)
(* 235-237, 254-256), a registration's answer as RegisterReturns builds. *)
(***************************************************************************)
Deliver ==
    /\ inflight
    /\ inflight' = FALSE
    /\ IF req = "subject" /\ answer = NoSubjectMode
       THEN /\ req' = "global" /\ answer' = NoResult /\ tries' = 0
            /\ UNCHANGED <<call, resp>>
       ELSE /\ resp' = Returned(answer) /\ call' = NoCall
            /\ UNCHANGED <<req, answer, tries>>
    /\ UNCHANGED <<serverVars, failures, ext>>

\* Mutant of AttemptFails: one retry more than the Retry total allows.
AttemptFailsOffByOne ==
    /\ failures < MaxFailures
    /\ failures' = failures + 1
    /\ inflight' = FALSE
    /\ IF tries <= MaxRetries
       THEN tries' = tries + 1 /\ UNCHANGED <<call, resp>>
       ELSE resp' = C!Failed /\ call' = NoCall /\ UNCHANGED tries
    /\ UNCHANGED <<serverVars, req, answer, ext>>

(***************************************************************************)
(* A failed attempt: urllib3 retries the request while the Retry total    *)
(* allows (plugin.py 47-61); then the call raises, or                     *)
(* set_compatibility_mode catches the RequestException and returns False *)
(* (plugin.py 350-355).  Both are OperationFailed to the caller.          *)
(***************************************************************************)
AttemptFails ==
    /\ failures < MaxFailures
    /\ failures' = failures + 1
    /\ inflight' = FALSE
    /\ IF tries < MaxRetries
       THEN tries' = tries + 1 /\ UNCHANGED <<call, resp>>
       ELSE resp' = C!Failed /\ call' = NoCall /\ UNCHANGED tries
    /\ UNCHANGED <<serverVars, req, answer, ext>>

LoseRequest == call # NoCall /\ ~inflight /\ AttemptFails

LoseResponse == inflight /\ AttemptFails

\* Another client of the server registers, deletes or sets a mode.
Other ==
    /\ ext < MaxExternal /\ ext' = ext + 1
    /\ UNCHANGED <<call, resp, req, answer, inflight, tries, failures>>
    /\ \/ \E s \in Subjects, c \in Contents : C!RegisterEffect(s, c)
       \/ \E s \in Subjects : \E v \in C!Vers(s) : C!DeleteEffect(s, v)
       \/ \E t \in OtherModeScopes, m \in Modes : C!SetModeEffect(t, m)

Next ==
    \/ \E c \in Calls : Invoke(c)
    \/ Serve \/ Deliver \/ LoseRequest \/ LoseResponse
    \/ Other

Spec == Init /\ [][Next]_vars

\* Every request the plugin sends is answered or fails within the
\* session's timeout (plugin.py passes timeout=self.timeout to each call).
FairSpec == Spec /\ WF_vars(Serve) /\ WF_vars(Deliver)

-----------------------------------------------------------------------------
(***************************************************************************)
(* Spec 4.1 and 7, interfaces.py: the plugin implements the capability    *)
(* contract.  Through lost requests, lost answers, retries and the       *)
(* changes of other clients, every call of the caller takes effect at    *)
(* most once, at one instant while it is in progress, returns what the   *)
(* operation gives on the server at that instant (for a registration,   *)
(* the schema's id), raises KeyError only where the subject, version or  *)
(* id is then absent, and otherwise fails with OperationFailed.          *)
(***************************************************************************)
ContractRefinement == C!Spec

(***************************************************************************)
(* Every plugin call returns or raises: the Retry total bounds the        *)
(* attempts of each request, and a subject's mode read makes at most one  *)
(* further request, GET /config, after the 404 of GET /config/{subject}   *)
(* (plugin.py 322-326).                                                   *)
(***************************************************************************)
CallCompletes == call # NoCall ~> call = NoCall

=============================================================================
