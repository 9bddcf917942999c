------------------------------- MODULE FanOut -------------------------------
(***************************************************************************)
(* The orchestrator's operations over every live instance                 *)
(* (src/core/orchestrator.py): query_all, find_schema_across_registries,  *)
(* compare_compatibility_modes, health_check_all and                      *)
(* bulk_set_compatibility, over the instance map that Federation builds   *)
(* at startup, against backends that other clients change meanwhile.      *)
(*                                                                         *)
(* Each operation walks active_registries in dict order; one step handles *)
(* one instance and makes all of that instance's calls, of which one may  *)
(* fail (the failure point).  API requests run one at a time: the async   *)
(* handlers call the blocking orchestrator on the event loop thread.      *)
(* The compatibility configuration of a Confluent server is cfgGlobal and *)
(* cfgSubject; Unity has none (its mode operations are constants).        *)
(***************************************************************************)
EXTENDS Federation

CONSTANTS
    Modes,          \* compatibility modes requests use
    NoConfig,       \* model value: the subject has no config of its own
    GlobalKey,      \* model value: the "global" key of a bulk_set status map
    Prefixes,       \* non-empty subject prefix filters
    PrefixOf,       \* <<p, s>> \in PrefixOf: subject s starts with p
    NoFilter,       \* model value: subject_filter is None
    Requests,       \* registry_ids lists bulk_set is called with
    NoEntry,        \* model value: no entry for this id in the result
    MaxFailures,    \* bound on failing backend calls
    ApiCalls,       \* the single-registry requests clients send
    MaxExternal     \* bound on writes to the backends' settings and schemas
                    \* by other clients and by single-registry PUTs

ASSUME
    /\ PrefixOf \subseteq Prefixes \X Subjects
    /\ Requests \subseteq Seq(Ids)

Filters == {NoFilter, ""} \cup Prefixes
\* The prefix test of both list_subjects: no prefix, or the empty one
\* ("if prefix"), keeps every subject; otherwise s.startswith(f).
Matches(f, s) == f \in {NoFilter, ""} \/ <<f, s>> \in PrefixOf

FanOuts == {"query_all", "find", "compare", "health", "bulk_set"}

VARIABLES
    cfgGlobal,    \* cfgGlobal[r]: GET /config of Confluent server r
    cfgSubject,   \* cfgSubject[r][s]: GET /config/{s}, or NoConfig (404)
    call,         \* the operation in progress, or "idle"
    arg,          \* its arguments: subject, mode, filter
    todo,         \* the ids it has still to handle
    out,          \* out[id]: the result entry for id, or NoEntry
    reached,      \* ids it handled that were live
    failed,       \* ids at which one of its calls failed
    failures,     \* failing calls so far
    ext,          \* writes counted against MaxExternal so far
    resp,         \* the response of the request just served
    written       \* history: the last successful mode PUT, while the server
                  \* still holds what it wrote, or NoEntry

opVars == <<call, arg, todo, out, reached, failed>>
apiVars == <<resp, written>>
vars == <<fedVars, backendVars, cfgGlobal, cfgSubject, opVars, failures, ext, apiVars>>

TypeOK ==
    /\ FedTypeOK /\ BackendTypeOK
    /\ cfgGlobal \in [Registries -> Modes]
    /\ cfgSubject \in [Registries -> [Subjects -> Modes \cup {NoConfig}]]
    /\ call \in FanOuts \cup {"idle"}
    /\ todo \in Seq(Ids)
    /\ DOMAIN out = Ids
    /\ \A id \in Ids : out[id] = NoEntry \/ out[id].status \in {"success", "error"}
    /\ reached \subseteq Ids /\ failed \subseteq Ids
    /\ failures \in 0..MaxFailures /\ ext \in 0..MaxExternal
    /\ resp.code \in {0, 200, 400, 404, 500}
    /\ written = NoEntry \/ written.mode \in Modes

\* The arguments of no operation.
NoArg == [subject |-> NoEntry, mode |-> NoEntry, filter |-> NoFilter]

\* No response pending: the last one has been sent.
NoResp == [op |-> "none", id |-> NoEntry, scope |-> NoEntry, code |-> 0, body |-> NoEntry]

Init ==
    /\ BackendInit /\ FedInit
    /\ cfgGlobal \in {g \in [Registries -> Modes] : \A r \in Registries : Kind[r] = Unity => g[r] = "BACKWARD"}
    /\ cfgSubject = [r \in Registries |-> [s \in Subjects |-> NoConfig]]
    /\ call = "idle" /\ arg = NoArg
    /\ todo = <<>> /\ out = [id \in Ids |-> NoEntry]
    /\ reached = {} /\ failed = {}
    /\ failures = 0 /\ ext = 0
    /\ resp = NoResp
    /\ written = NoEntry

\* The server of id's instance and its plugin class.
Srv(id) == active[id].server
IsConfluent(id) == active[id].plugin = Confluent

\* Where the instance's calls fail, if they fail: "none" or one call.
FailPoint(points) ==
    {"none"} \cup (IF failures < MaxFailures THEN points ELSE {})

\* The step bookkeeping shared by all fan-out steps: id is handled.
Handled(id, fp) ==
    /\ todo' = Tail(todo)
    /\ reached' = reached \cup {id}
    /\ failed' = IF fp = "none" THEN failed ELSE failed \cup {id}
    /\ failures' = IF fp = "none" THEN failures ELSE failures + 1

\* Mutant of Ok: the entry tagged "ok".
OkMistagged(d) == [status |-> "ok", data |-> d]

Ok(d) == [status |-> "success", data |-> d]

Err == [status |-> "error", data |-> FALSE]

-----------------------------------------------------------------------------
\* The history entries whose server-side value a step changed: another
\* writer overwrote what was PUT, so it is no longer expected back.
Stored(g, sub, w) == IF w.scope = GlobalKey THEN g[w.server] ELSE sub[w.server][w.scope]
Forget ==
    IF written # NoEntry
       /\ Stored(cfgGlobal', cfgSubject', written) # Stored(cfgGlobal, cfgSubject, written)
    THEN NoEntry ELSE written

\* A step that is no single-registry request: the last response has been
\* sent, and the history forgets what was overwritten.
Unanswered == resp' = NoResp /\ written' = Forget

\* An API request enters an operation over the ids it walks.
Start(op, a, ids) ==
    /\ phase = "serving" /\ call = "idle"
    /\ call' = op /\ arg' = a
    /\ todo' = ids
    /\ out' = [id \in Ids |-> NoEntry]
    /\ reached' = {} /\ failed' = {}
    /\ UNCHANGED <<fedVars, backendVars, cfgGlobal, cfgSubject, failures, ext>>
    /\ Unanswered

\* The operation returns its result to the handler, which serialises it
\* into the response; the orchestrator keeps nothing of it.
Return ==
    /\ call # "idle" /\ todo = <<>>
    /\ call' = "idle" /\ arg' = NoArg
    /\ out' = [id \in Ids |-> NoEntry] /\ reached' = {} /\ failed' = {}
    /\ UNCHANGED <<fedVars, backendVars, cfgGlobal, cfgSubject, todo, failures, ext>>
    /\ Unanswered

(***************************************************************************)
(* query_all("list_subjects") (orchestrator.py 104-136): each instance's *)
(* outcome is caught separately.  Confluent list_subjects raises on a    *)
(* failed request; Unity's swallows it and returns [].                   *)
(***************************************************************************)
\* Mutant of QueryAllStep: the try wraps the loop, so a failure ends it.
QueryAllStepAbort ==
    /\ call = "query_all" /\ todo # <<>>
    /\ LET id == Head(todo) IN
       \E fp \in FailPoint({"call"}) :
          /\ out' = [out EXCEPT ![id] =
                       CASE fp = "none" -> Ok(SubjectsOf(Srv(id)))
                         [] IsConfluent(id) -> Err
                         [] OTHER -> Ok({})]
          /\ todo' = IF fp = "none" \/ ~IsConfluent(id) THEN Tail(todo) ELSE <<>>
          /\ reached' = reached \cup {id}
          /\ failed' = IF fp = "none" THEN failed ELSE failed \cup {id}
          /\ failures' = IF fp = "none" THEN failures ELSE failures + 1
    /\ UNCHANGED <<fedVars, backendVars, cfgGlobal, cfgSubject, call, arg, ext>>
    /\ Unanswered

QueryAllStep ==
    /\ call = "query_all" /\ todo # <<>>
    /\ LET id == Head(todo) IN
       \E fp \in FailPoint({"call"}) :
          /\ out' = [out EXCEPT ![id] =
                       CASE fp = "none" -> Ok(SubjectsOf(Srv(id)))
                         [] IsConfluent(id) -> Err
                         [] OTHER -> Ok({})]
          /\ Handled(id, fp)
    /\ UNCHANGED <<fedVars, backendVars, cfgGlobal, cfgSubject, call, arg, ext>>
    /\ Unanswered

(***************************************************************************)
(* find_schema_across_registries(subject) (orchestrator.py 138-161):      *)
(* get_latest_schema; any exception, a 404 (KeyError) or a failed request, *)
(* leaves the instance out of the result.                                 *)
(***************************************************************************)
FindStep ==
    /\ call = "find" /\ todo # <<>>
    /\ LET id == Head(todo)
           h == hist[Srv(id)][arg.subject]
       IN \E fp \in FailPoint({"call"}) :
            /\ out' = IF fp = "none" /\ h # <<>>
                      THEN [out EXCEPT ![id] = Ok(h[Len(h)].content)]
                      ELSE out
            /\ Handled(id, fp)
    /\ UNCHANGED <<fedVars, backendVars, cfgGlobal, cfgSubject, call, arg, ext>>
    /\ Unanswered

\* Unity's get_compatibility_mode (unity plugin.py 376-386): always BACKWARD.
UnityMode == "BACKWARD"

\* Mutant of ModeOfScope: the subject is not consulted.
ModeOfScopeGlobalOnly(r, sc) == cfgGlobal[r]

\* Confluent get_compatibility_mode(subject) (plugin.py 303-328): GET
\* /config/{s}; on 404 (no config of its own) GET /config; no subject
\* asks GET /config.
ModeOfScope(r, sc) ==
    IF sc # GlobalKey /\ cfgSubject[r][sc] # NoConfig THEN cfgSubject[r][sc] ELSE cfgGlobal[r]

\* Unity get_all_compatibility_modes (unity plugin.py 405-417): BACKWARD
\* for every table list_subjects returns.
UnityModes(r) == [s \in SubjectsOf(r) |-> UnityMode]

\* The modes get_all_compatibility_modes reports for the listed subjects:
\* Confluent asks get_compatibility_mode(s) of each (plugin.py 357-376).
ModesOf(id) ==
    LET r == Srv(id) IN
    IF IsConfluent(id) THEN [s \in SubjectsOf(r) |-> ModeOfScope(r, s)] ELSE UnityModes(r)

\* health_check of both plugins (confluent 406-440, unity 447-484): one
\* GET; a RequestException becomes HealthStatus(healthy=False).
Healthy(fp) == fp = "none"

NoModes == [s \in {} |-> "BACKWARD"]

(***************************************************************************)
(* compare_compatibility_modes (orchestrator.py 163-189): a failing       *)
(* get_compatibility_mode() gives an error entry; get_all_compatibility_  *)
(* modes catches a failed listing itself and returns {}.                  *)
(***************************************************************************)
CompareStep ==
    /\ call = "compare" /\ todo # <<>>
    /\ LET id == Head(todo) IN
       \E fp \in FailPoint(IF IsConfluent(id) THEN {"global", "list"} ELSE {"list"}) :
          /\ out' = [out EXCEPT ![id] =
                       IF fp = "global" THEN Err
                       ELSE Ok([global |-> IF IsConfluent(id) THEN cfgGlobal[Srv(id)] ELSE UnityMode,
                                subjects |-> IF fp = "list" THEN NoModes ELSE ModesOf(id)])]
          /\ Handled(id, fp)
    /\ UNCHANGED <<fedVars, backendVars, cfgGlobal, cfgSubject, call, arg, ext>>
    /\ Unanswered

\* health_check_all (orchestrator.py 191-214): both plugins turn a failed
\* probe into HealthStatus(healthy=False), as the except branch does.
HealthStep ==
    /\ call = "health" /\ todo # <<>>
    /\ LET id == Head(todo) IN
       \E fp \in FailPoint({"call"}) :
          /\ out' = [out EXCEPT ![id] = Ok(Healthy(fp))]
          /\ Handled(id, fp)
    /\ UNCHANGED <<fedVars, backendVars, cfgGlobal, cfgSubject, call, arg, ext>>
    /\ Unanswered

\* Mutant of ListSubjects: the prefix is not applied.
ListSubjectsUnfiltered(r, f) == SubjectsOf(r)

\* list_subjects(prefix=f) of both plugins (confluent 203-223, unity
\* 234-279): the subjects whose name starts with f.
ListSubjects(r, f) == {s \in SubjectsOf(r) : Matches(f, s)}

(***************************************************************************)
(* One iteration of bulk_set_compatibility(registry_ids, mode,            *)
(* subject_filter) (orchestrator.py 315-368).  An unknown id is skipped.  *)
(* With a truthy filter the matching subjects are listed and each set     *)
(* with PUT /config/{s}: a failed PUT is "failed" (Confluent returns      *)
(* False), a failed Confluent listing is the registry's error entry, a    *)
(* failed Unity listing is an empty list, and Unity's set is a no-op that *)
(* returns True.  With no filter, or the empty one, PUT /config sets the  *)
(* global mode.                                                           *)
(***************************************************************************)
BulkSetStep ==
    /\ call = "bulk_set" /\ todo # <<>>
    /\ LET id == Head(todo)
           f  == arg.filter
           m  == arg.mode
       IN IF active[id] = NoInst
          THEN /\ todo' = Tail(todo)
               /\ UNCHANGED <<out, reached, failed, failures, cfgGlobal, cfgSubject>>
          ELSE LET r == Srv(id)
                   M == ListSubjects(r, f)
               IN
               \/ /\ f \notin {NoFilter, ""} /\ IsConfluent(id)
                  /\ \E fp \in FailPoint({"list"} \cup M) :
                       /\ out' = [out EXCEPT ![id] =
                                    IF fp = "list" THEN Err
                                    ELSE Ok([s \in M |-> IF s = fp THEN "failed" ELSE "success"])]
                       /\ cfgSubject' = [cfgSubject EXCEPT ![r] =
                                    [s \in Subjects |-> IF s \in M /\ fp \notin {"list", s} THEN m ELSE @[s]]]
                       /\ Handled(id, fp)
                  /\ UNCHANGED cfgGlobal
               \/ /\ f \notin {NoFilter, ""} /\ ~IsConfluent(id)
                  /\ \E fp \in FailPoint({"list"}) :
                       /\ out' = [out EXCEPT ![id] =
                                    Ok([s \in IF fp = "list" THEN {} ELSE M |-> "success"])]
                       /\ Handled(id, fp)
                  /\ UNCHANGED <<cfgGlobal, cfgSubject>>
               \/ /\ f \in {NoFilter, ""} /\ IsConfluent(id)
                  /\ \E fp \in FailPoint({"global"}) :
                       /\ out' = [out EXCEPT ![id] =
                                    Ok(GlobalKey :> IF fp = "none" THEN "success" ELSE "failed")]
                       /\ cfgGlobal' = IF fp = "none" THEN [cfgGlobal EXCEPT ![r] = m] ELSE cfgGlobal
                       /\ Handled(id, fp)
                  /\ UNCHANGED cfgSubject
               \/ /\ f \in {NoFilter, ""} /\ ~IsConfluent(id)
                  /\ out' = [out EXCEPT ![id] = Ok(GlobalKey :> "success")]
                  /\ Handled(id, "none")
                  /\ UNCHANGED <<cfgGlobal, cfgSubject>>
    /\ UNCHANGED <<fedVars, backendVars, call, arg, ext>>
    /\ Unanswered

-----------------------------------------------------------------------------
\* Other clients of a backend register and delete versions.
ExternalSchemaChange ==
    /\ ext < MaxExternal
    /\ \E r \in Registries, s \in Subjects :
          \/ \E c \in Contents : RegisterSchema(r, s, c)
          \/ \E v \in 1..MaxVersion : DeleteSchemaVersion(r, s, v)
    /\ ext' = ext + 1
    /\ UNCHANGED <<fedVars, cfgGlobal, cfgSubject, opVars, failures>>
    /\ Unanswered

\* Other clients of a Confluent server change its global or a subject's mode.
ExternalModeChange ==
    /\ ext < MaxExternal
    /\ \E r \in {x \in Registries : Kind[x] = Confluent}, m \in Modes :
          \/ /\ cfgGlobal' = [cfgGlobal EXCEPT ![r] = m]
             /\ UNCHANGED cfgSubject
          \/ /\ \E s \in Subjects : cfgSubject' = [cfgSubject EXCEPT ![r][s] = m]
             /\ UNCHANGED cfgGlobal
    /\ ext' = ext + 1
    /\ UNCHANGED <<fedVars, backendVars, opVars, failures>>
    /\ Unanswered

-----------------------------------------------------------------------------
(***************************************************************************)
(* The single-registry endpoints of src/api/main.py.  Each async handler *)
(* runs to completion on the event loop (it never awaits), so a request  *)
(* is one step between fan-out operations; the backend calls it makes    *)
(* may fail (the failure point).  orchestrator.get_registry(id)          *)
(* (orchestrator.py 61-71) is active_registries.get(id): an id with no   *)
(* live instance is answered 404 before anything else is done.  The     *)
(* scope of a mode request is a subject or GlobalKey (no subject).       *)
(***************************************************************************)
Scopes == Subjects \cup {GlobalKey}

\* The request mode strings: the Modes, and one that is no
\* CompatibilityMode member.
ModeStrings == Modes \cup {"bogus"}

ApiCall == [op : {"list", "health", "subjects", "get_mode", "set_mode"}, id : Ids \cup {NoEntry},
            scope : Scopes \cup {NoEntry}, arg : {NoEntry, NoFilter} \cup Prefixes \cup ModeStrings]

ASSUME ApiCalls \subseteq ApiCall

\* The handler answers; a request changes neither the instance maps, the
\* backends' schemas nor a fan-out operation.
Respond(op, id, sc, code, body) ==
    /\ resp' = [op |-> op, id |-> id, scope |-> sc, code |-> code, body |-> body]
    /\ UNCHANGED <<fedVars, backendVars, opVars>>

\* Any of the single-registry endpoints, for an id with no live instance.
NotFoundReq(op, id) ==
    /\ phase = "serving" /\ call = "idle"
    /\ active[id] = NoInst
    /\ Respond(op, id, NoEntry, 404, NoEntry)
    /\ UNCHANGED <<failures, cfgGlobal, cfgSubject, written, ext>>

\* GET /registries (main.py 163-170, orchestrator.list_registries 72-89):
\* per live id in dict order, its type and formats (fixed per plugin).
ListRegistriesReq ==
    /\ phase = "serving" /\ call = "idle"
    /\ Respond("list", NoEntry, NoEntry, 200,
               [i \in DOMAIN order |-> <<order[i], active[order[i]].plugin>>])
    /\ UNCHANGED <<failures, cfgGlobal, cfgSubject, written, ext>>

\* GET /registries/{id}/health (main.py 173-184): both plugins turn a
\* failed probe into healthy=False (confluent 406-440, unity 447-482).
RegistryHealthReq(id) ==
    /\ phase = "serving" /\ call = "idle" /\ active[id] # NoInst
    /\ \E fp \in FailPoint({"call"}) :
          /\ Respond("health", id, NoEntry, 200, Healthy(fp))
          /\ failures' = IF fp = "none" THEN failures ELSE failures + 1
    /\ UNCHANGED <<cfgGlobal, cfgSubject, written, ext>>

\* GET /registries/{id}/subjects?prefix=f (main.py 216-229): a failed
\* Confluent listing raises and becomes a 500; Unity's returns [].
ListSubjectsReq(id, f) ==
    /\ phase = "serving" /\ call = "idle" /\ active[id] # NoInst
    /\ \E fp \in FailPoint({"call"}) :
          /\ IF fp # "none" /\ IsConfluent(id)
             THEN Respond("subjects", id, NoEntry, 500, NoEntry)
             ELSE Respond("subjects", id, NoEntry, 200,
                          IF fp = "none" THEN ListSubjects(Srv(id), f) ELSE {})
          /\ failures' = IF fp = "none" THEN failures ELSE failures + 1
    /\ UNCHANGED <<cfgGlobal, cfgSubject, written, ext>>

\* GET /registries/{id}/compatibility/mode (main.py 257-268).  Either
\* Confluent GET may fail, and the exception becomes a 500; Unity's mode
\* is always BACKWARD (unity 376-386).
GetModeReq(id, sc) ==
    /\ phase = "serving" /\ call = "idle" /\ active[id] # NoInst
    /\ LET r == Srv(id)
           calls == IF sc # GlobalKey /\ cfgSubject[r][sc] = NoConfig
                    THEN {"config", "global"} ELSE {"config"}
       IN \E fp \in FailPoint(IF IsConfluent(id) THEN calls ELSE {}) :
            /\ IF fp # "none"
               THEN Respond("get_mode", id, sc, 500, NoEntry)
               ELSE Respond("get_mode", id, sc, 200,
                            IF IsConfluent(id) THEN ModeOfScope(r, sc) ELSE UnityMode)
            /\ failures' = IF fp = "none" THEN failures ELSE failures + 1
    /\ UNCHANGED <<cfgGlobal, cfgSubject, written, ext>>

\* The history entry of a mode written through id.
Written(id, sc, m) == [id |-> id, serial |-> active[id].serial, server |-> Srv(id), scope |-> sc, mode |-> m]

\* Unity set_compatibility_mode (unity plugin.py 388-403): a no-op that
\* logs a warning and answers True.
UnitySetMode(id, sc) ==
    /\ Respond("set_mode", id, sc, 200, TRUE)
    /\ UNCHANGED <<failures, cfgGlobal, cfgSubject, written, ext>>

\* Confluent set_compatibility_mode (plugin.py 330-354): PUT /config/{s},
\* or /config without a subject; a failed request answers False.
ConfluentSetMode(id, sc, m) ==
    /\ ext < MaxExternal /\ ext' = ext + 1
    /\ \E fp \in FailPoint({"put"}) :
         /\ Respond("set_mode", id, sc, 200, fp = "none")
         /\ IF fp # "none"
            THEN /\ failures' = failures + 1
                 /\ UNCHANGED <<cfgGlobal, cfgSubject, written>>
            ELSE /\ IF sc = GlobalKey
                    THEN /\ cfgGlobal' = [cfgGlobal EXCEPT ![Srv(id)] = m]
                         /\ UNCHANGED cfgSubject
                    ELSE /\ cfgSubject' = [cfgSubject EXCEPT ![Srv(id)][sc] = m]
                         /\ UNCHANGED cfgGlobal
                 /\ written' = Written(id, sc, m)
                 /\ UNCHANGED failures

\* PUT /registries/{id}/compatibility/mode (main.py 271-293): a mode
\* string that is no CompatibilityMode member is a 400; otherwise the
\* plugin's set_compatibility_mode answers.
SetModeReq(id, sc, m) ==
    /\ phase = "serving" /\ call = "idle" /\ active[id] # NoInst
    /\ \/ /\ m \notin Modes
          /\ Respond("set_mode", id, sc, 400, NoEntry)
          /\ UNCHANGED <<failures, cfgGlobal, cfgSubject, written, ext>>
       \/ m \in Modes /\ ~IsConfluent(id) /\ UnitySetMode(id, sc)
       \/ m \in Modes /\ IsConfluent(id) /\ ConfluentSetMode(id, sc, m)

\* One single-registry request of ApiCalls: its 404 when the id has no
\* live instance, otherwise the handler.
ApiNext ==
    \E q \in ApiCalls :
       \/ q.op # "list" /\ NotFoundReq(q.op, q.id)
       \/ q.op = "list" /\ ListRegistriesReq
       \/ q.op = "health" /\ RegistryHealthReq(q.id)
       \/ q.op = "subjects" /\ ListSubjectsReq(q.id, q.arg)
       \/ q.op = "get_mode" /\ GetModeReq(q.id, q.scope)
       \/ q.op = "set_mode" /\ SetModeReq(q.id, q.scope, q.arg)

(***************************************************************************)
(* The fan-out endpoints of main.py: each handler calls one orchestrator  *)
(* operation over active_registries and serialises what it returns.      *)
(* query_all has no endpoint; it is an orchestrator call of its own.     *)
(***************************************************************************)
\* GET /health/all (main.py 187-197).
HealthAllReq == Start("health", NoArg, order)

\* GET /schemas/find?subject=s (main.py 202-214).
FindReq(s) == Start("find", [NoArg EXCEPT !.subject = s], order)

\* GET /compatibility/overview (main.py 296-302).
OverviewReq == Start("compare", NoArg, order)

\* POST /bulk/set-compatibility (main.py 327-351): a mode string that is no
\* CompatibilityMode member is a 400 before any registry is touched.
BulkSetReq(ids, m, f) ==
    /\ phase = "serving" /\ call = "idle"
    /\ \/ /\ m \notin Modes
          /\ Respond("bulk_set", NoEntry, NoEntry, 400, NoEntry)
          /\ UNCHANGED <<failures, cfgGlobal, cfgSubject, written, ext>>
       \/ m \in Modes /\ Start("bulk_set", [NoArg EXCEPT !.mode = m, !.filter = f], ids)

\* Instance-map changes happen between requests (spec 5: add/remove are
\* not concurrent with the operations that read the map).
Next ==
    \/ call = "idle" /\ FedNext
       /\ UNCHANGED <<backendVars, cfgGlobal, cfgSubject, opVars, failures, ext>>
       /\ Unanswered
    \/ Start("query_all", NoArg, order)
    \/ HealthAllReq \/ OverviewReq \/ \E s \in Subjects : FindReq(s)
    \/ \E req \in Requests, m \in ModeStrings, f \in Filters : BulkSetReq(req, m, f)
    \/ QueryAllStep \/ FindStep \/ CompareStep \/ HealthStep \/ BulkSetStep
    \/ Return
    \/ ExternalSchemaChange \/ ExternalModeChange
    \/ ApiNext

Spec == Init /\ [][Next]_vars

-----------------------------------------------------------------------------
(***************************************************************************)
(* Spec 4.3 and 4.6: one instance's failure never prevents operations on *)
(* another.  When an operation has handled every id, each live id it     *)
(* handled has an entry, each one whose calls did not fail has a success *)
(* entry (for bulk_set, "success" for every subject), and an operation   *)
(* over all instances handled every live instance.                       *)
(***************************************************************************)
FanOutIsolation ==
    (call \in {"query_all", "compare", "health", "bulk_set"} /\ todo = <<>>) =>
        /\ {id \in Ids : out[id] # NoEntry} = reached
        /\ \A id \in reached \ failed :
              /\ out[id].status = "success"
              /\ call = "bulk_set" => \A k \in DOMAIN out[id].data : out[id].data[k] = "success"
        /\ call # "bulk_set" => reached = ActiveIds

(***************************************************************************)
(* Spec 4.6: bulk_set with a subject filter changes the mode of the      *)
(* matching subjects of the registry it is handling and of nothing else. *)
(***************************************************************************)
BulkSetScope ==
    [][(call = "bulk_set" /\ todo # <<>> /\ todo' = Tail(todo)) =>
         \A r \in Registries, s \in Subjects :
            cfgSubject'[r][s] # cfgSubject[r][s] =>
               /\ r = Srv(Head(todo))
               /\ arg.filter \notin {NoFilter, ""} /\ Matches(arg.filter, s)
      ]_vars

(***************************************************************************)
(* Spec 7: within a cross-backend fan-out a failure is converted into an *)
(* error entry for that instance; only the subject's absence is silently *)
(* omitted by find_schema_across_registries (spec 4.3).                   *)
(***************************************************************************)
FindSchemaFailureVisible ==
    (call = "find" /\ todo = <<>>) => \A id \in failed : out[id] # NoEntry

\* The subject-level overrides of a Confluent server.
Overrides(r) ==
    [s \in {x \in SubjectsOf(r) : cfgSubject[r][x] # NoConfig} |-> cfgSubject[r][s]]

(***************************************************************************)
(* Spec 4.3: compare_compatibility_modes reports, per instance, the      *)
(* global mode and the subject-level overrides; for a Confluent instance *)
(* whose calls succeed, "subjects" is exactly the override map           *)
(* (get_all_compatibility_modes: "Skip subjects with no custom config"). *)
(***************************************************************************)
OverviewListsOverrides ==
    [][(call = "compare" /\ todo # <<>> /\ todo' = Tail(todo)
        /\ IsConfluent(Head(todo)) /\ Head(todo) \notin failed') =>
         out'[Head(todo)].data.subjects = Overrides(Srv(Head(todo)))]_vars

(***************************************************************************)
(* Spec 4.1 (get/set compatibility mode with an optional subject scope): *)
(* a GET /compatibility/mode through an id answers the mode the last     *)
(* successful PUT through that id wrote at the same scope, as long as the *)
(* id still names the same Confluent instance and no other writer (a     *)
(* PUT through another id on the same server, bulk_set, another client)  *)
(* has changed that setting since.  It takes the 404 fallback of a       *)
(* subject without its own config, and the global PUT not touching      *)
(* subject settings, to get right.  Unity's documented no-op set is not  *)
(* recorded.                                                              *)
(***************************************************************************)
ModeReadYourWrites ==
    LET w == written IN
    (/\ resp.op = "get_mode" /\ resp.code = 200
     /\ w # NoEntry /\ w.id = resp.id /\ active[resp.id] # NoInst
     /\ w.serial = active[resp.id].serial /\ w.scope = resp.scope)
        => resp.body = w.mode

=============================================================================
