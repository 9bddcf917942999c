----------------------------- MODULE BulkCheck -----------------------------
(***************************************************************************)
(* MultiBackendOrchestrator.bulk_check_compatibility and the pool tasks    *)
(* _check_single_subject it submits (src/core/orchestrator.py).           *)
(*                                                                         *)
(* One caller thread walks registry_ids in order.  For each active         *)
(* registry it lists the subjects, submits one task per subject to the    *)
(* shared ThreadPoolExecutor (max_workers = PoolSize), and collects the    *)
(* futures in completion order, updating the counters.  A task makes one  *)
(* backend call per step: list_versions, get the latest version, then one *)
(* check_compatibility per prior version.  Meanwhile other clients of the *)
(* backends register and delete versions (Backend), and any backend call  *)
(* may fail (bounded by MaxFailures).                                     *)
(***************************************************************************)
EXTENDS Backend, SequencesExt

CONSTANTS
    Requested,    \* registry_ids, as passed by the caller
    ActiveIds,    \* the keys of active_registries during the call
    Matching,     \* the subjects whose name starts with subject_filter
    PoolSize,     \* ThreadPoolExecutor(max_workers=10)
    MaxFailures,  \* bound on failed backend calls in one behaviour
    MaxExternal,  \* bound on registrations/deletions by other clients
    NoContent,    \* a model value: no latest version fetched yet
    InitHist      \* the backends' histories when the call starts

ASSUME
    /\ Requested \in Seq(Registries)
    /\ ActiveIds \subseteq Registries
    /\ Matching \subseteq Subjects
    /\ PoolSize \in Nat \ {0}
    /\ MaxFailures \in Nat /\ MaxExternal \in Nat
    /\ InitHist \in [Registries -> [Subjects -> Seq(VersionRec)]]

Slots == 1..Len(Requested)
\* A task is the (position in registry_ids, subject) pair it was submitted for.
Tasks == Slots \X Subjects
Reg(t) == Requested[t[1]]

\* Messages a CompatibilityResult can carry, abstracted to their origin.
Msgs == {"SingleVersion", "AllVersionsCompatible", "Incompatible"}
Result == [isCompatible : BOOLEAN, messages : SUBSET Msgs, errors : BOOLEAN]
\* The result the outer except of _check_single_subject returns.
ErrorResult == [isCompatible |-> FALSE, messages |-> {}, errors |-> TRUE]
SingleVersionResult ==
    [isCompatible |-> TRUE, messages |-> {"SingleVersion"}, errors |-> FALSE]

TaskPc == {"idle", "queued", "listVersions", "getLatest", "check", "finished", "collected"}

VARIABLES
    mainPc,       \* the caller thread: "next" registry, "collect" futures, "done"
    idx,          \* position in registry_ids of the registry being processed
    listed,       \* listed[i]: subjects returned by list_subjects for slot i
    listedOk,     \* slots whose list_subjects returned
    listFailed,   \* slots whose list_subjects call failed
    queue,        \* the executor's work queue (submitted, not started)
    task,         \* per task: pc, versions listed, latest content, loop state, result
    allResults,   \* all_results
    totalChecked, compatibleCount, incompatibleCount, errorCount,
    failures,     \* failed backend calls so far
    ext           \* external registrations/deletions so far

vars == <<backendVars, mainPc, idx, listed, listedOk, listFailed, queue, task,
          allResults, totalChecked, compatibleCount, incompatibleCount,
          errorCount, failures, ext>>
mainVars == <<mainPc, idx, listed, listedOk, listFailed, allResults,
              totalChecked, compatibleCount, incompatibleCount, errorCount>>

TaskRec == [pc : TaskPc, snap : Seq(VersionRec), latest : Contents \cup {NoContent},
            k : Nat, allOk : BOOLEAN, msgs : SUBSET Msgs, res : Result]
IdleTask == [pc |-> "idle", snap |-> <<>>, latest |-> NoContent, k |-> 0,
             allOk |-> TRUE, msgs |-> {}, res |-> ErrorResult]

Running == {t \in Tasks : task[t].pc \in {"listVersions", "getLatest", "check"}}

TypeOK ==
    /\ BackendTypeOK
    /\ mainPc \in {"next", "collect", "done"}
    /\ idx \in 1..Len(Requested) + 1
    /\ listed \in [Slots -> SUBSET Subjects]
    /\ listedOk \subseteq Slots /\ listFailed \subseteq Slots
    /\ queue \in Seq(Tasks)
    /\ task \in [Tasks -> TaskRec]
    /\ allResults \in Seq([registry : Registries, subject : Subjects,
                           isCompatible : BOOLEAN, messages : SUBSET Msgs,
                           errors : BOOLEAN])
    /\ totalChecked \in 0..Cardinality(Tasks)
    /\ {compatibleCount, incompatibleCount} \subseteq 0..Cardinality(Tasks)
    /\ errorCount \in 0..Len(Requested)
    /\ failures \in 0..MaxFailures /\ ext \in 0..MaxExternal

Init ==
    /\ hist = InitHist
    /\ nextVer = [r \in Registries |-> [s \in Subjects |-> Len(InitHist[r][s]) + 1]]
    /\ mainPc = "next" /\ idx = 1
    /\ listed = [i \in Slots |-> {}] /\ listedOk = {} /\ listFailed = {}
    /\ queue = <<>>
    /\ task = [t \in Tasks |-> IdleTask]
    /\ allResults = <<>>
    /\ totalChecked = 0 /\ compatibleCount = 0 /\ incompatibleCount = 0
    /\ errorCount = 0 /\ failures = 0 /\ ext = 0

-----------------------------------------------------------------------------
(* A backend call that fails with an error other than NotFound.           *)
CallFails == failures < MaxFailures /\ failures' = failures + 1

SetTask(t, rec) == task' = [task EXCEPT ![t] = rec]
Finish(t, res) == SetTask(t, [task[t] EXCEPT !.pc = "finished", !.res = res])

\* Mutant of SkipUnknown: an unknown registry id ends the loop ("break"
\* where the code has "continue").
SkipUnknownBreak ==
    /\ mainPc = "next" /\ idx <= Len(Requested)
    /\ Requested[idx] \notin ActiveIds
    /\ idx' = Len(Requested) + 1
    /\ UNCHANGED <<backendVars, mainPc, listed, listedOk, listFailed, queue, task,
                   allResults, totalChecked, compatibleCount, incompatibleCount,
                   errorCount, failures, ext>>

(***************************************************************************)
(* The caller's loop over registry_ids (orchestrator.py 245-264, 300-302). *)
(* A registry missing from active_registries is skipped.  Otherwise       *)
(* list_subjects(prefix=subject_filter) is called and one task per        *)
(* subject is submitted.  When the listing raises (Confluent) it is       *)
(* counted as one error; the Unity plugin catches its own failure and     *)
(* returns [] (unity_catalog/plugin.py 277-279), so nothing is counted.   *)
(***************************************************************************)
\* An id with no registry instance is skipped ("continue").
SkipUnknown ==
    /\ mainPc = "next" /\ idx <= Len(Requested)
    /\ Requested[idx] \notin ActiveIds
    /\ idx' = idx + 1
    /\ UNCHANGED <<backendVars, mainPc, listed, listedOk, listFailed, queue, task,
                   allResults, totalChecked, compatibleCount, incompatibleCount,
                   errorCount, failures, ext>>

\* list_subjects answers: one future per matching subject is submitted.
SubmitSubjects ==
    /\ mainPc = "next" /\ idx <= Len(Requested)
    /\ Requested[idx] \in ActiveIds
    /\ LET subs == SubjectsOf(Requested[idx]) \cap Matching IN
       /\ listed' = [listed EXCEPT ![idx] = subs]
       /\ listedOk' = listedOk \cup {idx}
       /\ queue' = queue \o SetToSeq({<<idx, s>> : s \in subs})
       /\ task' = [t \in Tasks |-> IF t[1] = idx /\ t[2] \in subs
                                    THEN [IdleTask EXCEPT !.pc = "queued"]
                                    ELSE task[t]]
    /\ mainPc' = "collect"
    /\ UNCHANGED <<backendVars, idx, listFailed, allResults, totalChecked,
                   compatibleCount, incompatibleCount, errorCount, failures, ext>>

\* list_subjects fails: Confluent raises into the outer except, which counts
\* one error; Unity catches the failure itself and returns [].
ListSubjectsFails ==
    /\ mainPc = "next" /\ idx <= Len(Requested)
    /\ Requested[idx] \in ActiveIds
    /\ CallFails
    /\ listFailed' = listFailed \cup {idx}
    /\ idx' = idx + 1
    /\ errorCount' = IF Kind[Requested[idx]] = Confluent THEN errorCount + 1 ELSE errorCount
    /\ UNCHANGED <<backendVars, mainPc, listed, listedOk, queue, task, allResults,
                   totalChecked, compatibleCount, incompatibleCount, ext>>

NextRegistry == SkipUnknown \/ SubmitSubjects \/ ListSubjectsFails

\* Mutant of CollectResult: the future is counted but not removed from the
\* set still to be collected, so it can be counted again.
CollectResultKeepsFuture(t) ==
    /\ mainPc = "collect" /\ t[1] = idx /\ task[t].pc = "finished"
    /\ allResults' = Append(allResults,
           [registry |-> Reg(t), subject |-> t[2], isCompatible |-> task[t].res.isCompatible,
            messages |-> task[t].res.messages, errors |-> task[t].res.errors])
    /\ totalChecked' = totalChecked + 1
    /\ IF task[t].res.isCompatible
       THEN compatibleCount' = compatibleCount + 1 /\ UNCHANGED incompatibleCount
       ELSE incompatibleCount' = incompatibleCount + 1 /\ UNCHANGED compatibleCount
    /\ UNCHANGED <<backendVars, mainPc, idx, listed, listedOk, listFailed, queue, task,
                   errorCount, failures, ext>>

(***************************************************************************)
(* as_completed yields one finished future of the current registry; the  *)
(* caller appends its record and counts it as compatible or incompatible *)
(* (orchestrator.py 267-287).  _check_single_subject never raises, so the *)
(* except branch at 289-298 is not reachable.                            *)
(***************************************************************************)
CollectResult(t) ==
    /\ mainPc = "collect" /\ t[1] = idx /\ task[t].pc = "finished"
    /\ LET res == task[t].res IN
       /\ allResults' = Append(allResults,
              [registry |-> Reg(t), subject |-> t[2], isCompatible |-> res.isCompatible,
               messages |-> res.messages, errors |-> res.errors])
       /\ totalChecked' = totalChecked + 1
       /\ IF res.isCompatible
          THEN compatibleCount' = compatibleCount + 1 /\ UNCHANGED incompatibleCount
          ELSE incompatibleCount' = incompatibleCount + 1 /\ UNCHANGED compatibleCount
    /\ SetTask(t, [task[t] EXCEPT !.pc = "collected"])
    /\ UNCHANGED <<backendVars, mainPc, idx, listed, listedOk, listFailed, queue,
                   errorCount, failures, ext>>

\* Mutant of EndBatch: the loop waits for a future for every subject of the
\* registry, including the ones list_subjects did not return.
EndBatchAllSubjects ==
    /\ mainPc = "collect"
    /\ \A s \in Subjects : task[<<idx, s>>].pc = "collected"
    /\ mainPc' = "next" /\ idx' = idx + 1
    /\ UNCHANGED <<backendVars, listed, listedOk, listFailed, queue, task, allResults,
                   totalChecked, compatibleCount, incompatibleCount, errorCount,
                   failures, ext>>

\* The as_completed loop ends when every future of this registry is collected.
EndBatch ==
    /\ mainPc = "collect"
    /\ \A s \in listed[idx] : task[<<idx, s>>].pc = "collected"
    /\ mainPc' = "next" /\ idx' = idx + 1
    /\ UNCHANGED <<backendVars, listed, listedOk, listFailed, queue, task, allResults,
                   totalChecked, compatibleCount, incompatibleCount, errorCount,
                   failures, ext>>

\* After the loop the BulkCheckResult is returned (orchestrator.py 304-313).
ReturnResult ==
    /\ mainPc = "next" /\ idx = Len(Requested) + 1
    /\ mainPc' = "done"
    /\ UNCHANGED <<backendVars, idx, listed, listedOk, listFailed, queue, task,
                   allResults, totalChecked, compatibleCount, incompatibleCount,
                   errorCount, failures, ext>>

(***************************************************************************)
(* A pool thread takes the oldest submitted task when fewer than PoolSize *)
(* tasks are running (ThreadPoolExecutor.submit / its work queue).        *)
(***************************************************************************)
StartTask(t) ==
    /\ queue # <<>> /\ Head(queue) = t
    /\ Cardinality(Running) < PoolSize
    /\ queue' = Tail(queue)
    /\ SetTask(t, [task[t] EXCEPT !.pc = "listVersions"])
    /\ UNCHANGED <<backendVars, mainVars, failures, ext>>

\* Mutant of ListVersions: Confluent's 404 on a subject with no live
\* version becomes [] (as Unity does), and [] is "single version".
ListVersionsEmptyIsSingle(t) ==
    /\ task[t].pc = "listVersions"
    /\ LET h == hist[Reg(t)][t[2]] IN
       \/ /\ CallFails
          /\ Finish(t, ErrorResult)
       \/ /\ Kind[Reg(t)] = Unity \/ Len(h) <= 1
          /\ SetTask(t, [task[t] EXCEPT !.pc = "finished", !.snap = h,
                                        !.res = SingleVersionResult])
          /\ UNCHANGED failures
       \/ /\ Kind[Reg(t)] = Confluent /\ Len(h) >= 2
          /\ SetTask(t, [task[t] EXCEPT !.pc = "getLatest", !.snap = h])
          /\ UNCHANGED failures
    /\ UNCHANGED <<backendVars, mainVars, queue, ext>>

(***************************************************************************)
(* versions = registry.list_versions(subject); fewer than 2 versions is   *)
(* compatible (orchestrator.py 391-402).  Confluent raises KeyError on a  *)
(* subject with no live version (confluent/plugin.py 225-238).  Unity     *)
(* returns [1] when the table exists and [] when it does not              *)
(* (unity_catalog/plugin.py 281-292), so both are "single version".       *)
(* Any other failure reaches the outer except (orchestrator.py 435-441).  *)
(***************************************************************************)
ListVersions(t) ==
    /\ task[t].pc = "listVersions"
    /\ LET h == hist[Reg(t)][t[2]] IN
       \/ /\ CallFails
          /\ Finish(t, ErrorResult)
       \/ /\ Kind[Reg(t)] = Unity
          /\ Finish(t, SingleVersionResult)
          /\ UNCHANGED failures
       \/ /\ Kind[Reg(t)] = Confluent /\ h = <<>>
          /\ Finish(t, ErrorResult)
          /\ UNCHANGED failures
       \/ /\ Kind[Reg(t)] = Confluent /\ Len(h) = 1
          /\ SetTask(t, [task[t] EXCEPT !.pc = "finished", !.snap = h,
                                        !.res = SingleVersionResult])
          /\ UNCHANGED failures
       \/ /\ Kind[Reg(t)] = Confluent /\ Len(h) >= 2
          /\ SetTask(t, [task[t] EXCEPT !.pc = "getLatest", !.snap = h])
          /\ UNCHANGED failures
    /\ UNCHANGED <<backendVars, mainVars, queue, ext>>

(***************************************************************************)
(* latest = registry.get_schema_by_subject_version(subject, versions[-1]) *)
(* (orchestrator.py 404-409).  A version deleted since the listing is a   *)
(* 404, raised as KeyError (confluent/plugin.py 168-197).                 *)
(***************************************************************************)
GetLatest(t) ==
    /\ task[t].pc = "getLatest"
    /\ LET v == Last(task[t].snap).ver IN
       \/ /\ CallFails
          /\ Finish(t, ErrorResult)
       \/ /\ ~IsLive(Reg(t), t[2], v)
          /\ Finish(t, ErrorResult)
          /\ UNCHANGED failures
       \/ /\ IsLive(Reg(t), t[2], v)
          /\ SetTask(t, [task[t] EXCEPT !.pc = "check", !.k = 1, !.allOk = TRUE,
                                        !.msgs = {},
                                        !.latest = ContentOf(hist[Reg(t)][t[2]], v)])
          /\ UNCHANGED failures
    /\ UNCHANGED <<backendVars, mainVars, queue, ext>>

(***************************************************************************)
(* The CompatibilityResult of Confluent check_compatibility against       *)
(* version v (confluent/plugin.py 261-301).  A deleted version is a 404;  *)
(* it and every other RequestException, including a failing               *)
(* get_compatibility_mode after the POST, are caught and returned as      *)
(* incompatible with no messages.  The server's "messages" field is only  *)
(* present on some responses, so an incompatible verdict may carry none.  *)
(***************************************************************************)
CheckFailed == [isCompatible |-> FALSE, messages |-> {}, errors |-> TRUE]
CheckOutcomes(t, v) ==
    IF ~IsLive(Reg(t), t[2], v) THEN {CheckFailed}
    ELSE IF <<task[t].latest, ContentOf(hist[Reg(t)][t[2]], v)>> \in Compat
         THEN {[isCompatible |-> TRUE, messages |-> {}, errors |-> FALSE]}
         ELSE {[isCompatible |-> FALSE, messages |-> m, errors |-> FALSE] :
                  m \in {{}, {"Incompatible"}}}

(***************************************************************************)
(* One iteration of "for version in versions[:-1]" (orchestrator.py       *)
(* 407-433): an incompatible result clears all_compatible and extends the *)
(* messages with its messages (its errors are dropped); after the last    *)
(* prior version the result defaults its messages to "All versions        *)
(* compatible" when none were collected.                                  *)
(***************************************************************************)
Fold(t, out) ==
    LET ok   == task[t].allOk /\ out.isCompatible
        ms   == IF out.isCompatible THEN task[t].msgs ELSE task[t].msgs \cup out.messages
        last == task[t].k = Len(task[t].snap) - 1
    IN SetTask(t, [task[t] EXCEPT
                     !.k = IF last THEN @ ELSE @ + 1,
                     !.allOk = ok, !.msgs = ms,
                     !.pc = IF last THEN "finished" ELSE "check",
                     !.res = IF last
                             THEN [isCompatible |-> ok,
                                   messages |-> IF ms = {} THEN {"AllVersionsCompatible"} ELSE ms,
                                   errors |-> FALSE]
                             ELSE @])

CheckVersion(t) ==
    /\ task[t].pc = "check"
    /\ LET v == task[t].snap[task[t].k].ver IN
       \/ /\ CallFails
          /\ Fold(t, CheckFailed)
       \/ /\ \E out \in CheckOutcomes(t, v) : Fold(t, out)
          /\ UNCHANGED failures
    /\ UNCHANGED <<backendVars, mainVars, queue, ext>>

(***************************************************************************)
(* Other clients of a backend register or delete versions at any time.   *)
(***************************************************************************)
ExternalClient ==
    /\ ext < MaxExternal /\ ext' = ext + 1
    /\ \E r \in Registries, s \in Subjects :
          \/ \E c \in Contents : RegisterSchema(r, s, c)
          \/ \E v \in 1..MaxVersion : DeleteSchemaVersion(r, s, v)
    /\ UNCHANGED <<mainVars, queue, task, failures>>

\* The call has returned; nothing of it changes any more.
Returned == mainPc = "done" /\ UNCHANGED vars

Main == NextRegistry \/ (\E t \in Tasks : CollectResult(t)) \/ EndBatch \/ ReturnResult
Worker(t) == StartTask(t) \/ ListVersions(t) \/ GetLatest(t) \/ CheckVersion(t)

Next == Main \/ (\E t \in Tasks : Worker(t)) \/ ExternalClient \/ Returned

(***************************************************************************)
(* The caller thread and every pool thread keep running: each backend     *)
(* call returns or raises within the instance's configured timeout.       *)
(* Other clients and failures get no fairness.                            *)
(***************************************************************************)
Fairness == WF_vars(Main) /\ \A t \in Tasks : WF_vars(Worker(t))

Spec == Init /\ [][Next]_vars /\ Fairness

-----------------------------------------------------------------------------

(***************************************************************************)
(* Per-registry isolation (spec 4.6, 7): when bulk_check_compatibility    *)
(* returns, every requested registry that is active has either had its    *)
(* listing fail or has a collected result for every subject it listed: a  *)
(* failing registry, subject or backend call never stops the others.      *)
(***************************************************************************)
UnitIsolation ==
    mainPc = "done" =>
        \A i \in Slots :
            Requested[i] \in ActiveIds =>
                \/ i \in listFailed
                \/ /\ i \in listedOk
                   /\ \A s \in listed[i] : task[<<i, s>>].pc = "collected"

(***************************************************************************)
(* A "compatible" verdict from a Confluent registry is sound for the      *)
(* history it was computed on: list_versions found the subject (spec 4.1: *)
(* an absent subject is NotFound, so "fewer than 2 versions" at           *)
(* orchestrator.py 395 must not take in a subject deleted since it was   *)
(* listed), and the latest version it listed is compatible with every    *)
(* prior version of that listing, however the backend changed and       *)
(* whichever calls failed while the task ran.                            *)
(***************************************************************************)
AllPriorCompatible(h) ==
    \A j \in 1..Len(h) - 1 : <<Last(h).content, h[j].content>> \in Compat

CompatibleVerdictSound ==
    \A t \in Tasks :
        /\ task[t].pc \in {"finished", "collected"}
        /\ task[t].res.isCompatible
        /\ Kind[Reg(t)] = Confluent
        => task[t].snap # <<>> /\ AllPriorCompatible(task[t].snap)

(***************************************************************************)
(* Every bulk check returns: each submitted task finishes and is          *)
(* collected, so the caller's as_completed loop never waits forever.      *)
(***************************************************************************)
BulkCheckCompletes == <>(mainPc = "done")

(***************************************************************************)
(* Spec 4.6: "a single subject's check failure increments the error       *)
(* counter".  Stated as: no result that carries an error is counted as    *)
(* incompatible.                                                          *)
(***************************************************************************)
FailedCheckCountedAsError ==
    incompatibleCount =
        Cardinality({j \in DOMAIN allResults :
                        ~allResults[j].isCompatible /\ ~allResults[j].errors})

(***************************************************************************)
(* Spec 4.5: the result reads "All versions compatible" only when no      *)
(* prior version was found incompatible.                                  *)
(***************************************************************************)
AllCompatibleMessageTruthful ==
    \A j \in DOMAIN allResults :
        "AllVersionsCompatible" \in allResults[j].messages => allResults[j].isCompatible

(***************************************************************************)
(* Spec 8: a backend whose subject listing fails contributes to the error *)
(* count of the bulk result.                                              *)
(***************************************************************************)
ListingFailureCounted == Cardinality(listFailed) <= errorCount

=============================================================================
