-------------------------- MODULE RegistryContract --------------------------
(***************************************************************************)
(* What ISchemaRegistry (src/core/interfaces.py) promises a caller of one  *)
(* backend instance, for the schema CRUD (lookup by global id and the    *)
(* subject listing included) and compatibility-mode operations, read     *)
(* with spec 4.1 and 7:                                                   *)
(*  - every call takes effect, if at all, at one instant between its      *)
(*    invocation and its response (its linearization point), and its     *)
(*    result is the operation's result on the store at that instant;     *)
(*  - NotFound (KeyError) is the answer exactly when the subject or       *)
(*    version the call names is absent at that instant;                  *)
(*  - any other failure is OperationFailed: the call may or may not have *)
(*    taken effect, so a write that failed may still be applied once.   *)
(* register_schema is held to the global id of the schema it answers;   *)
(* the version its docstring also names is not part of this contract:    *)
(* the Confluent plugin reports 1 whatever the server assigned when the  *)
(* answer carries the id only (see ConfluentClient).                      *)
(* Other clients of the backend change the store between the caller's    *)
(* steps.  The caller has one call in progress at a time.                *)
(***************************************************************************)
EXTENDS Naturals, Sequences, FiniteSets, Functions

CONSTANTS
    Subjects,     \* subject names
    Contents,     \* schema contents, as model values
    Modes,        \* compatibility modes
    MaxVersion,   \* the version numbers a call may name are 1..MaxVersion
    Global,       \* model value: the subject argument is None (global scope)
    NoMode,       \* model value: the subject has no subject-level mode
    NoCall,       \* model value: no call in progress
    NoResult      \* model value: the call has not taken effect yet

VersionRec == [ver : Nat \ {0}, content : Contents]
Scopes == Subjects \cup {Global}

\* The calls of the contract a caller can make, with their arguments.
AllCalls ==
    [op : {"register_schema"}, subject : Subjects, content : Contents]
    \cup [op : {"get_schema_by_id"}, id : Contents]
    \cup [op : {"list_subjects"}]
    \cup [op : {"get_schema_by_subject_version"}, subject : Subjects, version : 1..MaxVersion]
    \cup [op : {"get_latest_schema"}, subject : Subjects]
    \cup [op : {"list_versions"}, subject : Subjects]
    \cup [op : {"delete_schema_version"}, subject : Subjects, version : 1..MaxVersion]
    \cup [op : {"set_compatibility_mode"}, subject : Scopes, mode : Modes]
    \cup [op : {"get_compatibility_mode"}, subject : Scopes]

Writes == {"register_schema", "delete_schema_version", "set_compatibility_mode"}

\* What a call can return: a value, NotFound (KeyError) or OperationFailed.
\* Each kind of value has its own field, so that results compare.
Registered(c) == [id |-> c]
Schema(c) == [schema |-> c]
VersionList(vs) == [versions |-> vs]
ModeIs(m) == [mode |-> m]
SubjectList(ss) == [subjects |-> ss]
Done == [done |-> TRUE]
NotFound == [error |-> "notFound"]
Failed == [error |-> "failed"]

VARIABLES
    store,     \* store[s]: the live versions of subject s, oldest first
    nextVer,   \* nextVer[s]: the version number the next new schema of s gets
    gmode,     \* the global compatibility mode
    smode,     \* smode[s]: the subject-level mode of s, or NoMode
    call,      \* the caller's call in progress, or NoCall
    lin,       \* the result the call got at its linearization point, or NoResult
    resp,      \* the response of the caller's last completed call, or NoResult
    ids        \* the schemas given a global id; a schema id stands for its content

vars == <<store, nextVer, gmode, smode, call, lin, resp, ids>>

Vers(s) == {store[s][i].ver : i \in DOMAIN store[s]}
ContentAt(s, v) == (CHOOSE e \in Range(store[s]) : e.ver = v).content
\* The live version of s that holds content c, if any.
Holding(s, c) == {e \in Range(store[s]) : e.content = c}
\* The mode that governs a subject: its own if set, else the global one.
EffectiveMode(s) == IF s = Global \/ smode[s] = NoMode THEN gmode ELSE smode[s]

(***************************************************************************)
(* The effect of each write on the store (interfaces.py 57-82, 169-190,  *)
(* 230-246).  register_schema of a content that is already a live version *)
(* of the subject leaves the store as it is; a new content gets the next *)
(* version number.                                                       *)
(***************************************************************************)
RegisterEffect(s, c) ==
    /\ IF Holding(s, c) # {}
       THEN UNCHANGED <<store, nextVer>>
       ELSE /\ store' = [store EXCEPT ![s] = Append(@, [ver |-> nextVer[s], content |-> c])]
            /\ nextVer' = [nextVer EXCEPT ![s] = @ + 1]
    /\ ids' = ids \cup {c}
    /\ UNCHANGED <<gmode, smode>>

DeleteEffect(s, v) ==
    /\ store' = [store EXCEPT ![s] = SelectSeq(@, LAMBDA e : e.ver # v)]
    /\ UNCHANGED <<nextVer, gmode, smode, ids>>

SetModeEffect(t, m) ==
    /\ IF t = Global THEN gmode' = m /\ UNCHANGED smode
                     ELSE smode' = [smode EXCEPT ![t] = m] /\ UNCHANGED gmode
    /\ UNCHANGED <<store, nextVer, ids>>

(***************************************************************************)
(* The result of each call on the current store: what the operation     *)
(* returns, or NotFound where the subject or version it names is absent. *)
(***************************************************************************)
\* register_schema (interfaces.py 57-82): the schema's global id, which
\* stands for its content whether it was new or already live.
RegisterResult(c) == Registered(c)

\* get_schema_by_id (interfaces.py 82-96): a deleted version keeps its id.
ByIdResult(c) == IF c \in ids THEN Schema(c) ELSE NotFound

\* list_subjects (interfaces.py 137-151): the subjects with a live version.
ListSubjectsResult == SubjectList({s \in Subjects : store[s] # <<>>})

\* get_schema_by_subject_version (interfaces.py 100-119).
GetResult(s, v) == IF v \in Vers(s) THEN Schema(ContentAt(s, v)) ELSE NotFound

\* get_latest_schema (interfaces.py 121-135).
LatestResult(s) ==
    IF store[s] = <<>> THEN NotFound ELSE Schema(store[s][Len(store[s])].content)

\* list_versions (interfaces.py 153-167).
ListVersionsResult(s) ==
    IF store[s] = <<>> THEN NotFound ELSE VersionList([i \in DOMAIN store[s] |-> store[s][i].ver])

\* delete_schema_version (interfaces.py 169-190).
DeleteResult(s, v) == IF v \in Vers(s) THEN Done ELSE NotFound

\* get_compatibility_mode and set_compatibility_mode (interfaces.py 214-246).
ModeResult(c) ==
    IF c.op = "set_compatibility_mode" THEN Done ELSE ModeIs(EffectiveMode(c.subject))

Result(c) ==
    CASE c.op = "register_schema" -> RegisterResult(c.content)
      [] c.op = "get_schema_by_id" -> ByIdResult(c.id)
      [] c.op = "list_subjects" -> ListSubjectsResult
      [] c.op = "get_schema_by_subject_version" -> GetResult(c.subject, c.version)
      [] c.op = "get_latest_schema" -> LatestResult(c.subject)
      [] c.op = "list_versions" -> ListVersionsResult(c.subject)
      [] c.op = "delete_schema_version" -> DeleteResult(c.subject, c.version)
      [] OTHER -> ModeResult(c)

\* The effect of call c: writes change the store, a NotFound changes nothing.
Effect(c) ==
    CASE c.op = "register_schema" -> RegisterEffect(c.subject, c.content)
      [] c.op = "delete_schema_version" /\ c.version \in Vers(c.subject) ->
            DeleteEffect(c.subject, c.version)
      [] c.op = "set_compatibility_mode" -> SetModeEffect(c.subject, c.mode)
      [] OTHER -> UNCHANGED <<store, nextVer, gmode, smode, ids>>

-----------------------------------------------------------------------------
IsResult(r) ==
    \/ r \in {NotFound, Failed, Done}
    \/ DOMAIN r = {"id"} /\ r.id \in Contents
    \/ DOMAIN r = {"schema"} /\ r.schema \in Contents
    \/ DOMAIN r = {"versions"} /\ r.versions \in Seq(Nat \ {0})
    \/ DOMAIN r = {"mode"} /\ r.mode \in Modes
    \/ DOMAIN r = {"subjects"} /\ r.subjects \subseteq Subjects

TypeOK ==
    /\ store \in [Subjects -> Seq(VersionRec)]
    /\ nextVer \in [Subjects -> Nat \ {0}]
    /\ gmode \in Modes
    /\ smode \in [Subjects -> Modes \cup {NoMode}]
    /\ ids \subseteq Contents
    /\ call \in AllCalls \cup {NoCall}
    /\ lin = NoResult \/ IsResult(lin)
    /\ resp = NoResult \/ IsResult(resp)

\* A backend with no subjects yet, in some global mode.
Init ==
    /\ store = [s \in Subjects |-> <<>>]
    /\ nextVer = [s \in Subjects |-> 1]
    /\ gmode \in Modes
    /\ smode = [s \in Subjects |-> NoMode]
    /\ ids = {}
    /\ call = NoCall /\ lin = NoResult /\ resp = NoResult

\* The caller invokes an operation.
Invoke(c) ==
    /\ call = NoCall
    /\ call' = c /\ lin' = NoResult
    /\ UNCHANGED <<store, nextVer, gmode, smode, resp, ids>>

\* The linearization point.  A write takes effect once; a read, or a
\* write that found nothing and so changed nothing, may take its point
\* again, its result being that of the last one.
Linearize ==
    /\ call # NoCall
    /\ lin \in {NoResult, NotFound} \/ call.op \notin Writes
    /\ Effect(call) /\ lin' = Result(call)
    /\ UNCHANGED <<call, resp>>

\* The call returns the result of its linearization point.
Respond ==
    /\ call # NoCall /\ lin # NoResult
    /\ resp' = lin /\ call' = NoCall
    /\ UNCHANGED <<store, nextVer, gmode, smode, lin, ids>>

\* The call fails with OperationFailed, whether or not it took effect.
Fail ==
    /\ call # NoCall
    /\ resp' = Failed /\ call' = NoCall
    /\ UNCHANGED <<store, nextVer, gmode, smode, lin, ids>>

\* Another client of the backend registers, deletes or sets a mode.
Other ==
    /\ \/ \E s \in Subjects, c \in Contents : RegisterEffect(s, c)
       \/ \E s \in Subjects : \E v \in Vers(s) : DeleteEffect(s, v)
       \/ \E t \in Scopes, m \in Modes : SetModeEffect(t, m)
    /\ UNCHANGED <<call, lin, resp>>

Next ==
    \/ \E c \in AllCalls : Invoke(c)
    \/ Linearize \/ Respond \/ Fail
    \/ Other

Spec == Init /\ [][Next]_vars

\* The bound a model puts on version numbers, as a state constraint.
VersionBound == \A s \in Subjects : nextVer[s] <= MaxVersion + 1

=============================================================================
