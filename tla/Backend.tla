------------------------------ MODULE Backend ------------------------------
(***************************************************************************)
(* The storage a registry backend owns, as the two plugins see it through  *)
(* the capability contract (src/core/interfaces.py).  The orchestrator     *)
(* never owns this state: other clients of the same backend register and   *)
(* delete schema versions while the orchestrator reads it.                 *)
(*                                                                         *)
(*  - a Confluent registry keeps, per subject, the live versions in        *)
(*    registration order; version numbers are never reused;               *)
(*  - a Unity Catalog registry keeps one table per subject; the plugin    *)
(*    reports it as a single version 1 (unity_catalog/plugin.py 281-292). *)
(*                                                                         *)
(* Schema content is abstracted to a model value; compatibility between   *)
(* two contents, decided by the backend server, is the relation Compat.   *)
(***************************************************************************)
EXTENDS Naturals, Sequences, FiniteSets, Functions

CONSTANTS
    Registries,   \* registry instance ids (RegistryConfig.id)
    Subjects,     \* subject names
    Contents,     \* schema contents, as model values
    Kind,         \* Kind[r]: the plugin class of registry r
    Confluent,    \* ConfluentSchemaRegistryPlugin
    Unity,        \* UnityCatalogPlugin
    Compat,       \* <<new, old>> \in Compat: the server finds new compatible with old
    MaxVersion    \* bound on version numbers a subject can reach

ASSUME
    /\ Kind \in [Registries -> {Confluent, Unity}]
    /\ Compat \subseteq Contents \X Contents
    /\ MaxVersion \in Nat \ {0}

VersionRec == [ver : 1..MaxVersion, content : Contents]

VARIABLES
    hist,     \* hist[r][s]: live versions of subject s at registry r, oldest first
    nextVer   \* nextVer[r][s]: the version number the next registration gets

backendVars == <<hist, nextVer>>

\* The version numbers of a history, and the content registered under one.
Versions(h) == [i \in 1..Len(h) |-> h[i].ver]
ContentOf(h, v) == (CHOOSE e \in Range(h) : e.ver = v).content
IsLive(r, s, v) == v \in Range(Versions(hist[r][s]))

\* Confluent GET /subjects lists the subjects that have a live version;
\* Unity lists the tables of its catalog.
SubjectsOf(r) == {s \in Subjects : hist[r][s] # <<>>}

BackendTypeOK ==
    /\ hist \in [Registries -> [Subjects -> Seq(VersionRec)]]
    /\ nextVer \in [Registries -> [Subjects -> 1..MaxVersion + 1]]

(***************************************************************************)
(* register_schema, issued by another client of the backend.              *)
(* Confluent: POST /subjects/{s}/versions appends a new version.          *)
(* Unity: POST .../tables creates the table; when it exists the create    *)
(* fails and nothing changes, so only the absent case is a state change.  *)
(***************************************************************************)
RegisterSchema(r, s, c) ==
    \/ /\ Kind[r] = Confluent
       /\ nextVer[r][s] <= MaxVersion
       /\ hist' = [hist EXCEPT ![r][s] = Append(@, [ver |-> nextVer[r][s], content |-> c])]
       /\ nextVer' = [nextVer EXCEPT ![r][s] = @ + 1]
    \/ /\ Kind[r] = Unity
       /\ hist[r][s] = <<>>
       /\ hist' = [hist EXCEPT ![r][s] = <<[ver |-> 1, content |-> c]>>]
       /\ UNCHANGED nextVer

(***************************************************************************)
(* delete_schema_version, issued by another client of the backend.        *)
(* Confluent: DELETE /subjects/{s}/versions/{v} removes that version.     *)
(* Unity: DELETE .../tables/{name} drops the whole table.                 *)
(***************************************************************************)
DeleteSchemaVersion(r, s, v) ==
    /\ IsLive(r, s, v)
    /\ \/ /\ Kind[r] = Confluent
          /\ hist' = [hist EXCEPT ![r][s] = SelectSeq(@, LAMBDA e : e.ver # v)]
       \/ /\ Kind[r] = Unity
          /\ hist' = [hist EXCEPT ![r][s] = <<>>]
    /\ UNCHANGED nextVer

=============================================================================
