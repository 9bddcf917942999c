# TLA+ models of the global schema registry federation

This directory holds TLA+ models of `GITOPS-SCHEMA-FEDERATION-ENTERPRISE`, the
multi-backend schema registry. The models are checked with TLC. `PROJECT.json`
lists the runs, the source lines each definition models, the findings and the
hazards.

## The system

| Part | Source | What it does |
|---|---|---|
| Data model | `src/core/models.py` | Enums (registry type, format, 8 compatibility modes) and the records `Schema`, `CompatibilityResult`, `RegistryConfig`, `HealthStatus`, `BulkCheckResult`. |
| Capability contract | `src/core/interfaces.py` | `ISchemaRegistry`, the operations every backend plugin implements. |
| Plugin registry | `src/core/plugin_registry.py` | A table from type to plugin class and a table from instance id to instance. |
| Orchestrator | `src/core/orchestrator.py` | The instance map `active_registries`, the cross-registry fan-out (`query_all`, `find_schema_across_registries`, `compare_compatibility_modes`, `health_check_all`), `bulk_check_compatibility` on a shared `ThreadPoolExecutor(max_workers=10)`, and `bulk_set_compatibility`. |
| Confluent plugin | `src/plugins/confluent/plugin.py` | REST client. Subjects hold numbered versions. A 404 is raised as `KeyError`. `check_compatibility` turns every request failure into an "incompatible" result. |
| Unity Catalog plugin | `src/plugins/unity_catalog/plugin.py` | Tables are subjects with one version each. `list_subjects` swallows failures. Compatibility comes from Iceberg evolution rules (`_check_iceberg_evolution`). |
| REST API | `src/api/main.py` | FastAPI handlers over the orchestrator, plus config loading at startup. |
| Risk table | `tests/test_compatibility_transitions.py` | The transition-risk classification between compatibility modes. |
| Report script | `scripts/generate_test_report.py` | Runs pytest and renders a report. |

How they interact: the API builds one orchestrator over one plugin registry.
A bulk check works like this:
1. One caller thread walks the requested registry ids.
2. For each registry, it lists the subjects and submits one `_check_single_subject` task per subject to the pool.
3. It collects the futures with `as_completed` and counts the results.
4. Each task makes a sequence of blocking backend calls.

The backends belong to other clients too. Those clients register and delete
versions while the check runs, and any backend call may fail.

## Modules

| Module | Models | State | Actions |
|---|---|---|---|
| `Backend` | The store a plugin reads through the contract: Confluent subjects with versions in order, Unity tables with one version. | `hist[r][s]` (live versions, oldest first), `nextVer[r][s]` (version numbers are never reused). | `RegisterSchema`, `DeleteSchemaVersion`, issued by other clients. |
| `BulkCheck` (EXTENDS `Backend`) | `bulk_check_compatibility` and `_check_single_subject`. | The caller's `mainPc`, `idx`, counters and `allResults`; the executor `queue`; per task `pc`, the listed versions `snap`, `latest`, the loop index `k`, `allOk`, `msgs` and the result `res`; `failures` and `ext` bound the failures and the external changes. | Caller: `SkipUnknown`, `SubmitSubjects`, `ListSubjectsFails`, `CollectResult`, `EndBatch`, `ReturnResult`. Pool thread: `StartTask`, `ListVersions`, `GetLatest`, `CheckVersion` (one backend call each). `ExternalClient`. |
| `MCBulkCheck` | The model instance for TLC. | | |
| `ModeRisk` | `COMPATIBILITY_TRANSITIONS` and the matrix `print_transition_matrix` builds from it (`tests/test_compatibility_transitions.py`), next to the classification rules of spec 4.4 (`Direction`, `Transitive`, `Relaxes`, `Reverses`). | `mode` and `prev`: a subject's compatibility mode and its mode before the last change; `changes`. | `SetMode(m)`: `set_compatibility_mode` with any mode the API parses; `Settled`. |
| `Federation` (EXTENDS `Backend`) | The plugin registry's two tables, the orchestrator's `active_registries`, and the startup of `api/main.py` (`lifespan`). | `phase` and `boot` (the startup loop's entry index), `plugins` (`_plugins`), `instances` (`_instances`), `active` (`active_registries`), `serial` (instances built), `order` (dict insertion order of `active_registries`). | `RegisterPlugins`, `LoadEntry` (one loop iteration, with `AddRegistry` = `add_registry` + `create_instance`), `AddRegistryLater`, `RemoveRegistry`; serving-time plugin-registry calls `LoadPluginFromModule`, `UnregisterPlugin`, `RemoveInstance`, `ClearInstances`. `admin` counts the serving-time calls. |
| `FanOut` (EXTENDS `Federation`) | The orchestrator's cross-registry operations (`query_all`, `find_schema_across_registries`, `compare_compatibility_modes`, `health_check_all`, `bulk_set_compatibility`) and the compatibility-mode calls of both plugins they make. | Per server: `cfgGlobal` and `cfgSubject` (the Confluent `/config` resources; Unity has only the fixed BACKWARD). Per call: `call`, `arg`, `todo` (ids still to handle, in order), `out` (the result dict), `reached`, `failed`. | `Start`, one step per id for each operation (`QueryAllStep`, `FindStep`, `CompareStep`, `HealthStep`, `BulkSetStep`), `Return`; `ExternalSchemaChange`, `ExternalModeChange`; the fan-out endpoints `HealthAllReq`, `FindReq`, `OverviewReq`, `BulkSetReq` (400 for a mode that is no `CompatibilityMode` member, otherwise `Start`); the single-registry handlers `NotFoundReq`, `ListRegistriesReq`, `RegistryHealthReq`, `ListSubjectsReq`, `GetModeReq`, `SetModeReq` (with `ConfluentSetMode`, `UnitySetMode`), each answering in `resp`. `written` is a history variable: the last successful mode PUT. |
| `MCFanOut` | The model instance for TLC of `Federation` and `FanOut` together. | | |
| `RegistryContract` | What `ISchemaRegistry` (`interfaces.py`) promises one caller of a backend for `register_schema`, `get_schema_by_id`, `list_subjects`, `get_schema_by_subject_version`, `get_latest_schema`, `list_versions`, `delete_schema_version` and `get/set_compatibility_mode`, read with spec 4.1 and 7. Each call is linearizable. NotFound means the subject, version or schema id is absent at the linearization point. A schema id stands for its content (the Confluent server gives one id per distinct schema), and a deleted version keeps its id. OperationFailed means the call may or may not have taken effect. `register_schema` is held to the schema id it answers; the version its docstring also names is left out (see the observation on `data.get("version", 1)`). | `store`, `nextVer`, `gmode`, `smode`, `ids` (the schemas given an id) (the backend); `call`, `lin` (the result at the linearization point), `resp`. | `Invoke(c)`, `Linearize`, `Respond`, `Fail`, `Other` (another client's change). |
| `ConfluentClient` | One caller of the Confluent plugin over its `requests.Session` with the urllib3 `Retry` policy (`plugin.py` 47-61), and the Confluent server. The server applies each request atomically with the contract's `Effect` and `Result`. | The server as in the contract; `call`, `resp`; `req` (`"main"`, or `"subject"` then `"global"` for a subject's mode); `answer`, `inflight`, `tries`; `failures` and `ext` bound failures and other clients. | `Invoke(c)`, `Serve` (the server acts on an attempt), `Deliver` (the answer reaches the plugin; a subject 404 falls back to `GET /config`, 322-326), `LoseRequest`, `LoseResponse` (a failed attempt: retried while the budget lasts, then raised or, for `set_compatibility_mode`, `False`), `Other`. |
| `MCConfluentClient` | The model instance for TLC of `ConfluentClient`. | | |
| `UnityEvolution` | The Unity plugin's schema path: `register_schema`, `delete_schema_version` and `check_compatibility` on one table, the Iceberg/UC column conversions and `_check_iceberg_evolution`; spec 4.7 as the reference `SpecViolations`. | `table` (UC columns by position), `registered` (the Iceberg schema the table was created from), `result` (the last check's result and candidate). | `RegisterSchema(s)`, `DeleteTable`, `CheckCompatibility(new)`. |

Correspondence of the actions to the code:
- Each task step is one backend call, so a pool thread can interleave with the other threads and with external clients between any two calls:
  - `ListVersions` is `list_versions` (`orchestrator.py` 393-402);
  - `GetLatest` is `get_schema_by_subject_version(versions[-1])` (404-405);
  - `CheckVersion` is one iteration of the loop over `versions[:-1]` (411-426).
- `Fold` is that loop's bookkeeping and the final `CompatibilityResult` (407-433).
- `CheckOutcomes` is what Confluent `check_compatibility` can return:
  - a version deleted in the meantime gives the caught 404, which is incompatible with no messages;
  - otherwise the server's verdict from the relation `Compat`;
  - on an incompatible verdict, the `messages` field may be present or absent.
- The except branch at 289-298 is not an action. `_check_single_subject` never raises, so that branch cannot run.

In `UnityEvolution` a schema is a function from field id to `[type, required]`: ids are the stable identity spec 4.7 keys on, and names only appear in messages, so a message is `<<rule, field id>>`. A nested Iceberg type (a JSON dict) is written as its kind (`"struct"`, `"list"`, `"map"`). `CheckCompatibility` reads the table through `UcColumnsToIceberg`, as `get_schema_by_subject_version` (185-229) does, and has three outcomes: table missing (the caught `KeyError`, "new table"), the evolution verdict, or any other failure (the catch-all).

In `Federation` an instance is a record of the serial number of its construction, its id, its plugin class and the server it talks to, so replacing an instance and keeping a stale one are told apart. `LoadEntry` is one iteration of the loop at `main.py` 104-131 as one step: a disabled entry is skipped, `RegistryType[type.upper()]` raises `KeyError` for a type that is no enum member, `create_instance` raises `ValueError` for a member without a plugin (apicurio), and both are caught. Requests are served only after the loop (`phase = "serving"`).

`ConfluentClient` implements `RegistryContract` under the refinement mapping `C == INSTANCE RegistryContract WITH lin <- ..., resp <- AsContract(resp)`. `AsContract` keeps the id of the `Schema` that `register_schema` builds (`RegisterReturns`: the answer's id, version 1) and drops its version. The mapping sets `lin` to the server's answer to the latest attempt it acted on, or `NoResult` while a subject-mode read has only seen the 404 of `GET /config/{subject}`. A `Serve` step that changes the answer is a `Linearize` step of the contract. `Deliver` is `Respond`. An exhausted budget is `Fail`. A write may take its linearization point once, unless it found nothing. A read, or a write answered NotFound, may take it again at a retry.

In `FanOut` one request is handled at a time: `Start` picks the operation and its ids, each step handles the next id completely (every backend call it makes, and the catch that turns a failure into an error entry), and `Return` ends the request. `FailPoint` picks at most one call of the step to fail; `Handled` records the id. Between steps other clients may register a subject or change a mode on a server. `ModesOf` is Confluent `get_all_compatibility_modes` (303-376) as written, including the fallback of `get_compatibility_mode` to the global mode on a 404. `BulkSetStep` has the four branches of `bulk_set_compatibility` (315-368): with a filter, a Confluent or Unity server gets a mode per matching subject; without one, its global mode.

The single-registry handlers of `api/main.py` (163-293) never await, so each is one step. An id with no live instance answers 404 (`get_registry` returns `None`). `GetModeReq` asks a Confluent server with `ModeOfScope`: the subject's own setting, or the global one after the 404 of `GET /config/{subject}`; Unity answers the constant `UnityMode`. `SetModeReq` answers 400 for a mode that is not a `CompatibilityMode` member, then calls the plugin: Confluent writes the server's setting unless the PUT fails (`success: False`), Unity changes nothing and answers `True`. The response `resp` of a request, and the result dict of a fan-out, are cleared on the next step: in the code nothing outlives the request that produced it, and keeping them would multiply the states without a reader. `written` records `[id, serial, server, scope, mode]` of the last successful PUT and is forgotten once any other step changes that setting, so `ModeReadYourWrites` compares a GET only with a write nothing has overwritten.

## Runs

| Run | Kind | What it shows |
|---|---|---|
| `bulk_safety` | pass | `TypeOK`; `UnitIsolation`: when the call returns, every active requested registry has its listing failed or a collected result for every listed subject; `CompatibleVerdictSound`: a "compatible" Confluent verdict means `list_versions` found the subject (a subject deleted after the subject listing must not pass as "single version") and the latest listed version is compatible with every prior listed version, despite concurrent deletions, registrations and failed calls; `BulkCheckCompletes`: the call always returns. |
| `failed_check_counted` | violation | `FailedCheckCountedAsError`: a failed subject check is counted as incompatible, not as an error (spec 4.6 says error). |
| `all_compatible_message` | violation | `AllCompatibleMessageTruthful`: an incompatible result can carry "All versions compatible" (spec 4.5 says it cannot). |
| `listing_failure_counted` | violation | `ListingFailureCounted`: a Unity registry whose listing fails adds nothing to the error count (spec 8 says it adds one). |
| `risk_rules` | pass | `RiskRulesReproduced`: for every change between two different tested modes (two changes from any start mode), the table classifies the pair, requires validation exactly when it is not SAFE, makes every relaxation SAFE, every reversal DANGEROUS, adding the missing direction to BACKWARD or FORWARD RISKY (DANGEROUS when the scope also becomes transitive), and leaving NONE RISKY or DANGEROUS as spec 4.4 says. |
| `unity_evolution` | pass | `TypeOK` (column type names are UC `ColumnTypeName` values); `VerdictMatchesSpec`: with the column types the conversions carry both ways, every check's verdict and messages equal spec 4.7 applied to the registered and the candidate schema, through any sequence of registrations, drops and checks. |
| `unity_round_trip` | violation | `VerdictMatchesSpec` with `struct` and `uuid` fields: a struct is read back as `string`, so a struct changed to string is "compatible", and an unchanged uuid field is an incompatible type change. An unchanged struct field makes `_is_safe_type_promotion` hash a dict and raise `TypeError` (`plugin.py` 716), which ends as a failed check (367); `VerdictMatchesSpec` does not judge failed checks. |
| `fan_out` | pass | `TypeOK`; `StartupActivatesConfig`: when startup ends, the live ids are exactly those of the enabled entries whose type has a plugin, each with the instance of its last such entry; `FanOutIsolation`: when an operation over instances has handled every id, each id it handled has an entry, each one without a failed call a success entry, and operations over all instances reached every live one; `BulkSetScope`: a bulk_set step changes only the modes of the filtered subjects of the server it handles; `ModeReadYourWrites`: a successful GET of a mode through an id returns the mode the last PUT through the same instance and scope wrote, unless something else has overwritten it since. |
| `find_schema_failure` | violation | `FindSchemaFailureVisible`: a registry whose lookup failed is left out of `find_schema_across_registries`, like one without the subject (spec 7 says a failure becomes an error entry). |
| `overview_overrides` | violation | `OverviewListsOverrides`: `compare_compatibility_modes` lists every Confluent subject as an override, because `get_compatibility_mode` falls back to the global mode on a 404 (spec 4.3 says only overrides). |
| `confluent_contract` | pass | `TypeOK`; `ContractRefinement`: with `max_retries` 0, every call of the Confluent plugin behaves as the `RegistryContract` allows, a registration judged by the schema id it reports. This holds through lost requests, lost answers, and other clients' registrations, deletions and global-mode changes. The fallback of a subject's mode read to the global mode is included. `CallCompletes`: every call returns or raises. |
| `contract_retry` | violation | `ContractRefinement` with `max_retries` 1: the `Retry` policy re-sends a POST whose answer was lost. After another client deleted the version, the retry registers the content a second time. A DELETE that was applied and lost its answer is retried, gets 404 and raises `KeyError`. |

### Bounds

`MCBulkCheck.cfg` uses these values:
- **Registries** `<<rc, rx, ru>>`:
  - `rc` is a Confluent registry. Subject `s1` has two versions and `s2` has three. `<<c2,c1>>` is compatible, `<<c1,c2>>` is not.
  - `rx` is an id that is not active.
  - `ru` is a Unity registry with one table.
- **Pool width** 2. This is less than the number of tasks of `rc`, so the executor queue is used.
- **MaxFailures** 1.
- **MaxExternal** 2.
- **MaxVersion** 4.

These bounds are enough for the cases that matter:
- Two external changes cover a delete of the latest or of a prior version during a task, and a registration after the listing.
- One failure can hit any single call: a listing, `list_versions`, the latest lookup or a check.

The state space is about 140,000 states and takes 20 seconds.

`MCModeRisk.cfg` allows two mode changes from each of the 8 start modes. That reaches every ordered pair of modes as `(prev, mode)`, which is all the table classifies (136 states).

`MCUnityEvolution.cfg` uses two field ids and the types `int, long, date, timestamp, string`, each required or optional. That gives 121 schemas, every pair of which is registered and checked. The pairs cover:
- removing a required field and removing an optional one;
- adding a field;
- both safe promotions the types allow (`int -> long`, `date -> timestamp`), their reversals and an unsafe change (`int -> string`);
- tightening and relaxing nullability;
- two rules firing on different fields at once.

These five types are exactly the primitive types the round trip keeps. `long` also goes through the `BIGINT -> LONG` renaming. The run has about 30,000 states and takes 45 seconds.

`MCFanOut.cfg`:
- **Servers** `rc` (Confluent) and `ru` (Unity), two subjects, up to two versions each.
- **Config** six entries over ids `a` and `b`. `a` gets a Unity entry and then a Confluent entry that replaces it. `b` gets an unknown type, a Unity entry, an apicurio entry (an enum member without a plugin) and, last, a disabled Confluent entry. Every branch of the startup loop is taken, and a disabled or failing entry after a loadable one must leave the earlier instance in place.
- **MaxInstances** 4: startup builds three instances, and one more lets a later `add_registry` replace one.
- **Requests** the ids `<<x, a, b>>`: `x` is never configured, so every fan-out meets an unknown id before the live ones.
- **Modes** BACKWARD and FULL. **Prefixes** one prefix `"p"` that matches `s1` only. A filter is absent, `""` or `"p"`.
- **MaxFailures** 1. **MaxExternal** 2: one failed call at any step of any operation or request, and two writes between the steps, by other clients (a registration, a mode change) or by a mode PUT through the API.
- **MaxAdmin** 2: two serving-time admin calls (add or remove a registry, load or unregister a plugin, remove or clear instances). Two calls let an id be removed and re-added, or a plugin be unregistered and the id re-added, before a request.
- **ApiCalls** ten single-registry requests: the list, health and subjects (unfiltered and with `"p"`) requests, a GET of `s1`'s mode and of the global mode of `a`, PUTs of FULL to both scopes of `a`, a PUT of a bogus mode and one of FULL on `b`. `a` starts Confluent and `b` Unity, and either may be replaced by the other type or removed, so each request meets both plugins and the 404. A Confluent server starts in either mode, so a PUT of FULL may change the setting or leave it as it was.

The run has about 1,500,000 states and takes about 150 seconds.

`MCConfluentClient.cfg`:
- one subject, two contents, modes BACKWARD and FULL, version numbers up to 3 (a state constraint);
- every call of the contract, with both scopes for the mode calls, a lookup of either content's id and the subject listing;
- `MaxRetries` 0, `MaxFailures` 2, `MaxExternal` 2: two lost requests or answers, and two changes by other clients between any steps;
- other clients set the global mode only (`OtherModeScopes = {Global}`).

This covers the cases that matter:
- a write lost before or after the server applied it;
- a delete or a read of a version another client just deleted;
- a registration of a content another client registered;
- a subject's mode read across a change of the global mode;
- a lookup by id of a schema whose versions another client deleted, and a listing racing a registration or deletion.

The run has about 740,000 states and takes about 2 minutes.

`MCConfluentClient_Retry.cfg` sets `MaxRetries` 1, lets other clients set any mode and leaves out the subject-scoped mode read. That read is left out because its fallback makes two requests. When another client sets an override between them, deciding whether the answer is linearizable needs a prophecy of the second answer, and the mapping has none. That race is listed as a hazard and not checked.

### Fairness

The caller thread and each task are weakly fair (`WF_vars(Main)`, `WF_vars(Worker(t))`). This assumes that every backend call returns or raises within the configured per-call `timeout`, and that the executor runs every queued task. Other clients and failures get no fairness: they are bounded and may never happen. `FanOut` checks no liveness and assumes no fairness: its properties are safety properties. The one-request-at-a-time model is justified by the API: the FastAPI handlers are `async def` functions that call the orchestrator's blocking methods directly, so the event loop serves one request at a time. Deadlock is checked: when no request is in progress `Start` is enabled, and once a request has handled every id `Return` is enabled. In `ConfluentClient`, `FairSpec` makes `Serve` and `Deliver` weakly fair. The plugin passes `timeout=self.timeout` to every request, so an attempt is answered or fails in bounded time. Lost requests, lost answers and other clients get no fairness. The retry run uses `Spec`, because its property is a safety property.

### Observations not kept as runs

- `remove_registry` (`orchestrator.py` 91-100) deletes the orchestrator's entry but leaves the instance in `PluginRegistry._instances`, so `list_instances` still names a removed id. `RemoveRegistry` models this. No endpoint reads that table. Only `add_registry` writes both tables, and it writes the same instance to each, so no property is kept for their agreement. The one operation that could break it, a direct `create_instance` under a live id, is called by nothing in `src/` and is not modelled.
- `FORWARD_FULL` is a `CompatibilityMode` member that the API parses, and `COMPATIBILITY_TRANSITIONS` has no row for it: `print_transition_matrix` shows "?". Spec 4.4 gives it no classification, so `ModeRisk` states its rules over the other seven modes.
- Unity `check_compatibility` (`plugin.py` 356) copies the messages of an incompatible verdict into `errors`. `UnityEvolution` models the field as the code sets it.

- `COMPATIBILITY_TRANSITIONS` classifies `BACKWARD_TRANSITIVE -> FULL`, `BACKWARD_TRANSITIVE -> FULL_TRANSITIVE` and `FORWARD_TRANSITIVE -> FULL` as DANGEROUS, but `FORWARD_TRANSITIVE -> FULL_TRANSITIVE` as RISKY. The table is asymmetric between the two directions. `RiskRulesReproduced` checks the rule for adding a direction from BACKWARD and FORWARD. From a transitive mode, spec 4.4's wording ("RISKY if scope does not simultaneously tighten to transitive, else DANGEROUS") reads as RISKY for all four pairs, since the scope is already transitive. The table gives DANGEROUS for three and RISKY for one. The wording can also be read as covering only latest-only sources, so these four pairs are not checked.
- `bulk_set_compatibility` tests `if subject_filter:`, so the filter `""` sets the registry's global mode. The same filter in `bulk_check_compatibility` means every subject. `BulkSetStep` models both branches, and `BulkSetScope` excludes the empty filter. Spec 4.6 says nothing of an empty prefix.
- Unity `list_versions` answers `[]` for a table deleted since the subject listing, and `_check_single_subject` reports it as a compatible "single version" (`orchestrator.py` 395). `ListVersions` models this. Spec 4.1 says a missing subject is NotFound, so the verdict is about a table that no longer exists. `CompatibleVerdictSound` states the Confluent half, where the 404 becomes an error result.
- Confluent `register_schema` returns `data.get("version", 1)`. The POST answer of the Confluent REST API carries only the schema id, so every registration reports version 1, whatever version the server assigned. `ConfluentClient` models this (`RegisterReturns`). The defect is a constant default that no interleaving changes, and a unit test with the documented answer shows it. For that reason `ContractRefinement` judges a registration by its id and leaves the version out, and the interface's promise of the assigned version (`interfaces.py` 74) is not checked.
- The Confluent plugin's `set_compatibility_mode` returns False on a read timeout after the PUT may have been applied (`plugin.py` 353). Spec 7 allows an OperationFailed call to have taken effect, so the contract accepts this. `ContractRefinement` checks that such a change is applied at most once, while the call is in progress.
- `CompareStep` makes the calls of `get_all_compatibility_modes` for one instance in one step. It does not model the per-subject read failure that the bare `except` swallows (confluent `plugin.py` 364-370). `OverviewListsOverrides` fails without it.

## Not modelled

- `bulk_check_compatibility` composed with `Federation`. The endpoint is an `async def` that calls the blocking `orchestrator.bulk_check_compatibility` without awaiting anything. The event loop therefore serves no other request, and no add or remove of a registry, until the bulk check returns. Only the pool threads run concurrently, and they are what `BulkCheck` models. A composition would add no interleaving the code can produce.
- The 400 of `POST /bulk/check-compatibility` for an unknown mode (`main.py` 313-316) and the `to_dict` methods of the records (`models.py`). These are parsing and layout: `BulkCheck` starts from a parsed mode, and no property is about the JSON shape. `BulkSetReq` models the same 400 for the set endpoint.
- HTTP, authentication, SSL and logging. These are abstracted as one "a call may fail" choice. The retry adapter is modelled for the Confluent plugin only (`ConfluentClient`). Unity's session has the same `Retry` policy and is not modelled this way.
- The report script, which is pure I/O.
- `POST /registries/{id}/compatibility/check` (`main.py` 232-254): it passes the request to the plugin's `check_compatibility`, which `BulkCheck` (Confluent) and `UnityEvolution` (Unity) model.
- The 503 guard of every handler (`orchestrator is None`): `lifespan` sets the orchestrator before the first request, so the guard cannot fire.
- `shutdown` (`orchestrator.py` 443-446): it stops the executor after the server has stopped, when no request runs.
- The read-only calls that no endpoint or orchestrator operation uses: `discover_schemas`, `get_metadata`, `list_available_plugins`.
