----------------------------- MODULE Federation -----------------------------
(***************************************************************************)
(* The two instance tables of the federation layer and how they are       *)
(* filled:                                                                 *)
(*  - PluginRegistry (src/core/plugin_registry.py): _plugins, from         *)
(*    registry type to plugin class, and _instances, from instance id to  *)
(*    the instance create_instance built;                                  *)
(*  - MultiBackendOrchestrator.active_registries (src/core/orchestrator.py)*)
(*    from instance id to the live instance;                               *)
(*  - the API's startup (src/api/main.py lifespan), which registers the   *)
(*    two plugins and then calls add_registry for each configured entry.  *)
(*                                                                         *)
(* An instance is identified by the serial number of its construction;    *)
(* it records the config it was built from (id, plugin class, the backend *)
(* endpoint it talks to).  Backend endpoints are Backend's Registries.    *)
(***************************************************************************)
EXTENDS Backend, TLC

CONSTANTS
    Ids,            \* instance ids that configuration entries use
    TypeNames,      \* "type" strings a configuration entry may carry
    RegistryType,   \* the names of the RegistryType enum members, lower case
    Config,         \* the "registries" list of the configuration file
    NoInst,         \* model value: no instance under this id
    MaxInstances,   \* bound on instances constructed
    MaxAdmin        \* bound on in-process admin calls made while serving

\* The plugin class each type gets at startup (main.py 91-92).
StartupPlugins == ("confluent" :> Confluent) @@ ("unity_catalog" :> Unity)

ASSUME
    /\ RegistryType \subseteq TypeNames
    /\ DOMAIN StartupPlugins \subseteq RegistryType
    /\ Config \in Seq([id : Ids, type : TypeNames, server : Registries, enabled : BOOLEAN])
    /\ \A i \in 1..Len(Config) :
          Config[i].type \in DOMAIN StartupPlugins => Kind[Config[i].server] = StartupPlugins[Config[i].type]

Inst == [serial : 1..MaxInstances, id : Ids, plugin : {Confluent, Unity}, server : Registries]

VARIABLES
    phase,       \* "plugins", "config" (the lifespan loop) or "serving"
    boot,        \* index of the next configuration entry the loop handles
    plugins,     \* PluginRegistry._plugins: type -> plugin class
    instances,   \* PluginRegistry._instances: id -> instance or NoInst
    active,      \* orchestrator.active_registries: id -> instance or NoInst
    serial,      \* instances constructed so far
    order,       \* the ids of active_registries in dict (insertion) order
    admin        \* admin calls made while serving

fedVars == <<phase, boot, plugins, instances, active, serial, order, admin>>

FedTypeOK ==
    /\ phase \in {"plugins", "config", "serving"}
    /\ boot \in 1..Len(Config) + 1
    /\ DOMAIN plugins \subseteq RegistryType
    /\ \A t \in DOMAIN plugins : plugins[t] \in {Confluent, Unity}
    /\ instances \in [Ids -> Inst \cup {NoInst}]
    /\ active \in [Ids -> Inst \cup {NoInst}]
    /\ serial \in 0..MaxInstances
    /\ order \in Seq(Ids)
    /\ admin \in 0..MaxAdmin

\* Ids with a live instance in the orchestrator.
ActiveIds == {id \in Ids : active[id] # NoInst}

\* No backend holds any subject yet.
BackendInit ==
    /\ hist = [r \in Registries |-> [s \in Subjects |-> <<>>]]
    /\ nextVer = [r \in Registries |-> [s \in Subjects |-> 1]]

FedInit ==
    /\ phase = "plugins" /\ boot = 1
    /\ plugins = <<>>
    /\ instances = [id \in Ids |-> NoInst]
    /\ active = [id \in Ids |-> NoInst]
    /\ serial = 0
    /\ order = <<>>
    /\ admin = 0

\* lifespan 88-95: register_plugin for the two plugin classes, then the
\* orchestrator is built over the plugin registry.
RegisterPlugins ==
    /\ phase = "plugins"
    /\ plugins' = StartupPlugins
    /\ phase' = IF Len(Config) = 0 THEN "serving" ELSE "config"
    /\ UNCHANGED <<boot, instances, active, serial, order, admin>>

\* The instance plugin_class(config) builds.
NewInst(c) == [serial |-> serial + 1, id |-> c.id, plugin |-> plugins[c.type], server |-> c.server]

\* create_instance(config, instance_id) (plugin_registry.py 89-125) for a
\* type with a plugin: the new instance is stored under the (non-empty) id.
CreateInstance(c) ==
    /\ serial < MaxInstances
    /\ instances' = [instances EXCEPT ![c.id] = NewInst(c)]
    /\ serial' = serial + 1

(***************************************************************************)
(* add_registry(config) (orchestrator.py 43-59) calls                      *)
(* create_instance(config, instance_id=config.id): a type without a       *)
(* plugin raises ValueError and nothing is stored; otherwise the new      *)
(* instance is stored under the id in both tables, replacing what was     *)
(* there.                                                                 *)
(***************************************************************************)
AddRegistry(c) ==
    IF c.type \notin DOMAIN plugins
    THEN UNCHANGED <<instances, active, serial, order>>
    ELSE /\ CreateInstance(c)
         /\ active' = [active EXCEPT ![c.id] = NewInst(c)]
         \* assigning an existing key keeps its place in the dict
         /\ order' = IF active[c.id] = NoInst THEN Append(order, c.id) ELSE order

(***************************************************************************)
(* One iteration of the lifespan loop over config["registries"] (main.py *)
(* 104-131): a disabled entry is skipped; RegistryType[type.upper()]     *)
(* raises KeyError for a type that is no enum member; that and add_registry*)
(* failures are caught and the entry skipped.                             *)
(***************************************************************************)
\* Mutant of LoadEntry: the enabled flag is not consulted.
LoadEntryIgnoresEnabled ==
    /\ phase = "config"
    /\ LET e == Config[boot] IN
       IF e.type \in RegistryType THEN AddRegistry(e) ELSE UNCHANGED <<instances, active, serial, order>>
    /\ boot' = boot + 1
    /\ phase' = IF boot = Len(Config) THEN "serving" ELSE "config"
    /\ UNCHANGED <<plugins, admin>>

LoadEntry ==
    /\ phase = "config"
    /\ LET e == Config[boot] IN
       IF e.enabled /\ e.type \in RegistryType
       THEN AddRegistry(e)
       ELSE UNCHANGED <<instances, active, serial, order>>
    /\ boot' = boot + 1
    /\ phase' = IF boot = Len(Config) THEN "serving" ELSE "config"
    /\ UNCHANGED <<plugins, admin>>

\* One more in-process admin call (add_registry, remove_registry or a
\* plugin-registry operation below) while serving.
AdminCall ==
    /\ phase = "serving"
    /\ admin < MaxAdmin
    /\ admin' = admin + 1

\* add_registry called while serving, with the config of an entry whose
\* type is a RegistryType member.
AddRegistryLater(c) ==
    /\ AdminCall
    /\ c.type \in RegistryType
    /\ AddRegistry(c)
    /\ UNCHANGED <<phase, boot, plugins>>

\* remove_registry(instance_id) (orchestrator.py 91-100).
RemoveRegistry(id) ==
    /\ AdminCall
    /\ active[id] # NoInst
    /\ active' = [active EXCEPT ![id] = NoInst]
    /\ order' = SelectSeq(order, LAMBDA x : x # id)
    /\ UNCHANGED <<phase, boot, plugins, instances, serial>>

(***************************************************************************)
(* The rest of PluginRegistry's public operations, called in process     *)
(* between requests (nothing in the repository calls them yet).          *)
(***************************************************************************)
\* load_plugin_from_module(path) (plugin_registry.py 51-87) for the module
\* of one of the two plugins: its class is registered for the type its
\* get_registry_type() reports, replacing the class held for it.  A module
\* with no ISchemaRegistry class raises ValueError and changes nothing.
LoadPluginFromModule(t) ==
    /\ AdminCall
    /\ plugins' = (t :> StartupPlugins[t]) @@ plugins
    /\ UNCHANGED <<phase, boot, instances, active, serial, order>>

\* unregister_plugin(type) (plugin_registry.py 157-166): a later
\* add_registry of that type raises ValueError.
UnregisterPlugin(t) ==
    /\ AdminCall
    /\ t \in DOMAIN plugins
    /\ plugins' = [x \in DOMAIN plugins \ {t} |-> plugins[x]]
    /\ UNCHANGED <<phase, boot, instances, active, serial, order>>

\* remove_instance(id) (plugin_registry.py 168-177) drops the plugin
\* registry's entry only; the orchestrator keeps its live instance.
RemoveInstance(id) ==
    /\ AdminCall
    /\ instances[id] # NoInst
    /\ instances' = [instances EXCEPT ![id] = NoInst]
    /\ UNCHANGED <<phase, boot, plugins, active, serial, order>>

\* clear_instances() (plugin_registry.py 179-182).
ClearInstances ==
    /\ AdminCall
    /\ \E id \in Ids : instances[id] # NoInst
    /\ instances' = [id \in Ids |-> NoInst]
    /\ UNCHANGED <<phase, boot, plugins, active, serial, order>>

FedNext ==
    \/ RegisterPlugins
    \/ LoadEntry
    \/ \E i \in 1..Len(Config) : AddRegistryLater(Config[i])
    \/ \E id \in Ids : RemoveRegistry(id)
    \/ \E t \in DOMAIN StartupPlugins : LoadPluginFromModule(t) \/ UnregisterPlugin(t)
    \/ \E id \in Ids : RemoveInstance(id)
    \/ ClearInstances

-----------------------------------------------------------------------------
\* An entry the startup loop turns into a live instance.
Loadable(e) == e.enabled /\ e.type \in DOMAIN StartupPlugins
\* The position of the last loadable entry with this id, or 0.
LastLoadable(id) ==
    LET L == {i \in 1..Len(Config) : Config[i].id = id /\ Loadable(Config[i])}
    IN IF L = {} THEN 0 ELSE CHOOSE i \in L : \A j \in L : j <= i

(***************************************************************************)
(* Spec 6 and 4.3: when startup completes, the live ids are exactly the  *)
(* ids of the enabled entries whose type has a plugin, and each id's      *)
(* instance was built from the last such entry for it (a later entry     *)
(* with the same id replaces the earlier one); disabled entries, unknown *)
(* types and types without a plugin leave no trace.                      *)
(***************************************************************************)
StartupActivatesConfig ==
    [][(phase = "config" /\ phase' = "serving") =>
         \A id \in Ids :
            IF LastLoadable(id) = 0
            THEN active'[id] = NoInst
            ELSE /\ active'[id] # NoInst
                 /\ active'[id].server = Config[LastLoadable(id)].server
                 /\ active'[id].plugin = StartupPlugins[Config[LastLoadable(id)].type]
      ]_fedVars

=============================================================================
