--------------------------- MODULE UnityEvolution ---------------------------
(***************************************************************************)
(* UnityCatalogPlugin's schema path (src/plugins/unity_catalog/plugin.py): *)
(* register_schema turns an Iceberg schema into Unity Catalog columns and *)
(* creates the table; check_compatibility reads the table back, turns its *)
(* columns into an Iceberg schema again and runs _check_iceberg_evolution *)
(* of the stored schema against the candidate.                            *)
(*                                                                         *)
(* A schema is a function from field ids (Iceberg's stable identity) to   *)
(* [type, required].  Field names and docs only appear in messages, so a  *)
(* message is the pair <<rule, field id>>.  An Iceberg type is its JSON   *)
(* value: a string for a primitive, and for a nested type the dict        *)
(* {"type": k}, written here as its kind k \in DictKinds.                 *)
(***************************************************************************)
EXTENDS Naturals, FiniteSets, TLC

CONSTANTS
    FieldIds,       \* field ids a schema may use
    IcebergTypes,   \* the Iceberg types a field may have
    NoTable,        \* model value: the table does not exist
    NoResult        \* model value: no check since the table last changed

DictKinds == {"struct", "list", "map"}

ASSUME IcebergTypes \subseteq STRING

Field == [type : IcebergTypes, required : BOOLEAN]
Schemas == UNION {[D -> Field] : D \in SUBSET FieldIds}

-----------------------------------------------------------------------------
(* Column type conversions (plugin.py 580-644).                            *)

\* _iceberg_type_to_uc_type: the mapping of primitives, STRING otherwise.
IcebergToUcPrim ==
    ("boolean" :> "BOOLEAN") @@ ("int" :> "INT") @@ ("long" :> "BIGINT")
    @@ ("float" :> "FLOAT") @@ ("double" :> "DOUBLE") @@ ("string" :> "STRING")
    @@ ("binary" :> "BINARY") @@ ("date" :> "DATE") @@ ("timestamp" :> "TIMESTAMP")
IcebergTypeToUcType(t) ==
    IF t \in DictKinds
    THEN CASE t = "struct" -> "STRUCT" [] t = "list" -> "ARRAY" [] OTHER -> "MAP"
    ELSE IF t \in DOMAIN IcebergToUcPrim THEN IcebergToUcPrim[t] ELSE "STRING"

\* The ColumnTypeName values _iceberg_type_to_uc_type_name maps to.
UcTypeNames ==
    {"BOOLEAN", "INT", "LONG", "FLOAT", "DOUBLE", "STRING", "BINARY", "DATE",
     "TIMESTAMP", "STRUCT", "ARRAY", "MAP"}

\* Mutant of IcebergTypeToUcTypeName: the type text sent as the type name.
IcebergTypeToUcTypeNameText(t) == IcebergTypeToUcType(t)

\* _iceberg_type_to_uc_type_name: BIGINT is named LONG, the rest keep their text.
IcebergTypeToUcTypeName(t) ==
    LET text == IcebergTypeToUcType(t) IN IF text = "BIGINT" THEN "LONG" ELSE text

\* _uc_type_to_iceberg_type: unknown names, STRUCT/ARRAY/MAP included, become "string".
UcToIcebergPrim ==
    ("BOOLEAN" :> "boolean") @@ ("INT" :> "int") @@ ("LONG" :> "long")
    @@ ("BIGINT" :> "long") @@ ("FLOAT" :> "float") @@ ("DOUBLE" :> "double")
    @@ ("STRING" :> "string") @@ ("BINARY" :> "binary") @@ ("DATE" :> "date")
    @@ ("TIMESTAMP" :> "timestamp")
UcTypeToIcebergType(n) ==
    IF n \in DOMAIN UcToIcebergPrim THEN UcToIcebergPrim[n] ELSE "string"

\* _iceberg_to_uc_columns: position = field id, nullable = not required.
IcebergToUcColumns(s) ==
    [i \in DOMAIN s |-> [type_name |-> IcebergTypeToUcTypeName(s[i].type),
                         nullable |-> ~s[i].required]]

\* Mutant of UcColumnsToIceberg: "required" read as the column's nullable flag.
UcColumnsToIcebergNullable(cols) ==
    [i \in DOMAIN cols |-> [type |-> UcTypeToIcebergType(cols[i].type_name),
                            required |-> cols[i].nullable]]

\* _uc_columns_to_iceberg: id = position, required = not nullable.
UcColumnsToIceberg(cols) ==
    [i \in DOMAIN cols |-> [type |-> UcTypeToIcebergType(cols[i].type_name),
                            required |-> ~cols[i].nullable]]

-----------------------------------------------------------------------------
\* _is_safe_type_promotion (plugin.py 708-716).  The test
\* (old_type, new_type) in safe_promotions hashes the tuple, so a dict type
\* raises TypeError instead of answering.
SafePromotions == {<<"int", "long">>, <<"float", "double">>, <<"date", "timestamp">>}
IsSafeTypePromotion(o, n) == <<o, n>> \in SafePromotions
PromotionRaises(o, n) == o \in DictKinds \/ n \in DictKinds

(***************************************************************************)
(* _check_iceberg_evolution(old_schema, new_schema) (plugin.py 646-706):  *)
(* removed required fields, unsafe type changes and nullable -> required  *)
(* each add a message and make the result incompatible; with none the     *)
(* single message is "Schema evolution is compatible".  A changed field    *)
(* whose promotion test raises aborts the whole check (raised).           *)
(***************************************************************************)
CheckIcebergEvolution(old, new) ==
    LET both      == DOMAIN old \cap DOMAIN new
        removed   == {<<"removed", i>> : i \in {j \in DOMAIN old \ DOMAIN new : old[j].required}}
        retyped   == {<<"type", i>> :
                        i \in {j \in both : /\ old[j].type # new[j].type
                                            /\ ~IsSafeTypePromotion(old[j].type, new[j].type)}}
        tightened == {<<"nullability", i>> : i \in {j \in both : ~old[j].required /\ new[j].required}}
        msgs      == removed \cup retyped \cup tightened
    IN [raised |-> \E j \in both : old[j].type # new[j].type /\ PromotionRaises(old[j].type, new[j].type),
        isCompatible |-> msgs = {},
        messages |-> IF msgs = {} THEN {<<"compatible", 0>>} ELSE msgs]

-----------------------------------------------------------------------------
VARIABLES
    table,        \* the table's columns (position -> column), or NoTable
    registered,   \* the Iceberg schema the table was created from, or NoTable
    result        \* the last check_compatibility's CompatibilityResult and
                  \* candidate schema, or NoResult

vars == <<table, registered, result>>

Msg == ({"removed", "type", "nullability"} \X FieldIds) \cup {<<"compatible", 0>>, <<"newTable", 0>>, <<"failed", 0>>}
CheckResult == [isCompatible : BOOLEAN, messages : SUBSET Msg, errors : SUBSET Msg,
                failed : BOOLEAN, schema : Schemas]

TypeOK ==
    /\ table \in {NoTable} \cup UNION {[D -> [type_name : UcTypeNames, nullable : BOOLEAN]] : D \in SUBSET FieldIds}
    /\ registered \in {NoTable} \cup Schemas
    /\ result \in {NoResult} \cup CheckResult

Init ==
    /\ table = NoTable /\ registered = NoTable /\ result = NoResult

(***************************************************************************)
(* register_schema (plugin.py 90-171) with an Iceberg schema: POST        *)
(* .../tables creates the table from the converted columns.  Creating a   *)
(* table that exists fails at the server and changes nothing.             *)
(***************************************************************************)
RegisterSchema(s) ==
    /\ table = NoTable
    /\ table' = IcebergToUcColumns(s)
    /\ registered' = s
    /\ result' = NoResult

\* delete_schema_version (plugin.py 294-318) drops the whole table.
DeleteTable ==
    /\ table # NoTable
    /\ table' = NoTable /\ registered' = NoTable
    /\ result' = NoResult

(***************************************************************************)
(* check_compatibility(subject, new) (plugin.py 322-374).  The table is  *)
(* read with get_latest_schema; a missing table (KeyError) makes any      *)
(* schema compatible; any other failure, a TypeError of the evolution     *)
(* check included, is an incompatible result with the error; otherwise   *)
(* the evolution check runs on the table as read back, and an incompatible*)
(* result repeats its messages as errors.                                 *)
(***************************************************************************)
\* The result of the catch-all except (plugin.py 367-374).
Failed(new) == [isCompatible |-> FALSE, messages |-> {}, errors |-> {<<"failed", 0>>},
                failed |-> TRUE, schema |-> new]

CheckCompatibility(new) ==
    /\ \/ /\ table = NoTable
          /\ result' = [isCompatible |-> TRUE, messages |-> {<<"newTable", 0>>},
                        errors |-> {}, failed |-> FALSE, schema |-> new]
       \/ /\ table # NoTable
          /\ LET r == CheckIcebergEvolution(UcColumnsToIceberg(table), new) IN
             result' = IF r.raised THEN Failed(new)
                       ELSE [isCompatible |-> r.isCompatible, messages |-> r.messages,
                             errors |-> IF r.isCompatible THEN {} ELSE r.messages,
                             failed |-> FALSE, schema |-> new]
       \/ result' = Failed(new)
    /\ UNCHANGED <<table, registered>>

Next ==
    \/ \E s \in Schemas : RegisterSchema(s)
    \/ DeleteTable
    \/ \E s \in Schemas : CheckCompatibility(s)

Spec == Init /\ [][Next]_vars

-----------------------------------------------------------------------------
(***************************************************************************)
(* Spec 4.7, stated per field identity i: the rule that field i of the    *)
(* old schema breaks when the new one replaces it.                        *)
(***************************************************************************)
SpecSafePromotions == {<<"int", "long">>, <<"float", "double">>, <<"date", "timestamp">>}
SpecBreaks(rule, old, new, i) ==
    CASE rule = "removed" ->
            i \in DOMAIN old /\ i \notin DOMAIN new /\ old[i].required
      [] rule = "type" ->
            /\ i \in DOMAIN old /\ i \in DOMAIN new
            /\ old[i].type # new[i].type
            /\ <<old[i].type, new[i].type>> \notin SpecSafePromotions
      [] rule = "nullability" ->
            i \in DOMAIN old /\ i \in DOMAIN new /\ ~old[i].required /\ new[i].required
SpecViolations(old, new) ==
    {v \in {"removed", "type", "nullability"} \X FieldIds : SpecBreaks(v[1], old, new, v[2])}

(***************************************************************************)
(* Spec 4.7 and 8: checking a schema against a table registered from an  *)
(* Iceberg schema gives the verdict of the evolution algorithm on the two *)
(* Iceberg schemas, and names exactly the fields that break it; the check *)
(* sees the table only through the column conversions of register_schema  *)
(* and get_schema_by_subject_version.                                     *)
(***************************************************************************)
VerdictMatchesSpec ==
    (result # NoResult /\ ~result.failed /\ registered # NoTable) =>
        LET bad == SpecViolations(registered, result.schema) IN
        /\ result.isCompatible <=> bad = {}
        /\ result.messages = IF bad = {} THEN {<<"compatible", 0>>} ELSE bad

=============================================================================
