------------------------------ MODULE MCFanOut ------------------------------
(***************************************************************************)
(* FanOut for TLC: after startup id a is live on the Confluent endpoint  *)
(* rc and id b on the Unity endpoint ru; id x is never configured.  Two   *)
(* subjects, of which the prefix "p" matches s1 only.                     *)
(***************************************************************************)
EXTENDS FanOut, TLC

CONSTANTS rc, ru, a, b, x, c1, s1, s2

MCKind == (rc :> Confluent) @@ (ru :> Unity)

\* Every branch of the startup loop: a is configured twice (the Confluent
\* entry replaces the Unity one); b's other entries have a type that is no
\* RegistryType member, have no plugin, or come last but are disabled.
MCConfig ==
    << [id |-> a, type |-> "unity_catalog", server |-> ru, enabled |-> TRUE],
       [id |-> b, type |-> "bogus",         server |-> rc, enabled |-> TRUE],
       [id |-> b, type |-> "unity_catalog", server |-> ru, enabled |-> TRUE],
       [id |-> b, type |-> "apicurio",      server |-> rc, enabled |-> TRUE],
       [id |-> a, type |-> "confluent",     server |-> rc, enabled |-> TRUE],
       [id |-> b, type |-> "confluent",     server |-> rc, enabled |-> FALSE] >>

MCRequests == {<<x, a, b>>}

MCPrefixOf == {<<"p", s1>>}

\* Single-registry requests reaching every handler branch: a is Confluent
\* (or Unity once replaced), b Unity (or Confluent); an id is answered 404
\* once removed.
Call(op, id, sc, v) == [op |-> op, id |-> id, scope |-> sc, arg |-> v]
MCApiCalls ==
    { Call("list", NoEntry, NoEntry, NoEntry),
      Call("health", a, NoEntry, NoEntry),
      Call("subjects", a, NoEntry, NoFilter),
      Call("subjects", b, NoEntry, "p"),
      Call("get_mode", a, s1, NoEntry),
      Call("get_mode", a, GlobalKey, NoEntry),
      Call("set_mode", a, s1, "FULL"),
      Call("set_mode", a, GlobalKey, "FULL"),
      Call("set_mode", b, s1, "bogus"),
      Call("set_mode", b, s2, "FULL") }

=============================================================================
