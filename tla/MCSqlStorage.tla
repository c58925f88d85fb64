---------------------------- MODULE MCSqlStorage ----------------------------
(***************************************************************************)
(* Model-checking instance of SqlStorage.  In the serial configuration     *)
(* each plugin has one session (its WASM instance); in the racing one two  *)
(* sessions act for the same plugin ID.  One key and one entity type give  *)
(* two natural keys per plugin, (a, NULL, NULL) and (a, server, NULL),     *)
(* which only the IS NULL comparison tells apart.                          *)
(***************************************************************************)
EXTENDS SqlStorage

CONSTANTS s1, s2

MCSessions        == {s1, s2}
\* one session per plugin
MCSerialPlugin    == (s1 :> 1) @@ (s2 :> 2)
\* two sessions of plugin 1
MCRacingPlugin    == (s1 :> 1) @@ (s2 :> 1)
MCPluginIDs       == {1, 2}
MCOnePlugin       == {1}
MCKeys            == {"a"}
MCEntityTypes     == {"server"}
MCEntityIDs       == {}
MCPayloads        == {"x", "y"}
\* a key prefix no key has
MCPrefixes        == {"b"}
\* the List requests: everything, a prefix no key has, and the entity type
\* without an ID (entity_type = ? AND entity_id IS NULL)
MCListReqs ==
  {[prefix |-> NONE, filtered |-> FALSE, entityType |-> NONE, entityID |-> NONE],
   [prefix |-> "b",  filtered |-> FALSE, entityType |-> NONE, entityID |-> NONE],
   [prefix |-> NONE, filtered |-> TRUE, entityType |-> "server", entityID |-> NONE]}
\* no List calls (the runs about Save's two statements)
MCNoListReqs == {}
=============================================================================
