----------------------------- MODULE MCStorage -----------------------------
(***************************************************************************)
(* Model-checking instance of StorageLibrary: two plugins, two keys, one   *)
(* entity type and up to four Save calls, enough for two plugins to hold   *)
(* entries under the same key, for an entity-scoped and a global entry of  *)
(* one key to coexist, and for an upsert to follow a Delete.               *)
(***************************************************************************)
EXTENDS StorageLibrary

MCPluginIDs   == {1, 2}
MCKeys        == {"a"}
MCEntityTypes == {"server"}
MCEntityIDs   == {1}
\* entity ID 0, the Go zero value of *uint
MCEntityIDsZero == {0}
MCPayloads    == {"x", "y"}
\* a key prefix for List that the key "a" does not have (no prefix matches it)
MCPrefixes    == {"b"}
\* the List requests enumerated: everything, a prefix no key has, a typed
\* filter without an ID, and a typed filter with one
MCListReqs ==
  {[prefix |-> NONE, filtered |-> FALSE, entityType |-> NONE, entityID |-> NONE],
   [prefix |-> "b",  filtered |-> FALSE, entityType |-> NONE, entityID |-> NONE],
   [prefix |-> NONE, filtered |-> TRUE, entityType |-> "server", entityID |-> NONE],
   [prefix |-> NONE, filtered |-> TRUE, entityType |-> "server", entityID |-> 1]}
\* no List calls (the runs about Save's paths)
MCNoListReqs == {}
=============================================================================
