\* The storage library over the SQL repository, one session per plugin.
SPECIFICATION Spec
CONSTANTS
  s1 = s1
  s2 = s2
  Sessions <- MCSessions
  SessionPlugin <- MCSerialPlugin
  PluginIDs <- MCPluginIDs
  Keys <- MCKeys
  EntityTypes <- MCEntityTypes
  EntityIDs <- MCEntityIDs
  Payloads <- MCPayloads
  NONE = NONE
  MaxInserts = 3
  MaxFailures = 1
  Prefixes <- MCPrefixes
  ListReqs <- MCListReqs
INVARIANTS
  SqlTypeOK
  NaturalKeyUnique
PROPERTIES
  KVRefinement
