\* Two sessions of one plugin Save the same natural key concurrently.
SPECIFICATION Spec
CONSTANTS
  s1 = s1
  s2 = s2
  Sessions <- MCSessions
  SessionPlugin <- MCRacingPlugin
  PluginIDs <- MCOnePlugin
  Keys <- MCKeys
  EntityTypes <- MCEntityTypes
  EntityIDs <- MCEntityIDs
  Payloads <- MCPayloads
  NONE = NONE
  MaxInserts = 3
  MaxFailures = 0
  Prefixes <- MCPrefixes
  ListReqs <- MCNoListReqs
INVARIANT
  NaturalKeyUnique
