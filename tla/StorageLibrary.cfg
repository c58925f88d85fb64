\* The storage capability over the in-memory repository, plugins and host
\* interleaved; entity IDs never 0 (see StorageEntityZero.cfg).
SPECIFICATION Spec
CONSTANTS
  PluginIDs <- MCPluginIDs
  Keys <- MCKeys
  EntityTypes <- MCEntityTypes
  EntityIDs <- MCEntityIDs
  Payloads <- MCPayloads
  Prefixes <- MCPrefixes
  ListReqs <- MCListReqs
  NONE = NONE
  MaxClock = 2
INVARIANTS
  LibTypeOK
  IndexesInSync
  NaturalKeyUnique
PROPERTIES
  CreatedAtKept
  KVRefinement
