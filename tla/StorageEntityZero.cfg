\* Entity ID 0 next to a nil entity ID under the same key.
SPECIFICATION Spec
CONSTANTS
  PluginIDs <- MCPluginIDs
  Keys <- MCKeys
  EntityTypes <- MCEntityTypes
  Payloads <- MCPayloads
  Prefixes <- MCPrefixes
  ListReqs <- MCNoListReqs
  NONE = NONE
  MaxClock = 2
  EntityIDs <- MCEntityIDsZero
PROPERTY KVRefinement
