\* The in-memory plugin registry: Saves with and without an explicit ID.
SPECIFICATION Spec
CONSTANTS
  Backends = {"inmemory"}
  Names <- MCNames
  Priorities <- MCOnePriority
  Statuses <- MCOneStatus
  Categories = {}
  ExplicitIDs <- MCExplicitIDs
  Queries = {}
  DefaultLimit = 2
  IntWidth = 8
  SqlFaults = FALSE
  NONE = NONE
  Width = 2
  MaxSaves = 5
PROPERTY
  NewPluginKeepsOthers
