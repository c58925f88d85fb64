\* Every query of MCQueries answered by the in-memory and the SQL Find over
\* the rows the mysql and the postgres registry reach by Saves and Deletes
\* with and without explicit IDs.
SPECIFICATION Spec
CONSTANTS
  Backends = {"mysql", "postgres"}
  Names <- MCNames
  Priorities <- MCPriorities
  Statuses <- MCStatuses
  Categories <- MCCategories
  ExplicitIDs <- MCExplicitIDs
  Queries <- MCQueries
  DefaultLimit = 2
  IntWidth = 8
  SqlFaults = FALSE
  NONE = NONE
  Width = 2
  MaxSaves = 3
INVARIANTS
  QueryBackendsAgree
