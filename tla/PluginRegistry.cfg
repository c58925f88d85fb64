\* The mysql and the postgres plugin registry under Saves and Deletes with and
\* without explicit IDs, every statement allowed to fail after committing or
\* not, checked against RegistryAbstract.  Rows differ by name only: the
\* other columns are copied alike by every path.
SPECIFICATION Spec
CONSTANTS
  Backends = {"mysql", "postgres"}
  Names <- MCNames
  Priorities <- MCOnePriority
  Statuses <- MCOneStatus
  Categories = {}
  ExplicitIDs <- MCExplicitIDs
  Queries = {}
  DefaultLimit = 2
  IntWidth = 8
  SqlFaults = TRUE
  NONE = NONE
  Width = 2
  MaxSaves = 4
INVARIANTS
  RegistryTypeOK
PROPERTY
  RegistryRefinement
