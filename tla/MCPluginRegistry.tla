-------------------------- MODULE MCPluginRegistry --------------------------
(***************************************************************************)
(* Model-checking instance of PluginRegistry.  Names 1 < 2 and statuses    *)
(* 1 ("active") < 2 ("disabled"); two priorities, so that rows tie on the  *)
(* default order; one category or none; explicit IDs 1 and 2.  The queries *)
(* take each kind of filter, the default order and three explicit ones,    *)
(* and pages cut by the limit, by the end and past the end of a result.        *)
(***************************************************************************)
EXTENDS PluginRegistry

MCNames       == {1, 2}
MCPriorities  == {0, 1}
MCStatuses    == {1, 2}
MCCategories  == {"x"}
MCExplicitIDs == {1, 2}
MCOnePriority == {0}
MCOneStatus   == {1}

NoFilter == [ids |-> {}, names |-> {}, statuses |-> {}, categories |-> {}]
MCFilters ==
  {NONE, [NoFilter EXCEPT !.ids = {1, 3}], [NoFilter EXCEPT !.names = {1}],
   [NoFilter EXCEPT !.statuses = {2}], [NoFilter EXCEPT !.categories = {"x"}]}

Asc(f)  == [field |-> f, desc |-> FALSE]
Desc(f) == [field |-> f, desc |-> TRUE]
MCOrders ==
  {<<>>, <<Asc("priority")>>, <<Desc("name"), Asc("id")>>, <<Asc("status"), Desc("priority")>>}

MCPages ==
  {NONE, [offset |-> 0, limit |-> 1], [offset |-> 1, limit |-> 5],
   [offset |-> 3, limit |-> 1]}

MCQueries == [filter : MCFilters, order : MCOrders, page : MCPages]
=============================================================================
