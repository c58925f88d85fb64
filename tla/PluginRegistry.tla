--------------------------- MODULE PluginRegistry ---------------------------
(***************************************************************************)
(* The plugin registry repositories: Save and Delete of                    *)
(* internal/repositories/inmemory/plugins.go, mysql/plugins.go and         *)
(* postgres/plugins.go; the backend is fixed in Init from Backends.      *)
(*                                                                         *)
(* A plugin row is reduced to its name and priority (every other column    *)
(* is copied alike by all paths).  `counter` is the in-memory nextID (a    *)
(* uint32, wrapping at 2^Width), the mysql AUTO_INCREMENT value, or the    *)
(* postgres id sequence.  Calls are one at a time: the in-memory methods   *)
(* hold the mutex for the whole call, and the SQL Save (Exists, then       *)
(* INSERT or UPDATE) is taken as one step here (SqlStorage shows the       *)
(* interleavings of such a two-statement Save).                            *)
(***************************************************************************)
EXTENDS Integers, FiniteSets, FiniteSetsExt, SequencesExt, TLC

CONSTANTS
  Backends,      \* the backends a run covers: "inmemory", "mysql", "postgres"
  Names,         \* plugin names
  Priorities,    \* plugin priorities
  ExplicitIDs,   \* non-zero IDs a caller may pass to Save
  Width,         \* bit width of the in-memory counter (32 in the code)
  MaxSaves,      \* bound on the number of Save calls
  Statuses,      \* plugin statuses, by rank of their string
  Categories,    \* plugin categories (a plugin may have none)
  Queries,       \* Find inputs: [filter, order, page]
  DefaultLimit,  \* filters.DefaultLimit
  IntWidth,      \* bit width of Go's int (64 in the code)
  SqlFaults,     \* whether SQL statements may return errors
  NONE

ASSUME /\ Backends \subseteq {"inmemory", "mysql", "postgres"}
       /\ ExplicitIDs \subseteq Nat \ {0} /\ Width \in 1..30 /\ MaxSaves \in Nat
       /\ IntWidth \in 2..30 /\ DefaultLimit \in Nat \ {0}
       /\ SqlFaults \in BOOLEAN

VARIABLES backend, plugins, counter, saves, lastCall

vars == <<backend, plugins, counter, saves, lastCall>>

Plugin == [name : Names, priority : Priorities, status : Statuses,
           category : Categories \cup {NONE}]

Call == [op : {"none", "save", "delete"}, id : Nat, assigned : Nat, err : BOOLEAN]

NoCall == [op |-> "none", id |-> 0, assigned |-> 0, err |-> FALSE]

Init ==
  /\ backend \in Backends
  /\ plugins = <<>>
  /\ counter = 0
  /\ saves = 0
  /\ lastCall = NoCall

(* inmemory Save: only an absent ID is treated as new, and only ID 0 draws *)
(* from atomic.AddUint32(&nextID, 1); the row is then stored under the ID, *)
(* replacing whatever is there.                                            *)
InMemorySave(id, p) ==
  LET new    == id \notin DOMAIN plugins /\ id = 0
      next   == (counter + 1) % 2^Width
      stored == IF new THEN next ELSE id
  IN  /\ counter' = IF new THEN next ELSE counter
      /\ plugins' = (stored :> p) @@ plugins
      /\ lastCall' = [op |-> "save", id |-> id, assigned |-> stored, err |-> FALSE]

(* Exists(IDs: [id]) of the SQL Save: SELECT 1 ... WHERE id IN (id).      *)
Exists(id) == id \in DOMAIN plugins

(* The result of a Save: the table, the counter, plugin.ID afterwards and  *)
(* whether Save returned an error.                                         *)
Outcome(ps, c, a, e) == [plugins |-> ps, counter |-> c, assigned |-> a, err |-> e]

(* update: every column SET WHERE id.                                      *)
Update(id, p) == Outcome([plugins EXCEPT ![id] = p], counter, id, FALSE)

(* Variant: AUTO_INCREMENT not moved past an explicitly inserted ID.      *)
MysqlSaveNoBump(id, p) ==
  CASE Exists(id) -> Update(id, p)
    [] id # 0     -> Outcome((id :> p) @@ plugins, counter, id, FALSE)
    [] OTHER      -> Outcome((counter + 1 :> p) @@ plugins, counter + 1, counter + 1, FALSE)

(* mysql Save, all statements succeeding: Exists(IDs: [id]), then update,  *)
(* or insert with the explicit ID (AUTO_INCREMENT moves past it) or        *)
(* without one (LastInsertId).                                             *)
MysqlSave(id, p) ==
  CASE Exists(id) -> Update(id, p)
    [] id # 0     -> Outcome((id :> p) @@ plugins, IF id > counter THEN id ELSE counter,
                             id, FALSE)
    [] OTHER      -> Outcome((counter + 1 :> p) @@ plugins, counter + 1, counter + 1, FALSE)

(* postgres Save: the same, but an insert with an explicit ID leaves the   *)
(* sequence alone, and INSERT ... RETURNING id takes nextval even when the *)
(* row it names exists, failing with a duplicate key.                      *)
PostgresSave(id, p) ==
  CASE Exists(id)                -> Update(id, p)
    [] id # 0                    -> Outcome((id :> p) @@ plugins, counter, id, FALSE)
    [] counter + 1 \in DOMAIN plugins -> Outcome(plugins, counter + 1, id, TRUE)
    [] OTHER                     -> Outcome((counter + 1 :> p) @@ plugins, counter + 1,
                                            counter + 1, FALSE)

SqlSave(id, p) == IF backend = "mysql" THEN MysqlSave(id, p) ELSE PostgresSave(id, p)

(* A SQL Save returning some other error; plugin.ID stays as passed.  The  *)
(* Exists SELECT fails with nothing written; the UPDATE or INSERT may fail *)
(* after committing (mysql LastInsertId, an Exec or the RETURNING scan     *)
(* under a cancelled context) or not; a postgres INSERT without an ID may  *)
(* have drawn nextval without committing.                                  *)
SqlSaveErrors(id, p) ==
  {Outcome(plugins, counter, id, TRUE),
   [SqlSave(id, p) EXCEPT !.assigned = id, !.err = TRUE]}
  \cup (IF backend = "postgres" /\ ~Exists(id) /\ id = 0
        THEN {Outcome(plugins, counter + 1, id, TRUE)} ELSE {})

Apply(id, w) ==
  /\ plugins' = w.plugins
  /\ counter' = w.counter
  /\ lastCall' = [op |-> "save", id |-> id, assigned |-> w.assigned, err |-> w.err]

Save(id, p) ==
  /\ saves < MaxSaves
  /\ saves' = saves + 1
  /\ UNCHANGED backend
  /\ IF backend = "inmemory"
     THEN InMemorySave(id, p)
     ELSE \E w \in {SqlSave(id, p)} \cup (IF SqlFaults THEN SqlSaveErrors(id, p) ELSE {}) :
            Apply(id, w)

(* Variant: the entry set to nil instead of removed from the map.         *)
DeleteNilEntry(id) ==
  /\ plugins' = IF id \in DOMAIN plugins THEN [plugins EXCEPT ![id] = NONE] ELSE plugins
  /\ lastCall' = [op |-> "delete", id |-> id, assigned |-> 0, err |-> FALSE]
  /\ UNCHANGED <<backend, counter, saves>>

(* Delete: unknown IDs are a no-op in every backend.                       *)
Delete(id) ==
  /\ plugins' = [i \in DOMAIN plugins \ {id} |-> plugins[i]]
  /\ lastCall' = [op |-> "delete", id |-> id, assigned |-> 0, err |-> FALSE]
  /\ UNCHANGED <<backend, counter, saves>>

(* The SQL Delete's ExecContext returning an error, after committing or    *)
(* not.                                                                    *)
DeleteFails(id) ==
  /\ backend # "inmemory" /\ SqlFaults
  /\ plugins' \in {plugins, [i \in DOMAIN plugins \ {id} |-> plugins[i]]}
  /\ lastCall' = [op |-> "delete", id |-> id, assigned |-> 0, err |-> TRUE]
  /\ UNCHANGED <<backend, counter, saves>>

Next ==
  \/ \E id \in {0} \cup ExplicitIDs, p \in Plugin : Save(id, p)
  \/ \E id \in DOMAIN plugins \cup ExplicitIDs : Delete(id) \/ DeleteFails(id)

Spec == Init /\ [][Next]_vars

-----------------------------------------------------------------------------
(* The in-memory matchesFilter: a nil filter matches everything, each set  *)
(* field must contain the plugin's value, and a plugin without a category  *)
(* never matches a category filter.                                        *)
MatchesFilter(i, f) ==
  LET p == plugins[i] IN
  \/ f = NONE
  \/ /\ f.ids = {} \/ i \in f.ids
     /\ f.names = {} \/ p.name \in f.names
     /\ f.statuses = {} \/ p.status \in f.statuses
     /\ f.categories = {} \/ (p.category # NONE /\ p.category \in f.categories)

(* The SQL filterToSq: an AND of "col IN (...)" for the set fields; NULL   *)
(* is IN no list.                                                          *)
SqlFilter(i, f) ==
  LET p == plugins[i] IN
  f = NONE \/ \A c \in {"ids", "names", "statuses", "categories"} :
                f[c] = {} \/ [ids |-> i, names |-> p.name, statuses |-> p.status,
                              categories |-> p.category][c] \in f[c]

Sign(x) == IF x > 0 THEN 1 ELSE IF x < 0 THEN -1 ELSE 0

(* x reduced to a signed integer of IntWidth bits, as Go's int arithmetic  *)
(* wraps.                                                                  *)
WrapInt(x) == ((x + 2^(IntWidth - 1)) % 2^IntWidth) - 2^(IntWidth - 1)

(* The comparison of rows a and b on one field: cmp.Compare for the ID,    *)
(* strings.Compare for name and status, and for the priority the in-memory *)
(* code's plain subtraction (wrapped) or the database's exact comparison.  *)
FieldCmp(field, a, b, inGo) ==
  LET pa == plugins[a]
      pb == plugins[b]
  IN  CASE field = "id"       -> Sign(a - b)
        [] field = "name"     -> Sign(pa.name - pb.name)
        [] field = "status"   -> Sign(pa.status - pb.status)
        [] field = "priority" -> IF inGo THEN WrapInt(pa.priority - pb.priority)
                                 ELSE Sign(pa.priority - pb.priority)

(* a sorts before b under an explicit order: the first field that differs  *)
(* decides, in its direction.                                              *)
RECURSIVE Before(_, _, _, _)
Before(order, a, b, inGo) ==
  IF order = <<>> THEN FALSE
  ELSE LET r == FieldCmp(Head(order).field, a, b, inGo) IN
       IF r # 0 THEN IF Head(order).desc THEN r > 0 ELSE r < 0
       ELSE Before(Tail(order), a, b, inGo)

(* Variant: the default order with the priority comparison reversed.       *)
LessDefaultAsc(order, a, b) ==
  IF order # <<>> THEN Before(order, a, b, TRUE)
  ELSE IF plugins[a].priority # plugins[b].priority
       THEN plugins[a].priority < plugins[b].priority
       ELSE plugins[a].name < plugins[b].name

(* The less function sortPlugins gives sort.Slice: priority DESC, name ASC *)
(* by default, the caller's order otherwise.                               *)
Less(order, a, b) ==
  IF order # <<>> THEN Before(order, a, b, TRUE)
  ELSE IF plugins[a].priority # plugins[b].priority
       THEN plugins[a].priority > plugins[b].priority
       ELSE plugins[a].name < plugins[b].name

(* sort.Slice sorts up to 12 elements by insertion sort: element i sinks   *)
(* left while it is less than its left neighbour.                          *)
RECURSIVE Sift(_, _, _)
Sift(s, j, order) ==
  IF j > 1 /\ Less(order, s[j], s[j - 1])
  THEN Sift([s EXCEPT ![j] = s[j - 1], ![j - 1] = s[j]], j - 1, order)
  ELSE s

RECURSIVE InsertionSort(_, _, _)
InsertionSort(s, i, order) ==
  IF i > Len(s) THEN s ELSE InsertionSort(Sift(s, i, order), i + 1, order)

(* The in-memory applyPagination: an offset at or past the end gives an    *)
(* empty page, otherwise [offset, min(offset + limit, len)).               *)
MemPage(s, pg) ==
  IF pg = NONE THEN s
  ELSE IF pg.offset >= Len(s) THEN <<>>
  ELSE SubSeq(s, pg.offset + 1, Min({pg.offset + pg.limit, Len(s)}))

(* The in-memory Find (FindAll is Find with a nil filter): the matching    *)
(* rows in map iteration order, which Go leaves random, sorted, paged.     *)
MemFind(q) ==
  { MemPage(InsertionSort(s, 2, q.order), q.page) :
      s \in SetToSeqs({i \in DOMAIN plugins : MatchesFilter(i, q.filter)}) }

SqlOrder(q) ==
  IF q.order = <<>>
  THEN <<[field |-> "priority", desc |-> TRUE], [field |-> "name", desc |-> FALSE]>>
  ELSE q.order

(* The SQL find: ORDER BY the fields (rows equal on all of them come in    *)
(* any order); a limit <= 0 becomes DefaultLimit and a negative offset 0.  *)
SqlFind(q) ==
  LET lim == IF q.page # NONE /\ q.page.limit > 0 THEN q.page.limit ELSE DefaultLimit
      off == IF q.page # NONE /\ q.page.offset > 0 THEN q.page.offset ELSE 0
      Page(s) == IF q.page = NONE THEN s
                 ELSE SubSeq(s, off + 1, Min({off + lim, Len(s)}))
  IN  { Page(s) : s \in {r \in SetToSeqs({i \in DOMAIN plugins : SqlFilter(i, q.filter)}) :
                            \A k \in 1..Len(r) - 1 :
                              ~Before(SqlOrder(q), r[k + 1], r[k], FALSE)} }

-----------------------------------------------------------------------------
RegistryTypeOK ==
  /\ DOMAIN plugins \subseteq Nat /\ \A i \in DOMAIN plugins : plugins[i] \in Plugin
  /\ backend \in Backends
  /\ counter \in Nat /\ saves \in 0..MaxSaves
  /\ lastCall \in Call

(* A Save of a new plugin (ID 0) adds one row and leaves every existing    *)
(* plugin as it was: the ID it assigns is fresh (spec 3, "numeric ID unique,*)
(* stable").                                                               *)
NewPluginKeepsOthers ==
  [][(lastCall'.op = "save" /\ lastCall'.id = 0)
       => \A i \in DOMAIN plugins : i \in DOMAIN plugins' /\ plugins'[i] = plugins[i]]_vars

(* The in-memory repository answers every Find as the SQL repositories can *)
(* answer it over the same rows: the same filter semantics, the default    *)
(* order priority DESC then name ASC (spec 6), the caller's orders, and    *)
(* the same page; rows tied on every sort field come in any order in       *)
(* both (Go's map iteration, SQL's unspecified order).                     *)
QueryBackendsAgree == \A q \in Queries : MemFind(q) = SqlFind(q)

(* The IDs Save can reach: the explicit ones, and one new ID per Save.     *)
IDBound == 1..(MaxSaves + Max(ExplicitIDs \cup {0}))

Abs == INSTANCE RegistryAbstract
         WITH table <- plugins, call <- lastCall, Plugins <- Plugin, IDSpace <- IDBound

(* Save and Delete implement RegistryAbstract: a new plugin gets a non-zero *)
(* ID that holds no plugin and Save reports that ID, a Save with an ID     *)
(* replaces only that row, a failed Save changes nothing, and Delete       *)
(* removes exactly its row (spec 3, "numeric ID unique, stable").          *)
RegistryRefinement == Abs!Spec
=============================================================================
