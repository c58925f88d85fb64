---------------------------- MODULE SqlStorage ----------------------------
(***************************************************************************)
(* The host storage library over the SQL plugin storage repositories       *)
(* (internal/repositories/sqlite/plugin_storage.go; the mysql one has the  *)
(* same statements and control flow).                                     *)
(*                                                                         *)
(* The table is `rows` (row ID -> row) with an auto-increment counter      *)
(* lastID.  Each statement is atomic; nothing wraps two statements in a    *)
(* transaction.  A session is one caller of the repository: a plugin's     *)
(* storage service (whose calls its WASM instance serialises) or any other *)
(* host code acting for the same plugin ID, all entry points being safe    *)
(* for concurrent use (spec 5).  Save is two statements (the SELECT of     *)
(* findExistingEntryID, then UPDATE or INSERT), and the library's Delete   *)
(* is two (Find, then DELETE by ID), so a session has a program counter    *)
(* pc[s] between them.                                                     *)
(*                                                                         *)
(* squirrel's sq.Eq turns a nil pointer into "IS NULL", so a nil entity    *)
(* type or ID matches only NULL columns: NONE is compared as a value.      *)
(*                                                                         *)
(* Every statement can fail (spec 4.4, "Failure model").  A failed SELECT  *)
(* has changed nothing; a failed UPDATE, INSERT or DELETE may have         *)
(* committed before its error came back (a cancelled context, or in mysql  *)
(* a LastInsertId error after the INSERT).  failures counts them, up to    *)
(* MaxFailures.  The error paths of the sqlite and the mysql repository    *)
(* are the same; the map names the mysql ones.                             *)
(***************************************************************************)
EXTENDS Naturals, FiniteSets, FiniteSetsExt, TLC

CONSTANTS
  PluginIDs, Keys, EntityTypes, EntityIDs, Payloads, NONE,
  Sessions,        \* concurrent callers of the repository
  SessionPlugin,   \* SessionPlugin[s]: the plugin ID session s acts for
  MaxInserts,      \* bound on the rows ever inserted (auto-increment IDs)
  Prefixes,        \* key prefixes a List may ask for
  MaxFailures      \* bound on the statements that fail

ASSUME SessionPlugin \in [Sessions -> PluginIDs] /\ MaxInserts \in Nat
ASSUME MaxFailures \in Nat

VARIABLES rows, lastID, pc, resp, failures

vars == <<rows, lastID, pc, resp, failures>>

Tuples == Keys \X (EntityTypes \cup {NONE}) \X (EntityIDs \cup {NONE})
RowIDs == 1..MaxInserts

Row == [pluginID : PluginIDs, key : Keys, entityType : EntityTypes \cup {NONE},
        entityID : EntityIDs \cup {NONE}, payload : Payloads]

GetResp(p, t, v) ==
  [plugin |-> p, op |-> "get", tuple |-> t, found |-> v # NONE, payload |-> v]
Ack(p, op, t) ==
  [plugin |-> p, op |-> op, tuple |-> t, found |-> FALSE, payload |-> NONE]
Failed(p, op, t) == [plugin |-> p, op |-> op, tuple |-> t, failed |-> TRUE]

CanFail == failures < MaxFailures

(* Variant: a nil pointer rendered as "= NULL", which is never true.       *)
MatchesEqNull(r, p, t) ==
  /\ r.pluginID = p /\ r.key = t[1]
  /\ t[2] # NONE /\ r.entityType = t[2]
  /\ t[3] # NONE /\ r.entityID = t[3]

(* The WHERE of findExistingEntryID: sq.Eq on the four columns.            *)
Matches(r, p, t) ==
  /\ r.pluginID = p /\ r.key = t[1]
  /\ r.entityType = t[2] /\ r.entityID = t[3]

(* findExistingEntryID with entry.ID = 0: SELECT id ... LIMIT 1 without    *)
(* ORDER BY, so any matching row; 0 on sql.ErrNoRows.                      *)
ExistingChoices(p, t) ==
  LET S == {i \in DOMAIN rows : Matches(rows[i], p, t)}
  IN  IF S = {} THEN {0} ELSE S

(* Variant: filterToSq without the entity-pair disjunction.                *)
FilterToSqNoPairs(r, f) ==
  /\ f.pluginIDs = {} \/ r.pluginID \in f.pluginIDs
  /\ f.keys = {} \/ r.key \in f.keys

(* filterToSq: the conjunction of the fields set in the filter; the entity *)
(* pairs are a disjunction of (entity_type = ? AND entity_id = ?).         *)
FilterToSq(r, f) ==
  /\ f.pluginIDs = {} \/ r.pluginID \in f.pluginIDs
  /\ f.keys = {} \/ r.key \in f.keys
  /\ f.pairs = {} \/ \E pr \in f.pairs : r.entityType = pr[1] /\ r.entityID = pr[2]

(* find with the default "id ASC" order and Limit 1.                       *)
FindFirst(f) ==
  LET S == {i \in DOMAIN rows : FilterToSq(rows[i], f)}
  IN  IF S = {} THEN NONE ELSE Min(S)

(* The filter the storage library's Get and Delete build.                  *)
KeyFilter(p, t) == [pluginIDs |-> {p}, keys |-> {t[1]}, pairs |-> {<<t[2], t[3]>>}]

(* strings.HasPrefix for one-character keys.                               *)
HasPrefix(k, pre) == pre \in {k, ""}

(* List's request: KeyPrefix, and EntityType/EntityId as the guest sent    *)
(* them (filtered: one of them is set).                                    *)
ListReqs ==
  {q \in [prefix : Prefixes \cup {NONE}, filtered : BOOLEAN,
          entityType : EntityTypes \cup {NONE}, entityID : EntityIDs \cup {NONE}] :
     q.filtered \/ (q.entityType = NONE /\ q.entityID = NONE)}

(* The filter List builds: this plugin, and one entity pair when the       *)
(* request carries an entity type or ID.                                   *)
ListFilter(p, q) ==
  [pluginIDs |-> {p}, keys |-> {},
   pairs |-> IF q.filtered THEN {<<q.entityType, q.entityID>>} ELSE {}]

Idle(s) == pc[s] = NONE

(* The inserts already made or decided on: a Save starts only while the    *)
(* counter can take all of them (the bound of the model, not of the code). *)
Reserved == lastID + Cardinality({s \in Sessions : pc[s] # NONE /\ pc[s].op = "set"})

Init ==
  /\ rows = <<>>
  /\ lastID = 0
  /\ pc = [s \in Sessions |-> NONE]
  /\ resp = NONE
  /\ failures = 0

(* StorageServiceImpl.Get: one SELECT.                                     *)
Get(s, t) ==
  LET p == SessionPlugin[s]
      x == FindFirst(KeyFilter(p, t))
  IN  /\ Idle(s)
      /\ resp' = GetResp(p, t, IF x = NONE THEN NONE ELSE rows[x].payload)
      /\ UNCHANGED <<rows, lastID, pc, failures>>

(* StorageServiceImpl.List: one SELECT in "id ASC" order with no LIMIT,  *)
(* then the rows whose key has the prefix.  The response is the set of     *)
(* (natural key, payload) it returns.                                      *)
List(s, q) ==
  LET p == SessionPlugin[s]
  IN  /\ Idle(s)
      /\ resp' = [plugin |-> p, op |-> "list", req |-> q,
                  entries |-> {<<<<rows[i].key, rows[i].entityType, rows[i].entityID>>,
                                 rows[i].payload>> :
                               i \in {j \in DOMAIN rows :
                                       /\ FilterToSq(rows[j], ListFilter(p, q))
                                       /\ q.prefix = NONE \/ HasPrefix(rows[j].key, q.prefix)}}]
      /\ UNCHANGED <<rows, lastID, pc, failures>>

(* Variant: any error of the SELECT taken as "no row" (return 0, nil).     *)
OnSelectErrorAsNoRows(s, t, v) ==
  /\ pc' = [pc EXCEPT ![s] = [op |-> "set", tuple |-> t, payload |-> v, id |-> 0]]
  /\ UNCHANGED resp

(* Save's early return when findExistingEntryID fails with an error other  *)
(* than sql.ErrNoRows: Set answers Success false and nothing is written.   *)
OnSelectError(s, t, v) ==
  /\ resp' = Failed(SessionPlugin[s], "set", t)
  /\ UNCHANGED pc

(* StorageServiceImpl.Set -> Save, first statement: findExistingEntryID,   *)
(* which finds a row, finds none, or fails.                                *)
SaveSelect(s, t, v) ==
  /\ Idle(s)
  /\ Reserved < MaxInserts
  /\ \/ /\ \E x \in ExistingChoices(SessionPlugin[s], t) :
             pc' = [pc EXCEPT ![s] = [op |-> "set", tuple |-> t, payload |-> v, id |-> x]]
        /\ UNCHANGED <<resp, failures>>
     \/ /\ CanFail
        /\ failures' = failures + 1
        /\ OnSelectError(s, t, v)
  /\ UNCHANGED <<rows, lastID>>

(* The table after Save's second statement: update sets payload (and       *)
(* updated_at) WHERE id, whether or not the row still exists; insert takes *)
(* the next auto-increment ID.                                             *)
Written(c, p) ==
  IF c.id > 0
  THEN [rows |-> [i \in DOMAIN rows |->
                   IF i = c.id THEN [rows[i] EXCEPT !.payload = c.payload]
                               ELSE rows[i]],
        lastID |-> lastID]
  ELSE [rows |-> (lastID + 1 :> [pluginID |-> p, key |-> c.tuple[1],
                                 entityType |-> c.tuple[2],
                                 entityID |-> c.tuple[3],
                                 payload |-> c.payload]) @@ rows,
        lastID |-> lastID + 1]

(* Save, second statement, succeeding: Set answers Success true.           *)
SaveWrite(s) ==
  LET c == pc[s]
      p == SessionPlugin[s]
  IN  /\ c # NONE /\ c.op = "set"
      /\ rows' = Written(c, p).rows
      /\ lastID' = Written(c, p).lastID
      /\ pc' = [pc EXCEPT ![s] = NONE]
      /\ resp' = Ack(p, "set", c.tuple)
      /\ UNCHANGED failures

(* Save, second statement, returning an error: Set answers Success false.  *)
(* The UPDATE or INSERT may have committed before the error (ExecContext   *)
(* under a cancelled context; in mysql also LastInsertId after the INSERT).*)
SaveWriteFails(s) ==
  LET c == pc[s]
      p == SessionPlugin[s]
  IN  /\ c # NONE /\ c.op = "set"
      /\ CanFail
      /\ \E w \in {[rows |-> rows, lastID |-> lastID], Written(c, p)} :
           /\ rows' = w.rows
           /\ lastID' = w.lastID
      /\ pc' = [pc EXCEPT ![s] = NONE]
      /\ resp' = Failed(p, "set", c.tuple)
      /\ failures' = failures + 1

(* Variant: a failed Find taken as an empty result: Get answers not found, *)
(* Delete answers success.                                                 *)
FindFailsAsEmpty(s, op, t) ==
  LET p == SessionPlugin[s]
  IN  /\ Idle(s)
      /\ CanFail
      /\ resp' = CASE op = "get"    -> GetResp(p, t, NONE)
                    [] op = "delete" -> Ack(p, "delete", t)
                    [] OTHER         -> Failed(p, op, t)
      /\ failures' = failures + 1
      /\ UNCHANGED <<rows, lastID, pc>>

(* find fails (QueryContext, Scan or rows.Err): Get, List and the Find of  *)
(* Delete return the error to the guest; nothing was written.              *)
FindFails(s, op, t) ==
  /\ Idle(s)
  /\ CanFail
  /\ resp' = Failed(SessionPlugin[s], op, t)
  /\ failures' = failures + 1
  /\ UNCHANGED <<rows, lastID, pc>>

(* StorageServiceImpl.Delete, first statement: Find with Limit 1; nothing  *)
(* found returns success at once.                                          *)
(* Variant: the len(entries) == 0 early return dropped.                    *)
DeleteFindNoEarlyReturn(s, t) ==
  /\ Idle(s)
  /\ pc' = [pc EXCEPT ![s] = [op |-> "delete", tuple |-> t, payload |-> NONE,
                              id |-> FindFirst(KeyFilter(SessionPlugin[s], t))]]
  /\ UNCHANGED <<rows, lastID, resp, failures>>

DeleteFind(s, t) ==
  LET p == SessionPlugin[s]
      x == FindFirst(KeyFilter(p, t))
  IN  /\ Idle(s)
      /\ IF x = NONE
         THEN /\ resp' = Ack(p, "delete", t)
              /\ UNCHANGED pc
         ELSE /\ pc' = [pc EXCEPT ![s] = [op |-> "delete", tuple |-> t,
                                          payload |-> NONE, id |-> x]]
              /\ UNCHANGED resp
      /\ UNCHANGED <<rows, lastID, failures>>

(* ... second statement: DELETE WHERE id.                                  *)
DeleteByID(s) ==
  LET c == pc[s]
  IN  /\ c # NONE /\ c.op = "delete"
      /\ rows' = [i \in DOMAIN rows \ {c.id} |-> rows[i]]
      /\ resp' = Ack(SessionPlugin[s], "delete", c.tuple)
      /\ pc' = [pc EXCEPT ![s] = NONE]
      /\ UNCHANGED <<lastID, failures>>

(* ... the DELETE WHERE id returning an error, after committing or not.    *)
DeleteByIDFails(s) ==
  LET c == pc[s]
  IN  /\ c # NONE /\ c.op = "delete"
      /\ CanFail
      /\ rows' \in {rows, [i \in DOMAIN rows \ {c.id} |-> rows[i]]}
      /\ resp' = Failed(SessionPlugin[s], "delete", c.tuple)
      /\ pc' = [pc EXCEPT ![s] = NONE]
      /\ failures' = failures + 1
      /\ UNCHANGED lastID

(* DeleteByPlugin (plugin uninstall).  The code has no such guard; the    *)
(* model issues it only when no session of the plugin is inside a call.   *)
(* Its caller is not in this repository, and a DELETE that lands between  *)
(* a session's two statements ends in a state some order of the whole     *)
(* calls also reaches, but not step by step as KVRefinement checks.        *)
Purge(p) ==
  /\ \A s \in Sessions : SessionPlugin[s] = p => Idle(s)
  /\ rows' = [i \in {j \in DOMAIN rows : rows[j].pluginID # p} |-> rows[i]]
  /\ UNCHANGED <<lastID, pc, resp, failures>>

Next ==
  \/ \E p \in PluginIDs : Purge(p)
  \/ \E s \in Sessions :
       \/ SaveWrite(s) \/ SaveWriteFails(s)
       \/ DeleteByID(s) \/ DeleteByIDFails(s)
       \/ \E q \in ListReqs : List(s, q)
       \/ FindFails(s, "list", NONE)
       \/ \E t \in Tuples :
            \/ Get(s, t)
            \/ DeleteFind(s, t)
            \/ \E op \in {"get", "delete"} : FindFails(s, op, t)
            \/ \E v \in Payloads : SaveSelect(s, t, v)

Spec == Init /\ [][Next]_vars

-----------------------------------------------------------------------------
SqlTypeOK ==
  /\ DOMAIN rows \subseteq RowIDs /\ \A i \in DOMAIN rows : rows[i] \in Row
  /\ lastID \in 0..MaxInserts
  /\ \A s \in Sessions :
       pc[s] = NONE
       \/ pc[s] \in [op : {"set", "delete"}, tuple : Tuples,
                     payload : Payloads \cup {NONE}, id : {0} \cup RowIDs]
  /\ resp = NONE
     \/ resp \in [plugin : PluginIDs, op : {"get", "set", "delete"},
                  tuple : Tuples, found : BOOLEAN, payload : Payloads \cup {NONE}]
     \/ resp \in [plugin : PluginIDs, op : {"list"}, req : ListReqs,
                  entries : SUBSET (Tuples \X Payloads)]
     \/ resp \in [plugin : PluginIDs, op : {"get", "set", "delete"}, tuple : Tuples,
                  failed : {TRUE}]
     \/ resp \in [plugin : PluginIDs, op : {"list"}, tuple : {NONE}, failed : {TRUE}]
  /\ failures \in 0..MaxFailures

(* No two rows share the natural key (plugin, key, entity type, entity     *)
(* ID), with NULL equal to NULL: Save's SELECT-then-INSERT must never add  *)
(* a second row for a tuple (spec 4.4, "the four-tuple is unique").        *)
NaturalKeyUnique ==
  \A i, j \in DOMAIN rows :
    i # j => ~(/\ rows[i].pluginID = rows[j].pluginID
               /\ rows[i].key = rows[j].key
               /\ rows[i].entityType = rows[j].entityType
               /\ rows[i].entityID = rows[j].entityID)

(* The map a plugin sees: the payload of the lowest-ID row of its tuple.   *)
KVView ==
  [p \in PluginIDs |-> [t \in Tuples |->
     LET S == {i \in DOMAIN rows :
                 <<rows[i].pluginID, rows[i].key, rows[i].entityType,
                   rows[i].entityID>> = <<p, t[1], t[2], t[3]>>}
     IN  IF S = {} THEN NONE ELSE rows[Min(S)].payload]]

KV == INSTANCE PluginKV WITH kv <- KVView, resp <- resp

(* The storage library over the SQL repository implements PluginKV: Get    *)
(* returns what the same plugin last Set for exactly that natural key,     *)
(* NULL entity fields included, across the two statements of Save and of   *)
(* Delete (spec 8.1, 8.2, 8.8).                                            *)
KVRefinement == KV!Spec
=============================================================================
