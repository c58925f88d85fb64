--------------------------- MODULE StorageLibrary ---------------------------
(***************************************************************************)
(* The host `storage` capability (internal/plugin/hostlibrary/storage.go)  *)
(* over the in-memory repository.  Each loaded plugin has its own          *)
(* StorageServiceImpl bound to its numeric ID; calls of one plugin are     *)
(* serialised by its WASM instance, calls of different plugins interleave. *)
(* Get and Set are one repository call each; Delete is two (Find, then     *)
(* Delete by ID), each its own critical section, so pending[p] holds the   *)
(* ID found between them.                                                  *)
(*                                                                         *)
(* Beside the plugins, a host-side caller may DeleteByPlugin (uninstall).  *)
(***************************************************************************)
EXTENDS PluginStorage

CONSTANT Prefixes   \* key prefixes a List may ask for

VARIABLES
  resp,     \* the last response returned to a plugin
  pending   \* pending[p]: [id, tuple] between Delete's Find and Delete

vars == <<repoVars, resp, pending>>

Tuples == Keys \X OptTypes \X OptIDs

TupleOf(e) == <<e.pluginID, e.key, e.entityType, e.entityID>>

GetResp(p, t, v) ==
  [plugin |-> p, op |-> "get", tuple |-> t, found |-> v # NONE, payload |-> v]
Ack(p, op, t) ==
  [plugin |-> p, op |-> op, tuple |-> t, found |-> FALSE, payload |-> NONE]

(* The filter Get and Delete build: this plugin, this key, this entity     *)
(* pair (entityTypeFromProto has already mapped UNSPECIFIED to nil).       *)
(* Variant: the filter without the entity pair.                            *)
KeyFilterNoPair(p, t) ==
  [ids |-> {}, pluginIDs |-> {p}, keys |-> {t[1]}, pairs |-> {}]

KeyFilter(p, t) ==
  [ids |-> {}, pluginIDs |-> {p}, keys |-> {t[1]}, pairs |-> {<<t[2], t[3]>>}]

Idle(p) == pending[p] = NONE

(* strings.HasPrefix for one-character keys.                               *)
HasPrefix(k, pre) == pre \in {k, ""}

(* List's request: KeyPrefix, and EntityType/EntityId as the guest sent    *)
(* them (filtered: one of them is set; entityTypeFromProto has mapped      *)
(* UNSPECIFIED to nil).                                                    *)
ListReqs ==
  {q \in [prefix : Prefixes \cup {NONE}, filtered : BOOLEAN,
          entityType : OptTypes, entityID : OptIDs] :
     q.filtered \/ (q.entityType = NONE /\ q.entityID = NONE)}

(* Variant: the entity ID of the request dropped from the pair.           *)
ListFilterNoID(p, q) ==
  [ids |-> {}, pluginIDs |-> {p}, keys |-> {},
   pairs |-> IF q.filtered THEN {<<q.entityType, NONE>>} ELSE {}]

(* The filter List builds: this plugin, and one entity pair when the       *)
(* request carries an entity type or ID.                                   *)
ListFilter(p, q) ==
  [ids |-> {}, pluginIDs |-> {p}, keys |-> {},
   pairs |-> IF q.filtered THEN {<<q.entityType, q.entityID>>} ELSE {}]

Init ==
  /\ RepoInit
  /\ resp = NONE
  /\ pending = [p \in PluginIDs |-> NONE]

(* StorageServiceImpl.Get: Find with Limit 1 (lowest ID first).            *)
Get(p, t) ==
  /\ Idle(p)
  /\ LET x == FindFirst(KeyFilter(p, t))
     IN  resp' = GetResp(p, t, IF x = NONE THEN NONE ELSE entries[x].payload)
  /\ UNCHANGED <<repoVars, pending>>

(* StorageServiceImpl.List: Find with no order and no pagination (all     *)
(* matches, by ID), then the entries whose key has the prefix.  The        *)
(* response is the set of (natural key, payload) it returns.               *)
List(p, q) ==
  /\ Idle(p)
  /\ resp' = [plugin |-> p, op |-> "list", req |-> q,
              entries |-> {<<<<entries[i].key, entries[i].entityType, entries[i].entityID>>,
                             entries[i].payload>> :
                           i \in {j \in FilteredIDs(ListFilter(p, q)) :
                                    q.prefix = NONE \/ HasPrefix(entries[j].key, q.prefix)}}]
  /\ UNCHANGED <<repoVars, pending>>

(* StorageServiceImpl.Set: Save of a fresh entry (ID 0, no createdAt).     *)
Set(p, t, v) ==
  /\ Idle(p)
  /\ Save(0, [pluginID |-> p, key |-> t[1], entityType |-> t[2],
              entityID |-> t[3], payload |-> v, createdAt |-> NONE])
  /\ resp' = Ack(p, "set", t)
  /\ UNCHANGED pending

(* StorageServiceImpl.Delete, first critical section: Find with Limit 1;   *)
(* nothing found returns success at once.                                  *)
(* Variant: the len(entries) == 0 early return dropped.                    *)
DeleteFindNoEarlyReturn(p, t) ==
  /\ Idle(p)
  /\ pending' = [pending EXCEPT ![p] = [id |-> FindFirst(KeyFilter(p, t)), tuple |-> t]]
  /\ UNCHANGED <<repoVars, resp>>

DeleteFind(p, t) ==
  /\ Idle(p)
  /\ LET x == FindFirst(KeyFilter(p, t))
     IN  IF x = NONE
         THEN /\ resp' = Ack(p, "delete", t)
              /\ UNCHANGED pending
         ELSE /\ pending' = [pending EXCEPT ![p] = [id |-> x, tuple |-> t]]
              /\ UNCHANGED resp
  /\ UNCHANGED repoVars

(* StorageServiceImpl.Delete, second critical section: Delete by the ID    *)
(* found, whatever happened to it in between.                              *)
DeleteByID(p) ==
  /\ pending[p] # NONE
  /\ Delete(pending[p].id)
  /\ resp' = Ack(p, "delete", pending[p].tuple)
  /\ pending' = [pending EXCEPT ![p] = NONE]

(* A host-side DeleteByPlugin (plugin uninstall).                          *)
Purge(p) ==
  /\ DeleteByPlugin(p)
  /\ UNCHANGED <<resp, pending>>

PluginStep(p) ==
  \/ DeleteByID(p)
  \/ \E t \in Tuples :
       \/ Get(p, t)
       \/ \E q \in ListReqs : List(p, q)
       \/ DeleteFind(p, t)
       \/ \E v \in Payloads : Set(p, t, v)

Next ==
  \E p \in PluginIDs : PluginStep(p) \/ Purge(p)

Spec == Init /\ [][Next]_vars

-----------------------------------------------------------------------------
LibTypeOK ==
  /\ RepoTypeOK
  /\ resp = NONE
     \/ resp \in [plugin : PluginIDs, op : {"get", "set", "delete"},
                 tuple : Tuples, found : BOOLEAN, payload : Payloads \cup {NONE}]
     \/ resp \in [plugin : PluginIDs, op : {"list"}, req : ListReqs,
                 entries : SUBSET (Tuples \X Payloads)]
  /\ \A p \in PluginIDs : pending[p] = NONE \/ pending[p] \in [id : IDs, tuple : Tuples]

(* The abstract map a plugin sees: the payload of the lowest-ID entry of   *)
(* the plugin with that natural key.                                       *)
KVView ==
  [p \in PluginIDs |-> [t \in Tuples |->
     LET S == {i \in DOMAIN entries : TupleOf(entries[i]) = <<p, t[1], t[2], t[3]>>}
     IN  IF S = {} THEN NONE ELSE entries[Min(S)].payload]]

KV == INSTANCE PluginKV WITH kv <- KVView, resp <- resp

(* The storage library with the in-memory repository implements PluginKV:  *)
(* every Get returns the payload last Set by the same plugin for the same  *)
(* natural key (or not found after a Delete or DeleteByPlugin), whatever   *)
(* the interleaving of the plugins and the host.  This is the upsert and   *)
(* isolation law of spec 8.1, 8.2 and 8.8, across Save's resolveEntryID,   *)
(* the index lookups of Find and Delete's two critical sections.           *)
KVRefinement == KV!Spec

(* An entry whose natural key a step leaves alone keeps its createdAt:     *)
(* Save's update paths must carry the first save's time over (spec 8.1).   *)
CreatedAtKept ==
  [][\A i \in DOMAIN entries \cap DOMAIN entries' :
       TupleOf(entries[i]) = TupleOf(entries'[i])
         => entries'[i].createdAt = entries[i].createdAt]_vars
=============================================================================
