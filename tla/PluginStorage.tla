--------------------------- MODULE PluginStorage ---------------------------
(***************************************************************************)
(* The in-memory plugin storage repository                                 *)
(* (internal/repositories/inmemory/plugin_storage.go).                     *)
(*                                                                         *)
(* A primary map entries (entry ID -> entry), the ID counter nextID and    *)
(* three secondary indexes (plugin ID, key, entity key -> set of IDs),     *)
(* all guarded by one RWMutex: every operation below is one critical      *)
(* section and hence one atomic step.  time.Now() is the logical clock     *)
(* `clock`, advanced by every Save and bounded by MaxClock.                *)
(*                                                                         *)
(* A Go nil pointer (a nil string or uint pointer) is the model value NONE. *)
(* Entity types are strings and entity IDs natural numbers, so that        *)
(* makeEntityKey can map NONE to the Go zero values "" and 0 as the code   *)
(* does.                                                                   *)
(***************************************************************************)
EXTENDS Naturals, FiniteSets, FiniteSetsExt, Functions, TLC

CONSTANTS
  PluginIDs,     \* numeric plugin IDs the storage is scoped by
  Keys,          \* storage keys
  EntityTypes,   \* entity type strings (never "")
  EntityIDs,     \* entity IDs (natural numbers)
  Payloads,      \* opaque payloads
  NONE,          \* a nil pointer / "no entry"
  MaxClock       \* bound on the number of Save calls

ASSUME "" \notin EntityTypes /\ EntityIDs \subseteq Nat /\ MaxClock \in Nat

VARIABLES entries, nextID, pluginIDIndex, keyIndex, entityIndex, clock

repoVars == <<entries, nextID, pluginIDIndex, keyIndex, entityIndex, clock>>

OptTypes == EntityTypes \cup {NONE}
OptIDs   == EntityIDs \cup {NONE}
IDs      == 1..MaxClock      \* every ID the counter can hand out
Times    == 0..MaxClock

Entry == [pluginID : PluginIDs, key : Keys, entityType : OptTypes,
          entityID : OptIDs, payload : Payloads,
          createdAt : Times \cup {NONE}]

(* makeEntityKey: a nil type or ID becomes the Go zero value.              *)
EntityKey(et, eid) ==
  << IF et = NONE THEN "" ELSE et, IF eid = NONE THEN 0 ELSE eid >>

PluginKeyOf(e) == e.pluginID
KeyOf(e)       == e.key
EntityKeyOf(e) == EntityKey(e.entityType, e.entityID)

IdxGet(idx, k) == IF k \in DOMAIN idx THEN idx[k] ELSE {}

(* addToIndexes, for one index: create the set if absent, add the ID.      *)
IndexAdd(idx, k, id) ==
  IF k \in DOMAIN idx THEN [idx EXCEPT ![k] = @ \cup {id}]
                      ELSE (k :> {id}) @@ idx

(* removeFromIndexes, for one index and the entries with IDs S (each       *)
(* removed from the set of its own index key), dropping sets that become   *)
(* empty.                                                                  *)
IndexDrop(idx, F(_), S) ==
  LET left == [k \in DOMAIN idx |-> idx[k] \ {i \in S : F(entries[i]) = k}]
  IN  RestrictDomain(left, LAMBDA k : left[k] # {})

(* Variant: removeFromIndexes that forgets the entity index.               *)
UnindexNoEntity(S) ==
  /\ pluginIDIndex' = IndexDrop(pluginIDIndex, PluginKeyOf, S)
  /\ keyIndex'      = IndexDrop(keyIndex, KeyOf, S)
  /\ entityIndex'   = entityIndex

(* Variant: ptrEqual comparing the pointers, not what they point to: two   *)
(* non-nil pointers are never equal.                                       *)
SameTupleByPointer(a, b) ==
  /\ a.key = b.key
  /\ a.entityType = NONE /\ b.entityType = NONE
  /\ a.entityID = NONE /\ b.entityID = NONE

(* The natural-key test of findExistingEntry (key, ptrEqual, ptrEqualUint). *)
SameTuple(a, b) ==
  /\ a.key = b.key
  /\ a.entityType = b.entityType
  /\ a.entityID = b.entityID

(* findExistingEntry: the entries reached through the plugin index that    *)
(* exist and match; the code returns the first one map iteration yields.   *)
ExistingIDs(e) ==
  {i \in IdxGet(pluginIDIndex, e.pluginID) :
      i \in DOMAIN entries /\ SameTuple(entries[i], e)}

(***************************************************************************)
(* Save(entry): resolveEntryID, then store a copy and index it.  `id` is   *)
(* entry.ID as the caller passes it (0: none), `e` the caller's fields.    *)
(* The stored entry is the caller's entry with the resolved ID and        *)
(* createdAt (UpdatedAt = now is left out: no property reads it).          *)
(***************************************************************************)
(* resolveEntryID, upsert path: the entry keeps the existing row's         *)
(* CreatedAt.  Variant: it takes the time of this Save.                    *)
UpsertCreatedAtNow(x) == clock + 1
UpsertCreatedAt(x) == entries[x].createdAt

Store(id, e, createdAt, old) ==
  LET saved == [e EXCEPT !.createdAt = createdAt]
      gone  == IF old THEN {id} ELSE {}
  IN  /\ entries' = (id :> saved) @@ entries
      /\ pluginIDIndex' = IndexAdd(IndexDrop(pluginIDIndex, PluginKeyOf, gone),
                                   saved.pluginID, id)
      /\ keyIndex' = IndexAdd(IndexDrop(keyIndex, KeyOf, gone), saved.key, id)
      /\ entityIndex' = IndexAdd(IndexDrop(entityIndex, EntityKeyOf, gone),
                                 EntityKeyOf(saved), id)

Save(id, e) ==
  /\ clock < MaxClock
  /\ clock' = clock + 1
  /\ \/ /\ id # 0                                  \* explicit ID: update by ID
        /\ Store(id, e, e.createdAt, id \in DOMAIN entries)
        /\ UNCHANGED nextID
     \/ /\ id = 0
        /\ \E x \in ExistingIDs(e) :              \* upsert of the natural key
              Store(x, e, UpsertCreatedAt(x), TRUE)
        /\ UNCHANGED nextID
     \/ /\ id = 0
        /\ ExistingIDs(e) = {}                     \* a new entry
        /\ nextID' = nextID + 1
        /\ Store(nextID + 1, e, clock + 1, FALSE)

(* Delete(id): unknown IDs are a no-op.                                    *)
Unindex(S) ==
  /\ pluginIDIndex' = IndexDrop(pluginIDIndex, PluginKeyOf, S)
  /\ keyIndex'      = IndexDrop(keyIndex, KeyOf, S)
  /\ entityIndex'   = IndexDrop(entityIndex, EntityKeyOf, S)

Delete(id) ==
  /\ Unindex({id} \cap DOMAIN entries)
  /\ entries' = RestrictDomain(entries, LAMBDA i : i # id)
  /\ UNCHANGED <<nextID, clock>>

(* DeleteByPlugin(p): every existing entry the plugin index lists.         *)
DeleteByPlugin(p) ==
  LET S == IdxGet(pluginIDIndex, p) \cap DOMAIN entries
  IN  /\ Unindex(S)
      /\ entries' = RestrictDomain(entries, LAMBDA i : i \notin S)
      /\ UNCHANGED <<nextID, clock>>

(***************************************************************************)
(* Find: getFilteredEntryIDs (a filter is a record of sets; an empty set   *)
(* is an absent field, an entity pair is <<type, id>>), kept to the IDs    *)
(* present in entries, sorted by ID.  FindFirst is Find with Limit 1.      *)
(***************************************************************************)
ByPlugins(P) == UNION {IdxGet(pluginIDIndex, p) : p \in P}
ByKeys(K)    == UNION {IdxGet(keyIndex, k) : k \in K}
ByPairs(R)   == UNION {IdxGet(entityIndex, EntityKey(r[1], r[2])) : r \in R}

Candidates(f) ==
  CASE f.ids # {}       -> f.ids \cap DOMAIN entries
    [] f.pluginIDs # {} -> ByPlugins(f.pluginIDs)
    [] f.keys # {}      -> ByKeys(f.keys)
    [] f.pairs # {}     -> ByPairs(f.pairs)
    [] OTHER            -> DOMAIN entries

FilteredIDs(f) ==
  LET c0 == Candidates(f)
      c1 == IF f.pluginIDs # {} /\ f.ids # {}
            THEN c0 \cap ByPlugins(f.pluginIDs) ELSE c0
      c2 == IF f.keys # {} /\ (f.ids # {} \/ f.pluginIDs # {})
            THEN c1 \cap ByKeys(f.keys) ELSE c1
      c3 == IF f.pairs # {} /\ (f.ids # {} \/ f.pluginIDs # {} \/ f.keys # {})
            THEN c2 \cap ByPairs(f.pairs) ELSE c2
  IN  c3 \cap DOMAIN entries

(* sortEntries with no order sorts by ID ascending, and applyPagination    *)
(* with Limit 1 keeps the first entry: the lowest ID, or nothing.          *)
FirstPage(S) == IF S = {} THEN NONE ELSE Min(S)

FindFirst(f) == FirstPage(FilteredIDs(f))

RepoInit ==
  /\ entries = <<>>
  /\ nextID = 0
  /\ pluginIDIndex = <<>>
  /\ keyIndex = <<>>
  /\ entityIndex = <<>>
  /\ clock = 0

-----------------------------------------------------------------------------
(* The type invariant of the repository.                                   *)
RepoTypeOK ==
  /\ DOMAIN entries \subseteq Nat /\ \A i \in DOMAIN entries : entries[i] \in Entry
  /\ nextID \in 0..MaxClock
  /\ clock \in Times
  /\ \A i \in DOMAIN pluginIDIndex : pluginIDIndex[i] \subseteq Nat
  /\ \A i \in DOMAIN keyIndex : keyIndex[i] \subseteq Nat
  /\ \A i \in DOMAIN entityIndex : entityIndex[i] \subseteq Nat

(* The index that entries induce through the key function F.               *)
Induced(F(_)) ==
  [k \in {F(entries[i]) : i \in DOMAIN entries} |->
      {i \in DOMAIN entries : F(entries[i]) = k}]

(* Every secondary index lists exactly the entries of the primary map,     *)
(* under the key each entry has now, and keeps no empty sets: what         *)
(* addToIndexes / removeFromIndexes must maintain across Save, Delete and  *)
(* DeleteByPlugin (spec 4.4, "indices in sync with the primary map").      *)
IndexesInSync ==
  /\ pluginIDIndex = Induced(PluginKeyOf)
  /\ keyIndex = Induced(KeyOf)
  /\ entityIndex = Induced(EntityKeyOf)

(* No two entries share the natural key (plugin, key, entity type, entity  *)
(* ID): Save's upsert via findExistingEntry must never insert a second row *)
(* for a tuple that already has one (spec 4.4, "the four-tuple is unique").*)
NaturalKeyUnique ==
  \A i, j \in DOMAIN entries :
    i # j => ~(/\ entries[i].pluginID = entries[j].pluginID
               /\ entries[i].key = entries[j].key
               /\ entries[i].entityType = entries[j].entityType
               /\ entries[i].entityID = entries[j].entityID)
=============================================================================
