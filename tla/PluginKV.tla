------------------------------ MODULE PluginKV ------------------------------
(***************************************************************************)
(* What the host `storage` capability promises a plugin (spec 4.3, 4.4,    *)
(* 8.1, 8.2, 8.8): each plugin owns a key/value map over natural keys      *)
(* (key, entity type?, entity ID?); Set overwrites, Get returns the last   *)
(* payload Set for exactly that natural key, Delete removes it, and        *)
(* DeleteByPlugin empties one plugin's map and touches no other.           *)
(*                                                                         *)
(* resp is the last response returned to a plugin; it names the plugin and *)
(* the natural key asked for, so that a payload of another plugin or key   *)
(* cannot pass for it.                                                     *)
(*                                                                         *)
(* A relational backend may fail (spec 4.4, "Failure model").  A call that *)
(* fails answers Failed: a Get or List has changed nothing, while a Set or *)
(* Delete may have taken effect or not (a statement can commit and its     *)
(* reply still be an error), but it has touched no other key.              *)
(***************************************************************************)
CONSTANTS PluginIDs, Keys, EntityTypes, EntityIDs, Payloads, NONE,
          Prefixes    \* key prefixes a List may ask for

VARIABLES kv, resp

Tuples == Keys \X (EntityTypes \cup {NONE}) \X (EntityIDs \cup {NONE})

GetResp(p, t, v) ==
  [plugin |-> p, op |-> "get", tuple |-> t, found |-> v # NONE, payload |-> v]
Ack(p, op, t) ==
  [plugin |-> p, op |-> op, tuple |-> t, found |-> FALSE, payload |-> NONE]

(* Keys are one-character strings, so strings.HasPrefix(k, pre) holds iff  *)
(* pre is k or "".                                                         *)
HasPrefix(k, pre) == pre \in {k, ""}

(* A List request: an optional key prefix and an optional entity filter    *)
(* (type?, id?) compared absent-to-absent (spec 4.3, 4.4).                 *)
ListReqs ==
  {q \in [prefix : Prefixes \cup {NONE}, filtered : BOOLEAN,
          entityType : EntityTypes \cup {NONE}, entityID : EntityIDs \cup {NONE}] :
     q.filtered \/ (q.entityType = NONE /\ q.entityID = NONE)}

ListMatch(t, q) ==
  /\ q.prefix = NONE \/ HasPrefix(t[1], q.prefix)
  /\ ~q.filtered \/ (t[2] = q.entityType /\ t[3] = q.entityID)

Failed(p, op, t) == [plugin |-> p, op |-> op, tuple |-> t, failed |-> TRUE]

ListResp(p, q, es) == [plugin |-> p, op |-> "list", req |-> q, entries |-> es]

Init ==
  /\ kv = [p \in PluginIDs |-> [t \in Tuples |-> NONE]]
  /\ resp = NONE

Get(p, t) ==
  /\ resp' = GetResp(p, t, kv[p][t])
  /\ UNCHANGED kv

Set(p, t, v) ==
  /\ resp' = Ack(p, "set", t)
  /\ kv' = [kv EXCEPT ![p][t] = v]

Delete(p, t) ==
  /\ resp' = Ack(p, "delete", t)
  /\ kv' = [kv EXCEPT ![p][t] = NONE]

(* List: every stored entry of the plugin that matches, unordered.         *)
List(p, q) ==
  /\ resp' = ListResp(p, q, {<<t, kv[p][t]>> : t \in {u \in Tuples :
                                 kv[p][u] # NONE /\ ListMatch(u, q)}})
  /\ UNCHANGED kv

GetFailed(p, t) ==
  /\ resp' = Failed(p, "get", t)
  /\ UNCHANGED kv

ListFailed(p) ==
  /\ resp' = Failed(p, "list", NONE)
  /\ UNCHANGED kv

SetFailed(p, t, v) ==
  /\ resp' = Failed(p, "set", t)
  /\ kv' \in {kv, [kv EXCEPT ![p][t] = v]}

DeleteFailed(p, t) ==
  /\ resp' = Failed(p, "delete", t)
  /\ kv' \in {kv, [kv EXCEPT ![p][t] = NONE]}

DeleteByPlugin(p) ==
  /\ UNCHANGED resp
  /\ kv' = [kv EXCEPT ![p] = [t \in Tuples |-> NONE]]

Next ==
  \E p \in PluginIDs :
    \/ DeleteByPlugin(p)
    \/ \E t \in Tuples :
         \/ Get(p, t) \/ GetFailed(p, t)
         \/ Delete(p, t) \/ DeleteFailed(p, t)
         \/ \E v \in Payloads : Set(p, t, v) \/ SetFailed(p, t, v)
    \/ \E q \in ListReqs : List(p, q)
    \/ ListFailed(p)

Spec == Init /\ [][Next]_<<kv, resp>>
=============================================================================
