-------------------------- MODULE RegistryAbstract --------------------------
(***************************************************************************)
(* What the plugin registry promises its callers (spec 3, "numeric         *)
(* host-side ID, unique, stable"): a table from IDs to plugins.            *)
(*                                                                         *)
(*   Save with an ID    stores the plugin under that ID, replacing the row *)
(*                      with that ID and no other;                         *)
(*   Save without one   stores it under a non-zero ID that holds no plugin *)
(*                      and reports that ID;                               *)
(*   Delete(id)         removes the row with that ID, if any.              *)
(*                                                                         *)
(* A call that returns an error may have taken its effect or not (the      *)
(* statement can commit before the error), but it never touches a row a   *)
(* successful call would not have touched; a failed Save reports the ID    *)
(* its caller passed.                                                      *)
(*                                                                         *)
(* call is the last call with the ID its caller passed, the ID it reports  *)
(* (plugin.ID after Save) and whether it returned an error.                *)
(***************************************************************************)
EXTENDS TLC

CONSTANTS Plugins,   \* the plugin rows
          IDSpace    \* the IDs a table may use (non-zero)

VARIABLES table, call

Init ==
  /\ table = <<>>
  /\ call = [op |-> "none", id |-> 0, assigned |-> 0, err |-> FALSE]

SaveAt(id, p) ==
  /\ id # 0
  /\ table' = (id :> p) @@ table
  /\ call' = [op |-> "save", id |-> id, assigned |-> id, err |-> FALSE]

SaveNew(p) ==
  \E i \in IDSpace \ DOMAIN table :
    /\ table' = (i :> p) @@ table
    /\ call' = [op |-> "save", id |-> 0, assigned |-> i, err |-> FALSE]

SaveFailed(id, p) ==
  /\ call' = [op |-> "save", id |-> id, assigned |-> id, err |-> TRUE]
  /\ \/ UNCHANGED table
     \/ id # 0 /\ table' = (id :> p) @@ table
     \/ id = 0 /\ \E i \in IDSpace \ DOMAIN table : table' = (i :> p) @@ table

Delete(id) ==
  /\ table' = [i \in DOMAIN table \ {id} |-> table[i]]
  /\ call' = [op |-> "delete", id |-> id, assigned |-> 0, err |-> FALSE]

DeleteFailed(id) ==
  /\ table' \in {table, [i \in DOMAIN table \ {id} |-> table[i]]}
  /\ call' = [op |-> "delete", id |-> id, assigned |-> 0, err |-> TRUE]

Next ==
  \/ \E p \in Plugins : SaveNew(p)
  \/ \E id \in IDSpace, p \in Plugins : SaveAt(id, p)
  \/ \E id \in {0} \cup IDSpace, p \in Plugins : SaveFailed(id, p)
  \/ \E id \in IDSpace : Delete(id) \/ DeleteFailed(id)

Spec == Init /\ [][Next]_<<table, call>>
=============================================================================
