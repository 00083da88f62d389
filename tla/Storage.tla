------------------------------ MODULE Storage ------------------------------
(***************************************************************************)
(* The two operations the contracts perform on a cw-storage-plus Map or    *)
(* IndexedMap.  A map is a TLA+ function whose DOMAIN is the set of keys   *)
(* that are present, so  may_load(k)  is a test of  k \in DOMAIN map  and  *)
(* load(k) of an absent key is an error of the handler (a guard of the     *)
(* action).  The secondary indexes of an IndexedMap are views of the same  *)
(* function and need no state of their own.                                *)
(***************************************************************************)
EmptyMap == [k \in {} |-> k]

(* save of every entry of  new,  over what map holds under the same keys *)
SaveAll(map, new) ==
  [k \in DOMAIN map \cup DOMAIN new |->
     IF k \in DOMAIN new THEN new[k] ELSE map[k]]

Save(map, key, value) == SaveAll(map, [k \in {key} |-> value])

Remove(map, keys) == [k \in DOMAIN map \ keys |-> map[k]]

(* may_load(key).unwrap_or(default) *)
LoadOr(map, key, default) == IF key \in DOMAIN map THEN map[key] ELSE default

============================================================================
