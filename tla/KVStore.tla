------------------------------ MODULE KVStore ------------------------------
(***************************************************************************)
(* What zig-caskdb promises its clients (src/zig-caskdb/src/db.zig, store, *)
(* load, open, close): a map that survives restarts, whose loads answer    *)
(* with what was stored last.  Two things release it from the promise: a   *)
(* key whose write was cut short is `unsure', and once clients have left   *)
(* the protocol of CaskDB the contract is `void'.                          *)
(***************************************************************************)
CONSTANTS Key, Val, NoAnswer

VARIABLES
  kv,      \* what is stored, as a function on the stored keys
  unsure,  \* the keys that may answer anything
  void,    \* nothing is promised any more
  answer   \* what the last load returned: [key, found, value]

kvVars == <<kv, unsure, void, answer>>

Init ==
  /\ kv = [k \in {} |-> {}]
  /\ unsure = {}
  /\ void = FALSE
  /\ answer = NoAnswer

Put(k, v) ==
  /\ kv' = [j \in DOMAIN kv \cup {k} |-> IF j = k THEN v ELSE kv[j]]
  /\ UNCHANGED <<unsure, void, answer>>

(* A store of k fails half way. *)
Fail(k) ==
  /\ unsure' = unsure \cup {k}
  /\ UNCHANGED <<kv, void, answer>>

Get(k) ==
  /\ answer'.key = k
  /\ k \notin unsure =>
       /\ answer'.found <=> k \in DOMAIN kv
       /\ answer'.found => answer'.value = kv[k]
  /\ UNCHANGED <<kv, unsure, void>>

(* Closed, killed or crashed: the map is all that is left. *)
Restart ==
  /\ answer' = NoAnswer
  /\ UNCHANGED <<kv, unsure, void>>

Next ==
  \/ void'
  \/ \E k \in Key, v \in Val : Put(k, v)
  \/ \E k \in Key : Fail(k) \/ Get(k)
  \/ Restart

Spec == Init /\ [][Next]_kvVars
=============================================================================
