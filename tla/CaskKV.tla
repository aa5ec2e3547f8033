------------------------------- MODULE CaskKV -------------------------------
(***************************************************************************)
(* CaskDB implements KVStore, for clients that never store the empty key.  *)
(***************************************************************************)
EXTENDS CaskDB

(* What the map asks of its clients: none stores under the empty key. *)
NonEmptyKeys == << >> \notin Keys

(* What a reopened database would serve: the newest record of every key. *)
Contents ==
  [k \in {recs[i].key : i \in 1 .. Len(recs)} |->
     recs[CHOOSE i \in 1 .. Len(recs) : recs[i].key = k /\ IsLatest(i)].value]

KV == INSTANCE KVStore WITH
        Key <- Keys, Val <- Vals, NoAnswer <- NoReply,
        kv <- Contents, unsure <- torn, void <- misused, answer <- reply

(***************************************************************************)
(* The file, the shared cursor, the index and the scan of open together    *)
(* behave as a durable map: a store takes effect when its writeAll ends, a *)
(* load answers with the map's value, restarts change nothing (db.zig      *)
(* store, load, open, close).                                              *)
(***************************************************************************)
ImplementsKVStore == KV!Spec
=============================================================================
