------------------------------ MODULE MCCaskKV ------------------------------
(***************************************************************************)
(* Instances of CaskKV for TLC.                                            *)
(***************************************************************************)
EXTENDS CaskKV

OneByte == 0 .. 15
EncodeOne(n) == <<n>>
DecodeOne(b) == b[1]

(* The keys of this run satisfy what the map asks of its clients. *)
ASSUME KeysAreNonEmpty == NonEmptyKeys

KeysAB == {<<1>>, <<2>>}
ValsShortLong == {<<3>>, <<2, 3>>}
=============================================================================
