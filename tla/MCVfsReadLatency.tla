-------------------------- MODULE MCVfsReadLatency --------------------------
(***************************************************************************)
(* Two threads of one process and a single-threaded process, for TLC.      *)
(***************************************************************************)
EXTENDS VfsReadLatency

CONSTANTS t1, t2, t3, multi, single

TwoAndOne == [t \in {t1, t2, t3} |-> IF t = t3 THEN single ELSE multi]
=============================================================================
