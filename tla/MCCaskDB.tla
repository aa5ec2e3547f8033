------------------------------ MODULE MCCaskDB ------------------------------
(***************************************************************************)
(* Instances of CaskDB for TLC: files of a dozen bytes, with a u32 of one  *)
(* byte of 16 values, or of two bytes of 4 values, so that positions reach *)
(* U32Max and a write can be cut inside a size field.                      *)
(***************************************************************************)
EXTENDS CaskDB

OneByte == 0 .. 15
EncodeOne(n) == <<n>>
DecodeOne(b) == b[1]

TwoBitByte == 0 .. 3
EncodeTwo(n) == <<n % 4, n \div 4>>
DecodeTwo(b) == b[1] + 4 * b[2]

KeysAB == {<<1>>, <<2>>}
KeysWithEmpty == {<<1>>, << >>}
ValsShortLong == {<<3>>, <<2, 3>>}
ValsEmptyLong == {<< >>, <<2, 3>>}
=============================================================================
