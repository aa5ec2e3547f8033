---------------------------- MODULE SegmentFile ----------------------------
(***************************************************************************)
(* The bytes of one segment file of zig-caskdb (src/zig-caskdb/src/        *)
(* disk.zig) and the two things done to them: writeAll and readAll at a    *)
(* file offset.  A record on disk is                                       *)
(*                                                                         *)
(*      keySize (u32 LE) | valueSize (u32 LE) | key bytes | value bytes    *)
(*                                                                         *)
(* The code has IntBytes = 4, Byte = 0..255 and U32Max = 2^32 - 1.  The    *)
(* width and the alphabet are parameters, so that TLC can check files of   *)
(* a dozen bytes in which 32-bit positions do overflow.                    *)
(***************************************************************************)
EXTENDS Integers, Sequences

CONSTANTS
  Byte,          \* the values of one byte
  IntBytes,      \* bytes of an encoded u32
  U32Max,        \* the largest u32
  EncodeInt(_),  \* std's writer.writeInt(u32, n, .little)
  DecodeInt(_)   \* std's reader.readInt(u32, .little)

U32 == 0 .. U32Max

IntImage == [1 .. IntBytes -> Byte]

ASSUME WidthAssumption ==
  /\ IntBytes \in Nat \ {0}
  /\ U32Max \in Nat \ {0}
  /\ 0 \in Byte

ASSUME CodecAssumption ==
  /\ \A n \in U32 : EncodeInt(n) \in IntImage /\ DecodeInt(EncodeInt(n)) = n
  /\ \A b \in IntImage : DecodeInt(b) \in U32

(* The two size fields in front of the key. *)
HeaderLen == 2 * IntBytes

RecordLen(key, value) == HeaderLen + Len(key) + Len(value)

(* FileEntry.serialize *)
Serialize(key, value) ==
  EncodeInt(Len(key)) \o EncodeInt(Len(value)) \o key \o value

(***************************************************************************)
(* write(2) at offset pos.  Writing past the end leaves a hole of zero     *)
(* bytes; writing nothing changes nothing.                                 *)
(***************************************************************************)
WriteAt(f, pos, data) ==
  IF data = << >> THEN f
  ELSE LET end == pos + Len(data)
           size == IF end > Len(f) THEN end ELSE Len(f)
       IN  [i \in 1 .. size |->
              IF i > pos /\ i <= end THEN data[i - pos]
              ELSE IF i <= Len(f) THEN f[i] ELSE 0]

(* How many of n bytes readAll gets at offset pos: fewer when the file ends first. *)
Available(f, pos, n) ==
  IF pos + n <= Len(f) THEN n ELSE IF pos < Len(f) THEN Len(f) - pos ELSE 0

(* The bytes readAll(buf of n bytes) gets at offset pos. *)
ReadAt(f, pos, n) == [i \in 1 .. Available(f, pos, n) |-> f[pos + i]]

(* The u32 at offset pos, when the file holds all of its bytes. *)
HasInt(f, pos) == pos + IntBytes <= Len(f)

IntAt(f, pos) == DecodeInt(ReadAt(f, pos, IntBytes))
=============================================================================
