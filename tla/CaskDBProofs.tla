---------------------------- MODULE CaskDBProofs ----------------------------
(***************************************************************************)
(* Proofs about CaskDB, for every byte alphabet and u32 width, any keys    *)
(* and values, any threads, and any number of stores, scans and crashes:   *)
(* the operators of SegmentFile, the types, and then the databases whose   *)
(* clients keep to the protocol (no store behind a displaced cursor or a   *)
(* cut-short record, none beside another operation), and last that such a  *)
(* database implements the durable map KVStore.                            *)
(***************************************************************************)
EXTENDS CaskKV, SequenceTheorems, WellFoundedInduction, TLAPS

(***************************************************************************)
(* What the operators of SegmentFile return, for every file, offset and    *)
(* record.                                                                 *)
(***************************************************************************)
(* The first m bytes of data are in the file from offset pos on. *)
HoldsAt(f, pos, data, m) == pos + m <= Len(f) /\ \A j \in 1 .. m : f[pos + j] = data[j]

(* A function on 1 .. n into the bytes is a sequence of n bytes. *)
LEMMA ByteSeq ==
  ASSUME NEW n \in Nat, NEW f \in [1 .. n -> Byte]
  PROVE  f \in Seq(Byte) /\ Len(f) = n /\ DOMAIN f = 1 .. n
<1>1. f \in Seq(Byte)
  BY SeqDef
<1>2. DOMAIN f = 1 .. n
  OBVIOUS
<1>3. DOMAIN f = 1 .. Len(f) /\ Len(f) \in Nat
  BY <1>1, LenProperties
<1>4. Len(f) = n
  <2>1. CASE n = 0
    BY <1>2, <1>3, <2>1
  <2>2. CASE n # 0
    BY <1>2, <1>3, <2>2
  <2>3. QED
    BY <2>1, <2>2
<1>5. QED
  BY <1>1, <1>2, <1>4

(* An encoded u32 is IntBytes bytes long. *)
LEMMA EncodeIntType ==
  ASSUME NEW n \in U32
  PROVE  /\ EncodeInt(n) \in Seq(Byte) /\ Len(EncodeInt(n)) = IntBytes
         /\ EncodeInt(n) \in IntImage
  BY CodecAssumption, WidthAssumption, ByteSeq DEF IntImage

(* FileEntry.serialize fills exactly the buffer it allocates. *)
LEMMA SerializeType ==
  ASSUME NEW k \in Seq(Byte), NEW v \in Seq(Byte), Len(k) \in U32, Len(v) \in U32
  PROVE  Serialize(k, v) \in Seq(Byte) /\ Len(Serialize(k, v)) = RecordLen(k, v)
<1>1. /\ EncodeInt(Len(k)) \in Seq(Byte) /\ Len(EncodeInt(Len(k))) = IntBytes
      /\ EncodeInt(Len(v)) \in Seq(Byte) /\ Len(EncodeInt(Len(v))) = IntBytes
  BY EncodeIntType
<1>2. QED
  BY <1>1, WidthAssumption DEF Serialize, RecordLen, HeaderLen

LEMMA RecordLenType ==
  ASSUME NEW k \in Seq(Byte), NEW v \in Seq(Byte)
  PROVE  RecordLen(k, v) \in Nat /\ RecordLen(k, v) >= HeaderLen /\ HeaderLen \in Nat /\ HeaderLen >= 2
  BY WidthAssumption DEF RecordLen, HeaderLen

(* A write makes the file as long as it must be, and no shorter than it was. *)
LEMMA WriteAtType ==
  ASSUME NEW f \in Seq(Byte), NEW pos \in Nat, NEW data \in Seq(Byte)
  PROVE  /\ WriteAt(f, pos, data) \in Seq(Byte)
         /\ data # << >> =>
              Len(WriteAt(f, pos, data)) = IF pos + Len(data) > Len(f) THEN pos + Len(data) ELSE Len(f)
<1>1. CASE data = << >>
  BY <1>1 DEF WriteAt
<1>2. CASE data # << >>
  <2> DEFINE end == pos + Len(data)
             size == IF end > Len(f) THEN end ELSE Len(f)
             g == [i \in 1 .. size |-> IF i > pos /\ i <= end THEN data[i - pos]
                                       ELSE IF i <= Len(f) THEN f[i] ELSE 0]
  <2>1. WriteAt(f, pos, data) = g
    BY <1>2 DEF WriteAt
  <2>2. size \in Nat
    OBVIOUS
  <2>3. \A i \in 1 .. size : (IF i > pos /\ i <= end THEN data[i - pos]
                              ELSE IF i <= Len(f) THEN f[i] ELSE 0) \in Byte
    BY WidthAssumption
  <2>4. g \in [1 .. size -> Byte]
    BY <2>3
  <2>5. QED
    BY <2>1, <2>2, <2>4, ByteSeq
<1>3. QED
  BY <1>1, <1>2

(* readAll returns as many bytes as there are, at most as many as were asked for. *)
LEMMA ReadAtType ==
  ASSUME NEW f \in Seq(Byte), NEW pos \in Nat, NEW n \in Nat
  PROVE  /\ Available(f, pos, n) \in 0 .. n
         /\ ReadAt(f, pos, n) \in Seq(Byte)
         /\ ReadAt(f, pos, n) \in [1 .. Available(f, pos, n) -> Byte]
         /\ Len(ReadAt(f, pos, n)) = Available(f, pos, n)
<1>1. Available(f, pos, n) \in 0 .. n
  BY DEF Available
<1>2. \A i \in 1 .. Available(f, pos, n) : pos + i \in 1 .. Len(f)
  BY DEF Available
<1>3. ReadAt(f, pos, n) \in [1 .. Available(f, pos, n) -> Byte]
  BY <1>2 DEF ReadAt
<1>4. QED
  BY <1>1, <1>3, ByteSeq

(* A whole size field decodes to a u32. *)
LEMMA IntAtType ==
  ASSUME NEW f \in Seq(Byte), NEW pos \in Nat, HasInt(f, pos)
  PROVE  IntAt(f, pos) \in U32
<1>1. Available(f, pos, IntBytes) = IntBytes
  BY WidthAssumption DEF HasInt, Available
<1>2. ReadAt(f, pos, IntBytes) \in IntImage
  BY <1>1, WidthAssumption, ReadAtType DEF IntImage
<1>3. QED
  BY <1>2, CodecAssumption DEF IntAt
-----------------------------------------------------------------------------
(* What follows what in a concatenation. *)
LEMMA ConcatBytes ==
  ASSUME NEW s \in Seq(Byte), NEW t \in Seq(Byte)
  PROVE  /\ s \o t \in Seq(Byte) /\ Len(s \o t) = Len(s) + Len(t)
         /\ \A j \in 1 .. Len(s) : (s \o t)[j] = s[j]
         /\ \A j \in 1 .. Len(t) : (s \o t)[Len(s) + j] = t[j]
<1>1. /\ s \o t \in Seq(Byte) /\ Len(s \o t) = Len(s) + Len(t)
      /\ \A i \in 1 .. Len(s) + Len(t) : (s \o t)[i] = IF i <= Len(s) THEN s[i] ELSE t[i - Len(s)]
  BY ConcatProperties
<1>2. Len(s) \in Nat /\ Len(t) \in Nat
  OBVIOUS
<1>3. ASSUME NEW j \in 1 .. Len(s) PROVE (s \o t)[j] = s[j]
  <2>1. j \in 1 .. Len(s) + Len(t) /\ j <= Len(s)
    BY <1>2
  <2>2. QED
    BY <1>1, <2>1
<1>4. ASSUME NEW j \in 1 .. Len(t) PROVE (s \o t)[Len(s) + j] = t[j]
  <2>1. Len(s) + j \in 1 .. Len(s) + Len(t) /\ ~(Len(s) + j <= Len(s)) /\ (Len(s) + j) - Len(s) = j
    BY <1>2
  <2>2. QED
    BY <1>1, <2>1
<1>5. QED
  BY <1>1, <1>3, <1>4

(* The fields of a serialized record, byte by byte. *)
LEMMA SerializeBytes ==
  ASSUME NEW k \in Seq(Byte), NEW v \in Seq(Byte), Len(k) \in U32, Len(v) \in U32
  PROVE  /\ \A j \in 1 .. IntBytes : Serialize(k, v)[j] = EncodeInt(Len(k))[j]
         /\ \A j \in 1 .. IntBytes : Serialize(k, v)[IntBytes + j] = EncodeInt(Len(v))[j]
         /\ \A j \in 1 .. Len(k) : Serialize(k, v)[HeaderLen + j] = k[j]
         /\ \A j \in 1 .. Len(v) : Serialize(k, v)[HeaderLen + Len(k) + j] = v[j]
<1> DEFINE a == EncodeInt(Len(k))
           b == EncodeInt(Len(v))
<1>1. a \in Seq(Byte) /\ Len(a) = IntBytes /\ b \in Seq(Byte) /\ Len(b) = IntBytes
  BY EncodeIntType
<1>2. Serialize(k, v) = ((a \o b) \o k) \o v
  BY DEF Serialize
<1>3. IntBytes \in Nat /\ HeaderLen = IntBytes + IntBytes
  BY WidthAssumption DEF HeaderLen
<1> HIDE DEF a, b
<1>4. /\ a \o b \in Seq(Byte) /\ Len(a \o b) = HeaderLen
      /\ \A j \in 1 .. IntBytes : (a \o b)[j] = a[j] /\ (a \o b)[IntBytes + j] = b[j]
  BY <1>1, <1>3, ConcatBytes
<1> DEFINE ab == a \o b
<1> HIDE DEF ab
<1>5. /\ ab \in Seq(Byte) /\ Len(ab) = HeaderLen
      /\ \A j \in 1 .. IntBytes : ab[j] = a[j] /\ ab[IntBytes + j] = b[j]
      /\ Serialize(k, v) = (ab \o k) \o v
  BY <1>2, <1>4 DEF ab
<1>6. /\ ab \o k \in Seq(Byte) /\ Len(ab \o k) = HeaderLen + Len(k)
      /\ \A j \in 1 .. HeaderLen : (ab \o k)[j] = ab[j]
      /\ \A j \in 1 .. Len(k) : (ab \o k)[HeaderLen + j] = k[j]
  BY <1>5, ConcatBytes
<1> DEFINE abk == ab \o k
<1> HIDE DEF abk
<1>7. /\ abk \in Seq(Byte) /\ Len(abk) = HeaderLen + Len(k) /\ Serialize(k, v) = abk \o v
      /\ \A j \in 1 .. HeaderLen : abk[j] = ab[j]
      /\ \A j \in 1 .. Len(k) : abk[HeaderLen + j] = k[j]
  BY <1>5, <1>6 DEF abk
<1>8. /\ \A j \in 1 .. HeaderLen + Len(k) : Serialize(k, v)[j] = abk[j]
      /\ \A j \in 1 .. Len(v) : Serialize(k, v)[HeaderLen + Len(k) + j] = v[j]
  BY <1>7, ConcatBytes
<1>9. \A j \in 1 .. IntBytes : Serialize(k, v)[j] = a[j] /\ Serialize(k, v)[IntBytes + j] = b[j]
  <2> TAKE j \in 1 .. IntBytes
  <2>1. j \in 1 .. HeaderLen /\ IntBytes + j \in 1 .. HeaderLen
    BY <1>3
  <2>2. j \in 1 .. HeaderLen + Len(k) /\ IntBytes + j \in 1 .. HeaderLen + Len(k)
    BY <1>3
  <2>3. QED
    BY <1>5, <1>7, <1>8, <2>1, <2>2
<1>10. \A j \in 1 .. Len(k) : Serialize(k, v)[HeaderLen + j] = k[j]
  <2> TAKE j \in 1 .. Len(k)
  <2>1. HeaderLen + j \in 1 .. HeaderLen + Len(k)
    BY <1>3
  <2>2. QED
    BY <1>7, <1>8, <2>1
<1>11. QED
  BY <1>8, <1>9, <1>10 DEF a, b

(* Bytes that are all there are what readAll gets. *)
LEMMA ReadsBack ==
  ASSUME NEW f \in Seq(Byte), NEW pos \in Nat, NEW s \in Seq(Byte),
         pos + Len(s) <= Len(f), \A j \in 1 .. Len(s) : f[pos + j] = s[j]
  PROVE  ReadAt(f, pos, Len(s)) = s
<1>1. Available(f, pos, Len(s)) = Len(s)
  BY DEF Available
<1>2. ReadAt(f, pos, Len(s)) = [i \in 1 .. Len(s) |-> f[pos + i]]
  BY <1>1 DEF ReadAt
<1>3. s = [i \in 1 .. Len(s) |-> s[i]]
  BY LenProperties
<1>4. QED
  BY <1>2, <1>3

(* An encoded u32 that is all there decodes to the number. *)
LEMMA IntReadsBack ==
  ASSUME NEW f \in Seq(Byte), NEW pos \in Nat, NEW n \in U32,
         HasInt(f, pos), \A j \in 1 .. IntBytes : f[pos + j] = EncodeInt(n)[j]
  PROVE  IntAt(f, pos) = n
<1>1. EncodeInt(n) \in Seq(Byte) /\ Len(EncodeInt(n)) = IntBytes
  BY EncodeIntType
<1>2. ReadAt(f, pos, IntBytes) = EncodeInt(n)
  BY <1>1, ReadsBack DEF HasInt
<1>3. QED
  BY <1>2, CodecAssumption DEF IntAt

(***************************************************************************)
(* A file that holds the first m bytes of a record at pos gives back every *)
(* field that lies within them.                                            *)
(***************************************************************************)
LEMMA RecordReadsBack ==
  ASSUME NEW f \in Seq(Byte), NEW pos \in Nat, NEW m \in Nat,
         NEW k \in Seq(Byte), NEW v \in Seq(Byte), Len(k) \in U32, Len(v) \in U32,
         HoldsAt(f, pos, Serialize(k, v), m)
  PROVE  /\ m >= IntBytes => HasInt(f, pos) /\ IntAt(f, pos) = Len(k)
         /\ m >= HeaderLen => HasInt(f, pos + IntBytes) /\ IntAt(f, pos + IntBytes) = Len(v)
         /\ m >= HeaderLen + Len(k) => ReadAt(f, pos + HeaderLen, Len(k)) = k
         /\ m >= RecordLen(k, v) => ReadAt(f, pos + HeaderLen + Len(k), Len(v)) = v
<1> DEFINE s == Serialize(k, v)
<1>1. /\ pos + m <= Len(f) /\ \A j \in 1 .. m : f[pos + j] = s[j]
      /\ IntBytes \in Nat /\ HeaderLen = IntBytes + IntBytes /\ HeaderLen \in Nat
      /\ RecordLen(k, v) = HeaderLen + Len(k) + Len(v)
  BY WidthAssumption DEF HoldsAt, HeaderLen, RecordLen
<1>2. /\ \A j \in 1 .. IntBytes : s[j] = EncodeInt(Len(k))[j]
      /\ \A j \in 1 .. IntBytes : s[IntBytes + j] = EncodeInt(Len(v))[j]
      /\ \A j \in 1 .. Len(k) : s[HeaderLen + j] = k[j]
      /\ \A j \in 1 .. Len(v) : s[HeaderLen + Len(k) + j] = v[j]
  BY SerializeBytes
<1> HIDE DEF s
<1>3. ASSUME m >= IntBytes PROVE HasInt(f, pos) /\ IntAt(f, pos) = Len(k)
  <2>1. HasInt(f, pos)
    BY <1>1, <1>3 DEF HasInt
  <2>2. \A j \in 1 .. IntBytes : f[pos + j] = EncodeInt(Len(k))[j]
    BY <1>1, <1>2, <1>3
  <2>3. QED
    BY <2>1, <2>2, IntReadsBack
<1>4. ASSUME m >= HeaderLen PROVE HasInt(f, pos + IntBytes) /\ IntAt(f, pos + IntBytes) = Len(v)
  <2>1. HasInt(f, pos + IntBytes) /\ pos + IntBytes \in Nat
    BY <1>1, <1>4 DEF HasInt
  <2>2. ASSUME NEW j \in 1 .. IntBytes PROVE f[pos + IntBytes + j] = EncodeInt(Len(v))[j]
    <3>1. IntBytes + j \in 1 .. m /\ pos + IntBytes + j = pos + (IntBytes + j)
      BY <1>1, <1>4
    <3>2. QED
      BY <1>1, <1>2, <3>1
  <2>3. QED
    BY <2>1, <2>2, IntReadsBack
<1>5. ASSUME m >= HeaderLen + Len(k) PROVE ReadAt(f, pos + HeaderLen, Len(k)) = k
  <2>1. pos + HeaderLen \in Nat /\ (pos + HeaderLen) + Len(k) <= Len(f)
    BY <1>1, <1>5
  <2>2. ASSUME NEW j \in 1 .. Len(k) PROVE f[(pos + HeaderLen) + j] = k[j]
    <3>1. HeaderLen + j \in 1 .. m
      <4>1. HeaderLen \in Nat /\ Len(k) \in Nat
        BY <1>1
      <4> QED BY <1>5, <4>1
    <3>2. (pos + HeaderLen) + j = pos + (HeaderLen + j)
      BY <1>1
    <3>3. QED
      BY <1>1, <1>2, <3>1, <3>2
  <2>3. QED
    BY <2>1, <2>2, ReadsBack
<1>6. ASSUME m >= RecordLen(k, v) PROVE ReadAt(f, pos + HeaderLen + Len(k), Len(v)) = v
  <2>1. pos + HeaderLen + Len(k) \in Nat /\ (pos + HeaderLen + Len(k)) + Len(v) <= Len(f)
    <3>1. Len(k) \in Nat /\ Len(v) \in Nat /\ Len(f) \in Nat
      OBVIOUS
    <3>2. m >= HeaderLen + Len(k) + Len(v)
      BY <1>1, <1>6
    <3>3. QED
      BY <1>1, <3>1, <3>2
  <2>2. ASSUME NEW j \in 1 .. Len(v) PROVE f[(pos + HeaderLen + Len(k)) + j] = v[j]
    <3>1. /\ HeaderLen + Len(k) + j \in 1 .. m
          /\ (pos + HeaderLen + Len(k)) + j = pos + (HeaderLen + Len(k) + j)
      BY <1>1, <1>6
    <3>2. QED
      BY <1>1, <1>2, <3>1
  <2>3. QED
    BY <2>1, <2>2, ReadsBack
<1>7. QED
  BY <1>3, <1>4, <1>5, <1>6

(* An append leaves the bytes before it alone and puts its own behind them. *)
LEMMA AppendHolds ==
  ASSUME NEW f \in Seq(Byte), NEW data \in Seq(Byte)
  PROVE  /\ WriteAt(f, Len(f), data) \in Seq(Byte)
         /\ Len(WriteAt(f, Len(f), data)) = Len(f) + Len(data)
         /\ \A i \in 1 .. Len(f) : WriteAt(f, Len(f), data)[i] = f[i]
         /\ HoldsAt(WriteAt(f, Len(f), data), Len(f), data, Len(data))
<1> DEFINE g == WriteAt(f, Len(f), data)
<1>1. CASE data = << >>
  BY <1>1 DEF WriteAt, HoldsAt
<1>2. CASE data # << >>
  <2>1. Len(data) \in Nat \ {0} /\ Len(f) \in Nat
    BY <1>2, EmptySeq
  <2>2. g \in Seq(Byte) /\ Len(g) = Len(f) + Len(data)
    BY <1>2, <2>1, WriteAtType
  <2>3. g = [i \in 1 .. Len(f) + Len(data) |->
               IF i > Len(f) /\ i <= Len(f) + Len(data) THEN data[i - Len(f)]
               ELSE IF i <= Len(f) THEN f[i] ELSE 0]
    BY <1>2, <2>1 DEF WriteAt
  <2> HIDE DEF g
  <2>4. \A i \in 1 .. Len(f) : g[i] = f[i]
    BY <2>1, <2>3
  <2>5. \A j \in 1 .. Len(data) : g[Len(f) + j] = data[j]
    BY <2>1, <2>3
  <2>6. QED
    BY <2>2, <2>4, <2>5 DEF HoldsAt, g
<1>3. QED
  BY <1>1, <1>2

-----------------------------------------------------------------------------
(***************************************************************************)
(* The types.                                                              *)
(***************************************************************************)
(* Every key and value a client may store has a length that fits its u32 field. *)
LEMMA ClientSizes ==
  ASSUME NEW k \in Keys, NEW v \in Vals
  PROVE  /\ k \in Seq(Byte) /\ v \in Seq(Byte)
         /\ Len(k) \in U32 /\ Len(v) \in U32
<1>1. k \in Seq(Byte) /\ v \in Seq(Byte) /\ RecordLen(k, v) \in U32
  BY ClientAssumption
<1>2. QED
  BY <1>1, WidthAssumption DEF RecordLen, HeaderLen, U32

(* What a running store has in its hands is what its client gave it. *)
StoreArgs == \A t \in Threads : pc[t] \in StoreSteps => op[t].key \in Keys /\ op[t].value \in Vals

TypeInv == TypeOK /\ StoreArgs

LEMMA EntryIsTyped ==
  ASSUME NEW pos \in Nat, NEW size \in U32
  PROVE  Entry(pos, size) \in EntryType
  BY DEF Entry, EntryType

LEMMA EmptyIndexIsTyped == IsIndex(EmptyIndex)
  BY DEF IsIndex, EmptyIndex

LEMMA NoOpIsTyped == NoOp \in OpType
<1>1. Entry(0, 0) \in EntryType
  BY EntryIsTyped, WidthAssumption DEF U32
<1>2. QED
  BY <1>1 DEF NoOp, OpType

LEMMA PutIsTyped ==
  ASSUME NEW ix, IsIndex(ix), NEW k \in Seq(Byte), NEW e \in EntryType, e.valuePos \in U32
  PROVE  IsIndex(Put(ix, k, e))
  BY DEF IsIndex, Put

LEMMA EndOfIsTyped ==
  ASSUME recs \in Seq(RecType), NEW i \in 0 .. Len(recs)
  PROVE  EndOf(i) \in Nat
<1>1. CASE i = 0
  BY <1>1 DEF EndOf
<1>2. CASE i # 0
  <2>0. recs[i] \in RecType
    BY <1>2, ElementOfSeq
  <2>1. recs[i].pos \in Nat /\ recs[i].key \in Seq(Byte) /\ recs[i].value \in Seq(Byte)
    BY <2>0 DEF RecType
  <2>2. RecordLen(recs[i].key, recs[i].value) \in Nat
    BY <2>1, RecordLenType
  <2>3. QED
    BY <1>2, <2>1, <2>2 DEF EndOf
<1>3. QED
  BY <1>1, <1>2

(* The record a running store serializes. *)
LEMMA StoreData ==
  ASSUME TypeInv, NEW t \in Threads, pc[t] \in StoreSteps
  PROVE  /\ op[t].key \in Seq(Byte) /\ op[t].value \in Seq(Byte)
         /\ Serialize(op[t].key, op[t].value) \in Seq(Byte)
         /\ Len(Serialize(op[t].key, op[t].value)) = RecordLen(op[t].key, op[t].value)
         /\ RecordLen(op[t].key, op[t].value) \in Nat
<1>1. op[t].key \in Keys /\ op[t].value \in Vals
  BY DEF TypeInv, StoreArgs
<1>2. QED
  BY <1>1, ClientSizes, SerializeType, RecordLenType

LEMMA InitTypeInv == Init => TypeInv
<1> SUFFICES ASSUME Init PROVE TypeInv
  OBVIOUS
<1>1. op \in [Threads -> OpType] /\ IsIndex(index) /\ IsIndex(scanned)
  BY NoOpIsTyped, EmptyIndexIsTyped DEF Init
<1>2. pc \in [Threads -> {"idle"} \cup StoreSteps \cup LoadSteps] /\ StoreArgs
  BY DEF Init, StoreArgs, StoreSteps
<1>3. file \in Seq(Byte) /\ recs \in Seq(RecType)
  BY DEF Init
<1>4. reply \in [key : Seq(Byte), found : BOOLEAN, value : Seq(Byte)]
  BY DEF Init, NoReply
<1>5. QED
  BY <1>1, <1>2, <1>3, <1>4 DEF Init, TypeInv, TypeOK, Modes

(* The scan: what each of its steps reads has the type of its field. *)
LEMMA ScanTypes ==
  ASSUME TypeOK, ScanReadsKeySize, ScanReadsKey
  PROVE  /\ ScanKeySize \in U32 /\ ScanKeySize \in Nat
         /\ ScanValueSize \in U32 /\ ScanValueSize \in Nat
         /\ ScanValuePos \in Nat /\ ScanNext \in Nat /\ ScanValuePos <= ScanNext
         /\ ReadAt(file, cursor + HeaderLen, ScanKeySize) \in Seq(Byte)
<1>1. file \in Seq(Byte) /\ cursor \in Nat /\ scanPos \in Nat /\ IntBytes \in Nat /\ HeaderLen \in Nat
  BY WidthAssumption DEF TypeOK, HeaderLen
<1>2. ScanKeySize \in U32 /\ ScanValueSize \in U32
  BY <1>1, IntAtType DEF ScanReadsKeySize, ScanReadsKey, ScanKeySize, ScanValueSize
<1>3. ScanKeySize \in Nat /\ ScanValueSize \in Nat
  BY <1>2 DEF U32
<1>4. ReadAt(file, cursor + HeaderLen, ScanKeySize) \in Seq(Byte)
  <2>1. cursor + HeaderLen \in Nat
    BY <1>1
  <2>2. QED
    BY <1>1, <1>3, <2>1, ReadAtType
<1>5. ScanValuePos \in Nat /\ ScanNext \in Nat /\ ScanValuePos <= ScanNext
  BY <1>1, <1>3 DEF ScanValuePos, ScanNext
<1>6. QED
  BY <1>2, <1>3, <1>4, <1>5

LEMMA OpenTypes == TypeInv /\ (Open \/ ScanNextStep) => TypeInv'
<1> SUFFICES ASSUME TypeInv, Open \/ ScanNextStep PROVE TypeInv'
  OBVIOUS
<1> USE DEF TypeInv, TypeOK, StoreArgs, scanVars, threadVars, protocolVars
<1>1. CASE Open
  BY <1>1 DEF Open, Modes
<1>2. CASE ScanStart
  BY <1>2, EmptyIndexIsTyped DEF ScanStart, Modes
<1>3. CASE ScanEnd
  BY <1>3 DEF ScanEnd, Serve, Modes
<1>4. CASE ScanEmptyKey
  <2>1. recs' \in Seq(RecType)
    BY <1>4, SubSeqProperties DEF ScanEmptyKey
  <2>2. QED
    BY <1>4, <2>1, WidthAssumption DEF ScanEmptyKey, Serve, Modes
<1>5. CASE ScanFail \/ ScanOverflow
  BY <1>5 DEF ScanFail, ScanOverflow, Modes
<1>6. CASE ScanRecord
  <2>1. /\ ScanValuePos \in U32 /\ ScanValueSize \in U32 /\ ScanNext \in Nat
        /\ ReadAt(file, cursor + HeaderLen, ScanKeySize) \in Seq(Byte)
    <3>1. /\ ScanValuePos \in Nat /\ ScanNext \in Nat /\ ScanValuePos <= ScanNext /\ ScanNext <= U32Max
          /\ ScanValueSize \in U32
          /\ ReadAt(file, cursor + HeaderLen, ScanKeySize) \in Seq(Byte)
      BY <1>6, ScanTypes DEF ScanRecord
    <3>2. QED
      BY <3>1, WidthAssumption DEF U32
  <2>2. Entry(ScanValuePos, ScanValueSize) \in EntryType
    BY <2>1, EntryIsTyped DEF U32
  <2>3. IsIndex(scanned')
    BY <1>6, <2>1, <2>2, PutIsTyped DEF ScanRecord, Entry
  <2>4. QED
    BY <1>6, <2>1, <2>3 DEF ScanRecord
<1>7. QED
  BY <1>1, <1>2, <1>3, <1>4, <1>5, <1>6 DEF ScanNextStep

LEMMA StoreTypes ==
  ASSUME TypeInv, NEW t \in Threads, StoreNext(t)
  PROVE  TypeInv'
<1> USE DEF TypeInv, TypeOK, StoreArgs, scanVars, threadVars, protocolVars
<1>1. ASSUME NEW k \in Keys, NEW v \in Vals, StoreStart(t, k, v) PROVE TypeInv'
  <2>1. k \in Seq(Byte) /\ v \in Seq(Byte) /\ Len(k) \in Nat /\ Len(v) \in U32
    BY ClientSizes
  <2>2. Entry(lastPos + HeaderLen + Len(k), Len(v)) \in EntryType
    BY <2>1, EntryIsTyped, WidthAssumption DEF HeaderLen
  <2>3. op'[t] \in OpType /\ op' \in [Threads -> OpType]
    BY <1>1, <2>1, <2>2 DEF StoreStart, OpType
  <2>4. pc' \in [Threads -> {"idle"} \cup StoreSteps \cup LoadSteps]
    BY <1>1 DEF StoreStart, StoreSteps
  <2>5. StoreArgs'
    BY <1>1 DEF StoreStart
  <2>6. misused' \in BOOLEAN
    BY <1>1 DEF StoreStart
  <2>7. QED
    BY <1>1, <2>3, <2>4, <2>5, <2>6 DEF StoreStart
<1>2. CASE StoreWrite(t)
  <2>1. pc[t] \in StoreSteps
    BY <1>2 DEF StoreWrite, StoreSteps
  <2>2. /\ file' \in Seq(Byte) /\ cursor' \in Nat
    BY <1>2, <2>1, StoreData, WriteAtType DEF StoreWrite
  <2>3. recs' \in Seq(RecType)
    <3>1. EndOf(Len(recs)) \in Nat
      BY EndOfIsTyped
    <3>2. [key |-> op[t].key, value |-> op[t].value, pos |-> EndOf(Len(recs))] \in RecType
      BY <2>1, <3>1, StoreData DEF RecType
    <3>3. QED
      BY <1>2, <3>2 DEF StoreWrite
  <2>4. pc' \in [Threads -> {"idle"} \cup StoreSteps \cup LoadSteps] /\ StoreArgs'
    BY <1>2, <2>1 DEF StoreWrite, StoreSteps
  <2>5. QED
    BY <1>2, <2>2, <2>3, <2>4 DEF StoreWrite
<1>3. ASSUME NEW n \in 0 .. RecordLen(op[t].key, op[t].value), StoreWriteFail(t, n) PROVE TypeInv'
  <2> DEFINE data == Serialize(op[t].key, op[t].value)
  <2>1. pc[t] \in StoreSteps
    BY <1>3 DEF StoreWriteFail, StoreSteps
  <2>2. data \in Seq(Byte) /\ Len(data) \in Nat /\ op[t].key \in Seq(Byte) /\ n \in Nat /\ n < Len(data)
    BY <1>3, <2>1, StoreData DEF StoreWriteFail
  <2> HIDE DEF data
  <2>3. SubSeq(data, 1, n) \in Seq(Byte)
    BY <2>2
  <2>4. file' = WriteAt(file, cursor, SubSeq(data, 1, n)) /\ cursor' = cursor + n
    BY <1>3 DEF StoreWriteFail, data
  <2>5. file' \in Seq(Byte) /\ cursor' \in Nat
    <3>1. file \in Seq(Byte) /\ cursor \in Nat
      OBVIOUS
    <3>2. WriteAt(file, cursor, SubSeq(data, 1, n)) \in Seq(Byte)
      BY <2>3, <3>1, WriteAtType
    <3>3. QED
      BY <2>2, <2>4, <3>1, <3>2
  <2>6. pc' \in [Threads -> {"idle"} \cup StoreSteps \cup LoadSteps] /\ StoreArgs'
    BY <1>3 DEF StoreWriteFail, StoreSteps
  <2>7. torn' \subseteq Seq(Byte)
    BY <1>3, <2>2 DEF StoreWriteFail
  <2>8. QED
    BY <1>3, <2>5, <2>6, <2>7 DEF StoreWriteFail
<1>4. CASE StoreFetch(t)
  <2>1. op' \in [Threads -> OpType]
    BY <1>4 DEF StoreFetch, OpType
  <2>2. pc' \in [Threads -> {"idle"} \cup StoreSteps \cup LoadSteps] /\ StoreArgs'
    BY <1>4 DEF StoreFetch, StoreSteps, OpType
  <2>3. QED
    BY <1>4, <2>1, <2>2 DEF StoreFetch
<1>5. CASE StoreAdvance(t)
  <2>1. lastPos' \in Nat
    BY <1>5, StoreData DEF StoreAdvance, StoreSteps, OpType
  <2>2. pc' \in [Threads -> {"idle"} \cup StoreSteps \cup LoadSteps] /\ StoreArgs'
    BY <1>5 DEF StoreAdvance, StoreSteps
  <2>3. QED
    BY <1>5, <2>1, <2>2 DEF StoreAdvance
<1>6. CASE StoreOverflow(t)
  BY <1>6 DEF StoreOverflow, Modes
<1>7. CASE StoreIndex(t)
  <2>1. op[t].entry \in EntryType /\ op[t].key \in Seq(Byte) /\ op[t].entry.valuePos \in U32
    BY <1>7, WidthAssumption DEF StoreIndex, OpType, EntryType, U32
  <2>2. IsIndex(index')
    BY <1>7, <2>1, PutIsTyped DEF StoreIndex
  <2>3. pc' \in [Threads -> {"idle"} \cup StoreSteps \cup LoadSteps] /\ StoreArgs'
    BY <1>7 DEF StoreIndex, StoreSteps
  <2>4. QED
    BY <1>7, <2>2, <2>3 DEF StoreIndex
<1>8. QED
  BY <1>1, <1>2, <1>3, <1>4, <1>5, <1>6, <1>7 DEF StoreNext

LEMMA LoadTypes ==
  ASSUME TypeInv, NEW t \in Threads, LoadNext(t)
  PROVE  TypeInv'
<1> USE DEF TypeInv, TypeOK, StoreArgs, scanVars, threadVars, protocolVars
<1>1. ASSUME NEW k \in Keys, LoadMissing(t, k) PROVE TypeInv'
  <2>1. reply' \in [key : Seq(Byte), found : BOOLEAN, value : Seq(Byte)] /\ misused' \in BOOLEAN
    BY <1>1, ClientAssumption DEF LoadMissing
  <2>2. QED
    BY <1>1, <2>1 DEF LoadMissing
<1>2. ASSUME NEW k \in Keys, LoadStart(t, k) PROVE TypeInv'
  <2>1. index[k] \in EntryType /\ k \in Seq(Byte)
    BY <1>2, ClientAssumption DEF LoadStart, IsIndex
  <2>2. op' \in [Threads -> OpType]
    BY <1>2, <2>1 DEF LoadStart, OpType
  <2>3. pc' \in [Threads -> {"idle"} \cup StoreSteps \cup LoadSteps] /\ StoreArgs'
    BY <1>2 DEF LoadStart, StoreSteps, LoadSteps
  <2>4. QED
    BY <1>2, <2>2, <2>3 DEF LoadStart
<1>3. CASE LoadSeek(t)
  <2>1. cursor' \in Nat
    BY <1>3 DEF LoadSeek, OpType, EntryType
  <2>2. pc' \in [Threads -> {"idle"} \cup StoreSteps \cup LoadSteps] /\ StoreArgs'
    BY <1>3 DEF LoadSeek, StoreSteps, LoadSteps
  <2>3. QED
    BY <1>3, <2>1, <2>2 DEF LoadSeek
<1>4. CASE LoadRead(t)
  <2>1. op[t].entry.valueSize \in Nat /\ op[t].key \in Seq(Byte)
    BY DEF OpType, EntryType, U32
  <2>2. LoadBytes(t) \in Seq(Byte)
    BY <2>1, ReadAtType DEF LoadBytes
  <2>3. reply' \in [key : Seq(Byte), found : BOOLEAN, value : Seq(Byte)]
    BY <1>4, <2>1, <2>2 DEF LoadRead
  <2>4. pc' \in [Threads -> {"idle"} \cup StoreSteps \cup LoadSteps] /\ StoreArgs'
    BY <1>4 DEF LoadRead, StoreSteps
  <2>5. QED
    BY <1>4, <2>1, <2>3, <2>4 DEF LoadRead
<1>5. CASE LoadAssertFails(t)
  BY <1>5 DEF LoadAssertFails, Modes
<1>6. QED
  BY <1>1, <1>2, <1>3, <1>4, <1>5 DEF LoadNext

LEMMA StepTypeInv == TypeInv /\ [Next]_vars => TypeInv'
<1> SUFFICES ASSUME TypeInv, [Next]_vars PROVE TypeInv'
  OBVIOUS
<1>1. CASE UNCHANGED vars
  BY <1>1 DEF vars, scanVars, threadVars, protocolVars, TypeInv, TypeOK, StoreArgs
<1>2. CASE Close \/ Crash
  <2>1. GoDown
    BY <1>2 DEF Close, Crash
  <2>2. op' \in [Threads -> OpType] /\ IsIndex(index') /\ IsIndex(scanned')
    BY <2>1, NoOpIsTyped, EmptyIndexIsTyped DEF GoDown
  <2>3. pc' \in [Threads -> {"idle"} \cup StoreSteps \cup LoadSteps] /\ StoreArgs'
    BY <2>1 DEF GoDown, StoreArgs, StoreSteps
  <2>4. reply' \in [key : Seq(Byte), found : BOOLEAN, value : Seq(Byte)]
    BY <2>1 DEF GoDown, NoReply
  <2>5. QED
    BY <2>1, <2>2, <2>3, <2>4 DEF GoDown, TypeInv, TypeOK, Modes
<1>3. QED
  BY <1>1, <1>2, OpenTypes, StoreTypes, LoadTypes DEF Next, Threads

(***************************************************************************)
(* Every variable keeps the type the code declares: in particular no index *)
(* entry has a position that does not fit KeyDirEntry's u32.               *)
(***************************************************************************)
THEOREM TypeCorrect == Spec => []TypeOK
<1>1. Spec => []TypeInv
  BY InitTypeInv, StepTypeInv, PTL DEF Spec
<1>2. QED
  BY <1>1, PTL DEF TypeInv

-----------------------------------------------------------------------------
(***************************************************************************)
(* Clients that keep to the protocol: what the file, the scan, the cursor  *)
(* and the index have to do with each other.                               *)
(***************************************************************************)
(***************************************************************************)
(* The parts of the invariant, as relations between a file f, its records  *)
(* rs, the torn keys tn and an index ix.                                   *)
(***************************************************************************)
EndIn(rs, i) == IF i = 0 THEN 0 ELSE rs[i].pos + RecordLen(rs[i].key, rs[i].value)

(* The i-th record is a client's and all of its bytes are in place. *)
Whole(f, rs, i) ==
  /\ rs[i].key \in Keys /\ rs[i].value \in Vals
  /\ rs[i].pos = EndIn(rs, i - 1)
  /\ HoldsAt(f, rs[i].pos, Serialize(rs[i].key, rs[i].value), RecordLen(rs[i].key, rs[i].value))

(* The records follow each other from the start of the file. *)
Chain(f, rs) ==
  /\ \A i \in 1 .. Len(rs) : Whole(f, rs, i)
  /\ \A i, j \in 0 .. Len(rs) : i <= j => EndIn(rs, i) <= EndIn(rs, j)
  /\ EndIn(rs, Len(rs)) <= Len(f)

(* The rest of the file is the start of a record that was cut short, *)
CutRecord(f, end, tn) ==
  \E k \in tn \cap Keys, v \in Vals :
    Len(f) - end < RecordLen(k, v) /\ HoldsAt(f, end, Serialize(k, v), Len(f) - end)

(* or begins with a record with an empty key. *)
EmptyKeyRecord(f, end) == HasInt(f, end) /\ IntAt(f, end) = 0

TailOf(f, end, tn) == Len(f) # end => CutRecord(f, end, tn) \/ EmptyKeyRecord(f, end)

(* Where the i-th record's value is. *)
Place(rs, i) == Entry(rs[i].pos + HeaderLen + Len(rs[i].key), Len(rs[i].value))

(* Of the first n records, the i-th is the newest one of its key. *)
Newest(rs, i, n) == \A j \in (i + 1) .. n : rs[j].key # rs[i].key

(* ix is what the first n records make of the index, torn keys aside. *)
Indexes(rs, tn, ix, n) ==
  /\ \A i \in 1 .. n : Newest(rs, i, n) /\ rs[i].key \notin tn =>
       rs[i].key \in DOMAIN ix /\ ix[rs[i].key] = Place(rs, i)
  /\ \A k \in DOMAIN ix : k \in tn \/ \E i \in 1 .. n : rs[i].key = k /\ Newest(rs, i, n)
-----------------------------------------------------------------------------
(* A record read back: what a scan or a load finds of the i-th one. *)
LEMMA WholeReadsBack ==
  ASSUME NEW f \in Seq(Byte), NEW rs \in Seq(RecType), NEW i \in 1 .. Len(rs), Whole(f, rs, i)
  PROVE  LET k == rs[i].key
             v == rs[i].value
             p == rs[i].pos
         IN  /\ p \in Nat /\ k \in Keys /\ v \in Vals
             /\ k \in Seq(Byte) /\ v \in Seq(Byte) /\ Len(k) \in U32 /\ Len(v) \in U32
             /\ p = EndIn(rs, i - 1) /\ EndIn(rs, i) = p + RecordLen(k, v)
             /\ EndIn(rs, i) \in Nat /\ EndIn(rs, i) <= Len(f)
             /\ HasInt(f, p) /\ IntAt(f, p) = Len(k)
             /\ HasInt(f, p + IntBytes) /\ IntAt(f, p + IntBytes) = Len(v)
             /\ ReadAt(f, p + HeaderLen, Len(k)) = k
             /\ ReadAt(f, p + HeaderLen + Len(k), Len(v)) = v
<1> DEFINE k == rs[i].key
           v == rs[i].value
           p == rs[i].pos
<1>1. rs[i] \in RecType
  BY ElementOfSeq
<1>2. p \in Nat /\ k \in Keys /\ v \in Vals
  BY <1>1 DEF RecType, Whole
<1>3. k \in Seq(Byte) /\ v \in Seq(Byte) /\ Len(k) \in U32 /\ Len(v) \in U32
  BY <1>2, ClientSizes
<1>4. p = EndIn(rs, i - 1) /\ HoldsAt(f, p, Serialize(k, v), RecordLen(k, v))
  BY DEF Whole
<1>5. EndIn(rs, i) = p + RecordLen(k, v)
  BY DEF EndIn
<1> HIDE DEF k, v, p
<1>6. /\ RecordLen(k, v) \in Nat /\ IntBytes \in Nat /\ HeaderLen \in Nat
      /\ RecordLen(k, v) >= IntBytes /\ RecordLen(k, v) >= HeaderLen
      /\ RecordLen(k, v) >= HeaderLen + Len(k)
  BY <1>3, WidthAssumption DEF RecordLen, HeaderLen
<1>7. EndIn(rs, i) \in Nat /\ EndIn(rs, i) <= Len(f)
  BY <1>2, <1>4, <1>5, <1>6 DEF HoldsAt
<1>8. /\ HasInt(f, p) /\ IntAt(f, p) = Len(k)
      /\ HasInt(f, p + IntBytes) /\ IntAt(f, p + IntBytes) = Len(v)
      /\ ReadAt(f, p + HeaderLen, Len(k)) = k
      /\ ReadAt(f, p + HeaderLen + Len(k), Len(v)) = v
  <2> DEFINE m == RecordLen(k, v)
  <2>1. m \in Nat /\ HoldsAt(f, p, Serialize(k, v), m)
    BY <1>4, <1>6
  <2> HIDE DEF m
  <2>2. /\ m >= IntBytes => HasInt(f, p) /\ IntAt(f, p) = Len(k)
        /\ m >= HeaderLen => HasInt(f, p + IntBytes) /\ IntAt(f, p + IntBytes) = Len(v)
        /\ m >= HeaderLen + Len(k) => ReadAt(f, p + HeaderLen, Len(k)) = k
        /\ m >= RecordLen(k, v) => ReadAt(f, p + HeaderLen + Len(k), Len(v)) = v
    BY <1>2, <1>3, <2>1, RecordReadsBack
  <2>3. QED
    BY <1>6, <2>2 DEF m
<1>9. QED
  BY <1>2, <1>3, <1>4, <1>5, <1>7, <1>8 DEF k, v, p

LEMMA EndInIsTyped ==
  ASSUME NEW rs \in Seq(RecType), NEW i \in 0 .. Len(rs)
  PROVE  EndIn(rs, i) \in Nat
<1>1. CASE i = 0
  BY <1>1 DEF EndIn
<1>2. CASE i # 0
  <2>1. rs[i] \in RecType
    BY <1>2, ElementOfSeq
  <2>2. rs[i].pos \in Nat /\ rs[i].key \in Seq(Byte) /\ rs[i].value \in Seq(Byte)
    BY <2>1 DEF RecType
  <2>3. RecordLen(rs[i].key, rs[i].value) \in Nat
    BY <2>2, RecordLenType
  <2>4. QED
    BY <1>2, <2>2, <2>3 DEF EndIn
<1>3. QED
  BY <1>1, <1>2

(* A longer file that starts with the same bytes still holds a record. *)
LEMMA WholeKept ==
  ASSUME NEW f \in Seq(Byte), NEW g \in Seq(Byte), Len(f) <= Len(g),
         \A i \in 1 .. Len(f) : g[i] = f[i],
         NEW rs \in Seq(RecType), NEW rs2 \in Seq(RecType),
         NEW i \in 1 .. Len(rs), Whole(f, rs, i),
         rs2[i] = rs[i], EndIn(rs2, i - 1) = EndIn(rs, i - 1)
  PROVE  Whole(g, rs2, i)
<1> DEFINE k == rs[i].key
           v == rs[i].value
           p == rs[i].pos
<1>1. /\ p \in Nat /\ RecordLen(k, v) \in Nat
      /\ p + RecordLen(k, v) <= Len(f)
      /\ \A j \in 1 .. RecordLen(k, v) : f[p + j] = Serialize(k, v)[j]
  BY WholeReadsBack, RecordLenType DEF Whole, HoldsAt
<1> HIDE DEF k, v, p
<1>2. HoldsAt(g, p, Serialize(k, v), RecordLen(k, v))
  <2>1. ASSUME NEW j \in 1 .. RecordLen(k, v) PROVE g[p + j] = Serialize(k, v)[j]
    <3>1. p + j \in 1 .. Len(f)
      BY <1>1
    <3>2. QED
      BY <1>1, <3>1
  <2>2. p + RecordLen(k, v) <= Len(g)
    BY <1>1
  <2>3. QED
    BY <2>1, <2>2 DEF HoldsAt
<1>3. QED
  BY <1>2 DEF Whole, k, v, p

(* Records that agree up to n end at the same places up to n. *)
LEMMA EndInKept ==
  ASSUME NEW rs, NEW rs2, NEW n \in Nat, \A i \in 1 .. n : rs2[i] = rs[i]
  PROVE  \A i \in 0 .. n : EndIn(rs2, i) = EndIn(rs, i)
  BY DEF EndIn

(* Bytes appended to a file do not disturb its records. *)
LEMMA ChainExtended ==
  ASSUME NEW f \in Seq(Byte), NEW rs \in Seq(RecType), Chain(f, rs), NEW data \in Seq(Byte)
  PROVE  Chain(WriteAt(f, Len(f), data), rs)
<1> DEFINE g == WriteAt(f, Len(f), data)
<1>1. g \in Seq(Byte) /\ Len(g) = Len(f) + Len(data) /\ \A i \in 1 .. Len(f) : g[i] = f[i]
  BY AppendHolds
<1> HIDE DEF g
<1>2. Len(f) <= Len(g) /\ Len(f) \in Nat /\ Len(g) \in Nat
  BY <1>1
<1>3. \A i \in 1 .. Len(rs) : Whole(g, rs, i)
  BY <1>1, <1>2, WholeKept DEF Chain
<1>4. EndIn(rs, Len(rs)) <= Len(g)
  BY <1>2, EndInIsTyped DEF Chain
<1>5. Chain(g, rs)
  BY <1>3, <1>4 DEF Chain
<1>6. QED
  BY <1>5 DEF g

(* A record appended where the last one ends, at the end of the file, joins them. *)
LEMMA ChainAppended ==
  ASSUME NEW f \in Seq(Byte), NEW rs \in Seq(RecType), Chain(f, rs),
         EndIn(rs, Len(rs)) = Len(f), NEW k \in Keys, NEW v \in Vals
  PROVE  LET g == WriteAt(f, Len(f), Serialize(k, v))
             rs2 == Append(rs, [key |-> k, value |-> v, pos |-> EndIn(rs, Len(rs))])
         IN  Chain(g, rs2) /\ EndIn(rs2, Len(rs2)) = Len(g)
<1> DEFINE n == Len(rs)
           r == [key |-> k, value |-> v, pos |-> EndIn(rs, n)]
           rs2 == Append(rs, r)
           s == Serialize(k, v)
           g == WriteAt(f, Len(f), s)
<1>1. /\ k \in Seq(Byte) /\ v \in Seq(Byte) /\ s \in Seq(Byte)
      /\ Len(s) = RecordLen(k, v) /\ RecordLen(k, v) \in Nat
  BY ClientSizes, SerializeType, RecordLenType
<1>2. n \in Nat /\ EndIn(rs, n) \in Nat
  BY EndInIsTyped
<1>3. r \in RecType
  BY <1>1, <1>2 DEF RecType
<1>4. rs2 \in Seq(RecType) /\ Len(rs2) = n + 1 /\ (\A i \in 1 .. n : rs2[i] = rs[i]) /\ rs2[n + 1] = r
  BY <1>3, AppendProperties
<1>5. r.key = k /\ r.value = v /\ r.pos = Len(f)
  OBVIOUS
<1>6. /\ g \in Seq(Byte) /\ Len(g) = Len(f) + Len(s) /\ \A i \in 1 .. Len(f) : g[i] = f[i]
      /\ HoldsAt(g, Len(f), s, Len(s))
  BY <1>1, AppendHolds
<1>7. EndIn(rs, n) = Len(f) /\ Len(f) \in Nat
  OBVIOUS
<1> HIDE DEF n, r, rs2, g
<1>8. \A i \in 0 .. n : EndIn(rs2, i) = EndIn(rs, i)
  BY <1>2, <1>4, EndInKept
<1>9. EndIn(rs2, n + 1) = Len(f) + RecordLen(k, v)
  BY <1>2, <1>4, <1>5 DEF EndIn
<1>10. ASSUME NEW i \in 1 .. n + 1 PROVE Whole(g, rs2, i)
  <2>1. CASE i = n + 1
    <3>1. rs2[i].pos = EndIn(rs2, i - 1)
      BY <1>2, <1>4, <1>5, <1>7, <1>8, <2>1
    <3>2. QED
      BY <1>1, <1>4, <1>5, <1>6, <2>1, <3>1 DEF Whole
  <2>2. CASE i # n + 1
    <3>1. i \in 1 .. n /\ i - 1 \in 0 .. n
      BY <1>2, <2>2
    <3>2. Whole(f, rs, i) /\ i \in 1 .. Len(rs)
      BY <3>1 DEF Chain, n
    <3>3. Len(f) <= Len(g)
      BY <1>1, <1>6, <1>7
    <3>4. rs2[i] = rs[i] /\ EndIn(rs2, i - 1) = EndIn(rs, i - 1)
      BY <1>4, <1>8, <3>1
    <3>5. QED
      BY <1>4, <1>6, <3>2, <3>3, <3>4, WholeKept
  <2>3. QED
    BY <2>1, <2>2
<1>11. ASSUME NEW i \in 0 .. n + 1, NEW j \in 0 .. n + 1, i <= j PROVE EndIn(rs2, i) <= EndIn(rs2, j)
  <2>1. \A a \in 0 .. n : EndIn(rs, a) \in Nat
    BY EndInIsTyped DEF n
  <2>2. CASE j # n + 1
    <3>1. i \in 0 .. n /\ j \in 0 .. n
      BY <1>2, <1>11, <2>2
    <3>2. EndIn(rs, i) <= EndIn(rs, j)
      BY <1>11, <3>1 DEF Chain, n
    <3>3. QED
      BY <1>8, <3>1, <3>2
  <2>3. CASE j = n + 1 /\ i # n + 1
    <3>1. i \in 0 .. n /\ n \in 0 .. n /\ i <= n
      BY <1>2, <2>3
    <3>2. EndIn(rs, i) <= EndIn(rs, n) /\ EndIn(rs, i) \in Nat
      BY <2>1, <3>1 DEF Chain, n
    <3>3. QED
      BY <1>1, <1>7, <1>8, <1>9, <2>3, <3>1, <3>2
  <2>4. CASE j = n + 1 /\ i = n + 1
    BY <1>1, <1>7, <1>9, <2>4
  <2>5. QED
    BY <2>2, <2>3, <2>4
<1>12. EndIn(rs2, n + 1) = Len(g)
  BY <1>1, <1>6, <1>9
<1>13. EndIn(rs2, Len(rs2)) <= Len(g)
  BY <1>1, <1>4, <1>6, <1>7, <1>12
<1>14. Chain(g, rs2)
  BY <1>4, <1>10, <1>11, <1>13 DEF Chain
<1>15. QED
  BY <1>4, <1>12, <1>14 DEF g, rs2, r, n

(* The first n records of a file that an open will still find. *)
LEMMA ChainCut ==
  ASSUME NEW f \in Seq(Byte), NEW rs \in Seq(RecType), Chain(f, rs), NEW n \in 0 .. Len(rs)
  PROVE  /\ Chain(f, SubSeq(rs, 1, n)) /\ Len(SubSeq(rs, 1, n)) = n
         /\ EndIn(SubSeq(rs, 1, n), n) = EndIn(rs, n)
         /\ \A i \in 1 .. n : SubSeq(rs, 1, n)[i] = rs[i]
<1> DEFINE rs2 == SubSeq(rs, 1, n)
<1>1. rs2 \in Seq(RecType) /\ Len(rs2) = n /\ \A i \in 1 .. n : rs2[i] = rs[i]
  BY SubSeqProperties
<1> HIDE DEF rs2
<1>2. n \in Nat /\ Len(rs) \in Nat /\ n <= Len(rs)
  OBVIOUS
<1>3. \A i \in 0 .. n : EndIn(rs2, i) = EndIn(rs, i)
  BY <1>1, <1>2, EndInKept
<1>4. ASSUME NEW i \in 1 .. n PROVE Whole(f, rs2, i)
  <2>1. i \in 1 .. Len(rs) /\ i - 1 \in 0 .. n
    BY <1>2
  <2>2. Whole(f, rs, i) /\ rs2[i] = rs[i] /\ EndIn(rs2, i - 1) = EndIn(rs, i - 1)
    BY <1>1, <1>3, <2>1 DEF Chain
  <2>3. QED
    BY <2>2 DEF Whole
<1>5. \A i, j \in 0 .. n : i <= j => EndIn(rs2, i) <= EndIn(rs2, j)
  <2> TAKE i, j \in 0 .. n
  <2>1. i \in 0 .. Len(rs) /\ j \in 0 .. Len(rs)
    BY <1>2
  <2>2. QED
    BY <1>3, <2>1 DEF Chain
<1>6. EndIn(rs2, n) <= Len(f)
  <2>1. EndIn(rs, n) <= EndIn(rs, Len(rs)) /\ EndIn(rs, Len(rs)) <= Len(f)
    BY <1>2 DEF Chain
  <2>2. EndIn(rs, n) \in Nat /\ EndIn(rs, Len(rs)) \in Nat
    BY <1>2, EndInIsTyped
  <2>3. QED
    BY <1>2, <1>3, <2>1, <2>2
<1>7. QED
  BY <1>1, <1>2, <1>3, <1>4, <1>5, <1>6 DEF Chain, rs2

(* An index depends on the first n records only, and more torn keys ask less of it. *)
LEMMA IndexesKept ==
  ASSUME NEW rs, NEW rs2, NEW tn, NEW tn2, NEW ix, NEW n \in Nat,
         Indexes(rs, tn, ix, n), \A i \in 1 .. n : rs2[i] = rs[i], tn \subseteq tn2
  PROVE  Indexes(rs2, tn2, ix, n)
<1>1. \A i \in 1 .. n : Newest(rs2, i, n) <=> Newest(rs, i, n)
  BY DEF Newest
<1>2. \A i \in 1 .. n : Place(rs2, i) = Place(rs, i)
  BY DEF Place
<1>3. QED
  BY <1>1, <1>2 DEF Indexes

(* The entry of the next record replaces that of an older one of its key. *)
LEMMA IndexesNext ==
  ASSUME NEW rs, NEW tn, NEW ix, NEW n \in Nat, Indexes(rs, tn, ix, n)
  PROVE  Indexes(rs, tn, Put(ix, rs[n + 1].key, Place(rs, n + 1)), n + 1)
<1> DEFINE k == rs[n + 1].key
           ix2 == Put(ix, k, Place(rs, n + 1))
<1>1. /\ DOMAIN ix2 = DOMAIN ix \cup {k} /\ ix2[k] = Place(rs, n + 1)
      /\ \A x \in DOMAIN ix : x # k => ix2[x] = ix[x]
  BY DEF Put
<1> HIDE DEF ix2
<1>2. Newest(rs, n + 1, n + 1)
  BY DEF Newest
<1>3. \A i \in 1 .. n : Newest(rs, i, n + 1) <=> Newest(rs, i, n) /\ rs[i].key # k
  <2> TAKE i \in 1 .. n
  <2>1. (i + 1) .. (n + 1) = ((i + 1) .. n) \cup {n + 1}
    OBVIOUS
  <2>2. QED
    BY <2>1 DEF Newest
<1>4. 1 .. n + 1 = (1 .. n) \cup {n + 1}
  OBVIOUS
<1>5. ASSUME NEW i \in 1 .. n + 1, Newest(rs, i, n + 1), rs[i].key \notin tn
      PROVE  rs[i].key \in DOMAIN ix2 /\ ix2[rs[i].key] = Place(rs, i)
  <2>1. CASE i = n + 1
    BY <1>1, <2>1
  <2>2. CASE i # n + 1
    <3>1. i \in 1 .. n
      BY <1>4, <2>2
    <3>2. Newest(rs, i, n) /\ rs[i].key # k
      BY <1>3, <1>5, <3>1
    <3>3. rs[i].key \in DOMAIN ix /\ ix[rs[i].key] = Place(rs, i)
      BY <1>5, <3>1, <3>2 DEF Indexes
    <3>4. QED
      BY <1>1, <3>2, <3>3
  <2>3. QED
    BY <2>1, <2>2
<1>6. ASSUME NEW x \in DOMAIN ix2, x \notin tn
      PROVE  \E i \in 1 .. n + 1 : rs[i].key = x /\ Newest(rs, i, n + 1)
  <2>1. CASE x = k
    BY <1>2, <1>4, <2>1
  <2>2. CASE x # k
    <3>1. PICK i \in 1 .. n : rs[i].key = x /\ Newest(rs, i, n)
      BY <1>1, <1>6, <2>2 DEF Indexes
    <3>2. Newest(rs, i, n + 1) /\ i \in 1 .. n + 1
      BY <1>3, <1>4, <2>2, <3>1
    <3>3. QED
      BY <3>1, <3>2
  <2>3. QED
    BY <2>1, <2>2
<1>7. QED
  BY <1>5, <1>6 DEF Indexes, ix2

(* The entry of a torn key changes nothing that is asked of an index. *)
LEMMA IndexesTorn ==
  ASSUME NEW rs, NEW tn, NEW ix, NEW n \in Nat, Indexes(rs, tn, ix, n), NEW k \in tn, NEW e
  PROVE  Indexes(rs, tn, Put(ix, k, e), n)
  BY DEF Indexes, Put

(* What an index leads to, for a key that is not torn. *)
LEMMA IndexedValue ==
  ASSUME NEW f \in Seq(Byte), NEW rs \in Seq(RecType), Chain(f, rs), NEW tn, NEW ix,
         Indexes(rs, tn, ix, Len(rs)), NEW k \in DOMAIN ix, k \notin tn
  PROVE  \E i \in 1 .. Len(rs) :
           /\ rs[i].key = k /\ Newest(rs, i, Len(rs)) /\ ix[k] = Place(rs, i)
           /\ ReadAt(f, ix[k].valuePos, ix[k].valueSize) = rs[i].value
           /\ ix[k].valueSize = Len(rs[i].value)
<1>1. PICK i \in 1 .. Len(rs) : rs[i].key = k /\ Newest(rs, i, Len(rs))
  BY DEF Indexes
<1>2. ix[k] = Place(rs, i)
  BY <1>1 DEF Indexes
<1>3. Whole(f, rs, i)
  BY DEF Chain
<1>4. ReadAt(f, rs[i].pos + HeaderLen + Len(rs[i].key), Len(rs[i].value)) = rs[i].value
  BY <1>3, WholeReadsBack
<1>5. QED
  BY <1>1, <1>2, <1>4 DEF Place, Entry
-----------------------------------------------------------------------------
(***************************************************************************)
(* The invariant of databases whose clients keep to the protocol.          *)
(***************************************************************************)
Tailed(f, rs) == Len(f) # EndIn(rs, Len(rs))

FileInv == Chain(file, recs) /\ TailOf(file, EndIn(recs, Len(recs)), torn)

(* A scan has indexed the records it has passed, and at most a cut-short one behind them. *)
ScanInv ==
  /\ mode \in {"down", "opened", "scanning"} => ~displaced
  /\ mode \in {"opened", "scanning"} => lastPos = Len(file)
  /\ mode = "scanning" =>
       /\ cursor = scanPos
       /\ \/ /\ nScanned <= Len(recs) /\ cursor = EndIn(recs, nScanned)
             /\ Indexes(recs, torn, scanned, nScanned)
          \/ /\ cursor > Len(file) /\ Tailed(file, recs)
             /\ Indexes(recs, torn, scanned, Len(recs))

(* A store is alone, and its record goes where its entry says. *)
StoreInv(t) ==
  LET n == Len(recs) IN
  pc[t] \in StoreSteps =>
    /\ ~Tailed(file, recs) /\ ~displaced /\ cursor = Len(file)
    /\ \A u \in Threads \ {t} : pc[u] = "idle"
    /\ pc[t] = "write" =>
         /\ lastPos = Len(file)
         /\ op[t].entry = Entry(lastPos + HeaderLen + Len(op[t].key), Len(op[t].value))
    /\ pc[t] # "write" =>
         /\ n > 0 /\ recs[n].key = op[t].key /\ recs[n].value = op[t].value
         /\ op[t].entry = Place(recs, n)
         /\ Indexes(recs, torn, index, n - 1)
         /\ lastPos = IF pc[t] = "index" THEN EndIn(recs, n) ELSE EndIn(recs, n - 1)
         /\ pc[t] = "advance" => op[t].base = EndIn(recs, n - 1)

(* A load holds the mutex and an entry that is still the index's. *)
LoadInv(t) ==
  pc[t] \in LoadSteps =>
    /\ mutex = t
    /\ op[t].key \in DOMAIN index /\ op[t].entry = index[op[t].key]
    /\ pc[t] = "read" => cursor = op[t].entry.valuePos /\ displaced

(* Only an open database has operations under way. *)
IdleInv == mode \notin {"serving", "panicked"} => \A t \in Threads : pc[t] = "idle"

(* Without a store under way the cursor is at the end, unless a load moved it. *)
EndInv ==
  mode = "serving" /\ ~Tailed(file, recs) /\ (\A t \in Threads : pc[t] \notin StoreSteps) =>
    lastPos = Len(file) /\ (~displaced => cursor = Len(file))

(* Unless a written record is still to be indexed, the index is that of all records. *)
IndexInv ==
  mode = "serving" /\ (\A t \in Threads : pc[t] \notin StoreSteps \ {"write"}) =>
    Indexes(recs, torn, index, Len(recs))

OpenInv ==
  mode \in {"failed", "panicked"} =>
    torn # {} \/ (mode = "panicked" /\ EndIn(recs, Len(recs)) > U32Max)

ThreadInv == \A t \in Threads : StoreInv(t) /\ LoadInv(t)

Inv == FileInv /\ ScanInv /\ IdleInv /\ EndInv /\ IndexInv /\ OpenInv /\ ThreadInv

ProtocolInv == ~misused => Inv

LEMMA EndOfIsEndIn ==
  /\ \A i : EndOf(i) = EndIn(recs, i)
  /\ HasTail <=> Tailed(file, recs)
  BY DEF EndOf, EndIn, HasTail, Tailed

(* What TypeInv says of the variables that the invariant relates. *)
LEMMA Typed ==
  ASSUME TypeInv
  PROVE  /\ file \in Seq(Byte) /\ recs \in Seq(RecType) /\ Len(file) \in Nat /\ Len(recs) \in Nat
         /\ cursor \in Nat /\ lastPos \in Nat /\ scanPos \in Nat /\ nScanned \in Nat
         /\ IntBytes \in Nat \ {0} /\ HeaderLen \in Nat /\ HeaderLen = IntBytes + IntBytes
         /\ \A i \in 0 .. Len(recs) : EndIn(recs, i) \in Nat
         /\ EndIn(recs, Len(recs)) \in Nat
<1>1. file \in Seq(Byte) /\ recs \in Seq(RecType)
  BY DEF TypeInv, TypeOK
<1>2. \A i \in 0 .. Len(recs) : EndIn(recs, i) \in Nat
  BY <1>1, EndInIsTyped
<1>3. Len(recs) \in 0 .. Len(recs)
  BY <1>1
<1>4. QED
  BY <1>1, <1>2, <1>3, WidthAssumption DEF TypeInv, TypeOK, HeaderLen

LEMMA InitInv == Init => Inv
<1> SUFFICES ASSUME Init PROVE Inv
  OBVIOUS
<1>1. Len(recs) = 0 /\ Len(file) = 0 /\ EndIn(recs, Len(recs)) = 0
  BY DEF Init, EndIn
<1>2. FileInv
  BY <1>1 DEF FileInv, Chain, TailOf, EndIn
<1>3. ThreadInv /\ IdleInv
  BY DEF Init, ThreadInv, StoreInv, LoadInv, StoreSteps, LoadSteps, IdleInv
<1>4. ScanInv /\ EndInv /\ IndexInv /\ OpenInv
  BY DEF Init, ScanInv, EndInv, IndexInv, OpenInv
<1>5. QED
  BY <1>2, <1>3, <1>4 DEF Inv

(* While an open is under way no thread is, and the parts about them say nothing. *)
LEMMA OpenInvStep ==
  ASSUME TypeInv, Inv, Open \/ ScanStart
  PROVE  Inv'
<1>1. /\ mode \in {"down", "opened"} /\ mode' \in {"opened", "scanning"}
      /\ UNCHANGED <<file, recs, torn, displaced, pc, op, mutex, index>>
  BY DEF Open, ScanStart, threadVars, protocolVars
<1>2. FileInv'
  BY <1>1 DEF Inv, FileInv
<1>3. \A t \in Threads : pc'[t] = "idle"
  BY <1>1 DEF Inv, IdleInv
<1>4. ThreadInv' /\ IdleInv'
  BY <1>3 DEF ThreadInv, StoreInv, LoadInv, StoreSteps, LoadSteps, IdleInv
<1>5. EndInv' /\ IndexInv' /\ OpenInv'
  BY <1>1 DEF EndInv, IndexInv, OpenInv
<1>6. ~displaced
  BY <1>1 DEF Inv, ScanInv
<1>7. ScanInv'
  <2>1. CASE Open
    BY <1>1, <1>6, <2>1 DEF Open, ScanInv
  <2>2. CASE ScanStart
    <3>1. lastPos' = Len(file') /\ cursor' = 0 /\ scanPos' = 0 /\ nScanned' = 0 /\ scanned' = EmptyIndex
      BY <2>2, <1>1 DEF ScanStart, Inv, ScanInv
    <3>2. Indexes(recs', torn', scanned', 0)
      BY <3>1 DEF Indexes, EmptyIndex
    <3>3. EndIn(recs', 0) = 0 /\ 0 <= Len(recs')
      BY <1>1, Typed DEF EndIn
    <3>4. QED
      BY <1>1, <1>6, <3>1, <3>2, <3>3 DEF ScanInv
  <2>3. QED
    BY <2>1, <2>2
<1>8. QED
  BY <1>2, <1>4, <1>5, <1>7 DEF Inv

(***************************************************************************)
(* What a scan that has read a keySize is looking at: one of the records,  *)
(* or what a cut-short write or an empty key has left behind them.         *)
(***************************************************************************)
LEMMA ScanPlace ==
  ASSUME TypeInv, Inv, mode = "scanning", HasInt(file, cursor)
  PROVE  /\ nScanned \in 0 .. Len(recs) /\ cursor = EndIn(recs, nScanned) /\ scanPos = cursor
         /\ Indexes(recs, torn, scanned, nScanned)
         /\ nScanned # Len(recs) => nScanned + 1 \in 1 .. Len(recs) /\ Whole(file, recs, nScanned + 1)
         /\ nScanned = Len(recs) => Tailed(file, recs)
<1>1. ~(cursor > Len(file))
  BY Typed DEF HasInt
<1>2. /\ nScanned <= Len(recs) /\ cursor = EndIn(recs, nScanned) /\ scanPos = cursor
      /\ Indexes(recs, torn, scanned, nScanned)
  BY <1>1 DEF Inv, ScanInv
<1>3. nScanned \in 0 .. Len(recs)
  BY <1>2, Typed
<1>4. nScanned # Len(recs) => nScanned + 1 \in 1 .. Len(recs) /\ Whole(file, recs, nScanned + 1)
  <2>1. nScanned # Len(recs) => nScanned + 1 \in 1 .. Len(recs)
    BY <1>3, Typed
  <2>2. QED
    BY <2>1 DEF Inv, FileInv, Chain
<1>5. nScanned = Len(recs) => Tailed(file, recs)
  BY <1>2, Typed DEF HasInt, Tailed
<1>6. QED
  BY <1>2, <1>3, <1>4, <1>5

(* The scan reads one of the records. *)
LEMMA ScanWhole ==
  ASSUME TypeInv, Inv, ScanReadsKeySize, nScanned # Len(recs)
  PROVE  LET i == nScanned + 1
         IN  /\ ScanReadsKey /\ i \in 1 .. Len(recs)
             /\ ReadAt(file, cursor + HeaderLen, ScanKeySize) = recs[i].key
             /\ Entry(ScanValuePos, ScanValueSize) = Place(recs, i)
             /\ ScanNext = EndIn(recs, i)
<1> DEFINE i == nScanned + 1
<1>1. /\ nScanned \in 0 .. Len(recs) /\ cursor = EndIn(recs, nScanned) /\ scanPos = cursor
      /\ i \in 1 .. Len(recs) /\ Whole(file, recs, i) /\ i - 1 = nScanned
  BY ScanPlace, Typed DEF ScanReadsKeySize
<1>2. file \in Seq(Byte) /\ recs \in Seq(RecType)
  BY Typed
<1> DEFINE k == recs[i].key
           v == recs[i].value
           p == recs[i].pos
<1> HIDE DEF i
<1>3. /\ p \in Nat /\ k \in Seq(Byte) /\ v \in Seq(Byte)
      /\ p = EndIn(recs, i - 1) /\ EndIn(recs, i) = p + RecordLen(k, v)
      /\ EndIn(recs, i) <= Len(file)
      /\ IntAt(file, p) = Len(k)
      /\ HasInt(file, p + IntBytes) /\ IntAt(file, p + IntBytes) = Len(v)
      /\ ReadAt(file, p + HeaderLen, Len(k)) = k
  BY <1>1, <1>2, WholeReadsBack
<1>4. p = cursor
  BY <1>1, <1>3
<1> HIDE DEF k, v, p
<1>0. RecordLen(k, v) = HeaderLen + Len(k) + Len(v) /\ Len(k) \in Nat /\ Len(v) \in Nat
      /\ cursor \in Nat /\ HeaderLen \in Nat /\ Len(file) \in Nat
  <2>1. cursor \in Nat /\ HeaderLen \in Nat /\ Len(file) \in Nat
    BY Typed
  <2>2. Len(k) \in Nat /\ Len(v) \in Nat
    BY <1>3, LenProperties
  <2>3. RecordLen(k, v) = HeaderLen + Len(k) + Len(v)
    BY DEF RecordLen
  <2>4. QED
    BY <2>1, <2>2, <2>3
<1>5. ScanKeySize = Len(k) /\ ScanValueSize = Len(v)
  BY <1>3, <1>4 DEF ScanKeySize, ScanValueSize
<1>6. ScanReadsKey
  <2>1. cursor + HeaderLen + Len(k) <= Len(file)
    BY <1>0, <1>3, <1>4
  <2>2. QED
    BY <1>3, <1>4, <1>5, <2>1 DEF ScanReadsKey
<1>7. ScanValuePos = p + HeaderLen + Len(k)
  BY <1>1, <1>4, <1>5 DEF ScanValuePos
<1>8. ScanNext = EndIn(recs, i)
  BY <1>0, <1>3, <1>5, <1>7 DEF ScanNext
<1>9. QED
  BY <1>1, <1>3, <1>4, <1>5, <1>6, <1>7, <1>8 DEF Place, i, k, v, p

(* The scan reads the start of a record that was cut short: its key is torn. *)
LEMMA ScanCut ==
  ASSUME TypeInv, Inv, ScanReadsKeySize, nScanned = Len(recs)
  PROVE  /\ torn # {} /\ Tailed(file, recs)
         /\ ScanReadsKey => /\ ReadAt(file, cursor + HeaderLen, ScanKeySize) \in torn
                            /\ ScanNext > Len(file)
<1> DEFINE m == Len(file) - cursor
<1>1. cursor = EndIn(recs, Len(recs)) /\ scanPos = cursor /\ Tailed(file, recs)
  BY ScanPlace DEF ScanReadsKeySize
<1>2. ~EmptyKeyRecord(file, cursor)
  BY DEF EmptyKeyRecord, ScanReadsKeySize, ScanKeySize
<1>3. CutRecord(file, cursor, torn)
  BY <1>1, <1>2 DEF Inv, FileInv, TailOf, Tailed
<1>4. PICK k \in torn \cap Keys, v \in Vals : m < RecordLen(k, v) /\ HoldsAt(file, cursor, Serialize(k, v), m)
  BY <1>3 DEF CutRecord
<1>5. /\ k \in Seq(Byte) /\ v \in Seq(Byte) /\ Len(k) \in U32 /\ Len(v) \in U32
      /\ Len(k) \in Nat /\ Len(v) \in Nat
  BY ClientSizes
<1>6. m \in Nat /\ m >= IntBytes /\ cursor + m = Len(file)
  BY Typed DEF ScanReadsKeySize, HasInt
<1>7. file \in Seq(Byte) /\ cursor \in Nat
  BY Typed
<1> HIDE DEF m
<1>8. /\ m >= IntBytes => IntAt(file, cursor) = Len(k)
      /\ m >= HeaderLen => IntAt(file, cursor + IntBytes) = Len(v)
      /\ m >= HeaderLen + Len(k) => ReadAt(file, cursor + HeaderLen, Len(k)) = k
  BY <1>4, <1>5, <1>6, <1>7, RecordReadsBack
<1>9. ScanKeySize = Len(k)
  BY <1>6, <1>8 DEF ScanKeySize
<1>10. ASSUME ScanReadsKey
       PROVE  ReadAt(file, cursor + HeaderLen, ScanKeySize) \in torn /\ ScanNext > Len(file)
  <2>1. cursor + HeaderLen + Len(k) <= Len(file)
    BY <1>9, <1>10 DEF ScanReadsKey
  <2>2. m >= HeaderLen + Len(k) /\ m >= HeaderLen
    <3>1. HeaderLen \in Nat
      BY Typed
    <3>2. cursor + (HeaderLen + Len(k)) <= cursor + m
      BY <1>5, <1>6, <1>7, <2>1, <3>1
    <3> QED
      BY <1>5, <1>6, <1>7, <3>1, <3>2
  <2>3. ReadAt(file, cursor + HeaderLen, ScanKeySize) = k
    BY <1>8, <1>9, <2>2
  <2>4. ScanValueSize = Len(v)
    BY <1>8, <2>2 DEF ScanValueSize
  <2>5. ScanNext = cursor + HeaderLen + Len(k) + Len(v)
    BY <1>1, <1>9, <2>4 DEF ScanNext, ScanValuePos
  <2>6. ScanNext > Len(file)
    <3>1. m < HeaderLen + Len(k) + Len(v)
      BY <1>4 DEF RecordLen
    <3>2. HeaderLen \in Nat /\ Len(file) \in Nat
      BY Typed
    <3>3. cursor + m < cursor + (HeaderLen + Len(k) + Len(v))
      BY <1>5, <1>6, <1>7, <3>1, <3>2
    <3>4. QED
      BY <1>5, <1>6, <1>7, <2>5, <3>2, <3>3
  <2>7. QED
    BY <2>3, <2>6
<1>11. QED
  BY <1>1, <1>4, <1>10

(* A step of a scan that goes on or gives up leaves the file and its records alone. *)
LEMMA ScanGoesOn ==
  ASSUME TypeInv, Inv, ScanFail \/ ScanOverflow \/ ScanRecord
  PROVE  Inv'
<1>1. /\ ScanReadsKeySize /\ mode = "scanning"
      /\ UNCHANGED <<file, recs, torn, displaced, pc, op, mutex, index, lastPos>>
  BY DEF ScanFail, ScanOverflow, ScanRecord, ScanReadsKeySize, threadVars, protocolVars
<1>2. FileInv'
  BY <1>1 DEF Inv, FileInv
<1>3. \A t \in Threads : pc'[t] = "idle"
  BY <1>1 DEF Inv, IdleInv
<1>4. ThreadInv' /\ IdleInv'
  BY <1>3 DEF ThreadInv, StoreInv, LoadInv, StoreSteps, LoadSteps, IdleInv
<1>5. HasInt(file, cursor)
  BY <1>1 DEF ScanReadsKeySize
<1>6. CASE ScanFail
  <2>1. nScanned = Len(recs)
    BY <1>1, <1>6, ScanWhole DEF ScanFail
  <2>2. torn # {}
    BY <1>1, <2>1, ScanCut
  <2>3. mode' = "failed"
    BY <1>6 DEF ScanFail
  <2>4. ScanInv' /\ EndInv' /\ IndexInv' /\ OpenInv'
    BY <1>1, <2>2, <2>3 DEF ScanInv, EndInv, IndexInv, OpenInv
  <2>5. QED
    BY <1>2, <1>4, <2>4 DEF Inv
<1>7. CASE ScanOverflow
  <2>1. mode' = "panicked" /\ ScanNext > U32Max
    BY <1>7 DEF ScanOverflow
  <2>2. torn # {} \/ EndIn(recs, Len(recs)) > U32Max
    <3>1. CASE nScanned = Len(recs)
      BY <1>1, <3>1, ScanCut
    <3>2. CASE nScanned # Len(recs)
      <4>1. ScanNext = EndIn(recs, nScanned + 1) /\ nScanned + 1 \in 1 .. Len(recs)
        BY <1>1, <3>2, ScanWhole
      <4>2. nScanned + 1 \in 0 .. Len(recs) /\ Len(recs) \in 0 .. Len(recs) /\ nScanned + 1 <= Len(recs)
        BY <4>1, Typed
      <4>3. EndIn(recs, nScanned + 1) <= EndIn(recs, Len(recs))
        BY <4>2 DEF Inv, FileInv, Chain
      <4>4. EndIn(recs, nScanned + 1) \in Nat /\ EndIn(recs, Len(recs)) \in Nat
        BY <4>2, Typed
      <4>5. QED
        BY <2>1, <4>1, <4>3, <4>4, WidthAssumption
    <3>3. QED
      BY <3>1, <3>2
  <2>3. ScanInv' /\ EndInv' /\ IndexInv' /\ OpenInv'
    BY <1>1, <2>1, <2>2 DEF ScanInv, EndInv, IndexInv, OpenInv
  <2>4. QED
    BY <1>2, <1>4, <2>3 DEF Inv
<1>8. CASE ScanRecord
  <2> DEFINE key == ReadAt(file, cursor + HeaderLen, ScanKeySize)
             e == Entry(ScanValuePos, ScanValueSize)
  <2>1. /\ mode' = "scanning" /\ ScanReadsKey
        /\ scanned' = Put(scanned, key, e)
        /\ scanPos' = ScanNext /\ cursor' = ScanNext /\ nScanned' = nScanned + 1
    BY <1>1, <1>8 DEF ScanRecord
  <2> HIDE DEF key, e
  <2>2. nScanned \in 0 .. Len(recs) /\ Indexes(recs, torn, scanned, nScanned)
    BY <1>1, <1>5, ScanPlace
  <2>3. nScanned \in Nat
    BY Typed
  <2>4. ASSUME nScanned # Len(recs)
        PROVE  /\ nScanned' <= Len(recs') /\ cursor' = EndIn(recs', nScanned')
               /\ Indexes(recs', torn', scanned', nScanned')
    <3>1. /\ nScanned + 1 \in 1 .. Len(recs) /\ ScanNext = EndIn(recs, nScanned + 1)
          /\ key = recs[nScanned + 1].key /\ e = Place(recs, nScanned + 1)
      BY <1>1, <2>4, ScanWhole DEF key, e
    <3>2. Indexes(recs, torn, Put(scanned, key, e), nScanned + 1)
      BY <2>2, <2>3, <3>1, IndexesNext
    <3>3. nScanned + 1 <= Len(recs)
      BY <3>1
    <3>4. QED
      BY <1>1, <2>1, <3>1, <3>2, <3>3
  <2>5. ASSUME nScanned = Len(recs)
        PROVE  /\ cursor' > Len(file') /\ Tailed(file', recs')
               /\ Indexes(recs', torn', scanned', Len(recs'))
    <3>1. Tailed(file, recs) /\ key \in torn /\ ScanNext > Len(file)
      BY <1>1, <2>1, <2>5, ScanCut DEF key
    <3>2. Indexes(recs, torn, Put(scanned, key, e), nScanned)
      BY <2>2, <2>3, <3>1, IndexesTorn
    <3>3. QED
      BY <1>1, <2>1, <2>5, <3>1, <3>2
  <2>6. ~displaced /\ lastPos = Len(file)
    BY <1>1 DEF Inv, ScanInv
  <2>7. ScanInv'
    BY <1>1, <2>1, <2>4, <2>5, <2>6 DEF ScanInv
  <2>8. EndInv' /\ IndexInv' /\ OpenInv'
    BY <2>1 DEF EndInv, IndexInv, OpenInv
  <2>9. QED
    BY <1>2, <1>4, <2>7, <2>8 DEF Inv
<1>9. QED
  BY <1>6, <1>7, <1>8

(* A scan that ends has indexed every record that later opens will find. *)
LEMMA ScanEnds ==
  ASSUME TypeInv, Inv, ScanEnd \/ ScanEmptyKey
  PROVE  Inv'
<1>1. /\ mode = "scanning" /\ mode' = "serving" /\ index' = scanned
      /\ UNCHANGED <<file, lastPos, torn, displaced, pc, op, mutex>>
  BY DEF ScanEnd, ScanEmptyKey, Serve, threadVars, protocolVars
<1>2. \A t \in Threads : pc'[t] = "idle"
  BY <1>1 DEF Inv, IdleInv
<1>3. ThreadInv' /\ IdleInv' /\ ScanInv' /\ OpenInv'
  BY <1>1, <1>2 DEF ThreadInv, StoreInv, LoadInv, StoreSteps, LoadSteps, IdleInv, ScanInv, OpenInv
<1>4. lastPos' = Len(file')
  BY <1>1 DEF Inv, ScanInv
<1>5. CASE ScanEnd
  <2>1. recs' = recs /\ ~HasInt(file, cursor)
        /\ cursor' = IF cursor < Len(file) THEN Len(file) ELSE cursor
    BY <1>5 DEF ScanEnd
  <2>2. FileInv'
    BY <1>1, <2>1 DEF Inv, FileInv
  <2>3. \/ cursor = EndIn(recs, Len(recs)) /\ Indexes(recs, torn, scanned, Len(recs))
        \/ cursor > Len(file) /\ Tailed(file, recs) /\ Indexes(recs, torn, scanned, Len(recs))
    <3>1. CASE cursor > Len(file) /\ Tailed(file, recs) /\ Indexes(recs, torn, scanned, Len(recs))
      BY <3>1
    <3>2. CASE /\ nScanned <= Len(recs) /\ cursor = EndIn(recs, nScanned)
               /\ Indexes(recs, torn, scanned, nScanned)
      <4>1. CASE nScanned = Len(recs)
        BY <3>2, <4>1
      <4>2. CASE nScanned # Len(recs)
        <5>1. nScanned + 1 \in 1 .. Len(recs) /\ (nScanned + 1) - 1 = nScanned
          BY <3>2, <4>2, Typed
        <5> DEFINE i == nScanned + 1
        <5>2. Whole(file, recs, i) /\ i \in 1 .. Len(recs) /\ i - 1 = nScanned
          BY <5>1 DEF Inv, FileInv, Chain
        <5> HIDE DEF i
        <5>3. HasInt(file, recs[i].pos) /\ recs[i].pos = EndIn(recs, i - 1)
          BY <5>2, Typed, WholeReadsBack
        <5>4. HasInt(file, cursor)
          BY <3>2, <5>2, <5>3
        <5>5. QED
          BY <2>1, <5>4
      <4>3. QED
        BY <4>1, <4>2
    <3>3. QED
      BY <1>1, <3>1, <3>2 DEF Inv, ScanInv
  <2>4. IndexInv'
    BY <1>1, <2>1, <2>3 DEF IndexInv
  <2>5. ~Tailed(file, recs) => cursor' = Len(file')
    BY <1>1, <2>1, <2>3, Typed DEF Tailed
  <2>6. EndInv'
    BY <1>1, <1>4, <2>1, <2>5 DEF EndInv
  <2>7. QED
    BY <1>3, <2>2, <2>4, <2>6 DEF Inv
<1>6. CASE ScanEmptyKey
  <2>1. /\ HasInt(file, cursor) /\ IntAt(file, cursor) = 0
        /\ recs' = IF nScanned <= Len(recs) THEN SubSeq(recs, 1, nScanned) ELSE recs
    BY <1>6 DEF ScanEmptyKey
  <2>2. /\ nScanned \in 0 .. Len(recs) /\ cursor = EndIn(recs, nScanned)
        /\ Indexes(recs, torn, scanned, nScanned)
    BY <1>1, <2>1, ScanPlace
  <2>3. /\ recs' = SubSeq(recs, 1, nScanned) /\ nScanned \in Nat /\ cursor \in Nat
    BY <2>1, <2>2, Typed
  <2>4. Chain(file, recs) /\ file \in Seq(Byte) /\ recs \in Seq(RecType)
    BY Typed DEF Inv, FileInv
  <2>5. /\ Chain(file, recs') /\ Len(recs') = nScanned
        /\ EndIn(recs', nScanned) = EndIn(recs, nScanned)
        /\ \A i \in 1 .. nScanned : recs'[i] = recs[i]
    BY <2>2, <2>3, <2>4, ChainCut
  <2>6. EmptyKeyRecord(file, EndIn(recs', Len(recs')))
    BY <2>1, <2>2, <2>5 DEF EmptyKeyRecord
  <2>7. Tailed(file, recs')
    BY <2>1, <2>2, <2>5, Typed DEF Tailed, HasInt
  <2>8. FileInv'
    BY <1>1, <2>5, <2>6 DEF FileInv, TailOf
  <2>9. Indexes(recs', torn, scanned, nScanned)
    BY <2>2, <2>3, <2>5, IndexesKept
  <2>10. IndexInv'
    BY <1>1, <2>5, <2>9 DEF IndexInv
  <2>11. EndInv'
    BY <1>1, <2>7 DEF EndInv
  <2>12. QED
    BY <1>3, <2>8, <2>10, <2>11 DEF Inv
<1>7. QED
  BY <1>5, <1>6

(* A process that is gone leaves the file, its records and the torn keys. *)
LEMMA DownInvStep ==
  ASSUME TypeInv, Inv, Close \/ Crash
  PROVE  Inv'
<1>1. GoDown
  BY DEF Close, Crash
<1>2. FileInv'
  BY <1>1 DEF GoDown, Inv, FileInv
<1>3. ThreadInv' /\ IdleInv'
  BY <1>1 DEF GoDown, ThreadInv, StoreInv, LoadInv, StoreSteps, LoadSteps, IdleInv
<1>4. ScanInv' /\ EndInv' /\ IndexInv' /\ OpenInv'
  BY <1>1 DEF GoDown, ScanInv, EndInv, IndexInv, OpenInv
<1>5. QED
  BY <1>2, <1>3, <1>4 DEF Inv

(***************************************************************************)
(* The steps of a store.  It starts alone, at the end of the file, and     *)
(* stays alone: whoever starts another operation meanwhile is misusing it. *)
(***************************************************************************)
LEMMA StoreStartInv ==
  ASSUME TypeInv, Inv, NEW t \in Threads, NEW k \in Keys, NEW v \in Vals, StoreStart(t, k, v), ~misused'
  PROVE  Inv'
<1>1. /\ mode = "serving" /\ pc[t] = "idle" /\ pc' = [pc EXCEPT ![t] = "write"]
      /\ op' = [op EXCEPT ![t] = [key |-> k, value |-> v,
                                  entry |-> Entry(lastPos + HeaderLen + Len(k), Len(v)), base |-> 0]]
      /\ UNCHANGED <<file, mode, cursor, lastPos, index, recs, torn, displaced, mutex>>
  BY DEF StoreStart
<1>2. ~displaced /\ ~Tailed(file, recs) /\ ~Busy(t, StoreSteps \cup LoadSteps)
  BY EndOfIsEndIn DEF StoreStart, StoreMisuse
<1>3. pc \in [Threads -> {"idle"} \cup StoreSteps \cup LoadSteps] /\ op \in [Threads -> OpType]
  BY DEF TypeInv, TypeOK
<1>4. \A u \in Threads \ {t} : pc[u] = "idle"
  BY <1>2, <1>3 DEF Busy
<1>5. \A u \in Threads : pc[u] = "idle"
  BY <1>1, <1>4
<1>6. /\ pc'[t] = "write" /\ \A u \in Threads \ {t} : pc'[u] = "idle"
  BY <1>1, <1>3, <1>4
<1>7. lastPos = Len(file) /\ cursor = Len(file) /\ Indexes(recs, torn, index, Len(recs))
  BY <1>1, <1>2, <1>5 DEF Inv, EndInv, IndexInv, StoreSteps
<1>8. /\ op'[t].key = k /\ op'[t].value = v
      /\ op'[t].entry = Entry(lastPos + HeaderLen + Len(k), Len(v))
  BY <1>1, <1>3
<1>9. StoreInv(t)' /\ LoadInv(t)'
  BY <1>1, <1>2, <1>6, <1>7, <1>8 DEF StoreInv, LoadInv, LoadSteps
<1>10. ASSUME NEW u \in Threads \ {t} PROVE StoreInv(u)' /\ LoadInv(u)'
  BY <1>6 DEF StoreInv, LoadInv, StoreSteps, LoadSteps
<1>11. ThreadInv'
  BY <1>9, <1>10 DEF ThreadInv
<1>12. FileInv' /\ ScanInv' /\ IdleInv' /\ OpenInv'
  BY <1>1 DEF Inv, FileInv, ScanInv, IdleInv, OpenInv
<1>13. EndInv' /\ IndexInv'
  BY <1>1, <1>6, <1>7 DEF EndInv, IndexInv, StoreSteps
<1>14. QED
  BY <1>11, <1>12, <1>13 DEF Inv

LEMMA StoreWriteInv ==
  ASSUME TypeInv, Inv, NEW t \in Threads, StoreWrite(t)
  PROVE  Inv'
<1> DEFINE k == op[t].key
           v == op[t].value
           n == Len(recs)
<1>1. /\ mode = "serving" /\ pc[t] = "write" /\ pc' = [pc EXCEPT ![t] = "fetch"]
      /\ file' = WriteAt(file, cursor, Serialize(k, v))
      /\ cursor' = cursor + Len(Serialize(k, v))
      /\ recs' = Append(recs, [key |-> k, value |-> v, pos |-> EndIn(recs, n)])
      /\ UNCHANGED <<mode, lastPos, index, op, torn, displaced, mutex>>
  BY EndOfIsEndIn DEF StoreWrite, protocolVars
<1>2. pc \in [Threads -> {"idle"} \cup StoreSteps \cup LoadSteps] /\ op \in [Threads -> OpType]
  BY DEF TypeInv, TypeOK
<1>3. /\ ~Tailed(file, recs) /\ ~displaced /\ cursor = Len(file) /\ lastPos = Len(file)
      /\ \A u \in Threads \ {t} : pc[u] = "idle"
      /\ op[t].entry = Entry(lastPos + HeaderLen + Len(k), Len(v))
  BY <1>1 DEF Inv, ThreadInv, StoreInv, StoreSteps
<1>4. k \in Keys /\ v \in Vals
  BY <1>1 DEF TypeInv, StoreArgs, StoreSteps
<1>5. k \in Seq(Byte) /\ v \in Seq(Byte) /\ Len(Serialize(k, v)) = RecordLen(k, v) /\ Serialize(k, v) \in Seq(Byte)
  BY <1>4, ClientSizes, SerializeType
<1>6. Chain(file, recs) /\ file \in Seq(Byte) /\ recs \in Seq(RecType) /\ n \in Nat /\ EndIn(recs, n) = Len(file)
  BY <1>3, Typed DEF Inv, FileInv, Tailed
<1>7. Chain(file', recs') /\ EndIn(recs', Len(recs')) = Len(file')
  BY <1>1, <1>3, <1>4, <1>6, ChainAppended
<1>8. FileInv'
  BY <1>7 DEF FileInv, TailOf
<1>9. Len(file') = Len(file) + Len(Serialize(k, v))
  BY <1>1, <1>3, <1>5, <1>6, AppendHolds
<1>10. [key |-> k, value |-> v, pos |-> EndIn(recs, n)] \in RecType
  BY <1>5, <1>6, Typed DEF RecType
<1>11. /\ Len(recs') = n + 1 /\ (\A i \in 1 .. n : recs'[i] = recs[i])
       /\ recs'[n + 1] = [key |-> k, value |-> v, pos |-> EndIn(recs, n)]
  BY <1>1, <1>6, <1>10, AppendProperties
<1>12. Indexes(recs, torn, index, n)
  BY <1>1, <1>3 DEF Inv, IndexInv, StoreSteps
<1> HIDE DEF k, v, n
<1>13. Indexes(recs', torn', index', n)
  BY <1>1, <1>6, <1>11, <1>12, IndexesKept
<1>14. EndIn(recs', n) = EndIn(recs, n)
  <2>1. n \in 0 .. n
    BY <1>6
  <2>2. \A i \in 0 .. n : EndIn(recs', i) = EndIn(recs, i)
    BY <1>6, <1>11, EndInKept
  <2>3. QED
    BY <2>1, <2>2
<1>15. /\ recs'[n + 1].key = k /\ recs'[n + 1].value = v /\ recs'[n + 1].pos = EndIn(recs, n)
  BY <1>11
<1>16. op[t].entry = Place(recs', n + 1)
  BY <1>3, <1>6, <1>15 DEF Place
<1>17. pc'[t] = "fetch" /\ \A u \in Threads \ {t} : pc'[u] = "idle"
  BY <1>1, <1>2, <1>3
<1>18. Len(recs') - 1 = n /\ Len(recs') > 0 /\ lastPos' = EndIn(recs', Len(recs') - 1)
  BY <1>1, <1>3, <1>6, <1>11, <1>14
<1>19. StoreInv(t)'
  <2>1. ~Tailed(file', recs') /\ ~displaced' /\ cursor' = Len(file')
    BY <1>1, <1>3, <1>7, <1>9 DEF Tailed
  <2>2. /\ Len(recs') > 0 /\ recs'[Len(recs')].key = op'[t].key /\ recs'[Len(recs')].value = op'[t].value
        /\ op'[t].entry = Place(recs', Len(recs'))
        /\ Indexes(recs', torn', index', Len(recs') - 1)
        /\ lastPos' = EndIn(recs', Len(recs') - 1)
    BY <1>1, <1>11, <1>13, <1>15, <1>16, <1>18 DEF k, v
  <2>3. QED
    BY <1>17, <2>1, <2>2 DEF StoreInv
<1>20. ThreadInv'
  <2>1. \A u \in Threads \ {t} : StoreInv(u)' /\ LoadInv(u)'
    BY <1>17 DEF StoreInv, LoadInv, StoreSteps, LoadSteps
  <2>2. LoadInv(t)'
    BY <1>17 DEF LoadInv, LoadSteps
  <2>3. QED
    BY <1>19, <2>1, <2>2 DEF ThreadInv
<1>21. ScanInv' /\ IdleInv' /\ OpenInv' /\ EndInv' /\ IndexInv'
  BY <1>1, <1>17 DEF ScanInv, IdleInv, OpenInv, EndInv, IndexInv, StoreSteps
<1>22. QED
  BY <1>8, <1>20, <1>21 DEF Inv

(* A write that fails half-way leaves the start of its record behind the others. *)
LEMMA StoreWriteFailInv ==
  ASSUME TypeInv, Inv, NEW t \in Threads, NEW n \in Nat, StoreWriteFail(t, n)
  PROVE  Inv'
<1> DEFINE k == op[t].key
           v == op[t].value
           s == Serialize(k, v)
           d == SubSeq(s, 1, n)
<1>1. /\ mode = "serving" /\ pc[t] = "write" /\ pc' = [pc EXCEPT ![t] = "idle"]
      /\ n < Len(s) /\ file' = WriteAt(file, cursor, d) /\ cursor' = cursor + n
      /\ torn' = IF n > 0 THEN torn \cup {k} ELSE torn
      /\ UNCHANGED <<mode, lastPos, index, op, recs, displaced, mutex>>
  BY DEF StoreWriteFail
<1>2. pc \in [Threads -> {"idle"} \cup StoreSteps \cup LoadSteps]
  BY DEF TypeInv, TypeOK
<1>3. /\ ~Tailed(file, recs) /\ ~displaced /\ cursor = Len(file) /\ lastPos = Len(file)
      /\ \A u \in Threads \ {t} : pc[u] = "idle"
  BY <1>1 DEF Inv, ThreadInv, StoreInv, StoreSteps
<1>4. k \in Keys /\ v \in Vals
  BY <1>1 DEF TypeInv, StoreArgs, StoreSteps
<1>5. s \in Seq(Byte) /\ Len(s) = RecordLen(k, v) /\ Len(s) \in Nat
  BY <1>4, ClientSizes, SerializeType
<1>6. d \in Seq(Byte) /\ Len(d) = n /\ \A j \in 1 .. n : d[j] = s[j]
  <2>1. \A j \in 1 .. n : s[j] \in Byte
    BY <1>1, <1>5
  <2>2. QED
    BY <1>1, <1>5, <2>1, SubSeqProperties
<1>7. Chain(file, recs) /\ file \in Seq(Byte) /\ recs \in Seq(RecType) /\ EndIn(recs, Len(recs)) = Len(file)
  BY <1>3, Typed DEF Inv, FileInv, Tailed
<1> HIDE DEF k, v, s, d
<1>8. Chain(file', recs')
  BY <1>1, <1>3, <1>6, <1>7, ChainExtended
<1>9. /\ Len(file') = Len(file) + n /\ file' \in Seq(Byte)
      /\ HoldsAt(file', Len(file), d, n)
  BY <1>1, <1>3, <1>6, <1>7, AppendHolds
<1>10. HoldsAt(file', Len(file), s, n)
  BY <1>6, <1>9 DEF HoldsAt
<1>11. Len(file) \in Nat /\ Len(file') - Len(file) = n
  BY <1>7, <1>9
<1>12. TailOf(file', EndIn(recs', Len(recs')), torn')
  <2>1. CASE n = 0
    BY <1>1, <1>7, <1>9, <1>11, <2>1 DEF TailOf
  <2>2. CASE n # 0
    <3>1. k \in torn' \cap Keys /\ v \in Vals
      BY <1>1, <1>4, <2>2
    <3>2. n < RecordLen(k, v)
      BY <1>1, <1>5
    <3>3. CutRecord(file', Len(file), torn')
      BY <1>10, <1>11, <3>1, <3>2 DEF CutRecord, s
    <3>4. QED
      BY <1>1, <1>7, <3>3 DEF TailOf
  <2>3. QED
    BY <2>1, <2>2
<1>13. FileInv'
  BY <1>8, <1>12 DEF FileInv
<1>14. \A u \in Threads : pc'[u] = "idle"
  BY <1>1, <1>2, <1>3
<1>15. ThreadInv' /\ IdleInv'
  BY <1>14 DEF ThreadInv, StoreInv, LoadInv, StoreSteps, LoadSteps, IdleInv
<1>16. ScanInv' /\ OpenInv'
  BY <1>1 DEF ScanInv, OpenInv
<1>17. EndInv'
  <2>1. ~Tailed(file', recs') => n = 0
    BY <1>1, <1>7, <1>11 DEF Tailed
  <2>2. n = 0 => Len(file') = Len(file) /\ cursor' = Len(file) /\ lastPos' = Len(file)
    BY <1>1, <1>3, <1>9, <1>11
  <2>3. QED
    BY <2>1, <2>2 DEF EndInv
<1>18. IndexInv'
  <2>1. Indexes(recs, torn, index, Len(recs))
    BY <1>1, <1>3 DEF Inv, IndexInv, StoreSteps
  <2>2. torn \subseteq torn'
    BY <1>1
  <2>3. Indexes(recs', torn', index', Len(recs'))
    BY <1>1, <2>1, <2>2, IndexesKept, Typed
  <2>4. QED
    BY <2>3 DEF IndexInv
<1>19. QED
  BY <1>13, <1>15, <1>16, <1>17, <1>18 DEF Inv

LEMMA StoreRestInv ==
  ASSUME TypeInv, Inv, NEW t \in Threads,
         StoreFetch(t) \/ StoreAdvance(t) \/ StoreOverflow(t) \/ StoreIndex(t)
  PROVE  Inv'
<1> DEFINE n == Len(recs)
<1>1. /\ mode = "serving" /\ pc[t] \in StoreSteps /\ pc[t] # "write"
      /\ UNCHANGED <<file, recs, torn, displaced, mutex, cursor>>
  BY DEF StoreFetch, StoreAdvance, StoreOverflow, StoreIndex, StoreSteps, threadVars, protocolVars
<1>2. pc \in [Threads -> {"idle"} \cup StoreSteps \cup LoadSteps] /\ op \in [Threads -> OpType]
  BY DEF TypeInv, TypeOK
<1>3. /\ ~Tailed(file, recs) /\ ~displaced /\ cursor = Len(file)
      /\ \A u \in Threads \ {t} : pc[u] = "idle"
      /\ n > 0 /\ recs[n].key = op[t].key /\ recs[n].value = op[t].value
      /\ op[t].entry = Place(recs, n) /\ Indexes(recs, torn, index, n - 1)
      /\ lastPos = IF pc[t] = "index" THEN EndIn(recs, n) ELSE EndIn(recs, n - 1)
      /\ pc[t] = "advance" => op[t].base = EndIn(recs, n - 1)
  BY <1>1 DEF Inv, ThreadInv, StoreInv
<1>4. n \in Nat /\ n \in 1 .. Len(recs) /\ n - 1 \in Nat /\ (n - 1) + 1 = n
  BY <1>3, Typed
<1>5. FileInv'
  BY <1>1 DEF Inv, FileInv
<1>6. Whole(file, recs, n) /\ EndIn(recs, n) = EndIn(recs, n - 1) + RecordLen(op[t].key, op[t].value)
  <2>1. Whole(file, recs, n)
    BY <1>4 DEF Inv, FileInv, Chain
  <2>2. QED
    BY <1>3, <1>4, <2>1 DEF EndIn, Whole
<1> HIDE DEF n
<1>7. ASSUME pc'[t] \in {"idle"} \cup (StoreSteps \ {"write"}), \A u \in Threads \ {t} : pc'[u] = pc[u],
             mode' = mode, StoreInv(t)'
      PROVE  ThreadInv' /\ ScanInv' /\ IdleInv' /\ OpenInv'
  <2>1. \A u \in Threads \ {t} : StoreInv(u)' /\ LoadInv(u)'
    BY <1>3, <1>7 DEF StoreInv, LoadInv, StoreSteps, LoadSteps
  <2>2. LoadInv(t)'
    BY <1>7 DEF LoadInv, LoadSteps, StoreSteps
  <2>3. ThreadInv'
    BY <1>7, <2>1, <2>2 DEF ThreadInv
  <2>4. ScanInv' /\ IdleInv' /\ OpenInv'
    BY <1>1, <1>7 DEF ScanInv, IdleInv, OpenInv
  <2>5. QED
    BY <2>3, <2>4
<1>8. CASE StoreFetch(t)
  <2>1. /\ pc[t] = "fetch" /\ pc'[t] = "advance" /\ \A u \in Threads \ {t} : pc'[u] = pc[u]
        /\ op'[t].base = lastPos /\ op'[t].key = op[t].key /\ op'[t].value = op[t].value
        /\ op'[t].entry = op[t].entry /\ mode' = mode /\ lastPos' = lastPos /\ index' = index
    BY <1>2, <1>8 DEF StoreFetch, OpType
  <2>2. StoreInv(t)'
    BY <1>1, <1>3, <2>1 DEF StoreInv, n
  <2>3. ThreadInv' /\ ScanInv' /\ IdleInv' /\ OpenInv'
    BY <1>7, <2>1, <2>2 DEF StoreSteps
  <2>4. EndInv' /\ IndexInv'
    BY <2>1 DEF EndInv, IndexInv, StoreSteps
  <2>5. QED
    BY <1>5, <2>3, <2>4 DEF Inv
<1>9. CASE StoreAdvance(t)
  <2>1. /\ pc[t] = "advance" /\ pc'[t] = "index" /\ \A u \in Threads \ {t} : pc'[u] = pc[u]
        /\ lastPos' = op[t].base + RecordLen(op[t].key, op[t].value)
        /\ op' = op /\ mode' = mode /\ index' = index
    BY <1>2, <1>9 DEF StoreAdvance
  <2>2. lastPos' = EndIn(recs', n)
    BY <1>1, <1>3, <1>6, <2>1
  <2>3. StoreInv(t)'
    BY <1>1, <1>3, <2>1, <2>2 DEF StoreInv, n
  <2>4. ThreadInv' /\ ScanInv' /\ IdleInv' /\ OpenInv'
    BY <1>7, <2>1, <2>3 DEF StoreSteps
  <2>5. EndInv' /\ IndexInv'
    BY <2>1 DEF EndInv, IndexInv, StoreSteps
  <2>6. QED
    BY <1>5, <2>4, <2>5 DEF Inv
<1>10. CASE StoreOverflow(t)
  <2>1. /\ op[t].entry.valuePos > U32Max /\ mode' = "panicked"
        /\ UNCHANGED <<pc, op, lastPos, index>>
    BY <1>10 DEF StoreOverflow, threadVars
  <2>2. EndIn(recs, n) > U32Max
    <3> DEFINE k == recs[n].key
               v == recs[n].value
               p == recs[n].pos
    <3>1. /\ p \in Nat /\ k \in Seq(Byte) /\ v \in Seq(Byte)
          /\ EndIn(recs, n) = p + RecordLen(k, v)
      BY <1>4, <1>6, Typed, WholeReadsBack
    <3>2. op[t].entry.valuePos = p + HeaderLen + Len(k)
      BY <1>3 DEF Place, Entry
    <3> HIDE DEF k, v, p
    <3>3. HeaderLen \in Nat /\ Len(k) \in Nat /\ Len(v) \in Nat /\ U32Max \in Nat
          /\ RecordLen(k, v) = HeaderLen + Len(k) + Len(v)
      BY <3>1, Typed, WidthAssumption DEF RecordLen
    <3>4. QED
      BY <2>1, <3>1, <3>2, <3>3
  <2>3. ThreadInv' /\ IdleInv'
    BY <1>1, <2>1 DEF Inv, ThreadInv, StoreInv, LoadInv, IdleInv
  <2>4. ScanInv' /\ EndInv' /\ IndexInv' /\ OpenInv'
    BY <1>1, <2>1, <2>2 DEF ScanInv, EndInv, IndexInv, OpenInv, n
  <2>5. QED
    BY <1>5, <2>3, <2>4 DEF Inv
<1>11. CASE StoreIndex(t)
  <2>1. /\ pc[t] = "index" /\ pc'[t] = "idle" /\ \A u \in Threads \ {t} : pc'[u] = pc[u]
        /\ index' = Put(index, op[t].key, op[t].entry) /\ mode' = mode /\ lastPos' = lastPos
    BY <1>2, <1>11 DEF StoreIndex
  <2>2. StoreInv(t)'
    BY <2>1 DEF StoreInv, StoreSteps
  <2>3. ThreadInv' /\ ScanInv' /\ IdleInv' /\ OpenInv'
    BY <1>7, <2>1, <2>2
  <2>4. Indexes(recs, torn, Put(index, recs[(n - 1) + 1].key, Place(recs, (n - 1) + 1)), (n - 1) + 1)
    BY <1>3, <1>4, IndexesNext
  <2>5. Indexes(recs', torn', index', Len(recs'))
    BY <1>1, <1>3, <1>4, <2>1, <2>4 DEF n
  <2>6. lastPos' = Len(file') /\ cursor' = Len(file')
    BY <1>1, <1>3, <2>1 DEF Tailed, n
  <2>7. EndInv' /\ IndexInv'
    BY <2>5, <2>6 DEF EndInv, IndexInv
  <2>8. QED
    BY <1>5, <2>3, <2>7 DEF Inv
<1>12. QED
  BY <1>8, <1>9, <1>10, <1>11

(***************************************************************************)
(* The steps of a load.  The mutex keeps other loads away from the cursor, *)
(* and whoever starts a store meanwhile is misusing it.                    *)
(***************************************************************************)
LEMMA LoadStartInv ==
  ASSUME TypeInv, Inv, NEW t \in Threads, NEW k \in Keys, LoadMissing(t, k) \/ LoadStart(t, k), ~misused'
  PROVE  Inv'
<1>1. /\ mode = "serving" /\ pc[t] = "idle" /\ mutex = NoThread
      /\ UNCHANGED <<file, mode, cursor, lastPos, index, recs, torn, displaced>>
      /\ ~Busy(t, StoreSteps)
  BY DEF LoadMissing, LoadStart, LoadMisuse
<1>2. pc \in [Threads -> {"idle"} \cup StoreSteps \cup LoadSteps] /\ op \in [Threads -> OpType]
  BY DEF TypeInv, TypeOK
<1>3. FileInv' /\ ScanInv' /\ IdleInv' /\ OpenInv'
  BY <1>1 DEF Inv, FileInv, ScanInv, IdleInv, OpenInv
<1>4. CASE LoadMissing(t, k)
  <2>1. pc' = pc /\ op' = op /\ mutex' = mutex
    BY <1>4 DEF LoadMissing
  <2>2. ThreadInv' /\ EndInv' /\ IndexInv'
    BY <1>1, <2>1 DEF Inv, ThreadInv, StoreInv, LoadInv, EndInv, IndexInv
  <2>3. QED
    BY <1>3, <2>2 DEF Inv
<1>5. CASE LoadStart(t, k)
  <2>1. /\ mutex' = t /\ k \in DOMAIN index /\ pc' = [pc EXCEPT ![t] = "seek"]
        /\ op' = [op EXCEPT ![t] = [key |-> k, value |-> << >>, entry |-> index[k], base |-> 0]]
    BY <1>5 DEF LoadStart
  <2>2. /\ pc'[t] = "seek" /\ op'[t].key = k /\ op'[t].entry = index[k]
        /\ \A u \in Threads \ {t} : pc'[u] = pc[u]
    BY <1>2, <2>1
  <2>3. \A u \in Threads : pc[u] \notin StoreSteps
    BY <1>1, <1>2 DEF Busy, StoreSteps
  <2>4. \A u \in Threads : pc[u] \notin LoadSteps
    BY <1>1, ClientAssumption DEF Inv, ThreadInv, LoadInv
  <2>5. \A u \in Threads : pc'[u] \notin StoreSteps
    BY <2>2, <2>3 DEF StoreSteps
  <2>6. \A u \in Threads : StoreInv(u)'
    BY <2>5 DEF StoreInv
  <2>7. \A u \in Threads \ {t} : LoadInv(u)'
    BY <2>2, <2>4 DEF LoadInv
  <2>8. LoadInv(t)'
    BY <1>1, <2>1, <2>2 DEF LoadInv
  <2>9. ThreadInv'
    BY <2>6, <2>7, <2>8 DEF ThreadInv
  <2>10. /\ Indexes(recs, torn, index, Len(recs))
         /\ ~Tailed(file, recs) => lastPos = Len(file) /\ (~displaced => cursor = Len(file))
    BY <1>1, <2>3 DEF Inv, EndInv, IndexInv
  <2>11. EndInv' /\ IndexInv'
    BY <1>1, <2>10 DEF EndInv, IndexInv
  <2>12. QED
    BY <1>3, <2>9, <2>11 DEF Inv
<1>6. QED
  BY <1>4, <1>5

(* While a load is under way, it is the only operation that is past its start. *)
LEMMA LoadAlone ==
  ASSUME TypeInv, Inv, NEW t \in Threads, pc[t] \in LoadSteps, mode = "serving"
  PROVE  /\ mutex = t /\ (\A u \in Threads \ {t} : pc[u] = "idle")
         /\ (\A u \in Threads : pc[u] \notin StoreSteps)
         /\ op[t].key \in DOMAIN index /\ op[t].entry = index[op[t].key]
         /\ Indexes(recs, torn, index, Len(recs))
         /\ ~Tailed(file, recs) => lastPos = Len(file)
<1>1. mutex = t /\ op[t].key \in DOMAIN index /\ op[t].entry = index[op[t].key]
  BY DEF Inv, ThreadInv, LoadInv
<1>2. \A u \in Threads \ {t} : pc[u] \notin StoreSteps
  BY DEF Inv, ThreadInv, StoreInv, LoadSteps
<1>3. \A u \in Threads \ {t} : pc[u] \notin LoadSteps
  BY <1>1 DEF Inv, ThreadInv, LoadInv
<1>4. pc \in [Threads -> {"idle"} \cup StoreSteps \cup LoadSteps]
  BY DEF TypeInv, TypeOK
<1>5. \A u \in Threads \ {t} : pc[u] = "idle"
  BY <1>2, <1>3, <1>4
<1>6. \A u \in Threads : pc[u] \notin StoreSteps
  BY <1>2 DEF StoreSteps, LoadSteps
<1>7. QED
  BY <1>1, <1>5, <1>6 DEF Inv, EndInv, IndexInv

LEMMA LoadRestInv ==
  ASSUME TypeInv, Inv, NEW t \in Threads, LoadSeek(t) \/ LoadRead(t) \/ LoadAssertFails(t)
  PROVE  Inv'
<1>1. /\ mode = "serving" /\ pc[t] \in LoadSteps
      /\ UNCHANGED <<file, recs, torn, lastPos, index, op>>
  BY DEF LoadSeek, LoadRead, LoadAssertFails, LoadSteps, threadVars, protocolVars
<1>2. pc \in [Threads -> {"idle"} \cup StoreSteps \cup LoadSteps] /\ op \in [Threads -> OpType]
  BY DEF TypeInv, TypeOK
<1>3. /\ mutex = t /\ (\A u \in Threads \ {t} : pc[u] = "idle")
      /\ op[t].key \in DOMAIN index /\ op[t].entry = index[op[t].key]
      /\ Indexes(recs, torn, index, Len(recs))
      /\ ~Tailed(file, recs) => lastPos = Len(file)
  BY <1>1, LoadAlone
<1>4. FileInv'
  BY <1>1 DEF Inv, FileInv
<1>5. CASE LoadSeek(t)
  <2>1. /\ pc'[t] = "read" /\ \A u \in Threads \ {t} : pc'[u] = pc[u]
    BY <1>2, <1>5 DEF LoadSeek
  <2>2. cursor' = op[t].entry.valuePos /\ displaced' /\ mutex' = mutex /\ mode' = mode
    BY <1>5 DEF LoadSeek
  <2>3. LoadInv(t)' /\ StoreInv(t)'
    BY <1>1, <1>3, <2>1, <2>2 DEF LoadInv, StoreInv, StoreSteps
  <2>4. \A u \in Threads \ {t} : LoadInv(u)' /\ StoreInv(u)'
    BY <1>3, <2>1 DEF LoadInv, StoreInv, LoadSteps, StoreSteps
  <2>5. ThreadInv'
    BY <2>3, <2>4 DEF ThreadInv
  <2>6. ScanInv' /\ IdleInv' /\ OpenInv' /\ EndInv' /\ IndexInv'
    BY <1>1, <1>3, <2>2 DEF ScanInv, IdleInv, OpenInv, EndInv, IndexInv
  <2>7. QED
    BY <1>4, <2>5, <2>6 DEF Inv
<1>6. CASE LoadRead(t)
  <2>1. \A u \in Threads : pc'[u] = "idle"
    BY <1>2, <1>3, <1>6 DEF LoadRead
  <2>2. mode' = mode /\ (displaced' <=> cursor' # Len(file))
    BY <1>6 DEF LoadRead
  <2>3. ThreadInv'
    BY <2>1 DEF ThreadInv, LoadInv, StoreInv, LoadSteps, StoreSteps
  <2>4. ScanInv' /\ IdleInv' /\ OpenInv' /\ EndInv' /\ IndexInv'
    BY <1>1, <1>3, <2>2 DEF ScanInv, IdleInv, OpenInv, EndInv, IndexInv
  <2>5. QED
    BY <1>4, <2>3, <2>4 DEF Inv
<1>7. CASE LoadAssertFails(t)
  <2>1. /\ mode' = "panicked" /\ UNCHANGED <<pc, mutex, cursor, displaced>>
        /\ pc[t] = "read" /\ Len(LoadBytes(t)) # op[t].entry.valueSize
    BY <1>7 DEF LoadAssertFails, threadVars, protocolVars
  <2>2. torn # {}
    <3> SUFFICES ASSUME torn = {} PROVE FALSE
      OBVIOUS
    <3>1. cursor = op[t].entry.valuePos
      BY <2>1 DEF Inv, ThreadInv, LoadInv, LoadSteps
    <3>2. Chain(file, recs) /\ op[t].key \notin torn
      BY DEF Inv, FileInv
    <3>3. PICK i \in 1 .. Len(recs) :
            /\ ReadAt(file, index[op[t].key].valuePos, index[op[t].key].valueSize) = recs[i].value
            /\ index[op[t].key].valueSize = Len(recs[i].value)
      <4>1. file \in Seq(Byte) /\ recs \in Seq(RecType)
        BY Typed
      <4> QED
        BY <1>3, <3>2, <4>1, IndexedValue
    <3>4. QED
      BY <1>3, <2>1, <3>1, <3>3 DEF LoadBytes
  <2>3. ThreadInv' /\ IdleInv'
    BY <1>1, <2>1 DEF Inv, ThreadInv, StoreInv, LoadInv, IdleInv
  <2>4. ScanInv' /\ EndInv' /\ IndexInv' /\ OpenInv'
    BY <1>1, <2>1, <2>2 DEF ScanInv, EndInv, IndexInv, OpenInv
  <2>5. QED
    BY <1>4, <2>3, <2>4 DEF Inv
<1>8. QED
  BY <1>5, <1>6, <1>7
-----------------------------------------------------------------------------
(* A client that has stepped outside the protocol stays outside it. *)
LEMMA MisuseStays == [Next]_vars /\ ~misused' => ~misused
<1> SUFFICES ASSUME [Next]_vars, ~misused' PROVE ~misused
  OBVIOUS
<1>1. CASE UNCHANGED vars
  BY <1>1 DEF vars, protocolVars
<1>2. CASE Open \/ ScanNextStep \/ Close \/ Crash
  BY <1>2 DEF Open, ScanNextStep, ScanStart, ScanEnd, ScanEmptyKey, ScanFail, ScanOverflow, ScanRecord,
              Serve, Close, Crash, GoDown, protocolVars
<1>3. ASSUME NEW t \in Storers, StoreNext(t) PROVE ~misused
  BY <1>3 DEF StoreNext, StoreStart, StoreWrite, StoreWriteFail, StoreFetch, StoreAdvance,
              StoreOverflow, StoreIndex, protocolVars
<1>4. ASSUME NEW t \in Loaders, LoadNext(t) PROVE ~misused
  BY <1>4 DEF LoadNext, LoadMissing, LoadStart, LoadSeek, LoadRead, LoadAssertFails, protocolVars
<1>5. QED
  BY <1>1, <1>2, <1>3, <1>4 DEF Next

LEMMA StoreInvStep ==
  ASSUME TypeInv, Inv, NEW t \in Threads, StoreNext(t), ~misused'
  PROVE  Inv'
<1>1. CASE \E k \in Keys, v \in Vals : StoreStart(t, k, v)
  BY <1>1, StoreStartInv
<1>2. CASE StoreWrite(t)
  BY <1>2, StoreWriteInv
<1>3. ASSUME NEW n \in 0 .. RecordLen(op[t].key, op[t].value), StoreWriteFail(t, n) PROVE Inv'
  <2>1. n \in Nat
    <3>1. pc[t] \in StoreSteps
      BY <1>3 DEF StoreWriteFail, StoreSteps
    <3>2. RecordLen(op[t].key, op[t].value) \in Nat
      BY <3>1, StoreData
    <3>3. QED
      BY <3>2
  <2>2. QED
    BY <1>3, <2>1, StoreWriteFailInv
<1>4. CASE StoreFetch(t) \/ StoreAdvance(t) \/ StoreOverflow(t) \/ StoreIndex(t)
  BY <1>4, StoreRestInv
<1>5. QED
  BY <1>1, <1>2, <1>3, <1>4 DEF StoreNext

LEMMA LoadInvStep ==
  ASSUME TypeInv, Inv, NEW t \in Threads, LoadNext(t), ~misused'
  PROVE  Inv'
<1>1. CASE \E k \in Keys : LoadMissing(t, k) \/ LoadStart(t, k)
  BY <1>1, LoadStartInv
<1>2. CASE LoadSeek(t) \/ LoadRead(t) \/ LoadAssertFails(t)
  BY <1>2, LoadRestInv
<1>3. QED
  BY <1>1, <1>2 DEF LoadNext

LEMMA StutterInv == Inv /\ UNCHANGED vars => Inv'
<1> SUFFICES ASSUME Inv, UNCHANGED vars PROVE Inv'
  OBVIOUS
<1>1. UNCHANGED <<file, mode, cursor, lastPos, index, scanPos, scanned, nScanned, mutex, pc, op, recs,
                  torn, displaced>>
  BY DEF vars, scanVars, threadVars, protocolVars
<1>2. FileInv' /\ ScanInv'
  BY <1>1 DEF Inv, FileInv, ScanInv
<1>3. IdleInv' /\ EndInv' /\ IndexInv' /\ OpenInv'
  BY <1>1 DEF Inv, IdleInv, EndInv, IndexInv, OpenInv
<1>4. ThreadInv'
  BY <1>1 DEF Inv, ThreadInv, StoreInv, LoadInv
<1>5. QED
  BY <1>2, <1>3, <1>4 DEF Inv

LEMMA StepInv == TypeInv /\ ProtocolInv /\ [Next]_vars => ProtocolInv'
<1> SUFFICES ASSUME TypeInv, ProtocolInv, [Next]_vars, ~misused' PROVE Inv'
  BY DEF ProtocolInv
<1>1. Inv
  BY MisuseStays DEF ProtocolInv
<1>2. CASE UNCHANGED vars
  BY <1>1, <1>2, StutterInv
<1>3. CASE Open \/ ScanNextStep
  BY <1>1, <1>3, OpenInvStep, ScanGoesOn, ScanEnds DEF ScanNextStep
<1>4. CASE Close \/ Crash
  BY <1>1, <1>4, DownInvStep
<1>5. ASSUME NEW t \in Storers, StoreNext(t) PROVE Inv'
  BY <1>1, <1>5, StoreInvStep DEF Threads
<1>6. ASSUME NEW t \in Loaders, LoadNext(t) PROVE Inv'
  BY <1>1, <1>6, LoadInvStep DEF Threads
<1>7. QED
  BY <1>2, <1>3, <1>4, <1>5, <1>6 DEF Next

(* The invariant holds for any number of stores, loads, scans and crashes. *)
THEOREM ProtocolInvHolds == Spec => [](TypeInv /\ ProtocolInv)
<1>1. Init => TypeInv /\ ProtocolInv
  BY InitTypeInv, InitInv DEF ProtocolInv
<1>2. (TypeInv /\ ProtocolInv) /\ [Next]_vars => (TypeInv /\ ProtocolInv)'
  BY StepTypeInv, StepInv
<1>3. QED
  BY <1>1, <1>2, PTL DEF Spec

LEMMA NewestIsLatest ==
  ASSUME NEW i PROVE IsLatest(i) <=> Newest(recs, i, Len(recs))
  BY DEF IsLatest, Newest

LEMMA IndexFromInv == TypeInv /\ ProtocolInv => IndexPointsAtLatest
<1> SUFFICES ASSUME TypeInv, ProtocolInv, mode = "serving", ~misused,
                    \A t \in Threads : pc[t] \notin {"fetch", "advance", "index"}
             PROVE  /\ \A i \in 1 .. Len(recs) :
                         IsLatest(i) /\ recs[i].key \notin torn =>
                           /\ recs[i].key \in DOMAIN index
                           /\ ReadAt(file, index[recs[i].key].valuePos, index[recs[i].key].valueSize)
                                 = recs[i].value
                    /\ \A k \in DOMAIN index : k \in torn \/ \E i \in 1 .. Len(recs) : recs[i].key = k
  BY DEF IndexPointsAtLatest
<1>1. Chain(file, recs) /\ Indexes(recs, torn, index, Len(recs))
  BY DEF ProtocolInv, Inv, FileInv, IndexInv, StoreSteps
<1>2. ASSUME NEW i \in 1 .. Len(recs), IsLatest(i), recs[i].key \notin torn
      PROVE  /\ recs[i].key \in DOMAIN index
             /\ ReadAt(file, index[recs[i].key].valuePos, index[recs[i].key].valueSize) = recs[i].value
  <2>1. recs[i].key \in DOMAIN index /\ index[recs[i].key] = Place(recs, i)
    BY <1>1, <1>2, NewestIsLatest DEF Indexes
  <2>2. Whole(file, recs, i)
    BY <1>1 DEF Chain
  <2>3. ReadAt(file, recs[i].pos + HeaderLen + Len(recs[i].key), Len(recs[i].value)) = recs[i].value
    BY <2>2, Typed, WholeReadsBack
  <2>4. QED
    BY <2>1, <2>3 DEF Place, Entry
<1>3. \A k \in DOMAIN index : k \in torn \/ \E i \in 1 .. Len(recs) : recs[i].key = k
  BY <1>1 DEF Indexes
<1>4. QED
  BY <1>2, <1>3

(***************************************************************************)
(* Clients that keep to the protocol always find every key's newest value  *)
(* at the place the index gives for it, and no key that was not stored.    *)
(***************************************************************************)
THEOREM IndexCorrect == Spec => []IndexPointsAtLatest
  BY ProtocolInvHolds, IndexFromInv, PTL

LEMMA CursorFromInv == ProtocolInv => CursorAtEnd
  BY EndOfIsEndIn DEF ProtocolInv, Inv, EndInv, CursorAtEnd, StoreSteps

(***************************************************************************)
(* The shared cursor and lastPos are at the end of the file whenever a     *)
(* store may start, whatever scans, stores and loads came before.          *)
(***************************************************************************)
THEOREM CursorCorrect == Spec => []CursorAtEnd
  BY ProtocolInvHolds, CursorFromInv, PTL

LEMMA OpensFromInv == ProtocolInv => OpensUnlessTornOrTooLong
  BY EndOfIsEndIn DEF ProtocolInv, Inv, OpenInv, OpensUnlessTornOrTooLong

(***************************************************************************)
(* An open fails, and an assertion or a cast of scan, store or load        *)
(* panics, only behind a cut-short write or beyond the u32 positions.      *)
(***************************************************************************)
THEOREM OpensCorrect == Spec => []OpensUnlessTornOrTooLong
  BY ProtocolInvHolds, OpensFromInv, PTL

(* The step that ends a load of t with an answer is LoadRead(t). *)
LEMMA OnlyLoadReadAnswers ==
  ASSUME [Next]_vars, TypeInv, NEW t \in Loaders, pc[t] = "read", pc'[t] = "idle", mode' = "serving"
  PROVE  LoadRead(t)
<1>1. pc \in [Threads -> {"idle"} \cup StoreSteps \cup LoadSteps] /\ t \in Threads
  BY DEF TypeInv, TypeOK, Threads
<1>2. ~UNCHANGED pc
  OBVIOUS
<1>3. ~UNCHANGED vars /\ ~Open /\ ~ScanNextStep
  BY <1>2 DEF vars, threadVars, Open, ScanNextStep, ScanStart, ScanEnd, ScanEmptyKey, ScanFail,
              ScanOverflow, ScanRecord, Serve
<1>4. ~Close /\ ~Crash
  BY DEF Close, Crash, GoDown
<1>5. ASSUME NEW u \in Storers, StoreNext(u) PROVE FALSE
  <2>1. u \in Threads
    BY DEF Threads
  <2>2. CASE u = t
    BY <1>1, <1>2, <1>5, <2>2 DEF StoreNext, StoreStart, StoreWrite, StoreWriteFail, StoreFetch,
         StoreAdvance, StoreOverflow, StoreIndex, threadVars
  <2>3. CASE u # t
    BY <1>1, <1>2, <1>5, <2>1, <2>3 DEF StoreNext, StoreStart, StoreWrite, StoreWriteFail, StoreFetch,
         StoreAdvance, StoreOverflow, StoreIndex, threadVars
  <2>4. QED
    BY <2>2, <2>3
<1>6. ASSUME NEW u \in Loaders, LoadNext(u) PROVE LoadRead(t)
  <2>1. u \in Threads
    BY DEF Threads
  <2>2. CASE u = t
    BY <1>1, <1>2, <1>6, <2>2 DEF LoadNext, LoadMissing, LoadStart, LoadSeek, LoadAssertFails, threadVars
  <2>3. CASE u # t
    BY <1>1, <1>2, <1>6, <2>1, <2>3 DEF LoadNext, LoadMissing, LoadStart, LoadSeek, LoadRead,
         LoadAssertFails, threadVars
  <2>4. QED
    BY <2>2, <2>3
<1>7. QED
  BY <1>3, <1>4, <1>5, <1>6 DEF Next

LEMMA LoadsFromInv ==
  ASSUME TypeInv, ProtocolInv, [Next]_vars, NEW t \in Loaders,
         pc[t] = "read", pc'[t] = "idle", mode' = "serving", ~misused, op[t].key \notin torn
  PROVE  \E i \in 1 .. Len(recs) :
           IsLatest(i) /\ recs[i].key = op[t].key /\ reply'.value = recs[i].value
<1>1. LoadRead(t) /\ t \in Threads
  BY OnlyLoadReadAnswers DEF Threads
<1>2. reply'.value = ReadAt(file, cursor, op[t].entry.valueSize) /\ mode = "serving"
  BY <1>1 DEF LoadRead, LoadBytes
<1>3. Inv
  BY DEF ProtocolInv
<1>4. /\ op[t].key \in DOMAIN index /\ op[t].entry = index[op[t].key]
      /\ Indexes(recs, torn, index, Len(recs))
  BY <1>1, <1>2, <1>3, LoadAlone DEF LoadSteps
<1>5. cursor = op[t].entry.valuePos
  BY <1>1, <1>3 DEF Inv, ThreadInv, LoadInv, LoadSteps
<1>6. Chain(file, recs) /\ file \in Seq(Byte) /\ recs \in Seq(RecType)
  BY <1>3, Typed DEF Inv, FileInv
<1>7. PICK i \in 1 .. Len(recs) :
        /\ recs[i].key = op[t].key /\ Newest(recs, i, Len(recs))
        /\ ReadAt(file, index[op[t].key].valuePos, index[op[t].key].valueSize) = recs[i].value
  BY <1>4, <1>6, IndexedValue
<1>8. QED
  BY <1>2, <1>4, <1>5, <1>7, NewestIsLatest

(***************************************************************************)
(* A load answers with the newest value stored under its key, whatever     *)
(* loads of other threads it is interleaved with: db.zig's mutex is enough *)
(* as long as no store runs beside it.                                     *)
(***************************************************************************)
THEOREM LoadsCorrect == Spec => LoadsAnswerLatest
<1> DEFINE A == \A t \in Loaders :
       pc[t] = "read" /\ pc'[t] = "idle" /\ mode' = "serving" /\ ~misused /\ op[t].key \notin torn =>
         \E i \in 1 .. Len(recs) :
           IsLatest(i) /\ recs[i].key = op[t].key /\ reply'.value = recs[i].value
<1>1. TypeInv /\ ProtocolInv /\ [Next]_vars => [A]_vars
  BY LoadsFromInv
<1>2. LoadsAnswerLatest <=> [][A]_vars
  BY DEF LoadsAnswerLatest
<1> HIDE DEF A
<1>3. QED
  BY <1>1, <1>2, ProtocolInvHolds, PTL DEF Spec

(* The steps that change what an open can find are a store's write and a scan's empty key. *)
LEMMA WhatChangesRecs ==
  ASSUME [Next]_vars, recs' # recs
  PROVE  ScanEmptyKey \/ \E t \in Threads : StoreWrite(t)
<1>1. CASE UNCHANGED vars
  BY <1>1 DEF vars
<1>2. CASE Open \/ ScanNextStep \/ Close \/ Crash
  BY <1>2 DEF Open, ScanNextStep, ScanStart, ScanEnd, ScanFail, ScanOverflow, ScanRecord, Serve,
              Close, Crash, GoDown
<1>3. ASSUME NEW t \in Storers, StoreNext(t) PROVE StoreWrite(t) /\ t \in Threads
  BY <1>3 DEF StoreNext, StoreStart, StoreWriteFail, StoreFetch, StoreAdvance, StoreOverflow,
              StoreIndex, Threads
<1>4. ASSUME NEW t \in Loaders, LoadNext(t) PROVE FALSE
  BY <1>4 DEF LoadNext, LoadMissing, LoadStart, LoadSeek, LoadRead, LoadAssertFails
<1>5. QED
  BY <1>1, <1>2, <1>3, <1>4 DEF Next

LEMMA ForgetsFromInv ==
  ASSUME TypeInv, ProtocolInv, [Next]_vars, ~misused, recs' # recs
  PROVE  \/ \E r \in [key : Keys, value : Vals, pos : {EndOf(Len(recs))}] : recs' = Append(recs, r)
         \/ /\ Len(recs') < Len(recs)
            /\ recs' = SubSeq(recs, 1, Len(recs'))
            /\ recs[Len(recs') + 1].key = << >>
<1>1. CASE \E t \in Threads : StoreWrite(t)
  <2>1. PICK t \in Threads : StoreWrite(t)
    BY <1>1
  <2>2. op[t].key \in Keys /\ op[t].value \in Vals
    BY <2>1 DEF TypeInv, StoreArgs, StoreWrite, StoreSteps
  <2>3. recs' = Append(recs, [key |-> op[t].key, value |-> op[t].value, pos |-> EndOf(Len(recs))])
    BY <2>1 DEF StoreWrite
  <2>4. QED
    BY <2>2, <2>3
<1>2. CASE ScanEmptyKey
  <2>1. /\ mode = "scanning" /\ HasInt(file, cursor) /\ IntAt(file, cursor) = 0
        /\ recs' = IF nScanned <= Len(recs) THEN SubSeq(recs, 1, nScanned) ELSE recs
    BY <1>2 DEF ScanEmptyKey
  <2>2. Inv
    BY DEF ProtocolInv
  <2>3. /\ nScanned \in 0 .. Len(recs) /\ cursor = EndIn(recs, nScanned)
        /\ nScanned # Len(recs) => nScanned + 1 \in 1 .. Len(recs) /\ Whole(file, recs, nScanned + 1)
    BY <2>1, <2>2, ScanPlace
  <2>4. recs' = SubSeq(recs, 1, nScanned)
    BY <2>1, <2>3, Typed
  <2>5. Len(recs') = nScanned
    BY <2>2, <2>3, <2>4, Typed, ChainCut DEF Inv, FileInv
  <2>6. nScanned # Len(recs)
    <3> SUFFICES ASSUME nScanned = Len(recs) PROVE FALSE
      OBVIOUS
    <3>1. recs' = recs
      <4>1. recs \in Seq(RecType)
        BY Typed
      <4>2. SubSeq(recs, 1, Len(recs)) = recs
        BY <4>1, SubSeqFull
      <4>3. QED
        BY <2>4, <4>2
    <3>2. QED
      BY <3>1
  <2>7. Len(recs') < Len(recs)
    BY <2>3, <2>5, <2>6, Typed
  <2>8. recs[nScanned + 1].key = << >>
    <3> DEFINE i == nScanned + 1
    <3>1. i \in 1 .. Len(recs) /\ Whole(file, recs, i) /\ i - 1 = nScanned
      BY <2>3, <2>6, Typed
    <3> HIDE DEF i
    <3>2. /\ recs[i].key \in Seq(Byte) /\ recs[i].pos = EndIn(recs, i - 1)
          /\ IntAt(file, recs[i].pos) = Len(recs[i].key)
      BY <3>1, Typed, WholeReadsBack
    <3>3. Len(recs[i].key) = 0
      BY <2>1, <2>3, <3>1, <3>2
    <3>4. recs[i].key = << >>
      BY <3>2, <3>3, EmptySeq
    <3>5. QED
      BY <3>4 DEF i
  <2>9. QED
    BY <2>4, <2>5, <2>7, <2>8
<1>3. QED
  BY <1>1, <1>2, WhatChangesRecs

(***************************************************************************)
(* Nothing but a record with an empty key makes an open lose acknowledged  *)
(* records, and it loses exactly the ones from there on.                   *)
(***************************************************************************)
THEOREM ForgetsCorrect == Spec => OnlyEmptyKeyForgets
<1> DEFINE A == ~misused /\ recs' # recs =>
       \/ \E r \in [key : Keys, value : Vals, pos : {EndOf(Len(recs))}] : recs' = Append(recs, r)
       \/ /\ Len(recs') < Len(recs)
          /\ recs' = SubSeq(recs, 1, Len(recs'))
          /\ recs[Len(recs') + 1].key = << >>
<1>1. TypeInv /\ ProtocolInv /\ [Next]_vars => [A]_vars
  BY ForgetsFromInv
<1>2. OnlyEmptyKeyForgets <=> [][A]_vars
  BY DEF OnlyEmptyKeyForgets
<1> HIDE DEF A
<1>3. QED
  BY <1>1, <1>2, ProtocolInvHolds, PTL DEF Spec
-----------------------------------------------------------------------------
(***************************************************************************)
(* CaskDB implements KVStore: for clients that never store the empty key,  *)
(* every step of the file, the scan, the cursor and the index is a step of *)
(* the durable map or changes nothing of it.                               *)
(***************************************************************************)
(* The map that the records rs make. *)
MapOf(rs) ==
  [k \in {rs[i].key : i \in 1 .. Len(rs)} |->
     rs[CHOOSE i \in 1 .. Len(rs) : rs[i].key = k /\ Newest(rs, i, Len(rs))].value]

LEMMA ContentsIsMap == Contents = MapOf(recs)
  BY DEF Contents, MapOf, IsLatest, Newest

(* Every set of natural numbers that is not empty has a least element. *)
LEMMA LeastNat ==
  ASSUME NEW T, T \subseteq Nat, T # {}
  PROVE  \E x \in T : \A y \in T : x <= y
<1>1. PICK x \in T : \A y \in T : ~(<<y, x>> \in OpToRel(<, Nat))
  BY WFMin, NatLessThanWellFounded
<1>2. \A y \in T : ~(y < x)
  BY <1>1 DEF OpToRel
<1> QED
  BY <1>2

(* Every key of a sequence of records has a newest record. *)
LEMMA NewestExists ==
  ASSUME NEW rs \in Seq(RecType), NEW i \in 1 .. Len(rs)
  PROVE  \E j \in 1 .. Len(rs) : rs[j].key = rs[i].key /\ Newest(rs, j, Len(rs))
<1> DEFINE n == Len(rs)
           T == {m \in 0 .. n : m < n /\ rs[n - m].key = rs[i].key}
<1>1. n \in Nat /\ T \subseteq Nat /\ n - i \in T
  OBVIOUS
<1>3. PICK m \in T : \A l \in T : m <= l
  <2> HIDE DEF T
  <2> QED BY <1>1, LeastNat
<1>4. \A j \in (n - m + 1) .. n : rs[j].key # rs[i].key
  <2> SUFFICES ASSUME NEW j \in (n - m + 1) .. n, rs[j].key = rs[i].key PROVE FALSE
    OBVIOUS
  <2>1. n - j \in T /\ n - j < m
    OBVIOUS
  <2> QED BY <1>3, <2>1
<1>5. n - m \in 1 .. n /\ rs[n - m].key = rs[i].key
  OBVIOUS
<1> QED
  BY <1>4, <1>5 DEF Newest

(* A key has one newest record, and the map gives its value. *)
LEMMA MapOfNewest ==
  ASSUME NEW rs \in Seq(RecType), NEW i \in 1 .. Len(rs), Newest(rs, i, Len(rs))
  PROVE  rs[i].key \in DOMAIN MapOf(rs) /\ MapOf(rs)[rs[i].key] = rs[i].value
<1> DEFINE c == CHOOSE j \in 1 .. Len(rs) : rs[j].key = rs[i].key /\ Newest(rs, j, Len(rs))
<1>1. c \in 1 .. Len(rs) /\ rs[c].key = rs[i].key /\ Newest(rs, c, Len(rs))
  OBVIOUS
<1>2. c = i
  BY <1>1 DEF Newest
<1>3. rs[i].key \in DOMAIN MapOf(rs)
  BY DEF MapOf
<1>4. MapOf(rs)[rs[i].key] = rs[c].value
  BY DEF MapOf
<1> QED
  BY <1>2, <1>3, <1>4

MapPut(map, r) == [j \in DOMAIN map \cup {r.key} |-> IF j = r.key THEN r.value ELSE map[j]]

(* Appending a record to the file puts its value into the map. *)
LEMMA MapOfLonger ==
  ASSUME NEW rs \in Seq(RecType), NEW r \in RecType, NEW more \in Seq(RecType),
         Len(more) = Len(rs) + 1, more[Len(more)] = r, \A i \in 1 .. Len(rs) : more[i] = rs[i]
  PROVE  MapOf(more) =
           MapPut(MapOf(rs), r)
<1> DEFINE put == MapPut(MapOf(rs), r)
           n == Len(rs)
           m == Len(more)
<1>1. n \in Nat /\ m = n + 1 /\ m \in 1 .. m /\ 1 .. m = (1 .. n) \cup {m}
  OBVIOUS
<1>0. n = Len(rs) /\ m = Len(more) /\ more[m] = r /\ \A i \in 1 .. n : more[i] = rs[i]
  OBVIOUS
<1> HIDE DEF n, m
<1>2. DOMAIN MapOf(more) = DOMAIN MapOf(rs) \cup {r.key}
  <2>1. DOMAIN MapOf(more) = {more[i].key : i \in 1 .. m} /\ DOMAIN MapOf(rs) = {rs[i].key : i \in 1 .. n}
    BY <1>0 DEF MapOf
  <2>2. {more[i].key : i \in 1 .. m} = {rs[i].key : i \in 1 .. n} \cup {r.key}
    <3>1. more[m].key = r.key /\ \A i \in 1 .. n : more[i].key = rs[i].key
      BY <1>0
    <3> HIDE DEF put
    <3>2. ASSUME NEW i \in 1 .. m PROVE more[i].key \in {rs[j].key : j \in 1 .. n} \cup {r.key}
      BY <1>1, <3>1
    <3>3. ASSUME NEW i \in 1 .. n PROVE rs[i].key \in {more[j].key : j \in 1 .. m}
      BY <1>1, <3>1
    <3>4. r.key \in {more[j].key : j \in 1 .. m}
      BY <1>1, <3>1
    <3> QED BY <3>2, <3>3, <3>4
  <2> QED BY <2>1, <2>2
<1>3. MapOf(more)[r.key] = r.value
  <2>1. m \in 1 .. Len(more) 
    BY <1>0, <1>1
  <2>2. Newest(more, m, Len(more))
    <3>1. (m + 1) .. m = {}
      BY <1>1
    <3> QED BY <1>0, <3>1 DEF Newest
  <2> QED BY <1>0, <2>1, <2>2, MapOfNewest
<1>4. ASSUME NEW j \in DOMAIN MapOf(rs), j # r.key PROVE MapOf(more)[j] = MapOf(rs)[j]
  <2>1. PICK g \in 1 .. n : rs[g].key = j
    BY <1>0 DEF MapOf
  <2>2. PICK l \in 1 .. n : rs[l].key = j /\ Newest(rs, l, n)
    BY <1>0, <2>1, NewestExists
  <2>3. l \in 1 .. m /\ more[l] = rs[l]
    BY <1>0, <1>1
  <2>4. Newest(more, l, m)
    <3> SUFFICES ASSUME NEW i \in (l + 1) .. m PROVE more[i].key # more[l].key
      BY DEF Newest
    <3>1. CASE i = m
      BY <1>0, <1>4, <2>2, <2>3, <3>1
    <3>2. CASE i # m
      <4>1. i \in (l + 1) .. n /\ i \in 1 .. n
        BY <1>1, <3>2
      <4> QED BY <1>0, <2>2, <2>3, <4>1 DEF Newest
    <3> QED BY <3>1, <3>2
  <2>5. MapOf(more)[more[l].key] = more[l].value
    BY <1>0, <2>3, <2>4, MapOfNewest
  <2>6. MapOf(rs)[rs[l].key] = rs[l].value
    BY <1>0, <2>2, MapOfNewest
  <2> QED BY <2>2, <2>3, <2>5, <2>6
<1>5. \A j \in DOMAIN put : MapOf(more)[j] = put[j]
  BY <1>3, <1>4 DEF MapPut
<1>6. MapOf(more) = [j \in DOMAIN MapOf(more) |-> MapOf(more)[j]]
  <2> DEFINE D == {more[i].key : i \in 1 .. Len(more)}
             V(k) == more[CHOOSE i \in 1 .. Len(more) : more[i].key = k /\ Newest(more, i, Len(more))].value
  <2>1. MapOf(more) = [k \in D |-> V(k)]
    BY DEF MapOf
  <2> HIDE DEF D, V
  <2> QED BY <2>1
<1> QED
  BY <1>2, <1>5, <1>6 DEF MapPut

LEMMA MapOfAppend ==
  ASSUME NEW rs \in Seq(RecType), NEW r \in RecType
  PROVE  MapOf(Append(rs, r)) =
           MapPut(MapOf(rs), r)
<1> DEFINE more == Append(rs, r)
<1>1. more \in Seq(RecType) /\ Len(more) = Len(rs) + 1 /\ more[Len(more)] = r
  OBVIOUS
<1>2. \A i \in 1 .. Len(rs) : more[i] = rs[i]
  OBVIOUS
<1> HIDE DEF more
<1>3. MapOf(more) = MapPut(MapOf(rs), r)
  BY <1>1, <1>2, MapOfLonger
<1> QED
  BY <1>3 DEF more
-----------------------------------------------------------------------------
(* A load is always for a key that a client may ask for. *)
LoadKeys == \A t \in Threads : pc[t] \in LoadSteps => op[t].key \in Keys

LEMMA LoadKeysStep == TypeInv /\ LoadKeys /\ [Next]_vars => LoadKeys'
<1> SUFFICES ASSUME TypeInv, LoadKeys, [Next]_vars, NEW u \in Threads, pc'[u] \in LoadSteps
             PROVE  op'[u].key \in Keys
  BY DEF LoadKeys
<1>1. pc \in [Threads -> {"idle"} \cup StoreSteps \cup LoadSteps] /\ op \in [Threads -> OpType]
  BY DEF TypeInv, TypeOK
<1>2. pc[u] \in LoadSteps => op[u].key \in Keys
  BY DEF LoadKeys
<1>3. CASE UNCHANGED <<pc, op>>
  BY <1>2, <1>3
<1>4. CASE Close \/ Crash
  BY <1>4 DEF Close, Crash, GoDown, LoadSteps
<1>5. ASSUME NEW t \in Storers, StoreNext(t) PROVE op'[u].key \in Keys
  <2>1. t \in Threads
    BY DEF Threads
  <2>2. UNCHANGED <<pc, op>> \/ (pc'[t] \notin LoadSteps /\ (u # t => pc'[u] = pc[u] /\ op'[u] = op[u]))
    BY <1>1, <1>5, <2>1 DEF StoreNext, StoreStart, StoreWrite, StoreWriteFail, StoreFetch, StoreAdvance,
         StoreOverflow, StoreIndex, threadVars, StoreSteps, LoadSteps
  <2> QED BY <1>2, <2>2
<1>6. ASSUME NEW t \in Loaders, LoadNext(t) PROVE op'[u].key \in Keys
  <2>1. t \in Threads
    BY DEF Threads
  <2>2. CASE \E k \in Keys : LoadStart(t, k)
    <3>1. PICK k \in Keys : LoadStart(t, k)
      BY <2>2
    <3>2. op'[u].key = IF u = t THEN k ELSE op[u].key
      BY <1>1, <2>1, <3>1 DEF LoadStart
    <3>3. u # t => pc'[u] = pc[u]
      BY <1>1, <2>1, <3>1 DEF LoadStart
    <3> QED BY <1>2, <3>2, <3>3
  <2>3. CASE ~\E k \in Keys : LoadStart(t, k)
    <3>1. op' = op /\ (pc'[u] \in LoadSteps => pc[u] \in LoadSteps)
      BY <1>1, <1>6, <2>1, <2>3 DEF LoadNext, LoadMissing, LoadSeek, LoadRead, LoadAssertFails, threadVars,
           LoadSteps
    <3> QED BY <1>2, <3>1
  <2> QED BY <2>2, <2>3
<1>7. CASE Open \/ ScanNextStep \/ UNCHANGED vars
  BY <1>3, <1>7 DEF vars, threadVars, Open, ScanNextStep, ScanStart, ScanEnd, ScanEmptyKey, ScanFail,
              ScanOverflow, ScanRecord, Serve
<1> QED
  BY <1>4, <1>5, <1>6, <1>7 DEF Next

(* What the map's actions say in terms of the records. *)
LEMMA ContentsNext == Contents' = MapOf(recs')
  BY DEF Contents, MapOf, IsLatest, Newest

(* A write that ends is the map's Put. *)
LEMMA WriteIsPut ==
  ASSUME TypeInv, NEW t \in Threads, StoreWrite(t)
  PROVE  KV!Put(op[t].key, op[t].value) /\ op[t].key \in Keys /\ op[t].value \in Vals
<1> DEFINE r == [key |-> op[t].key, value |-> op[t].value, pos |-> EndOf(Len(recs))]
<1>1. op[t].key \in Keys /\ op[t].value \in Vals
  BY DEF TypeInv, StoreArgs, StoreWrite, StoreSteps
<1>2. recs \in Seq(RecType) /\ Len(recs) \in 0 .. Len(recs)
  BY Typed
<1>3. EndOf(Len(recs)) \in Nat
  BY Typed, EndOfIsEndIn
<1>4. r \in RecType
  BY <1>1, <1>3, ClientAssumption DEF RecType
<1>5. recs' = Append(recs, r) /\ UNCHANGED <<torn, misused, reply>>
  BY DEF StoreWrite, protocolVars
<1>6. r.key = op[t].key /\ r.value = op[t].value
  OBVIOUS
<1> HIDE DEF r
<1>7. Contents' = MapPut(Contents, r)
  BY <1>2, <1>4, <1>5, ContentsIsMap, ContentsNext, MapOfAppend
<1> QED
  BY <1>1, <1>5, <1>6, <1>7 DEF KV!Put, MapPut

(* A write that is cut short leaves the map alone. *)
LEMMA WriteFailIsFail ==
  ASSUME TypeInv, NEW t \in Threads, NEW n, StoreWriteFail(t, n)
  PROVE  (KV!Fail(op[t].key) /\ op[t].key \in Keys) \/ UNCHANGED <<recs, torn, misused, reply>>
<1>1. op[t].key \in Keys
  BY DEF TypeInv, StoreArgs, StoreWriteFail, StoreSteps
<1>2. UNCHANGED <<recs, misused, reply>> /\ (torn' = torn \cup {op[t].key} \/ torn' = torn)
  BY DEF StoreWriteFail
<1>3. Contents' = Contents
  BY <1>2, ContentsIsMap, ContentsNext
<1> QED
  BY <1>1, <1>2, <1>3 DEF KV!Fail

(* A load that finds its key absent is the map's Get. *)
LEMMA MissingIsGet ==
  ASSUME TypeInv, Inv, ~misused', ~misused, NEW t \in Loaders, NEW k, LoadMissing(t, k)
  PROVE  KV!Get(k)
<1>1. /\ reply' = [key |-> k, found |-> FALSE, value |-> << >>]
      /\ UNCHANGED <<recs, torn>> /\ mode = "serving" /\ k \notin DOMAIN index /\ pc[t] = "idle"
  BY DEF LoadMissing
<1>2. misused \in BOOLEAN /\ misused' = (misused \/ LoadMisuse(t))
  BY DEF LoadMissing, TypeInv, TypeOK
<1>3. ~LoadMisuse(t) /\ misused' = misused
  BY <1>2, Zenon
<1>4. \A u \in Threads : pc[u] \notin StoreSteps
  BY <1>1, <1>3 DEF LoadMisuse, Busy, StoreSteps
<1>5. Indexes(recs, torn, index, Len(recs))
  BY <1>1, <1>4 DEF Inv, IndexInv
<1>6. ASSUME k \notin torn, k \in DOMAIN MapOf(recs) PROVE FALSE
  <2>1. PICK i \in 1 .. Len(recs) : recs[i].key = k
    BY <1>6 DEF MapOf
  <2>2. PICK j \in 1 .. Len(recs) : recs[j].key = k /\ Newest(recs, j, Len(recs))
    BY <2>1, Typed, NewestExists
  <2> QED BY <1>1, <1>5, <1>6, <2>2 DEF Indexes
<1>7. Contents' = Contents /\ Contents = MapOf(recs)
  BY <1>1, ContentsIsMap, ContentsNext
<1>8. reply'.key = k /\ reply'.found = FALSE
  BY <1>1
<1>9. k \notin torn => k \notin DOMAIN Contents
  BY <1>6, <1>7
<1>10. k \notin torn => (reply'.found <=> k \in DOMAIN Contents)
  BY <1>8, <1>9
<1> QED
  BY <1>1, <1>3, <1>7, <1>8, <1>10 DEF KV!Get

(* A load that answers is the map's Get. *)
LEMMA ReadIsGet ==
  ASSUME TypeInv, Inv, LoadKeys, NEW t \in Loaders, LoadRead(t)
  PROVE  KV!Get(op[t].key) /\ op[t].key \in Keys
<1> DEFINE k == op[t].key
<1>1. t \in Threads /\ mode = "serving" /\ pc[t] = "read" /\ pc[t] \in LoadSteps
  BY DEF LoadRead, Threads, LoadSteps
<1>2. /\ reply' = [key |-> k, found |-> TRUE, value |-> ReadAt(file, cursor, op[t].entry.valueSize)]
      /\ UNCHANGED <<recs, torn, misused>>
  BY DEF LoadRead, LoadBytes
<1>3. /\ k \in DOMAIN index /\ op[t].entry = index[k]
      /\ Indexes(recs, torn, index, Len(recs))
  BY <1>1, LoadAlone
<1>4. cursor = op[t].entry.valuePos
  BY <1>1 DEF Inv, ThreadInv, LoadInv
<1>5. Chain(file, recs) /\ file \in Seq(Byte) /\ recs \in Seq(RecType)
  BY Typed DEF Inv, FileInv
<1>6. Contents' = Contents /\ Contents = MapOf(recs)
  BY <1>2, ContentsIsMap, ContentsNext
<1>7. k \in Keys
  BY <1>1 DEF LoadKeys
<1>8. reply'.key = k /\ reply'.found = TRUE /\ reply'.value = ReadAt(file, index[k].valuePos, index[k].valueSize)
  BY <1>2, <1>3, <1>4
<1> HIDE DEF k
<1>9. ASSUME k \notin torn PROVE k \in DOMAIN Contents /\ reply'.value = Contents[k]
  <2>1. PICK i \in 1 .. Len(recs) :
          /\ recs[i].key = k /\ Newest(recs, i, Len(recs))
          /\ ReadAt(file, index[k].valuePos, index[k].valueSize) = recs[i].value
    BY <1>3, <1>5, <1>9, IndexedValue
  <2>2. k \in DOMAIN MapOf(recs) /\ MapOf(recs)[k] = recs[i].value
    BY <1>5, <2>1, MapOfNewest
  <2> QED BY <1>6, <1>8, <2>1, <2>2
<1>10. k \notin torn => (reply'.found <=> k \in DOMAIN Contents)
  BY <1>8, <1>9
<1>11. KV!Get(k)
  BY <1>2, <1>6, <1>8, <1>9, <1>10 DEF KV!Get
<1> QED
  BY <1>7, <1>11 DEF k

(* A scan that meets an empty key has passed every record: none of them has an empty key. *)
LEMMA NoEmptyKey ==
  ASSUME NonEmptyKeys, TypeInv, ProtocolInv, [Next]_vars, ~misused, ScanEmptyKey
  PROVE  recs' = recs
<1> SUFFICES ASSUME recs' # recs PROVE FALSE
  OBVIOUS
<1>1. Inv /\ recs \in Seq(RecType) /\ Len(recs) \in Nat
  BY Typed DEF ProtocolInv
<1>2. recs' = IF nScanned <= Len(recs) THEN SubSeq(recs, 1, nScanned) ELSE recs
  BY DEF ScanEmptyKey
<1>3. nScanned \in 0 .. Len(recs)
  BY <1>1, ScanPlace DEF ScanEmptyKey
<1>4. recs' = SubSeq(recs, 1, nScanned)
  BY <1>2, <1>3, Typed
<1>5. Len(recs') = nScanned
  BY <1>1, <1>3, <1>4, ChainCut DEF Inv, FileInv
<1>6. ASSUME NEW r, recs' = Append(recs, r) PROVE FALSE
  BY <1>1, <1>3, <1>5, <1>6
<1>7. Len(recs') < Len(recs) /\ recs[Len(recs') + 1].key = << >>
  BY <1>6, ForgetsFromInv
<1>8. nScanned + 1 \in 1 .. Len(recs) /\ recs[nScanned + 1].key = << >>
  BY <1>1, <1>3, <1>5, <1>7
<1>9. recs[nScanned + 1].key \in Keys
  BY <1>1, <1>8 DEF Inv, FileInv, Chain, Whole
<1> QED
  BY <1>8, <1>9 DEF NonEmptyKeys

(***************************************************************************)
(* Every step of the database is a step of the map, or leaves it alone.    *)
(***************************************************************************)
LEMMA KVStep ==
  ASSUME NonEmptyKeys, TypeInv, ProtocolInv, LoadKeys, [Next]_vars
  PROVE  [KV!Next]_(KV!kvVars)
<1>1. CASE misused'
  BY <1>1 DEF KV!Next
<1>2. ASSUME ~misused' PROVE [KV!Next]_(KV!kvVars)
  <2>1. ~misused /\ Inv
    BY <1>2, MisuseStays DEF ProtocolInv
  <2>2. misused' = misused
    <3>1. misused \in BOOLEAN /\ misused' \in BOOLEAN
      BY StepTypeInv DEF TypeInv, TypeOK
    <3> QED BY <1>2, <2>1, <3>1
  <2>3. UNCHANGED <<recs, torn, reply>> => UNCHANGED KV!kvVars
    BY <2>2, ContentsIsMap, ContentsNext DEF KV!kvVars
  <2>4. CASE Close \/ Crash
    <3>1. GoDown
      BY <2>4 DEF Close, Crash
    <3>2. KV!Restart
      BY <3>1, ContentsIsMap, ContentsNext DEF GoDown, KV!Restart
    <3> QED BY <3>2 DEF KV!Next
  <2>5. CASE Open \/ ScanNextStep
    <3>1. UNCHANGED <<torn, reply>>
      BY <2>5 DEF threadVars, protocolVars, Open, ScanNextStep, ScanStart, ScanEnd, ScanEmptyKey, ScanFail,
                  ScanOverflow, ScanRecord, Serve
    <3>2. CASE ScanEmptyKey
      BY <2>1, <2>3, <3>1, <3>2, NoEmptyKey
    <3>3. CASE ~ScanEmptyKey
      <4>1. recs' = recs
        BY <2>5, <3>3 DEF Open, ScanNextStep, ScanStart, ScanEnd, ScanFail, ScanOverflow, ScanRecord
      <4> QED BY <2>3, <3>1, <4>1
    <3> QED BY <3>2, <3>3
  <2>6. ASSUME NEW t \in Storers, StoreNext(t) PROVE [KV!Next]_(KV!kvVars)
    <3>1. t \in Threads
      BY DEF Threads
    <3>2. CASE StoreWrite(t)
      BY <3>1, <3>2, WriteIsPut DEF KV!Next
    <3>3. ASSUME NEW n, StoreWriteFail(t, n) PROVE [KV!Next]_(KV!kvVars)
      BY <2>3, <3>1, <3>3, WriteFailIsFail DEF KV!Next
    <3>4. CASE ~StoreWrite(t) /\ ~\E n \in 0 .. RecordLen(op[t].key, op[t].value) : StoreWriteFail(t, n)
      <4>1. UNCHANGED <<recs, torn, reply>>
        BY <2>6, <3>4 DEF StoreNext, StoreStart, StoreFetch, StoreAdvance, StoreOverflow, StoreIndex,
             threadVars, protocolVars
      <4> QED BY <2>3, <4>1
    <3> QED BY <3>2, <3>3, <3>4
  <2>7. ASSUME NEW t \in Loaders, LoadNext(t) PROVE [KV!Next]_(KV!kvVars)
    <3>1. ASSUME NEW k \in Keys, LoadMissing(t, k) PROVE [KV!Next]_(KV!kvVars)
      BY <1>2, <2>1, <3>1, MissingIsGet DEF KV!Next
    <3>2. CASE LoadRead(t)
      BY <2>1, <3>2, ReadIsGet DEF KV!Next
    <3>3. CASE ~LoadRead(t) /\ ~\E k \in Keys : LoadMissing(t, k)
      <4>1. UNCHANGED <<recs, torn, reply>>
        BY <2>7, <3>3 DEF LoadNext, LoadStart, LoadSeek, LoadAssertFails, threadVars, protocolVars
      <4> QED BY <2>3, <4>1
    <3> QED BY <3>1, <3>2, <3>3
  <2>8. CASE UNCHANGED vars
    BY <2>3, <2>8 DEF vars, threadVars, protocolVars
  <2> QED
    BY <2>4, <2>5, <2>6, <2>7, <2>8 DEF Next
<1> QED
  BY <1>1, <1>2

LEMMA KVInit == Init => KV!Init /\ LoadKeys
<1> SUFFICES ASSUME Init PROVE KV!Init /\ LoadKeys
  OBVIOUS
<1>1. recs = << >> /\ torn = {} /\ misused = FALSE /\ reply = NoReply /\ pc = [t \in Threads |-> "idle"]
  BY DEF Init
<1>2. Contents = [k \in {} |-> {}]
  <2>1. {recs[i].key : i \in 1 .. Len(recs)} = {}
    BY <1>1
  <2>2. DOMAIN Contents = {}
    BY <2>1 DEF Contents
  <2>3. Contents = [k \in DOMAIN Contents |-> Contents[k]]
    <3> DEFINE D == {recs[i].key : i \in 1 .. Len(recs)}
               V(k) == recs[CHOOSE i \in 1 .. Len(recs) : recs[i].key = k /\ IsLatest(i)].value
    <3>1. Contents = [k \in D |-> V(k)]
      BY DEF Contents
    <3> HIDE DEF D, V
    <3> QED BY <3>1
  <2> QED BY <2>2, <2>3
<1> QED
  BY <1>1, <1>2 DEF KV!Init, LoadKeys, LoadSteps

(***************************************************************************)
(* zig-caskdb implements the durable map, for every set of keys without    *)
(* the empty one, every set of values, any number of threads and stores,   *)
(* and a crash or a failed write at any step: a store takes effect when    *)
(* its writeAll ends, a load answers with the map's value, and what a      *)
(* reopened database serves is what was acknowledged.  KVStore says what   *)
(* releases it from that: a cut-short write of the key, or misuse.         *)
(***************************************************************************)
THEOREM StoreImplemented ==
  ASSUME NonEmptyKeys
  PROVE  Spec => ImplementsKVStore
<1>1. Init => KV!Init /\ LoadKeys
  BY KVInit
<1>2. LoadKeys /\ TypeInv /\ [Next]_vars => LoadKeys'
  BY LoadKeysStep
<1>3. TypeInv /\ ProtocolInv /\ LoadKeys /\ [Next]_vars => [KV!Next]_(KV!kvVars)
  BY KVStep
<1> QED
  BY <1>1, <1>2, <1>3, ProtocolInvHolds, PTL DEF Spec, ImplementsKVStore, KV!Spec
=============================================================================
