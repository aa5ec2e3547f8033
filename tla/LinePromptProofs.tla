--------------------------- MODULE LinePromptProofs ---------------------------
(***************************************************************************)
(* Theorems about LinePrompt for every buffer size, alphabet, completion    *)
(* table and history length: what holds of the line and of the result when  *)
(* byte 0 is not typed, and what holds of the history and of the terminal   *)
(* when tcsetattr does not fail.                                            *)
(***************************************************************************)
EXTENDS RedisPrompt, SequenceTheorems, WellFoundedInduction, TLAPS

(***************************************************************************)
(* Lemmas about LineBuffer: every editing function leaves a C string of the *)
(* length it records, with the cursor inside it, and the bytes of that      *)
(* string are those the abstract editor computes on sequences.              *)
(***************************************************************************)
\* A buffer the editor can be in.
Good(m) == m \in LineState /\ LineIsString(m)

-----------------------------------------------------------------------------
(* Reading the buffer.                                                      *)

\* What Good says, field by field.
LEMMA GoodFacts ==
    ASSUME NEW m, Good(m)
    PROVE  /\ m = [buf |-> m.buf, len |-> m.len, pos |-> m.pos]
           /\ m.buf \in [Offset -> Byte]
           /\ m.len \in 0 .. BufLen /\ m.pos \in 0 .. m.len
           /\ BufLen \in Nat \ {0} /\ m.len \in Nat /\ m.pos \in Nat
           /\ m.buf[m.len] = NUL
           /\ \A i \in 0 .. m.len - 1 : m.buf[i] \in Text
BY BufLenAssumption DEF Good, LineState, LineIsString, Offset

\* How Good is shown.
LEMMA GoodIntro ==
    ASSUME NEW b \in [Offset -> Byte], NEW n \in Nat, NEW p \in Nat, p <= n, n <= BufLen,
           b[n] = NUL, \A i \in Nat : i < n => b[i] \in Text
    PROVE  Good([buf |-> b, len |-> n, pos |-> p])
BY BufLenAssumption DEF Good, LineState, LineIsString, Offset

\* m is made of buffer b, length n and position p.
Parts(m, b, n, p) ==
    /\ m = [buf |-> b, len |-> n, pos |-> p]
    /\ b \in [Offset -> Byte]
    /\ n \in Nat /\ p \in Nat /\ p <= n /\ n <= BufLen
    /\ b[n] = NUL
    /\ \A i \in Nat : i < n => b[i] \in Text

\* A good line has a buffer, a length and a cursor to name.
LEMMA GoodParts ==
    ASSUME NEW m, Good(m)
    PROVE  \E b, n, p : Parts(m, b, n, p)
<1>1. Parts(m, m.buf, m.len, m.pos)
  BY GoodFacts DEF Parts
<1> QED
  BY <1>1

\* strlen finds the terminator behind n bytes that are no terminators.
LEMMA StrlenIs ==
    ASSUME NEW b \in [Offset -> Byte], NEW n \in 0 .. BufLen,
           b[n] = NUL, \A i \in 0 .. n - 1 : b[i] # NUL
    PROVE  strlen(b) = n
<1>1. \A k \in Offset : (b[k] = NUL /\ \A i \in 0 .. k - 1 : b[i] # NUL) => k = n
  BY BufLenAssumption DEF Offset
<1>2. n \in Offset
  BY DEF Offset
<1> QED
  BY <1>1, <1>2 DEF strlen

\* What strdup(buf) returns is what the editor counts as the line.
LEMMA GoodString ==
    ASSUME NEW m, Good(m)
    PROVE  /\ strlen(m.buf) = m.len
           /\ CString(m.buf) = LineOf(m)
           /\ LineOf(m) \in LinesUpTo(BufLen)
           /\ LineOf(m) \in Seq(Text) /\ Len(LineOf(m)) = m.len
<1>1. strlen(m.buf) = m.len
  BY GoodFacts, StrlenIs, BytesAssumption
<1>2. CString(m.buf) = LineOf(m)
  BY <1>1 DEF CString, LineOf
<1>3. LineOf(m) \in [1 .. m.len -> Text]
  BY GoodFacts, BufLenAssumption DEF LineOf
<1>4. m.len \in Nat
  BY GoodFacts
<1> QED
  BY <1>1, <1>2, <1>3, <1>4, GoodFacts DEF LinesUpTo

\* The strings of a bounded length are sequences.
LEMMA LinesAreSeqs ==
    ASSUME NEW n \in Nat, NEW s \in LinesUpTo(n)
    PROVE  s \in Seq(Text) /\ Len(s) \in 0 .. n /\ \A i \in 1 .. Len(s) : s[i] \in Text
BY DEF LinesUpTo

\* A sequence of text bytes that is short enough is a line.
LEMMA SeqsAreLines ==
    ASSUME NEW n \in Nat, NEW s \in Seq(Text), Len(s) <= n
    PROVE  s \in LinesUpTo(n)
BY DEF LinesUpTo

-----------------------------------------------------------------------------
(* Every editing function leaves a good line.                               *)

\* linenoiseEditStart begins with a good, empty line.
LEMMA EmptyGood == Good(EmptyLine) /\ LineOf(EmptyLine) = <<>>
BY BufLenAssumption, GoodIntro DEF EmptyLine, Byte, LineOf, Offset

\* linenoiseEditInsert, whether the byte fits or not.
LEMMA InsertGood ==
    ASSUME NEW m, Good(m), NEW c \in Text
    PROVE  Good(EditInsert(m, c))
<1> SUFFICES ASSUME m.len < BufLen PROVE Good(EditInsert(m, c))
  BY DEF EditInsert
<1> PICK b, n, p : Parts(m, b, n, p)
  BY GoodParts
<1> DEFINE v == memmove(b, p + 1, p, n - p)
           w == [v EXCEPT ![p] = c, ![n + 1] = NUL]
<1>1. v \in [Offset -> Byte] /\ \A i \in Offset : v[i] = IF p + 1 <= i /\ i < n + 1 THEN b[i - 1] ELSE b[i]
  BY BufLenAssumption DEF Parts, memmove, Offset
<1> HIDE DEF v
<1>2. w \in [Offset -> Byte]
  BY <1>1, BufLenAssumption DEF Parts, Byte
<1>3. w[n + 1] = NUL /\ \A i \in Nat : i < n + 1 => w[i] \in Text
  BY <1>1, BufLenAssumption DEF Parts, Offset
<1>4. EditInsert(m, c) = [buf |-> w, len |-> n + 1, pos |-> p + 1]
  BY DEF Parts, EditInsert, v
<1> HIDE DEF w
<1> QED
  BY <1>2, <1>3, <1>4, GoodIntro, BufLenAssumption DEF Parts

\* The four cursor movements.
LEMMA MoveGood ==
    ASSUME NEW m, Good(m)
    PROVE  /\ Good(EditMoveLeft(m)) /\ Good(EditMoveRight(m))
           /\ Good(EditMoveHome(m)) /\ Good(EditMoveEnd(m))
<1> PICK b, n, p : Parts(m, b, n, p)
  BY GoodParts
<1> QED
  BY GoodIntro, BufLenAssumption
     DEF Parts, EditMoveLeft, EditMoveRight, EditMoveHome, EditMoveEnd

\* linenoiseEditDelete.
LEMMA DeleteGood ==
    ASSUME NEW m, Good(m)
    PROVE  Good(EditDelete(m))
<1> SUFFICES ASSUME m.len > 0, m.pos < m.len PROVE Good(EditDelete(m))
  BY DEF EditDelete
<1> PICK b, n, p : Parts(m, b, n, p)
  BY GoodParts
<1> DEFINE v == memmove(b, p, p + 1, n - p - 1)
           w == [v EXCEPT ![n - 1] = NUL]
<1>1. v \in [Offset -> Byte] /\ \A i \in Offset : v[i] = IF p <= i /\ i < n - 1 THEN b[i + 1] ELSE b[i]
  BY BufLenAssumption DEF Parts, memmove, Offset
<1> HIDE DEF v
<1>2. w \in [Offset -> Byte]
  BY <1>1, BufLenAssumption DEF Parts, Byte
<1>3. w[n - 1] = NUL /\ \A i \in Nat : i < n - 1 => w[i] \in Text
  BY <1>1, BufLenAssumption DEF Parts, Offset
<1>4. EditDelete(m) = [buf |-> w, len |-> n - 1, pos |-> p]
  BY DEF Parts, EditDelete, v
<1> HIDE DEF w
<1> QED
  BY <1>2, <1>3, <1>4, GoodIntro, BufLenAssumption DEF Parts

\* linenoiseEditBackspace.
LEMMA BackspaceGood ==
    ASSUME NEW m, Good(m)
    PROVE  Good(EditBackspace(m))
<1> SUFFICES ASSUME m.pos > 0, m.len > 0 PROVE Good(EditBackspace(m))
  BY DEF EditBackspace
<1> PICK b, n, p : Parts(m, b, n, p)
  BY GoodParts
<1> DEFINE v == memmove(b, p - 1, p, n - p)
           w == [v EXCEPT ![n - 1] = NUL]
<1>1. v \in [Offset -> Byte] /\ \A i \in Offset : v[i] = IF p - 1 <= i /\ i < n - 1 THEN b[i + 1] ELSE b[i]
  BY BufLenAssumption DEF Parts, memmove, Offset
<1> HIDE DEF v
<1>2. w \in [Offset -> Byte]
  BY <1>1, BufLenAssumption DEF Parts, Byte
<1>3. w[n - 1] = NUL /\ \A i \in Nat : i < n - 1 => w[i] \in Text
  BY <1>1, BufLenAssumption DEF Parts, Offset
<1>4. EditBackspace(m) = [buf |-> w, len |-> n - 1, pos |-> p - 1]
  BY DEF Parts, EditBackspace, v
<1> HIDE DEF w
<1> QED
  BY <1>2, <1>3, <1>4, GoodIntro, BufLenAssumption DEF Parts

\* Ctrl-T.
LEMMA TransposeGood ==
    ASSUME NEW m, Good(m)
    PROVE  Good(EditTranspose(m))
<1> SUFFICES ASSUME m.pos > 0, m.pos < m.len PROVE Good(EditTranspose(m))
  BY DEF EditTranspose
<1> PICK b, n, p : Parts(m, b, n, p)
  BY GoodParts
<1> DEFINE w == [b EXCEPT ![p - 1] = b[p], ![p] = b[p - 1]]
           q == IF p # n - 1 THEN p + 1 ELSE p
<1>1. w \in [Offset -> Byte] /\ w[n] = NUL /\ \A i \in Nat : i < n => w[i] \in Text
  BY BufLenAssumption DEF Parts, Offset
<1>2. q \in Nat /\ q <= n
  BY DEF Parts
<1>3. EditTranspose(m) = [buf |-> w, len |-> n, pos |-> q]
  BY DEF Parts, EditTranspose
<1> HIDE DEF w, q
<1> QED
  BY <1>1, <1>2, <1>3, GoodIntro DEF Parts

\* Ctrl-U and Ctrl-K.
LEMMA KillGood ==
    ASSUME NEW m, Good(m)
    PROVE  Good(EditKillLine(m)) /\ Good(EditKillToEnd(m))
<1> PICK b, n, p : Parts(m, b, n, p)
  BY GoodParts
<1>1. Good(EditKillLine(m))
  BY GoodIntro, BufLenAssumption DEF Parts, EditKillLine, Offset, Byte
<1>2. Good(EditKillToEnd(m))
  <2> DEFINE w == [b EXCEPT ![p] = NUL]
  <2>1. w \in [Offset -> Byte] /\ w[p] = NUL /\ \A i \in Nat : i < p => w[i] \in Text
    BY BufLenAssumption DEF Parts, Offset, Byte
  <2>2. EditKillToEnd(m) = [buf |-> w, len |-> p, pos |-> p]
    BY DEF Parts, EditKillToEnd
  <2> HIDE DEF w
  <2> QED BY <2>1, <2>2, GoodIntro, BufLenAssumption DEF Parts
<1> QED
  BY <1>1, <1>2

\* Every set of natural numbers that is not empty has a least element.
LEMMA Least ==
    ASSUME NEW T, T \subseteq Nat, T # {}
    PROVE  \E x \in T : \A y \in T : x <= y
<1>1. PICK x \in T : \A y \in T : ~(<<y, x>> \in OpToRel(<, Nat))
  BY WFMin, NatLessThanWellFounded
<1>2. \A y \in T : ~(y < x)
  BY <1>1 DEF OpToRel
<1> QED
  BY <1>2

\* A loop that runs back over the bytes in skip stops where it should.
LEMMA BackOverStops ==
    ASSUME NEW b, NEW p \in Nat, NEW skip
    PROVE  /\ BackOver(b, p, skip) \in 0 .. p
           /\ BackOver(b, p, skip) = 0 \/ b[BackOver(b, p, skip) - 1] \notin skip
           /\ \A i \in BackOver(b, p, skip) .. p - 1 : b[i] \in skip
<1> DEFINE T == {q \in 0 .. p : \A i \in q .. p - 1 : b[i] \in skip}
<1>1. T \subseteq Nat /\ p \in T
  OBVIOUS
<1>2. PICK q \in T : \A r \in T : q <= r
  <2> HIDE DEF T
  <2> QED BY <1>1, Least
<1>3. q = 0 \/ b[q - 1] \notin skip
  <2> SUFFICES ASSUME q # 0, b[q - 1] \in skip PROVE FALSE
    OBVIOUS
  <2>1. q - 1 \in T
    OBVIOUS
  <2> QED BY <2>1, <1>2
<1>4. \E r \in 0 .. p : /\ r = 0 \/ b[r - 1] \notin skip
                        /\ \A i \in r .. p - 1 : b[i] \in skip
  BY <1>3
<1> QED
  BY <1>4 DEF BackOver

\* linenoiseEditDeletePrevWord.
LEMMA DeletePrevWordGood ==
    ASSUME NEW m, Good(m)
    PROVE  /\ PrevWord(m) \in 0 .. m.pos
           /\ Good(EditDeletePrevWord(m))
<1> PICK b, n, p : Parts(m, b, n, p)
  BY GoodParts
<1> DEFINE s == PrevWord(m)
           v == memmove(b, s, p, n - p + 1)
<1>1. s \in Nat /\ s <= p
  <2> DEFINE t == BackOver(b, p, {Space})
  <2>1. t \in 0 .. p
    BY BackOverStops DEF Parts
  <2> HIDE DEF t
  <2>2. BackOver(b, t, Other) \in 0 .. t
    BY <2>1, BackOverStops DEF Parts
  <2>3. s = BackOver(b, t, Other)
    BY DEF Parts, PrevWord, t
  <2> QED BY <2>1, <2>2, <2>3 DEF Parts
<1> HIDE DEF s
<1>2. v \in [Offset -> Byte]
      /\ \A i \in Offset : v[i] = IF s <= i /\ i <= n - (p - s) THEN b[i + (p - s)] ELSE b[i]
  BY <1>1, BufLenAssumption DEF Parts, memmove, Offset
<1>3. EditDeletePrevWord(m) = [buf |-> v, len |-> n - (p - s), pos |-> s]
  BY DEF Parts, EditDeletePrevWord, s
<1> HIDE DEF v
<1>4. v[n - (p - s)] = NUL /\ \A i \in Nat : i < n - (p - s) => v[i] \in Text
  BY <1>1, <1>2, BufLenAssumption DEF Parts, Offset
<1>5. Good(EditDeletePrevWord(m))
  BY <1>1, <1>2, <1>3, <1>4, GoodIntro, BufLenAssumption DEF Parts
<1> QED
  BY <1>1, <1>5 DEF Parts, s

\* A history key brings in the entry s, cut to one byte less than fits.
LEMMA ReplaceGood ==
    ASSUME NEW m, Good(m), NEW s \in LinesUpTo(BufLen)
    PROVE  /\ Good(EditReplace(m, s))
           /\ EditReplace(m, s).pos = EditReplace(m, s).len
           /\ LineOf(EditReplace(m, s)) =
                  SubSeq(s, 1, IF Len(s) < BufLen THEN Len(s) ELSE BufLen - 1)
<1> PICK b, n, p : Parts(m, b, n, p)
  BY GoodParts
<1> DEFINE k == IF Len(s) < BufLen THEN Len(s) ELSE BufLen - 1
           w == [strncpy(b, s, BufLen) EXCEPT ![BufLen - 1] = NUL]
<1>1. s \in Seq(Text) /\ Len(s) \in Nat /\ Len(s) <= BufLen /\ \A i \in 1 .. Len(s) : s[i] \in Text
  BY LinesAreSeqs, BufLenAssumption
<1>2. k \in Nat /\ k < BufLen /\ k <= Len(s)
  BY <1>1, BufLenAssumption
<1>3. w \in [Offset -> Byte]
      /\ \A i \in Offset : w[i] = CASE i = BufLen -> b[i]
                                      [] i < BufLen - 1 /\ i < Len(s) -> s[i + 1]
                                      [] i < BufLen /\ (i >= Len(s) \/ i = BufLen - 1) -> NUL
  <2> DEFINE v == strncpy(b, s, BufLen)
  <2>1. \A i \in Offset : v[i] = IF i = BufLen THEN b[i] ELSE IF i < Len(s) THEN s[i + 1] ELSE NUL
    BY <1>1, BufLenAssumption DEF strncpy, Offset
  <2>2. \A i \in Offset : v[i] \in Byte
    <3> TAKE i \in Offset
    <3>1. i < Len(s) => s[i + 1] \in Text
      BY <1>1 DEF Offset
    <3>2. b[i] \in Byte
      BY DEF Parts
    <3> QED BY <2>1, <3>1, <3>2 DEF Byte
  <2>3. v = [i \in Offset |-> v[i]]
    BY DEF strncpy
  <2>4. v \in [Offset -> Byte]
    BY <2>2, <2>3
  <2> HIDE DEF v
  <2>5. w = [v EXCEPT ![BufLen - 1] = NUL]
    BY DEF v
  <2>6. NUL \in Byte
    BY DEF Byte
  <2>7. w \in [Offset -> Byte]
    BY <2>4, <2>5, <2>6
  <2>8. \A i \in Offset : w[i] = IF i = BufLen - 1 THEN NUL ELSE v[i]
    BY <2>4, <2>5
  <2> QED BY <1>1, <2>1, <2>7, <2>8, BufLenAssumption DEF Offset
<1>4. w[k] = NUL /\ \A i \in Nat : i < k => w[i] = s[i + 1] /\ w[i] \in Text
  BY <1>1, <1>2, <1>3, BufLenAssumption DEF Offset
<1>5. EditReplace(m, s) = [buf |-> w, len |-> strlen(w), pos |-> strlen(w)]
  BY DEF EditReplace, Parts
<1> HIDE DEF w, k
<1>6. strlen(w) = k
  BY <1>2, <1>3, <1>4, StrlenIs, BytesAssumption, BufLenAssumption
<1>7. Good(EditReplace(m, s)) /\ EditReplace(m, s).pos = EditReplace(m, s).len
  BY <1>2, <1>3, <1>4, <1>5, <1>6, GoodIntro, BufLenAssumption
<1>8. LineOf(EditReplace(m, s)) = [i \in 1 .. k |-> s[i]]
  BY <1>2, <1>4, <1>5, <1>6 DEF LineOf
<1>9. SubSeq(s, 1, k) = [i \in 1 .. k |-> s[i]]
  BY <1>1, <1>2
<1> QED
  BY <1>7, <1>8, <1>9 DEF k

\* Accepting a completion that fits makes it the line.
LEMMA CompleteGood ==
    ASSUME NEW m, Good(m), NEW s \in LinesUpTo(BufLen - 1)
    PROVE  /\ Good(EditComplete(m, s))
           /\ LineOf(EditComplete(m, s)) = s
           /\ EditComplete(m, s).pos = Len(s)
<1> PICK b, n, p : Parts(m, b, n, p)
  BY GoodParts
<1> DEFINE w == snprintf(b, BufLen, s)
<1>1. s \in Seq(Text) /\ Len(s) \in Nat /\ Len(s) < BufLen /\ \A i \in 1 .. Len(s) : s[i] \in Text
  BY LinesAreSeqs, BufLenAssumption
<1>2. w \in [Offset -> Byte] /\ w[Len(s)] = NUL
      /\ \A i \in Nat : i < Len(s) => w[i] = s[i + 1] /\ w[i] \in Text
  <2>1. \A i \in Offset : w[i] = IF i < Len(s) THEN s[i + 1] ELSE IF i = Len(s) THEN NUL ELSE b[i]
    BY <1>1, BufLenAssumption DEF snprintf, Offset
  <2>2. \A i \in Offset : w[i] \in Byte
    <3> TAKE i \in Offset
    <3>1. i < Len(s) => s[i + 1] \in Text
      BY <1>1 DEF Offset
    <3>2. b[i] \in Byte
      BY DEF Parts
    <3> QED BY <2>1, <3>1, <3>2 DEF Byte
  <2>3. w = [i \in Offset |-> w[i]]
    BY DEF snprintf
  <2> HIDE DEF w
  <2>4. w \in [Offset -> Byte]
    BY <2>2, <2>3
  <2> QED BY <1>1, <2>1, <2>4, BufLenAssumption DEF Offset
<1>3. EditComplete(m, s) = [buf |-> w, len |-> Len(s), pos |-> Len(s)]
  BY DEF Parts, EditComplete
<1> HIDE DEF w
<1>4. Good(EditComplete(m, s)) /\ EditComplete(m, s).pos = Len(s)
  BY <1>1, <1>2, <1>3, GoodIntro, BufLenAssumption
<1>5. LineOf(EditComplete(m, s)) = [i \in 1 .. Len(s) |-> s[i]]
  BY <1>1, <1>2, <1>3 DEF LineOf
<1> QED
  BY <1>1, <1>4, <1>5

-----------------------------------------------------------------------------
(* The line an editing function leaves, computed on sequences.              *)

\* The line of a good buffer, byte by byte.
LEMMA LineBytes ==
    ASSUME NEW m, NEW b, NEW n, NEW p, Parts(m, b, n, p)
    PROVE  /\ LineOf(m) \in Seq(Text) /\ Len(LineOf(m)) = n
           /\ LineOf(m) = [i \in 1 .. n |-> b[i - 1]]
<1>1. LineOf(m) = [i \in 1 .. n |-> b[i - 1]]
  BY DEF Parts, LineOf
<1>2. \A i \in 1 .. n : b[i - 1] \in Text
  BY DEF Parts
<1>3. n \in Nat
  BY DEF Parts
<1> QED
  BY <1>1, <1>2, <1>3, IsASeq

\* A sequence is the function of its bytes.
LEMMA SeqIsFcn ==
    ASSUME NEW S, NEW q \in Seq(S)
    PROVE  q = [i \in 1 .. Len(q) |-> q[i]]
OBVIOUS

\* Concatenation, a part left out and a byte put in, byte by byte.
Joins(f, x, y, k) == \A i \in 1 .. k : f[i] = IF i <= Len(x) THEN x[i] ELSE y[i - Len(x)]
Lacks(f, s, a, c, n) == \A i \in 1 .. n - (c - a) : f[i] = IF i <= a THEN s[i] ELSE s[i + (c - a)]
Gains(f, s, a, e, n) ==
    \A i \in 1 .. n + 1 : f[i] = IF i <= a THEN s[i] ELSE IF i = a + 1 THEN e ELSE s[i - 1]

\* A concatenation is known by its bytes.
LEMMA ConcatBytes ==
    ASSUME NEW S, NEW x \in Seq(S), NEW y \in Seq(S), NEW k, NEW f,
           k = Len(x) + Len(y), f \in [1 .. k -> S], Joins(f, x, y, k)
    PROVE  x \o y = f
<1> DEFINE q == x \o y
<1>1. q \in Seq(S) /\ Len(q) = Len(x) + Len(y)
      /\ \A i \in 1 .. Len(x) + Len(y) : q[i] = IF i <= Len(x) THEN x[i] ELSE y[i - Len(x)]
  BY ConcatProperties, Zenon
<1> HIDE DEF q
<1>2. q = [i \in 1 .. k |-> q[i]]
  BY <1>1, SeqIsFcn
<1>3. \A i \in 1 .. k : q[i] = f[i]
  BY <1>1 DEF Joins
<1>4. q = f
  BY <1>2, <1>3
<1> QED
  BY <1>4 DEF q

\* A sequence without what is between position a and position c.
LEMMA CutBytes ==
    ASSUME NEW S, NEW s \in Seq(S), NEW a \in Nat, NEW c \in Nat, a <= c, NEW n, Len(s) = n, c <= n,
           NEW f \in [1 .. n - (c - a) -> S], Lacks(f, s, a, c, n)
    PROVE  SubSeq(s, 1, a) \o SubSeq(s, c + 1, n) = f
<1> DEFINE x == SubSeq(s, 1, a)
           y == SubSeq(s, c + 1, n)
           k == n - (c - a)
<1>1. x \in Seq(S) /\ Len(x) = a /\ \A i \in 1 .. a : x[i] = s[i]
  BY SubSeqProperties
<1>2. y \in Seq(S) /\ Len(y) = n - c /\ \A i \in 1 .. n - c : y[i] = s[i + c]
  BY SubSeqProperties
<1> HIDE DEF x, y
<1>3. k = Len(x) + Len(y) /\ f \in [1 .. k -> S]
  BY <1>1, <1>2
<1>4. ASSUME NEW i \in 1 .. k
      PROVE  f[i] = IF i <= Len(x) THEN x[i] ELSE y[i - Len(x)]
  <2>1. f[i] = IF i <= a THEN s[i] ELSE s[i + (c - a)]
    BY DEF Lacks
  <2>2. i <= a => x[i] = s[i]
    BY <1>1
  <2>3. i > a => y[i - a] = s[i + (c - a)]
    <3>1. i > a => i - a \in 1 .. n - c /\ i - a + c = i + (c - a)
      OBVIOUS
    <3> QED BY <1>2, <3>1
  <2> QED BY <1>1, <2>1, <2>2, <2>3
<1>5. Joins(f, x, y, k)
  BY <1>4 DEF Joins
<1> HIDE DEF k
<1>6. x \o y = f
  BY <1>1, <1>2, <1>3, <1>5, ConcatBytes, Zenon
<1> QED
  BY <1>6, Zenon DEF x, y

\* So is a sequence with a byte inserted.
LEMMA InsertBytes ==
    ASSUME NEW S, NEW s \in Seq(S), NEW a \in Nat, a <= Len(s), NEW e \in S,
           NEW n, Len(s) = n, NEW f \in [1 .. n + 1 -> S], Gains(f, s, a, e, n)
    PROVE  SubSeq(s, 1, a) \o <<e>> \o SubSeq(s, a + 1, n) = f
<1> DEFINE x == SubSeq(s, 1, a)
           y == SubSeq(s, a + 1, n)
           z == x \o <<e>>
           k == n + 1
<1>1. x \in Seq(S) /\ Len(x) = a /\ \A i \in 1 .. a : x[i] = s[i]
  BY SubSeqProperties
<1>2. y \in Seq(S) /\ Len(y) = n - a /\ \A i \in 1 .. n - a : y[i] = s[i + a]
  BY SubSeqProperties
<1> HIDE DEF x, y
<1>3. z \in Seq(S) /\ Len(z) = a + 1 /\ \A i \in 1 .. a + 1 : z[i] = IF i <= a THEN x[i] ELSE e
  <2>1. z = Append(x, e)
    BY <1>1
  <2>2. Append(x, e) \in Seq(S) /\ Len(Append(x, e)) = a + 1
        /\ \A i \in 1 .. a + 1 : Append(x, e)[i] = IF i <= a THEN x[i] ELSE e
    BY <1>1
  <2> QED BY <2>1, <2>2, Zenon
<1> HIDE DEF z
<1>4. k = Len(z) + Len(y) /\ f \in [1 .. k -> S]
  BY <1>2, <1>3
<1>5. ASSUME NEW i \in 1 .. k
      PROVE  f[i] = IF i <= Len(z) THEN z[i] ELSE y[i - Len(z)]
  <2>1. f[i] = IF i <= a THEN s[i] ELSE IF i = a + 1 THEN e ELSE s[i - 1]
    BY DEF Gains
  <2>2. i <= a => z[i] = s[i]
    BY <1>1, <1>3
  <2>3. i > a + 1 => y[i - (a + 1)] = s[i - 1]
    BY <1>2
  <2>4. z[a + 1] = e
    BY <1>3
  <2> QED BY <1>3, <2>1, <2>2, <2>3, <2>4
<1>6. Joins(f, z, y, k)
  BY <1>5 DEF Joins
<1> HIDE DEF k
<1>7. z \o y = f
  BY <1>2, <1>3, <1>4, <1>6, ConcatBytes, Zenon
<1> QED
  BY <1>7, Zenon DEF x, y, z

\* Inserting puts the byte at the cursor.
LEMMA InsertLine ==
    ASSUME NEW m, Good(m), NEW c \in Text, m.len < BufLen
    PROVE  /\ LineOf(EditInsert(m, c)) =
                  SubSeq(LineOf(m), 1, m.pos) \o <<c>> \o SubSeq(LineOf(m), m.pos + 1, m.len)
           /\ EditInsert(m, c).pos = m.pos + 1
<1> PICK b, n, p : Parts(m, b, n, p)
  BY GoodParts
<1> DEFINE v == memmove(b, p + 1, p, n - p)
           w == [v EXCEPT ![p] = c, ![n + 1] = NUL]
           t == LineOf(m)
<1>1. v \in [Offset -> Byte] /\ \A i \in Offset : v[i] = IF p + 1 <= i /\ i < n + 1 THEN b[i - 1] ELSE b[i]
  BY BufLenAssumption DEF Parts, memmove, Offset
<1>2. EditInsert(m, c) = [buf |-> w, len |-> n + 1, pos |-> p + 1]
  BY DEF Parts, EditInsert
<1> HIDE DEF v
<1>3. \A i \in 0 .. n : w[i] = IF i < p THEN b[i] ELSE IF i = p THEN c ELSE b[i - 1]
  BY <1>1, BufLenAssumption DEF Parts, Offset
<1> HIDE DEF w
<1>4. LineOf(EditInsert(m, c)) = [i \in 1 .. n + 1 |-> w[i - 1]]
  BY <1>2 DEF LineOf
<1>5. t \in Seq(Text) /\ Len(t) = n /\ t = [i \in 1 .. n |-> b[i - 1]]
  BY LineBytes
<1> HIDE DEF t
<1>6. ASSUME NEW i \in 1 .. n + 1
      PROVE  w[i - 1] = IF i <= p THEN t[i] ELSE IF i = p + 1 THEN c ELSE t[i - 1]
  <2>1. w[i - 1] = IF i - 1 < p THEN b[i - 1] ELSE IF i - 1 = p THEN c ELSE b[i - 2]
    BY <1>3 DEF Parts
  <2>2. i <= n => t[i] = b[i - 1]
    BY <1>5 DEF Parts
  <2>3. i > 1 => t[i - 1] = b[i - 2]
    BY <1>5 DEF Parts
  <2> QED BY <2>1, <2>2, <2>3 DEF Parts
<1> DEFINE f == LineOf(EditInsert(m, c))
<1>7. Gains(f, t, p, c, n)
  BY <1>4, <1>6 DEF Gains
<1>8. f \in [1 .. n + 1 -> Text]
  <2>1. \A i \in 1 .. n + 1 : w[i - 1] \in Text
    BY <1>3 DEF Parts
  <2> QED BY <2>1, <1>4
<1> HIDE DEF f
<1>9. SubSeq(t, 1, p) \o <<c>> \o SubSeq(t, p + 1, n) = f
  <2>1. p \in Nat /\ p <= Len(t)
    BY <1>5 DEF Parts
  <2> QED BY <2>1, <1>5, <1>7, <1>8, InsertBytes, Zenon
<1>10. m.pos = p /\ m.len = n /\ EditInsert(m, c).pos = m.pos + 1
  BY <1>2 DEF Parts
<1> QED
  BY <1>9, <1>10, Zenon DEF t, f

\* Up to its byte k the memory w is the memory b without what b has between
\* the offsets a and a + d.
Closes(w, b, a, d, k) == \A i \in Nat : i < k => w[i] = IF i < a THEN b[i] ELSE b[i + d]

Cuts(r, m, b, n, p, a, c) ==
    /\ Parts(m, b, n, p)
    /\ a \in Nat /\ c \in Nat /\ a <= c /\ c <= n
    /\ r.len = n - (c - a)
    /\ Closes(r.buf, b, a, c - a, n - (c - a))

Without(f, s, a, c, n) == f = SubSeq(s, 1, a) \o SubSeq(s, c + 1, n)

\* Two buffers in which the second lacks what the first has between the
\* offsets a and c hold lines of which the same is true.
LEMMA CutLine ==
    ASSUME NEW r, NEW m, NEW b, NEW n, NEW p, NEW a, NEW c, Cuts(r, m, b, n, p, a, c)
    PROVE  Without(LineOf(r), LineOf(m), a, c, n)
<1> USE DEF Cuts
<1> DEFINE t == LineOf(m)
           w == r.buf
<1>1. t \in Seq(Text) /\ Len(t) = n /\ t = [i \in 1 .. n |-> b[i - 1]]
  BY LineBytes
<1> HIDE DEF t
<1>2. LineOf(r) = [i \in 1 .. n - (c - a) |-> w[i - 1]]
  BY DEF LineOf
<1>3. ASSUME NEW i \in 1 .. n - (c - a)
      PROVE  w[i - 1] = IF i <= a THEN t[i] ELSE t[i + (c - a)]
  <2>1. w[i - 1] = IF i - 1 < a THEN b[i - 1] ELSE b[i - 1 + (c - a)]
    BY DEF Parts, Closes
  <2>2. i <= a => t[i] = b[i - 1]
    BY <1>1 DEF Parts
  <2>3. i > a => t[i + (c - a)] = b[i + (c - a) - 1]
    BY <1>1 DEF Parts
  <2> QED BY <2>1, <2>2, <2>3 DEF Parts
<1> DEFINE f == LineOf(r)
<1>4. f \in [1 .. n - (c - a) -> Text]
  <2>1. \A i \in 1 .. n - (c - a) : w[i - 1] \in Text
    BY DEF Parts, Closes
  <2> QED BY <2>1, <1>2
<1>5. Lacks(f, t, a, c, n)
  BY <1>2, <1>3 DEF Lacks
<1> HIDE DEF f
<1>6. SubSeq(t, 1, a) \o SubSeq(t, c + 1, n) = f
  BY <1>1, <1>4, <1>5, CutBytes, Zenon
<1> QED
  BY <1>6, Zenon DEF Without, t, f

\* Deleting removes the byte under the cursor.
LEMMA DeleteLine ==
    ASSUME NEW m, Good(m), m.pos < m.len
    PROVE  /\ LineOf(EditDelete(m)) = SubSeq(LineOf(m), 1, m.pos) \o SubSeq(LineOf(m), m.pos + 1 + 1, m.len)
           /\ EditDelete(m).pos = m.pos
<1> PICK b, n, p : Parts(m, b, n, p)
  BY GoodParts
<1> DEFINE v == memmove(b, p, p + 1, n - p - 1)
           w == [v EXCEPT ![n - 1] = NUL]
<1>1. v \in [Offset -> Byte] /\ \A i \in Offset : v[i] = IF p <= i /\ i < n - 1 THEN b[i + 1] ELSE b[i]
  BY BufLenAssumption DEF Parts, memmove, Offset
<1>2. EditDelete(m) = [buf |-> w, len |-> n - 1, pos |-> p]
  BY DEF Parts, EditDelete
<1>3. m.len = n /\ m.pos = p /\ n \in Nat /\ p \in Nat /\ p <= n /\ EditDelete(m).pos = p
      /\ EditDelete(m).buf = w /\ EditDelete(m).len = n - 1
  BY <1>2 DEF Parts
<1> HIDE DEF v
<1>4. \A i \in Nat : i < n - 1 => w[i] = IF i < p THEN b[i] ELSE b[i + 1]
  BY <1>1, <1>3, BufLenAssumption DEF Parts, Offset
<1> HIDE DEF w
<1> DEFINE a == p
           c == p + 1
<1>5. a \in Nat /\ c \in Nat /\ a <= c /\ c <= n /\ c - a = 1
  BY <1>3
<1> DEFINE r == EditDelete(m)
<1>6. Cuts(r, m, b, n, p, a, c)
  BY <1>3, <1>4, <1>5 DEF Cuts, Closes
<1> HIDE DEF a, c, r
<1>7. Without(LineOf(r), LineOf(m), a, c, n)
  BY <1>6, CutLine, Zenon
<1> QED
  BY <1>3, <1>7, Zenon DEF Without, a, c, r

\* Backspace removes the byte before the cursor.
LEMMA BackspaceLine ==
    ASSUME NEW m, Good(m), m.pos > 0
    PROVE  /\ LineOf(EditBackspace(m)) = SubSeq(LineOf(m), 1, m.pos - 1) \o SubSeq(LineOf(m), m.pos + 1, m.len)
           /\ EditBackspace(m).pos = m.pos - 1
<1> PICK b, n, p : Parts(m, b, n, p)
  BY GoodParts
<1> DEFINE v == memmove(b, p - 1, p, n - p)
           w == [v EXCEPT ![n - 1] = NUL]
<1>1. v \in [Offset -> Byte] /\ \A i \in Offset : v[i] = IF p - 1 <= i /\ i < n - 1 THEN b[i + 1] ELSE b[i]
  BY BufLenAssumption DEF Parts, memmove, Offset
<1>2. EditBackspace(m) = [buf |-> w, len |-> n - 1, pos |-> p - 1]
  BY DEF Parts, EditBackspace
<1>3. m.len = n /\ m.pos = p /\ n \in Nat /\ p \in Nat /\ p <= n /\ EditBackspace(m).pos = p - 1
      /\ EditBackspace(m).buf = w /\ EditBackspace(m).len = n - 1
  BY <1>2 DEF Parts
<1> HIDE DEF v
<1>4. \A i \in Nat : i < n - 1 => w[i] = IF i < p - 1 THEN b[i] ELSE b[i + 1]
  BY <1>1, <1>3, BufLenAssumption DEF Parts, Offset
<1> HIDE DEF w
<1> DEFINE a == p - 1
           c == p
<1>5. a \in Nat /\ c \in Nat /\ a <= c /\ c <= n /\ c - a = 1
  BY <1>3
<1> DEFINE r == EditBackspace(m)
<1>6. Cuts(r, m, b, n, p, a, c)
  BY <1>3, <1>4, <1>5 DEF Cuts, Closes
<1> HIDE DEF a, c, r
<1>7. Without(LineOf(r), LineOf(m), a, c, n)
  BY <1>6, CutLine, Zenon
<1> QED
  BY <1>3, <1>7, Zenon DEF Without, a, c, r

\* Ctrl-W removes what is between the start of the word and the cursor.
LEMMA DeletePrevWordLine ==
    ASSUME NEW m, Good(m)
    PROVE  /\ LineOf(EditDeletePrevWord(m)) =
                  SubSeq(LineOf(m), 1, PrevWord(m)) \o SubSeq(LineOf(m), m.pos + 1, m.len)
           /\ EditDeletePrevWord(m).pos = PrevWord(m)
<1> PICK b, n, p : Parts(m, b, n, p)
  BY GoodParts
<1> DEFINE s == PrevWord(m)
           v == memmove(b, s, p, n - p + 1)
<1>1. s \in Nat /\ s <= p
  BY DeletePrevWordGood DEF Parts
<1> HIDE DEF s
<1>2. \A i \in Offset : v[i] = IF s <= i /\ i <= n - (p - s) THEN b[i + (p - s)] ELSE b[i]
  BY <1>1, BufLenAssumption DEF Parts, memmove, Offset
<1>3. EditDeletePrevWord(m) = [buf |-> v, len |-> n - (p - s), pos |-> s]
  BY DEF Parts, EditDeletePrevWord, s
<1>4. m.len = n /\ m.pos = p /\ n \in Nat /\ p \in Nat /\ p <= n /\ EditDeletePrevWord(m).pos = s
      /\ EditDeletePrevWord(m).buf = v /\ EditDeletePrevWord(m).len = n - (p - s)
  BY <1>3 DEF Parts
<1> HIDE DEF v
<1>5. \A i \in Nat : i < n - (p - s) => v[i] = IF i < s THEN b[i] ELSE b[i + (p - s)]
  BY <1>1, <1>2, BufLenAssumption DEF Parts, Offset
<1> DEFINE r == EditDeletePrevWord(m)
<1>6. Cuts(r, m, b, n, p, s, p)
  BY <1>1, <1>4, <1>5 DEF Cuts, Closes
<1> HIDE DEF r
<1>7. Without(LineOf(r), LineOf(m), s, p, n)
  BY <1>6, CutLine, Zenon
<1> QED
  BY <1>4, <1>7, Zenon DEF Without, s, r

\* Ctrl-T swaps the bytes before and under the cursor.
LEMMA TransposeLine ==
    ASSUME NEW m, Good(m), m.pos > 0, m.pos < m.len
    PROVE  /\ LineOf(EditTranspose(m)) = [LineOf(m) EXCEPT ![m.pos] = LineOf(m)[m.pos + 1],
                                                          ![m.pos + 1] = LineOf(m)[m.pos]]
           /\ EditTranspose(m).pos = IF m.pos < m.len - 1 THEN m.pos + 1 ELSE m.pos
<1> PICK b, n, p : Parts(m, b, n, p)
  BY GoodParts
<1> DEFINE w == [b EXCEPT ![p - 1] = b[p], ![p] = b[p - 1]]
           q == IF p # n - 1 THEN p + 1 ELSE p
           t == LineOf(m)
           u == [t EXCEPT ![p] = t[p + 1], ![p + 1] = t[p]]
<1>1. EditTranspose(m) = [buf |-> w, len |-> n, pos |-> q]
  BY DEF Parts, EditTranspose
<1>2. m.len = n /\ m.pos = p /\ n \in Nat /\ p \in Nat /\ p > 0 /\ p < n
  BY DEF Parts
<1>3. LineOf(EditTranspose(m)) = [i \in 1 .. n |-> w[i - 1]]
  BY <1>1 DEF LineOf
<1>4. t = [i \in 1 .. n |-> b[i - 1]]
  BY LineBytes
<1>5. ASSUME NEW i \in 1 .. n PROVE w[i - 1] = u[i]
  <2>1. w[i - 1] = IF i - 1 = p THEN b[p - 1] ELSE IF i - 1 = p - 1 THEN b[p] ELSE b[i - 1]
    BY <1>2, BufLenAssumption DEF Parts, Offset
  <2>2. t[p + 1] = b[p] /\ t[p] = b[p - 1] /\ t[i] = b[i - 1]
    BY <1>2, <1>4
  <2>3. DOMAIN t = 1 .. n
    BY <1>4
  <2> HIDE DEF t
  <2>4. u[i] = IF i = p + 1 THEN t[p] ELSE IF i = p THEN t[p + 1] ELSE t[i]
    BY <1>2, <2>3
  <2> QED BY <1>2, <2>1, <2>2, <2>4
<1>6. u = [i \in 1 .. n |-> u[i]]
  BY <1>4
<1>7. LineOf(EditTranspose(m)) = u
  <2> HIDE DEF u, w, t
  <2> QED BY <1>3, <1>5, <1>6
<1>8. EditTranspose(m).pos = IF m.pos < m.len - 1 THEN m.pos + 1 ELSE m.pos
  BY <1>1, <1>2
<1> QED
  BY <1>2, <1>7, <1>8

\* Ctrl-U empties the line, Ctrl-K cuts it at the cursor.
LEMMA KillLines ==
    ASSUME NEW m, Good(m)
    PROVE  /\ LineOf(EditKillLine(m)) = <<>> /\ EditKillLine(m).pos = 0
           /\ LineOf(EditKillToEnd(m)) = SubSeq(LineOf(m), 1, m.pos)
           /\ EditKillToEnd(m).pos = m.pos
<1> PICK b, n, p : Parts(m, b, n, p)
  BY GoodParts
<1>1. LineOf(EditKillLine(m)) = <<>> /\ EditKillLine(m).pos = 0
  BY DEF EditKillLine, LineOf
<1> DEFINE w == [b EXCEPT ![p] = NUL]
           t == LineOf(m)
<1>2. EditKillToEnd(m) = [buf |-> w, len |-> p, pos |-> p]
  BY DEF Parts, EditKillToEnd
<1>3. n \in Nat /\ p \in Nat /\ p <= n /\ m.pos = p
  BY DEF Parts
<1>4. t \in Seq(Text) /\ Len(t) = n /\ t = [i \in 1 .. n |-> b[i - 1]]
  BY LineBytes
<1> HIDE DEF t
<1>5. SubSeq(t, 1, p) = [i \in 1 .. p |-> t[i]]
  BY <1>3, <1>4
<1>6. \A i \in 1 .. p : w[i - 1] = t[i]
  BY <1>3, <1>4, BufLenAssumption DEF Parts, Offset
<1> HIDE DEF w
<1>7. LineOf(EditKillToEnd(m)) = [i \in 1 .. p |-> w[i - 1]]
  BY <1>2 DEF LineOf
<1> QED
  BY <1>1, <1>2, <1>3, <1>5, <1>6, <1>7 DEF t

\* Moving the cursor leaves the line.
LEMMA MoveLines ==
    ASSUME NEW m, Good(m)
    PROVE  /\ LineOf(EditMoveLeft(m)) = LineOf(m)
           /\ EditMoveLeft(m).pos = IF m.pos > 0 THEN m.pos - 1 ELSE 0
           /\ LineOf(EditMoveRight(m)) = LineOf(m)
           /\ EditMoveRight(m).pos = IF m.pos < m.len THEN m.pos + 1 ELSE m.pos
           /\ LineOf(EditMoveHome(m)) = LineOf(m) /\ EditMoveHome(m).pos = 0
           /\ LineOf(EditMoveEnd(m)) = LineOf(m) /\ EditMoveEnd(m).pos = m.len
<1> PICK b, n, p : Parts(m, b, n, p)
  BY GoodParts
<1> QED
  BY DEF Parts, LineOf, EditMoveLeft, EditMoveRight, EditMoveHome, EditMoveEnd

-----------------------------------------------------------------------------

Lines == LinesUpTo(BufLen)

-----------------------------------------------------------------------------
(* The history functions.                                                   *)

\* Adding a line keeps the array within its length and leaves one entry.
LEMMA AddFacts ==
    ASSUME NEW S, NEW h \in Seq(S), NEW max \in Nat \ {0}, Len(h) <= max, NEW s \in S
    PROVE  /\ HistoryAdd(h, max, s) \in Seq(S)
           /\ Len(HistoryAdd(h, max, s)) \in 1 .. max
<1>1. CASE h # <<>> /\ h[Len(h)] = s
  BY <1>1 DEF HistoryAdd
<1>2. CASE ~(h # <<>> /\ h[Len(h)] = s)
  <2>1. HistoryAdd(h, max, s) = Append(IF Len(h) = max THEN Tail(h) ELSE h, s)
    BY <1>2 DEF HistoryAdd
  <2>2. CASE Len(h) = max
    <3>1. h # <<>>
      BY <2>2
    <3>2. Tail(h) \in Seq(S) /\ Len(Tail(h)) = Len(h) - 1
      BY <3>1
    <3> QED BY <2>1, <2>2, <3>2
  <2>3. CASE Len(h) # max
    BY <2>1, <2>3
  <2> QED BY <2>2, <2>3
<1> QED BY <1>1, <1>2

\* Shortening the history leaves as many lines as there may be.
LEMMA SetMaxFacts ==
    ASSUME NEW S, NEW h \in Seq(S), NEW n \in Nat \ {0}
    PROVE  /\ HistorySetMaxLen(h, n) \in Seq(S)
           /\ Len(HistorySetMaxLen(h, n)) <= n
<1>1. CASE n < Len(h)
  <2>1. HistorySetMaxLen(h, n) = SubSeq(h, Len(h) - n + 1, Len(h))
    BY <1>1 DEF HistorySetMaxLen
  <2> DEFINE a == Len(h) - n + 1
  <2>2. a \in 1 .. Len(h) /\ Len(h) \in Nat /\ Len(h) - a + 1 = n
    BY <1>1
  <2> HIDE DEF a
  <2>3. SubSeq(h, a, Len(h)) \in Seq(S) /\ Len(SubSeq(h, a, Len(h))) = Len(h) - a + 1
    BY <2>2
  <2> QED BY <2>1, <2>2, <2>3 DEF a
<1>2. CASE ~(n < Len(h))
  BY <1>2 DEF HistorySetMaxLen
<1> QED BY <1>1, <1>2

\* Taking the newest entry off leaves the others.
LEMMA BeforeFacts ==
    ASSUME NEW S, NEW h \in Seq(S), h # <<>>
    PROVE  /\ Before(h) \in Seq(S)
           /\ Len(Before(h)) = Len(h) - 1
           /\ \A i \in 1 .. Len(h) - 1 : Before(h)[i] = h[i]
<1> DEFINE n == Len(h) - 1
<1>1. n \in Nat /\ n <= Len(h)
  OBVIOUS
<1> HIDE DEF n
<1>2. /\ SubSeq(h, 1, n) \in Seq(S)
      /\ Len(SubSeq(h, 1, n)) = n
      /\ \A i \in 1 .. n : SubSeq(h, 1, n)[i] = h[i]
  BY <1>1
<1> QED
  BY <1>2 DEF Before, n

\* Taking the newest entry off a history that has just got a line leaves what
\* was there, but for the oldest line of a full array.
LEMMA BeforeAppend ==
    ASSUME NEW S, NEW g \in Seq(S), NEW s \in S
    PROVE  Before(Append(g, s)) = g
<1>1. Append(g, s) \in Seq(S) /\ Append(g, s) # <<>> /\ Len(Append(g, s)) = Len(g) + 1
      /\ \A i \in 1 .. Len(g) : Append(g, s)[i] = g[i]
  BY AppendProperties
<1>2. /\ Before(Append(g, s)) \in Seq(S) /\ Len(Before(Append(g, s))) = Len(g)
      /\ \A i \in 1 .. Len(g) : Before(Append(g, s))[i] = g[i]
  <2> DEFINE a == Append(g, s)
  <2>1. a \in Seq(S) /\ a # <<>> /\ Len(a) = Len(g) + 1 /\ \A i \in 1 .. Len(g) : a[i] = g[i]
    BY <1>1
  <2> HIDE DEF a
  <2>2. Before(a) \in Seq(S) /\ Len(Before(a)) = Len(a) - 1
        /\ \A i \in 1 .. Len(a) - 1 : Before(a)[i] = a[i]
    BY <2>1, BeforeFacts
  <2> QED BY <2>1, <2>2 DEF a
<1> HIDE DEF Before
<1> QED
  BY <1>2, SeqEqual

\* What the session owes the program is what linenoiseHistoryAdd leaves before
\* the newest entry.
LEMMA OwedIsBefore ==
    ASSUME NEW S, NEW h \in Seq(S), NEW max \in Nat \ {0}, Len(h) <= max, <<>> \in S
    PROVE  Owed(h, max) = Before(HistoryAdd(h, max, <<>>))
<1>1. CASE h # <<>> /\ h[Len(h)] = <<>>
  BY <1>1 DEF HistoryAdd, Owed
<1>2. CASE ~(h # <<>> /\ h[Len(h)] = <<>>)
  <2> DEFINE g == IF Len(h) = max THEN Tail(h) ELSE h
  <2>1. HistoryAdd(h, max, <<>>) = Append(g, <<>>)
    BY <1>2 DEF HistoryAdd
  <2>2. Owed(h, max) = g
    BY <1>2 DEF Owed
  <2>3. g \in Seq(S)
    <3>1. CASE Len(h) = max
      BY <3>1
    <3> QED BY <3>1
  <2> HIDE DEF g
  <2> QED BY <2>1, <2>2, <2>3, BeforeAppend
<1> QED BY <1>1, <1>2

-----------------------------------------------------------------------------
(* What one key can do.                                                     *)

Stays == More /\ UNCHANGED Browsing
Browses(m) == More /\ \E dir \in {HISTORY_PREV, HISTORY_NEXT} : EditHistoryNext(dir, m)
Pops(m) == /\ \E r \in {Line(CString(m.buf)), Null("ENOENT")} : PopAndReturn(r)
           /\ l' = m
           /\ UNCHANGED <<history_index, visited, typed>>
GivesUp == /\ \E e \in {"EAGAIN", "EIO", "none"} : Return(Null(e))
           /\ UNCHANGED Browsing
Outcome(m) == \/ Stays /\ Good(l')
              \/ Browses(m)
              \/ Pops(m)
              \/ GivesUp /\ Good(l')

\* An editing key leaves a good line.
LEMMA EditedGood ==
    ASSUME NEW k, NEW m, Good(m)
    PROVE  Good(Edited(k, m))
BY MoveGood, DeleteGood, BackspaceGood, TransposeGood, KillGood, DeletePrevWordGood
   DEF Edited

\* Every key that reaches the switch of linenoiseEditFeed has an outcome.
LEMMA DispatchOutcome ==
    ASSUME NEW k, NEW m, Good(m), k # NUL, Dispatch(k, m)
    PROVE  Outcome(m)
<1>1. CASE k = "enter" /\ KeyEnter(m)
  BY <1>1 DEF KeyEnter, Outcome, Pops
<1>2. CASE k = "ctrl_c" /\ KeyCtrlC(m)
  BY <1>2 DEF KeyCtrlC, Outcome, GivesUp
<1>3. CASE k = "ctrl_d" /\ KeyCtrlD(m)
  <2>1. CASE m.len > 0
    BY <1>3, <2>1, DeleteGood DEF KeyCtrlD, Outcome, Stays, Browsing
  <2>2. CASE ~(m.len > 0)
    BY <1>3, <2>2 DEF KeyCtrlD, Outcome, Pops
  <2> QED BY <2>1, <2>2
<1>4. ASSUME NEW t, KeyHistory(t, m) PROVE Outcome(m)
  BY <1>4 DEF KeyHistory, Outcome, Browses
<1>5. ASSUME NEW t, KeyEdit(t, m) PROVE Outcome(m)
  BY <1>5, EditedGood DEF KeyEdit, Outcome, Stays
<1>6. CASE k \in Text \cup {NUL} /\ KeyText(k, m)
  <2>1. Good(l')
    BY <1>6, InsertGood DEF KeyText
  <2> QED BY <1>6, <2>1 DEF KeyText, Outcome, Stays, GivesUp
<1> QED
  BY <1>1, <1>2, <1>3, <1>4, <1>5, <1>6 DEF Dispatch

\* Where a key finds the line: as it was, or with a completion accepted.
LEMMA FeedOutcome ==
    ASSUME Good(l), NulKey = FALSE, completion_idx \in Nat, NEW k \in Keys, EditFeed(k)
    PROVE  \E m : Good(m) /\ Outcome(m)
<1>0. k # NUL
  BY KeysAssumption, BytesAssumption DEF Keys
<1>1. CASE (in_completion \/ k = Tab) /\ completeLine(k)
  <2> DEFINE lc == CompletionsOf(CString(l.buf))
             accepted == IF completion_idx < Len(lc)
                         THEN EditComplete(l, lc[completion_idx + 1]) ELSE l
             Proceed(m) == CASE k \in High -> l' = m /\ Return(Null("none")) /\ UNCHANGED Browsing
                             [] k = NUL -> l' = m /\ More /\ UNCHANGED Browsing
                             [] OTHER -> Dispatch(k, m)
  <2>1. lc \in Seq(LinesUpTo(BufLen - 1))
    BY GoodString, CompletionsFit
  <2>2. Good(accepted)
    <3> HIDE DEF lc
    <3>1. completion_idx < Len(lc) => lc[completion_idx + 1] \in LinesUpTo(BufLen - 1)
      BY <2>1
    <3> QED BY <3>1, CompleteGood
  <2>3. ASSUME NEW m, Good(m), Proceed(m) PROVE \E x : Good(x) /\ Outcome(x)
    <3>1. CASE k \in High
      <4>1. l' = m /\ Return(Null("none")) /\ UNCHANGED Browsing
        BY <1>0, <2>3, <3>1
      <4>2. Outcome(m)
        BY <2>3, <4>1 DEF Outcome, GivesUp
      <4> QED BY <2>3, <4>2
    <3>2. CASE k \notin High
      BY <1>0, <2>3, <3>2, DispatchOutcome
    <3> QED BY <3>1, <3>2
  <2>4. \/ Proceed(l)
        \/ Proceed(accepted)
        \/ UNCHANGED l /\ More /\ UNCHANGED Browsing
    BY <1>1 DEF completeLine
  <2> HIDE DEF Proceed, accepted
  <2>5. (UNCHANGED l /\ More /\ UNCHANGED Browsing) => Outcome(l)
    BY DEF Outcome, Stays
  <2> QED BY <2>2, <2>3, <2>4, <2>5
<1>2. CASE Dispatch(k, l)
  BY <1>0, <1>2, DispatchOutcome
<1> QED
  BY <1>1, <1>2 DEF EditFeed

-----------------------------------------------------------------------------
(* The line and the result, if byte 0 is not typed.                         *)

\* Away from the newest entry, the newest entry is what was typed there.
NewestIsTyped ==
    phase = "editing" /\ history_index > 0 =>
        history_index < Len(history) /\ history[Len(history)] = typed

\* What disableRawMode puts back has been saved.
Saved == rawmode => orig_termios # "unset"

IInv == /\ TypeOK
        /\ LineIsString(l)
        /\ CompletionStands
        /\ ResultIsLine
        /\ NewestIsTyped
        /\ Saved

\* What browsing does, whichever way it goes.
LEMMA BrowseFacts ==
    ASSUME IInv, phase = "editing", NEW m, Good(m), NEW dir \in {HISTORY_PREV, HISTORY_NEXT},
           EditHistoryNext(dir, m)
    PROVE  /\ Good(l')
           /\ history' \in Seq(Lines) /\ Len(history') = Len(history)
           /\ history_index' \in Nat
           /\ history_index' > 0 => history_index' < Len(history')
           /\ visited' \subseteq Nat \ {0}
           /\ typed' \in Lines
           /\ history_index' > 0 => history'[Len(history')] = typed'
           /\ \A i \in 1 .. Len(history) : i \in visited' \/ history'[i] = history[i]
           /\ visited \subseteq visited'
           /\ history_index = 1 /\ history_index' = 0 =>
                 LineOf(l') = SubSeq(typed, 1, IF Len(typed) < BufLen THEN Len(typed) ELSE BufLen - 1)
<1> DEFINE n == Len(history)
           here == n - history_index
           s == CString(m.buf)
           h == [history EXCEPT ![here] = s]
           i == history_index + dir
<1>0. dir \in {1, -1}
  BY DEF HISTORY_PREV, HISTORY_NEXT
<1>1. /\ history \in Seq(Lines) /\ history_index \in Nat /\ visited \subseteq Nat \ {0}
      /\ typed \in Lines /\ BufLen \in Nat \ {0} /\ n \in Nat
      /\ history_index > 0 => history_index < n /\ history[n] = typed
  BY BufLenAssumption DEF IInv, TypeOK, NewestIsTyped, Lines
<1>2. s \in Lines /\ s = LineOf(m)
  BY GoodString DEF Lines
<1>3. CASE ~(n > 1)
  <2>1. l' = m /\ history' = history /\ history_index' = history_index
        /\ visited' = visited /\ typed' = typed
    BY <1>3 DEF EditHistoryNext, Browsing
  <2> QED BY <1>1, <2>1
<1>4. CASE n > 1
  <2>1. history_index < n /\ here \in 1 .. n /\ here \in Nat \ {0} /\ i \in Int
    BY <1>0, <1>1, <1>4
  <2>2. h \in Seq(Lines) /\ Len(h) = n
    BY <1>1, <1>2, <2>1
  <2>3. \A j \in 1 .. n : h[j] = IF j = here THEN s ELSE history[j]
    BY <1>1, <2>1
  <2>4. /\ history' = h
        /\ visited' = visited \cup {here}
        /\ typed' = IF history_index = 0 THEN LineOf(m) ELSE typed
        /\ IF i < 0 \/ i >= n
           THEN /\ history_index' = IF i < 0 THEN 0 ELSE n - 1
                /\ l' = m
           ELSE /\ history_index' = i
                /\ l' = EditReplace(m, h[Len(h) - i])
    BY <1>4 DEF EditHistoryNext
  <2> HIDE DEF h
  <2>5. history' \in Seq(Lines) /\ Len(history') = n
    BY <2>2, <2>4
  <2>6. history_index' \in Nat /\ history_index' < n
    BY <1>1, <1>4, <2>1, <2>4
  <2>7. h[n] = IF history_index = 0 THEN s ELSE typed
    BY <1>1, <1>4, <2>1, <2>3
  <2>8. history'[n] = typed'
    BY <1>2, <2>4, <2>7
  <2>9. ASSUME ~(i < 0 \/ i >= n)
        PROVE  Good(l') /\ h[n - i] \in Lines
               /\ LineOf(l') = SubSeq(h[n - i], 1, IF Len(h[n - i]) < BufLen THEN Len(h[n - i]) ELSE BufLen - 1)
    <3>1. n - i \in 1 .. n
      BY <2>1, <2>9
    <3>2. h[n - i] \in LinesUpTo(BufLen)
      BY <2>2, <3>1 DEF Lines
    <3>3. l' = EditReplace(m, h[n - i])
      BY <2>2, <2>4, <2>9
    <3> QED BY <3>2, <3>3, ReplaceGood DEF Lines
  <2>10. Good(l')
    BY <2>4, <2>9
  <2>11. history_index = 1 /\ history_index' = 0 =>
            LineOf(l') = SubSeq(typed, 1, IF Len(typed) < BufLen THEN Len(typed) ELSE BufLen - 1)
    <3> SUFFICES ASSUME history_index = 1, history_index' = 0
                 PROVE  LineOf(l') = SubSeq(typed, 1, IF Len(typed) < BufLen THEN Len(typed) ELSE BufLen - 1)
      OBVIOUS
    <3>1. i = 0 /\ n - i = n /\ ~(i < 0 \/ i >= n)
      BY <1>0, <1>1, <1>4, <2>4
    <3>2. h[n] = typed
      BY <2>7
    <3> QED BY <2>9, <3>1, <3>2
  <2>12. \A j \in 1 .. n : j \in visited' \/ history'[j] = history[j]
    BY <2>3, <2>4
  <2>13. visited' \subseteq Nat \ {0} /\ visited \subseteq visited' /\ typed' \in Lines
    BY <1>1, <1>2, <2>1, <2>4
  <2> QED BY <2>5, <2>6, <2>8, <2>10, <2>11, <2>12, <2>13
<1> QED BY <1>3, <1>4

\* A key leaves the shown completion one of the line under it, or none.
LEMMA FeedCompletes ==
    ASSUME IInv, NEW k \in Keys, EditFeed(k)
    PROVE  CompletionStands' /\ in_completion' \in BOOLEAN /\ completion_idx' \in Nat
<1> DEFINE lc == CompletionsOf(CString(l.buf))
<1>1. Good(l) /\ in_completion \in BOOLEAN /\ completion_idx \in Nat
  BY DEF IInv, TypeOK, Good
<1>2. lc = CompletionsOf(LineOf(l)) /\ lc \in Seq(LinesUpTo(BufLen - 1))
  BY <1>1, GoodString, CompletionsFit
<1>3. CASE lc # <<>> /\ k = Tab /\ in_completion' = TRUE /\ l' = l
           /\ completion_idx' = IF in_completion THEN NextIdx(Len(lc)) ELSE 0
  <2>1. CompletionsOf(LineOf(l'))= lc
    BY <1>2, <1>3
  <2> HIDE DEF lc
  <2>2. Len(lc) \in Nat
    BY <1>2
  <2>3. NextIdx(Len(lc)) \in 0 .. Len(lc)
    BY <1>1, <2>2 DEF NextIdx
  <2>4. completion_idx' \in Nat /\ completion_idx' <= Len(lc)
    BY <1>3, <2>2, <2>3
  <2> QED BY <1>3, <2>1, <2>4 DEF CompletionStands
<1>4. CASE in_completion' = FALSE /\ completion_idx' = completion_idx
  BY <1>1, <1>4 DEF CompletionStands
<1>5. CASE ~in_completion /\ UNCHANGED <<in_completion, completion_idx>>
  BY <1>1, <1>5 DEF CompletionStands
<1> QED
  BY <1>3, <1>4, <1>5 DEF EditFeed, completeLine

\* A key preserves the invariant.
LEMMA FeedIInv ==
    ASSUME IInv, NulKey = FALSE, NEW k \in Keys, EditFeed(k)
    PROVE  IInv'
<1> USE DEF Lines
<1>1. /\ Good(l) /\ phase = "editing" /\ BufLen \in Nat \ {0}
      /\ history \in Seq(Lines) /\ completion_idx \in Nat
      /\ UNCHANGED <<rawmode, tty, orig_termios, refused, history_max_len, own, kept>>
  BY BufLenAssumption DEF IInv, TypeOK, Good, EditFeed, ttyVars
<1>2. PICK m : Good(m) /\ Outcome(m)
  BY <1>1, FeedOutcome
<1>3. CompletionStands' /\ in_completion' \in BOOLEAN /\ completion_idx' \in Nat
  BY FeedCompletes
<1> DEFINE Results == [kind : {"none"}] \cup [kind : {"line"}, line : Lines]
               \cup [kind : {"null"}, errno : {"EAGAIN", "ENOENT", "EIO", "none"}]
           Rest == /\ Good(l')
                   /\ history' \in Seq(Lines) /\ Len(history') <= history_max_len
                   /\ history_index' \in Nat /\ visited' \subseteq Nat \ {0} /\ typed' \in Lines
                   /\ phase' \in {"editing", "stopping", "undefined"}
                   /\ res' \in Results
                   /\ ResultIsLine'
                   /\ NewestIsTyped'
<1> SUFFICES Rest
  BY <1>1, <1>3 DEF IInv, TypeOK, Good, Saved
<1>4. CASE Stays /\ Good(l')
  <2>1. UNCHANGED <<history, history_index, visited, typed, phase, res>>
    BY <1>4 DEF Stays, More, Browsing
  <2>2. Rest
    BY <1>1, <1>4, <2>1 DEF IInv, TypeOK, ResultIsLine, NewestIsTyped
  <2> QED BY <2>2
<1>5. CASE Browses(m)
  <2>1. UNCHANGED <<phase, res>>
    BY <1>5 DEF Browses, More
  <2>2. PICK dir \in {HISTORY_PREV, HISTORY_NEXT} : EditHistoryNext(dir, m)
    BY <1>5 DEF Browses
  <2>3. /\ Good(l')
        /\ history' \in Seq(Lines) /\ Len(history') = Len(history)
        /\ history_index' \in Nat
        /\ history_index' > 0 => history_index' < Len(history')
        /\ visited' \subseteq Nat \ {0}
        /\ typed' \in Lines
        /\ history_index' > 0 => history'[Len(history')] = typed'
    BY <1>1, <1>2, <2>2, BrowseFacts
  <2>4. Rest
    BY <1>1, <2>1, <2>3 DEF IInv, TypeOK, ResultIsLine, NewestIsTyped
  <2> QED BY <2>4
<1>6. CASE Pops(m)
  <2>0. l' = m /\ UNCHANGED <<history_index, visited, typed>>
    BY <1>6 DEF Pops
  <2>1. PICK r \in {Line(CString(m.buf)), Null("ENOENT")} : PopAndReturn(r)
    BY <1>6 DEF Pops
  <2>2. r \in Results /\ (r.kind = "line" => r.line = LineOf(m))
    BY <1>2, GoodString DEF Line, Null
  <2>3. CASE history = <<>>
    <3>1. phase' = "undefined" /\ UNCHANGED <<history, res>>
      BY <2>1, <2>3 DEF PopAndReturn
    <3> QED BY <1>1, <1>2, <2>0, <3>1 DEF IInv, TypeOK, ResultIsLine, NewestIsTyped
  <2>4. CASE history # <<>>
    <3>1. history' = Before(history) /\ phase' = "stopping" /\ res' = r
      BY <2>1, <2>4 DEF PopAndReturn, Return
    <3>2. history' \in Seq(Lines) /\ Len(history') <= Len(history) /\ Len(history) \in Nat
      BY <1>1, <2>4, <3>1, BeforeFacts
    <3>3. history_max_len \in Nat /\ Len(history) <= history_max_len /\ Len(history') \in Nat
      BY <3>2 DEF IInv, TypeOK
    <3>4. ResultIsLine' /\ NewestIsTyped'
      BY <2>0, <2>2, <3>1 DEF ResultIsLine, NewestIsTyped
    <3> QED BY <1>2, <2>0, <2>2, <3>1, <3>2, <3>3, <3>4 DEF IInv, TypeOK
  <2> QED BY <2>3, <2>4
<1>7. CASE GivesUp /\ Good(l')
  <2>1. PICK e \in {"EAGAIN", "EIO", "none"} : Return(Null(e))
    BY <1>7 DEF GivesUp
  <2>2. UNCHANGED <<history, history_index, visited, typed>> /\ phase' = "stopping" /\ res' = Null(e)
    BY <1>7, <2>1 DEF GivesUp, Browsing, Return
  <2>3. Null(e) \in Results /\ Null(e).kind # "line"
    BY DEF Null
  <2>4. ResultIsLine' /\ NewestIsTyped'
    BY <2>2, <2>3 DEF ResultIsLine, NewestIsTyped
  <2> QED BY <1>1, <1>7, <2>2, <2>3, <2>4 DEF IInv, TypeOK
<1> QED
  BY <1>2, <1>4, <1>5, <1>6, <1>7 DEF Outcome

\* The empty line is a line.
LEMMA NoBytes == <<>> \in Lines
BY EmptyGood, GoodString DEF Lines

\* Starting a line preserves the invariant.
LEMMA StartIInv ==
    ASSUME IInv, EditStart
    PROVE  IInv'
<1> USE DEF Lines
<1>1. history \in Seq(Lines) /\ history_max_len \in Nat \ {0} /\ Len(history) <= history_max_len
      /\ tty \in {"initial", "raw"} /\ rawmode \in BOOLEAN /\ refused \in BOOLEAN
      /\ completion_idx \in Nat
  BY DEF IInv, TypeOK
<1>2. /\ phase' = "editing" /\ l' = EmptyLine /\ in_completion' = FALSE /\ history_index' = 0
      /\ visited' = {} /\ typed' = <<>> /\ res' = None
      /\ history_max_len' = history_max_len /\ completion_idx' = completion_idx
  BY DEF EditStart
<1>3. Good(l') /\ typed' \in Lines
  BY <1>2, EmptyGood, NoBytes
<1>4. /\ history' \in Seq(Lines) /\ Len(history') <= history_max_len
      /\ kept' \in Seq(Lines)
      /\ tty' \in {"initial", "raw"} /\ rawmode' \in BOOLEAN
      /\ orig_termios' \in {"initial", "raw"}
      /\ refused' \in BOOLEAN /\ own' \in BOOLEAN
  <2>1. CASE enableRawMode /\ history' = HistoryAdd(history, history_max_len, <<>>) /\ kept' = Owed(history, history_max_len) /\ own' = TRUE
    <3>0. kept' = Before(history')
      BY <1>1, <2>1, NoBytes, OwedIsBefore
    <3>1. history' \in Seq(Lines) /\ Len(history') \in 1 .. history_max_len
      BY <1>1, <2>1, NoBytes, AddFacts
    <3>2. history' # <<>> /\ Len(history') <= history_max_len
      BY <3>1
    <3>3. kept' \in Seq(Lines)
      BY <3>0, <3>1, <3>2, BeforeFacts
    <3> QED BY <1>1, <2>1, <3>1, <3>2, <3>3 DEF enableRawMode
  <2>2. CASE enableRawModeFails /\ kept' = <<>> /\ history' = history /\ own' = FALSE
    <3>1. <<>> \in Seq(Lines)
      OBVIOUS
    <3> QED BY <1>1, <2>2, <3>1 DEF enableRawModeFails
  <2> QED BY <2>1, <2>2 DEF EditStart
<1>5. CompletionStands' /\ ResultIsLine' /\ NewestIsTyped'
  BY <1>2 DEF CompletionStands, ResultIsLine, NewestIsTyped, None
<1> QED
  BY <1>1, <1>2, <1>3, <1>4, <1>5 DEF IInv, TypeOK, Good, None, Saved

\* Putting the terminal back, or failing to.
LEMMA RestoreFacts ==
    ASSUME IInv, disableRawMode
    PROVE  /\ rawmode' \in BOOLEAN /\ tty' \in {"initial", "raw"}
           /\ orig_termios' \in {"unset", "initial", "raw"}
           /\ Saved' /\ refused' \in BOOLEAN
<1>1. /\ rawmode \in BOOLEAN /\ refused \in BOOLEAN /\ tty \in {"initial", "raw"}
      /\ orig_termios \in {"unset", "initial", "raw"}
      /\ rawmode => orig_termios # "unset"
  BY DEF IInv, TypeOK, Saved
<1>2. CASE /\ rawmode /\ tty' = orig_termios /\ rawmode' = FALSE
           /\ UNCHANGED <<orig_termios, refused>>
  BY <1>1, <1>2 DEF Saved
<1>3. CASE UNCHANGED <<rawmode, tty, orig_termios>> /\ (refused' = TRUE \/ UNCHANGED refused)
  BY <1>1, <1>3 DEF Saved
<1> QED
  BY <1>2, <1>3 DEF disableRawMode, ttyVars

\* Ending a line preserves the invariant.
LEMMA StopIInv ==
    ASSUME IInv, EditStop
    PROVE  IInv'
<1> USE DEF Lines
<1>1. /\ phase' = "idle" /\ l' = EmptyLine /\ in_completion' = FALSE /\ completion_idx' = 0
      /\ history_index' = 0 /\ own' = FALSE /\ kept' = <<>> /\ visited' = {} /\ typed' = <<>>
      /\ UNCHANGED <<history, history_max_len, res>>
  BY DEF EditStop
<1>2. Good(l') /\ typed' \in Lines /\ kept' \in Seq(Lines)
  BY <1>1, EmptyGood, NoBytes
<1>3. /\ rawmode' \in BOOLEAN /\ tty' \in {"initial", "raw"}
      /\ orig_termios' \in {"unset", "initial", "raw"}
      /\ Saved' /\ refused' \in BOOLEAN
  BY RestoreFacts DEF EditStop, IInv, TypeOK
<1>5. CompletionStands' /\ ResultIsLine' /\ NewestIsTyped'
  BY <1>1 DEF CompletionStands, ResultIsLine, NewestIsTyped, None
<1> QED
  BY <1>1, <1>2, <1>3, <1>5 DEF IInv, TypeOK, Good, None

\* What the program does between two lines preserves the invariant.
LEMMA ClientIInv ==
    ASSUME IInv, ClientAdds \/ (\E n \in MaxLens : ClientSetsMaxLen(n)) \/ ClientExits
    PROVE  IInv'
<1> USE DEF Lines
<1>1. CASE ClientAdds
  <2>1. res.kind = "line" /\ history' = HistoryAdd(history, history_max_len, res.line)
        /\ phase = "idle" /\ res' = None
        /\ UNCHANGED <<l, history_index, in_completion, completion_idx, visited, typed,
                       rawmode, tty, orig_termios, refused, history_max_len, phase, own, kept>>
    BY <1>1 DEF ClientAdds, ttyVars
  <2>2. /\ res.line \in Lines /\ history \in Seq(Lines) /\ history_max_len \in Nat \ {0}
        /\ Len(history) <= history_max_len
    BY <2>1 DEF IInv, TypeOK
  <2>3. history' \in Seq(Lines) /\ Len(history') \in 1 .. history_max_len
    BY <2>1, <2>2, AddFacts
  <2>4. CompletionStands' /\ ResultIsLine' /\ NewestIsTyped' /\ Saved'
    BY <2>1 DEF IInv, CompletionStands, ResultIsLine, NewestIsTyped, Saved
  <2> QED BY <2>1, <2>2, <2>3, <2>4 DEF IInv, TypeOK, None
<1>2. CASE \E n \in MaxLens : ClientSetsMaxLen(n)
  <2>1. PICK n \in MaxLens : ClientSetsMaxLen(n)
    BY <1>2
  <2>2. n \in Nat \ {0} /\ history \in Seq(Lines)
    BY <2>1, HistoryAssumption DEF ClientSetsMaxLen, IInv, TypeOK
  <2>3. /\ history' = HistorySetMaxLen(history, n) /\ history_max_len' = n /\ phase = "idle"
        /\ UNCHANGED <<l, history_index, in_completion, completion_idx, visited, typed,
                       rawmode, tty, orig_termios, refused, phase, res, own, kept>>
    BY <2>1 DEF ClientSetsMaxLen, ttyVars
  <2>4. history' \in Seq(Lines) /\ Len(history') <= history_max_len'
    BY <2>2, <2>3, SetMaxFacts
  <2>5. CompletionStands' /\ ResultIsLine' /\ NewestIsTyped' /\ Saved'
    BY <2>3 DEF IInv, CompletionStands, ResultIsLine, NewestIsTyped, Saved
  <2> QED BY <2>2, <2>3, <2>4, <2>5 DEF IInv, TypeOK
<1>3. CASE ClientExits
  <2>1. /\ phase' = "exited"
        /\ UNCHANGED <<l, history, history_index, in_completion, completion_idx, visited, typed,
                       history_max_len, res, own, kept>>
    BY <1>3 DEF ClientExits, lineVars
  <2>2. /\ rawmode' \in BOOLEAN /\ tty' \in {"initial", "raw"}
        /\ orig_termios' \in {"unset", "initial", "raw"} /\ Saved' /\ refused' \in BOOLEAN
    BY <1>3, RestoreFacts DEF ClientExits
  <2>3. CompletionStands' /\ ResultIsLine' /\ NewestIsTyped'
    BY <2>1 DEF IInv, CompletionStands, ResultIsLine, NewestIsTyped
  <2> QED BY <2>1, <2>2, <2>3 DEF IInv, TypeOK
<1> QED BY <1>1, <1>2, <1>3

\* A failing read preserves the invariant.
LEMMA ReadFailsIInv ==
    ASSUME IInv, FeedReadFails
    PROVE  IInv'
<1>1. /\ phase' = "stopping" /\ res' = Null("EIO")
      /\ UNCHANGED <<l, history, history_index, in_completion, completion_idx, visited, typed,
                     rawmode, tty, orig_termios, refused, history_max_len, own, kept>>
  BY DEF FeedReadFails, Return, lineVars, ttyVars
<1>2. CompletionStands' /\ ResultIsLine' /\ NewestIsTyped' /\ Saved'
  BY <1>1 DEF IInv, CompletionStands, ResultIsLine, NewestIsTyped, Saved, Null
<1> QED BY <1>1, <1>2 DEF IInv, TypeOK, Null

\* The invariant holds at the start, and every step preserves it.
LEMMA InitIInv == Init => IInv
<1> SUFFICES ASSUME Init PROVE IInv
  OBVIOUS
<1>1. Good(l) /\ typed \in Lines /\ history \in Seq(Lines) /\ kept \in Seq(Lines)
  BY EmptyGood, NoBytes DEF Init
<1>2. history_max_len \in Nat \ {0} /\ Len(history) <= history_max_len
  BY HistoryAssumption DEF Init
<1>3. TypeOK
  BY <1>1, <1>2 DEF Init, TypeOK, Good, Lines, None
<1>4. CompletionStands /\ ResultIsLine /\ NewestIsTyped /\ Saved
  BY DEF Init, CompletionStands, ResultIsLine, NewestIsTyped, Saved
<1> QED
  BY <1>1, <1>3, <1>4 DEF IInv, Good

\* IInv is inductive.
LEMMA NextIInv == NulKey = FALSE /\ IInv /\ [Next]_vars => IInv'
<1> SUFFICES ASSUME NulKey = FALSE, IInv, [Next]_vars PROVE IInv'
  OBVIOUS
<1>1. CASE UNCHANGED vars
  BY <1>1 DEF vars, lineVars, ttyVars, IInv, TypeOK, LineIsString, CompletionStands, ResultIsLine,
              LineOf, NewestIsTyped, Saved
<1>2. CASE Next
  BY <1>2, StartIInv, FeedIInv, ReadFailsIInv, StopIInv, ClientIInv DEF Next
<1> QED BY <1>1, <1>2

\* If byte 0 is not typed, the state keeps its types whatever else happens.
THEOREM Typing ==
    ASSUME NulKey = FALSE
    PROVE  Spec => []TypeOK
<1>1. IInv => TypeOK
  BY DEF IInv
<1>2. IInv /\ [Next]_vars => IInv'
  BY NextIInv
<1> QED BY <1>1, <1>2, InitIInv, PTL DEF Spec

\* If byte 0 is not typed, the buffer always holds a C string of the length
\* the editor believes in, made of bytes that were typed, recalled or
\* completed, with the cursor inside it: for every buffer size.
THEOREM LineStaysWellFormed ==
    ASSUME NulKey = FALSE
    PROVE  Spec => []LineWellFormed
<1>1. IInv => LineWellFormed
  BY DEF IInv, LineWellFormed
<1>2. IInv /\ [Next]_vars => IInv'
  BY NextIInv
<1> QED BY <1>1, <1>2, InitIInv, PTL DEF Spec

\* If byte 0 is not typed, what linenoise() returns is the line as it was
\* edited.
THEOREM ReturnsTheLine ==
    ASSUME NulKey = FALSE
    PROVE  Spec => []ResultIsLine
<1>1. IInv => ResultIsLine
  BY DEF IInv
<1>2. IInv /\ [Next]_vars => IInv'
  BY NextIInv
<1> QED BY <1>1, <1>2, InitIInv, PTL DEF Spec

\* If byte 0 is not typed, the completion index always stands for a
\* completion of the line or for the line, and there are completions as long
\* as one is shown.
THEOREM CompletionStaysValid ==
    ASSUME NulKey = FALSE
    PROVE  Spec => []CompletionStands
<1>1. IInv => CompletionStands
  BY DEF IInv
<1>2. IInv /\ [Next]_vars => IInv'
  BY NextIInv
<1> QED BY <1>1, <1>2, InitIInv, PTL DEF Spec

\* If byte 0 is not typed, coming back to the newest entry brings back what
\* was typed there, but for the last byte of a line that fills the buffer:
\* no browsing or editing of other entries in between disturbs it.
THEOREM TypedLineReturns ==
    ASSUME NulKey = FALSE
    PROVE  Spec => TypedComesBack
<1> DEFINE Back == phase = "editing" /\ phase' = "editing" /\ history_index = 1 /\ history_index' = 0
                     => LineOf(l') = SubSeq(typed, 1, IF Len(typed) < BufLen THEN Len(typed) ELSE BufLen - 1)
<1>1. IInv /\ [Next]_vars => IInv'
  BY NextIInv
<1>2. IInv /\ [Next]_vars => [Back]_vars
  <2> SUFFICES ASSUME IInv, Next, phase = "editing", phase' = "editing",
                      history_index = 1, history_index' = 0
               PROVE  LineOf(l') = SubSeq(typed, 1, IF Len(typed) < BufLen THEN Len(typed) ELSE BufLen - 1)
    OBVIOUS
  <2>1. PICK k \in Keys : EditFeed(k)
    BY DEF Next, EditStart, FeedReadFails, Return, EditStop, ClientAdds, ClientSetsMaxLen, ClientExits
  <2>2. Good(l) /\ completion_idx \in Nat
    BY DEF IInv, TypeOK, Good
  <2>3. PICK m : Good(m) /\ Outcome(m)
    BY <2>1, <2>2, FeedOutcome
  <2>4. ~Stays
    BY DEF Stays, Browsing
  <2>5. ~Pops(m) /\ ~GivesUp
    BY DEF Pops, PopAndReturn, Return, GivesUp
  <2>6. PICK dir \in {HISTORY_PREV, HISTORY_NEXT} : EditHistoryNext(dir, m)
    BY <2>3, <2>4, <2>5 DEF Outcome, Browses
  <2> QED BY <2>3, <2>6, BrowseFacts
<1> QED BY <1>1, <1>2, InitIInv, PTL DEF Spec, TypedComesBack

-----------------------------------------------------------------------------
(* The history, if also tcsetattr does not fail.                            *)

HInv == IInv /\ SlotHeld /\ HistorySurvives

\* A key leaves the entries of the program where they are.
LEMMA FeedHInv ==
    ASSUME HInv, NulKey = FALSE, NEW k \in Keys, EditFeed(k)
    PROVE  SlotHeld' /\ HistorySurvives'
<1> USE DEF Lines
<1> SUFFICES ASSUME own' PROVE SlotHeld' /\ HistorySurvives'
  BY DEF SlotHeld, HistorySurvives
<1>0. own
  BY DEF EditFeed
<1>1. /\ Good(l) /\ phase = "editing" /\ history \in Seq(Lines) /\ kept \in Seq(Lines)
      /\ completion_idx \in Nat /\ history_index \in Nat /\ kept' = kept
  BY DEF HInv, IInv, TypeOK, Good, EditFeed
<1>2. /\ Len(history) = Len(kept) + 1 /\ history_index < Len(history)
      /\ \A i \in DOMAIN kept : i \in visited \/ history[i] = kept[i]
  BY <1>0, <1>1 DEF HInv, SlotHeld
<1>3. PICK m : Good(m) /\ Outcome(m)
  BY <1>1, FeedOutcome DEF HInv
<1>4. DOMAIN kept = 1 .. Len(kept) /\ Len(kept) \in Nat /\ history # <<>>
  BY <1>1, <1>2
<1>5. CASE Stays
  BY <1>1, <1>2, <1>5 DEF Stays, More, Browsing, SlotHeld, HistorySurvives
<1>6. CASE Browses(m)
  <2>1. phase' = phase
    BY <1>6 DEF Browses, More
  <2>2. PICK dir \in {HISTORY_PREV, HISTORY_NEXT} : EditHistoryNext(dir, m)
    BY <1>6 DEF Browses
  <2>3. /\ Len(history') = Len(history) /\ history_index' \in Nat
        /\ history_index' > 0 => history_index' < Len(history')
        /\ \A i \in 1 .. Len(history) : i \in visited' \/ history'[i] = history[i]
        /\ visited \subseteq visited'
    BY <1>1, <1>3, <2>2, BrowseFacts DEF HInv
  <2>4. \A i \in DOMAIN kept : i \in visited' \/ history'[i] = kept[i]
    BY <1>2, <1>4, <2>3
  <2>5. history_index' < Len(history')
    BY <1>2, <1>4, <2>3
  <2> QED BY <1>1, <1>2, <2>1, <2>3, <2>4, <2>5 DEF SlotHeld, HistorySurvives
<1>7. CASE Pops(m)
  <2>1. PICK r \in {Line(CString(m.buf)), Null("ENOENT")} : PopAndReturn(r)
    BY <1>7 DEF Pops
  <2>2. history' = Before(history) /\ phase' = "stopping" /\ res' = r /\ visited' = visited
    BY <1>4, <1>7, <2>1 DEF Pops, PopAndReturn, Return
  <2>3. Len(history') = Len(kept) /\ \A i \in 1 .. Len(kept) : history'[i] = history[i]
    BY <1>1, <1>2, <1>4, <2>2, BeforeFacts
  <2>4. res'.kind = "line" \/ res' = Null("ENOENT")
    BY <2>2 DEF Line
  <2>5. \A i \in DOMAIN kept' : i \in visited' \/ history'[i] = kept'[i]
    BY <1>1, <1>2, <1>4, <2>2, <2>3
  <2> QED BY <1>1, <1>4, <2>2, <2>3, <2>4, <2>5 DEF SlotHeld, HistorySurvives
<1>8. CASE GivesUp
  <2>1. PICK e \in {"EAGAIN", "EIO", "none"} : Return(Null(e))
    BY <1>8 DEF GivesUp
  <2>2. UNCHANGED <<history, visited>> /\ phase' = "stopping" /\ res' = Null(e)
    BY <1>8, <2>1 DEF GivesUp, Browsing, Return
  <2>3. res'.kind # "line" /\ res' # Null("ENOENT")
    BY <2>2 DEF Null
  <2>4. Len(history') - Len(kept') \in {0, 1} /\ Len(history') # Len(kept')
    <3>1. history' = history /\ kept' = kept
      BY <1>1, <2>2
    <3>2. Len(history) - Len(kept) \in {0, 1} /\ Len(history) # Len(kept)
      <4> DEFINE x == Len(history)
                 y == Len(kept)
      <4>1. y \in Nat /\ x = y + 1
        BY <1>2, <1>4
      <4> HIDE DEF x, y
      <4>2. x - y \in {0, 1} /\ x # y
        BY <4>1
      <4> QED BY <4>2 DEF x, y
    <3> QED BY <3>1, <3>2
  <2>5. \A i \in DOMAIN kept' : i \in visited' \/ history'[i] = kept'[i]
    BY <1>1, <1>2, <2>2
  <2> QED BY <2>2, <2>3, <2>4, <2>5 DEF SlotHeld, HistorySurvives
<1> QED
  BY <1>3, <1>5, <1>6, <1>7, <1>8 DEF Outcome

\* HInv is inductive.
LEMMA NextHInv ==
    ASSUME NulKey = FALSE
    PROVE  HInv /\ [Next]_vars => HInv'
<1> SUFFICES ASSUME HInv, [Next]_vars, own' PROVE SlotHeld' /\ HistorySurvives'
  BY NextIInv DEF HInv, SlotHeld, HistorySurvives
<1> USE DEF Lines
<1>1. CASE EditStart
  <2>1. history \in Seq(Lines) /\ history_max_len \in Nat \ {0} /\ Len(history) <= history_max_len
    BY DEF HInv, IInv, TypeOK
  <2>2. /\ phase' = "editing" /\ history_index' = 0
        /\ history' = HistoryAdd(history, history_max_len, <<>>)
        /\ kept' = Owed(history, history_max_len)
    BY <1>1 DEF EditStart
  <2>3. history' \in Seq(Lines) /\ Len(history') \in 1 .. history_max_len
    BY <2>1, <2>2, NoBytes, AddFacts
  <2>4. history' # <<>> /\ Len(history') > 0
    BY <2>3
  <2>5. /\ kept' \in Seq(Lines) /\ Len(kept') = Len(history') - 1
        /\ \A i \in 1 .. Len(history') - 1 : kept'[i] = history'[i]
    BY <2>1, <2>2, <2>3, <2>4, NoBytes, OwedIsBefore, BeforeFacts
  <2>6. \A i \in DOMAIN kept' : history'[i] = kept'[i]
    BY <2>5
  <2> QED BY <2>2, <2>3, <2>4, <2>5, <2>6 DEF SlotHeld, HistorySurvives
<1>2. CASE \E k \in Keys : EditFeed(k)
  BY <1>2, FeedHInv
<1>3. CASE FeedReadFails
  <2>1. /\ phase = "editing" /\ phase' = "stopping" /\ res' = Null("EIO")
        /\ own /\ UNCHANGED <<history, kept, visited>>
    BY <1>3 DEF FeedReadFails, Return, lineVars
  <2>2. res'.kind # "line" /\ res' # Null("ENOENT")
    BY <2>1 DEF Null
  <2>3. Len(kept) \in Nat /\ Len(history) = Len(kept) + 1
        /\ \A i \in DOMAIN kept : i \in visited \/ history[i] = kept[i]
    BY <2>1 DEF HInv, IInv, TypeOK, SlotHeld
  <2> QED BY <2>1, <2>2, <2>3 DEF SlotHeld, HistorySurvives
<1>4. CASE EditStop \/ ClientAdds \/ (\E n \in MaxLens : ClientSetsMaxLen(n)) \/ ClientExits
  <2>1. phase' \in {"idle", "exited"}
    BY <1>4 DEF EditStop, ClientAdds, ClientSetsMaxLen, ClientExits
  <2> QED BY <2>1 DEF SlotHeld, HistorySurvives
<1>5. CASE UNCHANGED vars
  BY <1>5 DEF HInv, vars, lineVars, SlotHeld, HistorySurvives
<1> QED
  BY <1>1, <1>2, <1>3, <1>4, <1>5 DEF Next

\* The history begins empty and no session is under way.
LEMMA InitHInv == Init => HInv
BY InitIInv DEF Init, HInv, SlotHeld, HistorySurvives

\* If byte 0 is not typed, a session that came as far as linenoiseHistoryAdd
\* has its entry as the newest while the line is edited, and enter and Ctrl-D
\* leave the history that was found, less the oldest line of a full array or
\* an empty newest line.
THEOREM HistoryIsKept ==
    ASSUME NulKey = FALSE
    PROVE  Spec => []HistoryKept
<1>1. HInv => HistoryKept
  BY DEF HInv, HistoryKept
<1>2. HInv /\ [Next]_vars => HInv'
  BY NextHInv
<1> QED BY <1>1, <1>2, InitHInv, PTL DEF Spec

-----------------------------------------------------------------------------
(* The terminal, as long as tcsetattr has not failed.                        *)

TInv == refused # TRUE =>
          /\ phase \in {"idle", "exited"} => rawmode = FALSE /\ tty = "initial"
          /\ phase \in {"editing", "stopping"} => rawmode = TRUE /\ orig_termios = "initial"

\* No key touches the terminal's settings or leaves the session but by its end.
LEMMA FeedTty ==
    ASSUME NEW k, EditFeed(k)
    PROVE  /\ phase = "editing" /\ UNCHANGED <<rawmode, tty, orig_termios, refused>>
           /\ phase' \in {"editing", "stopping", "undefined"}
<1>1. phase = "editing" /\ UNCHANGED <<rawmode, tty, orig_termios, refused>>
  BY DEF EditFeed, ttyVars
<1>2. ASSUME NEW m, Dispatch(k, m) PROVE phase' \in {"editing", "stopping", "undefined"}
  BY <1>1, <1>2 DEF Dispatch, KeyEnter, KeyCtrlC, KeyCtrlD, KeyHistory, KeyEdit, KeyText,
                    PopAndReturn, Return, More
<1> QED
  BY <1>1, <1>2 DEF EditFeed, completeLine, Return, More

\* As long as tcsetattr has not failed, the terminal has its initial settings
\* between two lines and after exit, however each session ended.
THEOREM TerminalIsRestored == Spec => []CookedOutside
<1>1. Init => TInv
  BY DEF Init, TInv
<1>2. TInv /\ [Next]_vars => TInv'
  <2> SUFFICES ASSUME TInv, [Next]_vars PROVE TInv'
    OBVIOUS
  <2>1. CASE EditStart
    BY <2>1 DEF EditStart, enableRawMode, enableRawModeFails, TInv
  <2>2. CASE \E k \in Keys : EditFeed(k)
    BY <2>2, FeedTty DEF TInv
  <2>3. CASE FeedReadFails
    BY <2>3 DEF FeedReadFails, Return, ttyVars, TInv
  <2>4. CASE EditStop \/ ClientExits
    BY <2>4 DEF EditStop, ClientExits, disableRawMode, ttyVars, TInv
  <2>5. CASE ClientAdds \/ (\E n \in MaxLens : ClientSetsMaxLen(n))
    BY <2>5 DEF ClientAdds, ClientSetsMaxLen, ttyVars, TInv
  <2>6. CASE UNCHANGED vars
    BY <2>6 DEF vars, ttyVars, TInv
  <2> QED BY <2>1, <2>2, <2>3, <2>4, <2>5, <2>6 DEF Next
<1>3. TInv => CookedOutside
  BY DEF TInv, CookedOutside
<1> QED BY <1>1, <1>2, <1>3, PTL DEF Spec

-----------------------------------------------------------------------------
(* The keys, against the abstract editor.                                   *)

\* What the line is after a step.
LEMMA HoldsIntro ==
    ASSUME NEW t, NEW p, LineOf(l') = t, l'.pos = p
    PROVE  Editor!Holds(t, p)
BY DEF Editor!Holds

\* The word before the cursor begins where the two loops of
\* linenoiseEditDeletePrevWord stop, and nowhere else.
LEMMA WordStartIs ==
    ASSUME NEW m, Good(m)
    PROVE  Editor!WordStart(SubSeq(LineOf(m), 1, m.pos)) = PrevWord(m)
<1> PICK b, n, p : Parts(m, b, n, p)
  BY GoodParts
<1> DEFINE s == SubSeq(LineOf(m), 1, m.pos)
           q == BackOver(b, p, {Space})
           w == BackOver(b, q, Other)
<1>1. m.pos = p /\ p \in Nat /\ p <= n /\ PrevWord(m) = w
  BY DEF Parts, PrevWord
<1>2. /\ q \in 0 .. p /\ (q = 0 \/ b[q - 1] # Space)
      /\ \A i \in q .. p - 1 : b[i] = Space
  BY <1>1, BackOverStops
<1> HIDE DEF q
<1>3. /\ w \in 0 .. q /\ (w = 0 \/ b[w - 1] \notin Other)
      /\ \A i \in w .. q - 1 : b[i] \in Other
  BY <1>2, BackOverStops
<1> HIDE DEF w
<1>4. Len(s) = p /\ \A i \in 1 .. p : s[i] = b[i - 1]
  BY <1>1, LineBytes
<1> HIDE DEF s
<1>5. w = 0 \/ b[w - 1] = Space
  BY <1>1, <1>2, <1>3 DEF Other, Parts, Byte
<1>6. w \in Nat /\ q \in Nat /\ p \in Nat /\ w <= q /\ q <= p
  BY <1>1, <1>2, <1>3
<1>7. w > 0 => s[w] = Space
  <2>1. w > 0 => w \in 1 .. p
    BY <1>6
  <2> QED BY <1>4, <1>5, <1>6, <2>1
<1>8. q > 0 => s[q] # Space
  <2>1. q > 0 => q \in 1 .. p
    BY <1>6
  <2> QED BY <1>2, <1>4, <1>6, <2>1
<1>9. ASSUME NEW i \in Nat, i > q, i <= p PROVE s[i] = Space
  <2>1. i \in 1 .. p /\ i - 1 \in q .. p - 1
    BY <1>6, <1>9
  <2> QED BY <1>2, <1>4, <2>1
<1>10. ASSUME NEW i \in Nat, i > w, i <= q PROVE s[i] # Space
  <2>1. i \in 1 .. p /\ i - 1 \in w .. q - 1
    BY <1>6, <1>10
  <2> QED BY <1>3, <1>4, <2>1 DEF Other
<1> DEFINE P(x) == /\ x > 0 => s[x] = Space /\ s[x + 1] # Space
                   /\ \E e \in x .. Len(s) : /\ \A i \in x + 1 .. e : s[i] # Space
                                             /\ \A i \in e + 1 .. Len(s) : s[i] = Space
                                             /\ e = x => x = 0
<1>11. w \in 0 .. Len(s) /\ P(w)
  <2>1. w \in 0 .. Len(s) /\ q \in w .. Len(s)
    BY <1>4, <1>6
  <2>2. q = w => w = 0
    BY <1>6, <1>7, <1>8
  <2>3. w > 0 => s[w] = Space /\ s[w + 1] # Space
    <3>1. w > 0 => w + 1 \in Nat /\ w + 1 > w /\ w + 1 <= q
      BY <1>6, <2>2
    <3> QED BY <1>7, <1>10, <3>1
  <2>4. \A i \in w + 1 .. q : s[i] # Space
    <3> TAKE i \in w + 1 .. q
    <3>1. i \in Nat /\ i > w /\ i <= q
      BY <1>6
    <3> QED BY <1>10, <3>1
  <2>5. \A i \in q + 1 .. Len(s) : s[i] = Space
    <3> TAKE i \in q + 1 .. Len(s)
    <3>1. i \in Nat /\ i > q /\ i <= p
      BY <1>4, <1>6
    <3> QED BY <1>9, <3>1
  <2> QED BY <2>1, <2>2, <2>3, <2>4, <2>5
<1>12. ASSUME NEW x \in 0 .. Len(s), P(x) PROVE x = w
  <2>1. PICK e \in x .. Len(s) : /\ \A i \in x + 1 .. e : s[i] # Space
                                 /\ \A i \in e + 1 .. Len(s) : s[i] = Space
                                 /\ e = x => x = 0
    BY <1>12
  <2>2. x \in Nat /\ e \in Nat /\ x <= e /\ e <= p
    BY <1>4, <1>6
  <2>3. ~(e < q)
    <3> SUFFICES ASSUME e < q PROVE FALSE
      OBVIOUS
    <3>1. q \in e + 1 .. Len(s) /\ q > 0
      BY <1>4, <1>6, <2>2
    <3>2. s[q] = Space
      BY <2>1, <3>1, Zenon
    <3> QED BY <1>8, <3>1, <3>2
  <2>4. ~(q < e)
    <3> SUFFICES ASSUME q < e PROVE FALSE
      OBVIOUS
    <3>1. e # x
      <4>1. (e = x => x = 0)
        BY <2>1, Zenon
      <4> QED BY <1>6, <2>2, <4>1
    <3>2. e \in x + 1 .. e /\ e > q /\ e <= p /\ e \in Nat
      BY <1>6, <2>2, <3>1
    <3>3. s[e] # Space
      BY <2>1, <3>2, Zenon
    <3> QED BY <1>9, <3>2, <3>3
  <2>5. e = q
    BY <1>6, <2>2, <2>3, <2>4
  <2>6. ~(x < w)
    <3> SUFFICES ASSUME x < w PROVE FALSE
      OBVIOUS
    <3>1. w \in x + 1 .. e /\ w > 0
      BY <1>6, <2>2, <2>5
    <3> QED BY <1>7, <2>1, <3>1
  <2>7. ~(w < x)
    <3> SUFFICES ASSUME w < x PROVE FALSE
      OBVIOUS
    <3>1. x \in Nat /\ x <= q /\ x > w /\ x > 0
      BY <1>6, <2>2, <2>5
    <3>2. s[x] = Space
      BY <1>12, <3>1
    <3> QED BY <1>10, <3>1, <3>2
  <2> QED BY <1>6, <2>2, <2>6, <2>7
<1>13. Editor!WordStart(s) = CHOOSE x \in 0 .. Len(s) : P(x)
  BY DEF Editor!WordStart
<1> HIDE DEF P
<1>14. (CHOOSE x \in 0 .. Len(s) : P(x)) = w
  BY <1>11, <1>12
<1> QED
  BY <1>1, <1>13, <1>14 DEF s

\* The helpers of the abstract editor, at the position after n bytes.
LEMMA CutIs ==
    ASSUME NEW t, NEW n \in Nat, NEW j
    PROVE  Editor!Cut(t, n + 1, j) = SubSeq(t, 1, n) \o SubSeq(t, j + 1, Len(t))
<1> DEFINE x == n + 1
<1>1. x - 1 = n
  OBVIOUS
<1> HIDE DEF x
<1>2. Editor!Cut(t, x, j) = SubSeq(t, 1, x - 1) \o SubSeq(t, j + 1, Len(t))
  BY DEF Editor!Cut
<1> QED BY <1>1, <1>2 DEF x

\* The editor's RemoveAt, with the index it is used at.
LEMMA RemoveIs ==
    ASSUME NEW t, NEW n \in Nat
    PROVE  Editor!RemoveAt(t, n + 1) = SubSeq(t, 1, n) \o SubSeq(t, n + 1 + 1, Len(t))
<1> DEFINE x == n + 1
<1>1. x - 1 = n
  OBVIOUS
<1> HIDE DEF x
<1>2. Editor!RemoveAt(t, x) = SubSeq(t, 1, x - 1) \o SubSeq(t, x + 1, Len(t))
  BY DEF Editor!RemoveAt
<1> QED BY <1>1, <1>2 DEF x

\* The editor's InsertAt, with the index it is used at.
LEMMA InsertIs ==
    ASSUME NEW t, NEW n \in Nat, NEW e
    PROVE  Editor!InsertAt(t, n + 1, e) = SubSeq(t, 1, n) \o <<e>> \o SubSeq(t, n + 1, Len(t))
<1> DEFINE x == n + 1
<1>1. x - 1 = n
  OBVIOUS
<1> HIDE DEF x
<1>2. Editor!InsertAt(t, x, e) = SubSeq(t, 1, x - 1) \o <<e>> \o SubSeq(t, x, Len(t))
  BY DEF Editor!InsertAt
<1> QED BY <1>1, <1>2 DEF x

\* Deleting under the cursor, which two keys share.
LEMMA DeletePromised ==
    ASSUME NEW m, Good(m), l' = EditDelete(m)
    PROVE  Editor!Holds(IF m.pos < Len(LineOf(m)) THEN Editor!RemoveAt(LineOf(m), m.pos + 1) ELSE LineOf(m), m.pos)
<1> DEFINE t == LineOf(m)
           p == m.pos
<1>1. Len(t) = m.len /\ p \in Nat /\ m.len \in Nat /\ p <= m.len
  BY GoodString, GoodFacts
<1>2. CASE p < Len(t)
  <2>1. LineOf(l') = SubSeq(t, 1, p) \o SubSeq(t, p + 1 + 1, Len(t)) /\ l'.pos = p
    BY <1>1, <1>2, DeleteLine
  <2>2. Editor!RemoveAt(t, p + 1) = SubSeq(t, 1, p) \o SubSeq(t, p + 1 + 1, Len(t))
    BY <1>1, RemoveIs
  <2> QED BY <1>2, <2>1, <2>2, HoldsIntro
<1>3. CASE ~(p < Len(t))
  <2>1. l' = m
    BY <1>1, <1>3 DEF EditDelete
  <2> QED BY <1>3, <2>1, HoldsIntro
<1> QED BY <1>2, <1>3

\* The keys that edit without the history do what the abstract editor says.
LEMMA EditAsPromised ==
    ASSUME NEW m, Good(m), NEW k,
           k \in {"backspace", "ctrl_h", "del", "ctrl_t", "ctrl_b", "left", "ctrl_f", "right",
                  "ctrl_a", "home", "ctrl_e", "end", "ctrl_u", "ctrl_k", "ctrl_w", "ctrl_l", "other"},
           l' = Edited(k, m)
    PROVE  Editor!Edit(k, LineOf(m), m.pos)
<1> DEFINE t == LineOf(m)
           p == m.pos
<1>1. Len(t) = m.len /\ p \in Nat /\ m.len \in Nat /\ p <= m.len
  BY GoodString, GoodFacts
<1>2. CASE k \in {"backspace", "ctrl_h"}
  <2>1. l' = EditBackspace(m)
    BY <1>2 DEF Edited
  <2>2. CASE p > 0
    <3>1. LineOf(l') = SubSeq(t, 1, p - 1) \o SubSeq(t, p + 1, Len(t)) /\ l'.pos = p - 1
      BY <1>1, <2>1, <2>2, BackspaceLine
    <3>2. Editor!RemoveAt(t, p) = SubSeq(t, 1, p - 1) \o SubSeq(t, p + 1, Len(t))
      BY DEF Editor!RemoveAt
    <3>3. Editor!Holds(Editor!RemoveAt(t, p), p - 1)
      BY <3>1, <3>2, HoldsIntro
    <3> QED BY <1>2, <2>2, <3>3 DEF Editor!Edit
  <2>3. CASE ~(p > 0)
    <3>1. l' = m /\ p = 0
      BY <1>1, <2>1, <2>3 DEF EditBackspace
    <3>2. Editor!Holds(t, 0)
      BY <3>1, HoldsIntro
    <3> QED BY <1>2, <2>3, <3>2 DEF Editor!Edit
  <2> QED BY <2>2, <2>3
<1>3. CASE k = "del"
  <2>1. l' = EditDelete(m)
    BY <1>3 DEF Edited
  <2>2. Editor!Holds(IF p < Len(t) THEN Editor!RemoveAt(t, p + 1) ELSE t, p)
    BY <2>1, DeletePromised
  <2> QED BY <1>3, <2>2 DEF Editor!Edit
<1>4. CASE k \in {"ctrl_b", "left", "ctrl_f", "right", "ctrl_a", "home", "ctrl_e", "end"}
  <2>1. k \in {"ctrl_b", "left"} => Editor!Holds(t, IF p > 0 THEN p - 1 ELSE 0)
    BY MoveLines, HoldsIntro DEF Edited
  <2>2. k \in {"ctrl_f", "right"} => Editor!Holds(t, IF p < Len(t) THEN p + 1 ELSE p)
    BY <1>1, MoveLines, HoldsIntro DEF Edited
  <2>3. k \in {"ctrl_a", "home"} => Editor!Holds(t, 0)
    BY MoveLines, HoldsIntro DEF Edited
  <2>4. k \in {"ctrl_e", "end"} => Editor!Holds(t, Len(t))
    BY <1>1, MoveLines, HoldsIntro DEF Edited
  <2> QED BY <1>4, <2>1, <2>2, <2>3, <2>4 DEF Editor!Edit
<1>5. CASE k \in {"ctrl_u", "ctrl_k"}
  <2>1. k = "ctrl_u" => Editor!Holds(<<>>, 0)
    BY KillLines, HoldsIntro DEF Edited
  <2>2. k = "ctrl_k" => Editor!Holds(SubSeq(t, 1, p), p)
    BY KillLines, HoldsIntro DEF Edited
  <2> QED BY <1>5, <2>1, <2>2 DEF Editor!Edit
<1>6. CASE k = "ctrl_w"
  <2> DEFINE w == Editor!WordStart(SubSeq(t, 1, p))
  <2>1. w = PrevWord(m) /\ w \in Nat
    BY <1>1, WordStartIs, DeletePrevWordGood
  <2>2. l' = EditDeletePrevWord(m)
    BY <1>6 DEF Edited
  <2> HIDE DEF w
  <2>3. LineOf(l') = SubSeq(t, 1, w) \o SubSeq(t, p + 1, Len(t)) /\ l'.pos = w
    BY <1>1, <2>1, <2>2, DeletePrevWordLine
  <2>4. Editor!Cut(t, w + 1, p) = SubSeq(t, 1, w) \o SubSeq(t, p + 1, Len(t))
    BY <2>1, CutIs
  <2>5. Editor!Holds(Editor!Cut(t, w + 1, p), w)
    BY <2>3, <2>4, HoldsIntro
  <2> QED BY <1>6, <2>5 DEF Editor!Edit, w
<1>7. CASE k = "ctrl_t"
  <2>1. l' = EditTranspose(m)
    BY <1>7 DEF Edited
  <2>2. CASE p > 0 /\ p < Len(t)
    <3>1. Editor!Holds([t EXCEPT ![p] = t[p + 1], ![p + 1] = t[p]], IF p < Len(t) - 1 THEN p + 1 ELSE p)
      BY <1>1, <2>1, <2>2, TransposeLine, HoldsIntro
    <3> QED BY <1>7, <2>2, <3>1 DEF Editor!Edit
  <2>3. CASE ~(p > 0 /\ p < Len(t))
    <3>1. l' = m
      BY <1>1, <2>1, <2>3 DEF EditTranspose
    <3>2. Editor!Holds(t, p)
      BY <3>1, HoldsIntro
    <3> QED BY <1>7, <2>3, <3>2 DEF Editor!Edit
  <2> QED BY <2>2, <2>3
<1>8. CASE k \in {"ctrl_l", "other"}
  <2>1. l' = m
    BY <1>8 DEF Edited
  <2>2. Editor!Holds(t, p)
    BY <2>1, HoldsIntro
  <2> QED BY <1>8, <2>2 DEF Editor!Edit
<1> QED BY <1>2, <1>3, <1>4, <1>5, <1>6, <1>7, <1>8

\* A byte goes in at the cursor if there is room.
LEMMA TypeAsPromised ==
    ASSUME NEW m, Good(m), NEW k \in Text, l' = EditInsert(m, k)
    PROVE  Editor!Edit(k, LineOf(m), m.pos)
<1> DEFINE t == LineOf(m)
           p == m.pos
<1>1. Len(t) = m.len /\ p \in Nat /\ m.len \in Nat /\ p <= m.len
  BY GoodString, GoodFacts
<1>2. Editor!Type(t, p, k)
  <2>1. CASE Len(t) < BufLen
    <3>1. LineOf(l') = SubSeq(t, 1, p) \o <<k>> \o SubSeq(t, p + 1, Len(t)) /\ l'.pos = p + 1
      BY <1>1, <2>1, InsertLine
    <3>4. Editor!InsertAt(t, p + 1, k) = LineOf(l')
      BY <1>1, <3>1, InsertIs
    <3>5. Editor!Holds(Editor!InsertAt(t, p + 1, k), p + 1)
      BY <3>1, <3>4, HoldsIntro, Zenon
    <3> QED BY <2>1, <3>5 DEF Editor!Type
  <2>2. CASE ~(Len(t) < BufLen)
    <3>1. l' = m
      BY <1>1, <2>2 DEF EditInsert
    <3>2. Editor!Holds(t, p)
      BY <3>1, HoldsIntro
    <3> QED BY <2>2, <3>2 DEF Editor!Type
  <2> QED BY <2>1, <2>2
<1> QED
  BY <1>2 DEF Editor!Edit

\* A history key brings a line, with the cursor at its end, or does nothing.
LEMMA BrowseAsPromised ==
    ASSUME IInv, phase = "editing", NEW m, Good(m), m = l \/ m.pos = m.len,
           NEW k \in {"ctrl_p", "ctrl_n", "up", "down"}, KeyHistory(k, m)
    PROVE  Editor!Browse(k)
<1>1. PICK dir \in {HISTORY_PREV, HISTORY_NEXT} : EditHistoryNext(dir, m)
  BY DEF KeyHistory
<1>2. Good(l')
  BY <1>1, BrowseFacts
<1>3. LineOf(l') \in Editor!Lines /\ Len(LineOf(l')) = l'.len
  BY <1>2, GoodString DEF Editor!Lines, LinesUpTo
<1>4. l' = m \/ l'.pos = l'.len
  <2>1. history \in Seq(Lines) /\ history_index \in Nat /\ (history_index > 0 => history_index < Len(history))
    BY DEF IInv, TypeOK, NewestIsTyped, Lines
  <2>2. CASE ~(Len(history) > 1)
    BY <1>1, <2>2 DEF EditHistoryNext
  <2>3. CASE Len(history) > 1
    <3> DEFINE n == Len(history)
               h == [history EXCEPT ![n - history_index] = CString(m.buf)]
               i == history_index + dir
    <3>1. dir \in Int /\ n \in Nat /\ i \in Int
      BY <2>1 DEF HISTORY_PREV, HISTORY_NEXT
    <3>2. CASE i < 0 \/ i >= n
      BY <1>1, <2>3, <3>2 DEF EditHistoryNext
    <3>3. CASE ~(i < 0 \/ i >= n)
      <4>1. l' = EditReplace(m, h[Len(h) - i])
        BY <1>1, <2>3, <3>3 DEF EditHistoryNext
      <4> HIDE DEF h
      <4> QED BY <4>1 DEF EditReplace
    <3> QED BY <3>2, <3>3
  <2> QED BY <2>2, <2>3
<1>5. (l' = l) \/ l'.pos = l'.len
  BY <1>4
<1>6. (l' = l) => UNCHANGED <<LineOf(l), l.pos>>
  OBVIOUS
<1> QED
  BY <1>3, <1>5, <1>6 DEF Editor!Browse

\* One key on the line m, which is the line or an accepted completion.
Promised(k, m) ==
    \/ Editor!Browse(k)
    \/ Editor!Edit(k, LineOf(m), m.pos)
    \/ k = "esc" /\ \E t \in EscTails : Editor!Browse(t) \/ Editor!Edit(t, LineOf(m), m.pos)

\* What the switch does to the buffer is what the editor does to a text.
LEMMA DispatchAsPromised ==
    ASSUME IInv, phase = "editing", NEW m, Good(m), m = l \/ m.pos = m.len,
           NEW k \in Controls \cup Text, Dispatch(k, m)
    PROVE  Promised(k, m)
<1>0. k # NUL
  BY KeysAssumption, BytesAssumption
<1>1. CASE k \in {"enter", "ctrl_c"} /\ l' = m
  <2>1. Editor!Holds(LineOf(m), m.pos)
    BY <1>1, HoldsIntro
  <2> QED BY <1>1, <2>1 DEF Editor!Edit, Promised
<1>2. CASE k = "ctrl_d" /\ KeyCtrlD(m)
  <2>1. CASE m.len > 0
    <3>1. l' = EditDelete(m)
      BY <1>2, <2>1 DEF KeyCtrlD
    <3> QED BY <1>2, <3>1, DeletePromised DEF Editor!Edit, Promised
  <2>2. CASE ~(m.len > 0)
    <3>1. l' = m /\ Len(LineOf(m)) = m.len /\ m.len \in Nat /\ m.pos \in Nat /\ m.pos <= m.len
      BY <1>2, <2>2, GoodString, GoodFacts DEF KeyCtrlD
    <3>2. ~(m.pos < Len(LineOf(m)))
      BY <2>2, <3>1
    <3>3. Editor!Holds(LineOf(m), m.pos)
      BY <3>1, HoldsIntro
    <3> QED BY <1>2, <3>2, <3>3 DEF Editor!Edit, Promised
  <2> QED BY <2>1, <2>2
<1>3. CASE k \in {"ctrl_p", "ctrl_n"} /\ KeyHistory(k, m)
  BY <1>3, BrowseAsPromised DEF Promised
<1> DEFINE Escaped(t) == \/ t \in {"up", "down"} /\ KeyHistory(t, m)
                         \/ t \notin {"up", "down"} /\ KeyEdit(t, m)
<1>4. CASE k = "esc" /\ \E t \in EscTails : Escaped(t)
  <2>1. PICK t \in EscTails : Escaped(t)
    BY <1>4
  <2>2. t \in {"up", "down"} => Editor!Browse(t)
    BY <2>1, BrowseAsPromised
  <2>3. t \notin {"up", "down"} => Editor!Edit(t, LineOf(m), m.pos)
    BY <2>1, EditAsPromised DEF EscTails, KeyEdit
  <2> QED BY <1>4, <2>2, <2>3 DEF Promised
<1>5. CASE k \in Text /\ KeyText(k, m)
  BY <1>5, TypeAsPromised DEF KeyText, Promised
<1>6. CASE k \in Controls \ {"enter", "ctrl_c", "ctrl_d", "ctrl_p", "ctrl_n", "esc"} /\ KeyEdit(k, m)
  BY <1>6, EditAsPromised DEF Controls, KeyEdit, Promised
<1>7. (k = "enter" /\ KeyEnter(m)) \/ (k = "ctrl_c" /\ KeyCtrlC(m)) => k \in {"enter", "ctrl_c"} /\ l' = m
  BY DEF KeyEnter, KeyCtrlC
<1>8. k \in Text \cup {NUL} /\ KeyText(k, m) => k \in Text /\ KeyText(k, m)
  BY <1>0
<1> HIDE DEF Promised
<1> QED
  BY <1>1, <1>2, <1>3, <1>4, <1>5, <1>6, <1>7, <1>8, Zenon DEF Dispatch

\* What is promised of the line, or of a completion accepted with the key, is
\* what the abstract editor may do.
LEMMA PromisedPress ==
    ASSUME NEW k, NEW m, Promised(k, m),
           m = l \/ \E w \in Offers : LineOf(m) = w /\ m.pos = Len(w)
    PROVE  Editor!Press(k) \/ (k = "esc" /\ \E t \in EscTails : Editor!Press(t))
<1>1. ASSUME NEW t, Editor!Edit(t, LineOf(m), m.pos) PROVE Editor!Press(t)
  <2>1. CASE m = l
    BY <1>1, <2>1 DEF Editor!Press
  <2>2. CASE \E w \in Offers : LineOf(m) = w /\ m.pos = Len(w)
    BY <1>1, <2>2 DEF Editor!Press
  <2> QED BY <2>1, <2>2
<1>2. ASSUME NEW t, Editor!Browse(t) PROVE Editor!Press(t)
  BY <1>2 DEF Editor!Press
<1> QED
  BY <1>1, <1>2 DEF Promised

\* So does a call of linenoiseEditFeed, with completions and all.
LEMMA FeedAsPromised ==
    ASSUME IInv, NulKey = FALSE, NEW k \in Controls \cup Text, EditFeed(k)
    PROVE  Editor!Press(k) \/ (k = "esc" /\ \E t \in EscTails : Editor!Press(t))
<1> DEFINE Goal == Editor!Press(k) \/ (k = "esc" /\ \E t \in EscTails : Editor!Press(t))
<1>0. Good(l) /\ phase = "editing" /\ completion_idx \in Nat /\ k # NUL
  BY KeysAssumption, BytesAssumption DEF IInv, TypeOK, Good, EditFeed
<1>1. ASSUME NEW m, Good(m), Dispatch(k, m),
             m = l \/ \E w \in Offers : LineOf(m) = w /\ m.pos = Len(w)
      PROVE  Goal
  <2>1. m = l \/ m.pos = m.len
    BY <1>1, GoodString
  <2>2. Promised(k, m)
    BY <1>0, <1>1, <2>1, DispatchAsPromised
  <2> QED BY <1>1, <2>2, PromisedPress
<1>2. CASE (in_completion \/ k = Tab) /\ completeLine(k)
  <2> DEFINE lc == CompletionsOf(CString(l.buf))
             accepted == IF completion_idx < Len(lc)
                         THEN EditComplete(l, lc[completion_idx + 1]) ELSE l
             Proceed(m) == CASE k \in High -> l' = m /\ Return(Null("none")) /\ UNCHANGED Browsing
                             [] k = NUL -> l' = m /\ More /\ UNCHANGED Browsing
                             [] OTHER -> Dispatch(k, m)
  <2>1. lc \in Seq(LinesUpTo(BufLen - 1)) /\ lc = CompletionsOf(LineOf(l))
    BY <1>0, GoodString, CompletionsFit
  <2>2. Good(accepted) /\ (accepted = l \/ \E w \in Offers : LineOf(accepted) = w /\ accepted.pos = Len(w))
    <3>1. CASE completion_idx < Len(lc)
      <4> DEFINE w == lc[completion_idx + 1]
      <4>1. w \in LinesUpTo(BufLen - 1) /\ w \in Offers
        <5> HIDE DEF lc
        <5>1. completion_idx + 1 \in DOMAIN lc
          BY <1>0, <2>1, <3>1
        <5>2. w \in LinesUpTo(BufLen - 1)
          BY <2>1, <5>1
        <5>3. w \in {lc[i] : i \in DOMAIN lc}
          BY <5>1
        <5> QED BY <2>1, <5>2, <5>3 DEF Offers
      <4>2. accepted = EditComplete(l, w)
        BY <3>1
      <4> HIDE DEF w, accepted, lc
      <4> QED BY <1>0, <4>1, <4>2, CompleteGood
    <3>2. CASE ~(completion_idx < Len(lc))
      BY <1>0, <3>2
    <3> QED BY <3>1, <3>2
  <2>3. ASSUME NEW m, Good(m), Proceed(m),
               m = l \/ \E w \in Offers : LineOf(m) = w /\ m.pos = Len(w)
        PROVE  Goal
    <3>1. CASE k \in High
      <4>1. l' = m
        BY <1>0, <2>3, <3>1
      <4>2. CASE m = l
        BY <3>1, <4>1, <4>2 DEF Editor!Press
      <4>3. CASE \E w \in Offers : LineOf(m) = w /\ m.pos = Len(w)
        <5>1. PICK w \in Offers : LineOf(m) = w /\ m.pos = Len(w)
          BY <4>3
        <5>2. Editor!Holds(w, Len(w))
          BY <4>1, <5>1, HoldsIntro
        <5> QED BY <3>1, <5>2 DEF Editor!Press
      <4> QED BY <2>3, <4>2, <4>3
    <3>2. CASE k \notin High
      BY <1>0, <1>1, <2>3, <3>2
    <3> QED BY <3>1, <3>2
  <2>4. \/ Proceed(l)
        \/ Proceed(accepted)
        \/ k \in {Tab, "esc"} /\ l' = l
    BY <1>2 DEF completeLine
  <2> HIDE DEF Proceed, accepted
  <2>5. k = Tab /\ l' = l => Goal
    BY DEF Editor!Press
  <2>6. k = "esc" /\ l' = l => Goal
    <3> SUFFICES ASSUME k = "esc", l' = l PROVE Goal
      OBVIOUS
    <3>1. Editor!Holds(LineOf(l), l.pos)
      BY HoldsIntro
    <3> QED BY <3>1 DEF Editor!Edit, Editor!Press
  <2>7. Proceed(l) => Goal
    BY <1>0, <2>3
  <2>8. Proceed(accepted) => Goal
    BY <2>2, <2>3
  <2> HIDE DEF Goal
  <2>9. Goal
    BY <2>4, <2>5, <2>6, <2>7, <2>8
  <2> QED BY <2>9 DEF Goal
<1>3. CASE Dispatch(k, l)
  BY <1>0, <1>1, <1>3
<1> QED
  BY <1>2, <1>3 DEF EditFeed

\* If byte 0 is not typed, every key does to the C buffer what the abstract
\* editor says it does to a text and a cursor: for every buffer size, alphabet
\* and table of completions that fit.
THEOREM EditorImplemented ==
    ASSUME NulKey = FALSE
    PROVE  Spec => KeysAsPromised
<1> DEFINE A == \A k \in Controls \cup Text : EditFeed(k) =>
                    \/ Editor!Press(k)
                    \/ k = "esc" /\ \E t \in EscTails : Editor!Press(t)
<1>1. IInv /\ [Next]_vars => IInv'
  BY NextIInv
<1>2. IInv => A
  BY FeedAsPromised
<1>3. IInv /\ [Next]_vars => [A]_vars
  <2> HIDE DEF A
  <2> QED BY <1>2
<1> QED BY <1>1, <1>3, InitIInv, PTL DEF Spec, KeysAsPromised

-----------------------------------------------------------------------------
(* Induction on the length of a loop, without an operator as a parameter,   *)
(* and what a recursive function is.                                        *)

LEMMA LeastNat ==
  ASSUME NEW T, T \subseteq Nat, T # {}
  PROVE  \E x \in T : \A y \in T : x <= y
<1>1. PICK x \in T : \A y \in T : ~(<<y, x>> \in OpToRel(<, Nat))
  BY WFMin, NatLessThanWellFounded
<1>2. \A y \in T : ~(y < x)
  BY <1>1 DEF OpToRel
<1> QED
  BY <1>2

LEMMA SetInduction ==
  ASSUME NEW T \in SUBSET Nat, 0 \in T, \A n \in T : n + 1 \in T
  PROVE  T = Nat
<1> SUFFICES ASSUME Nat \ T # {} PROVE FALSE
  OBVIOUS
<1>1. PICK x \in Nat \ T : \A y \in Nat \ T : x <= y
  BY LeastNat
<1>2. x - 1 \in Nat /\ x - 1 \notin T
  BY <1>1
<1> QED
  BY <1>1, <1>2

(* The same up to a bound. *)
LEMMA BoundedInduction ==
  ASSUME NEW N \in Nat, NEW T, 0 \in T, \A n \in 0 .. N : n \in T /\ n # N => n + 1 \in T
  PROVE  0 .. N \subseteq T
<1> DEFINE U == {n \in Nat : n <= N => n \in T}
<1>1. U \in SUBSET Nat /\ 0 \in U
  OBVIOUS
<1>2. ASSUME NEW n \in U PROVE n + 1 \in U
  OBVIOUS
<1>3. U = Nat
  <2> HIDE DEF U
  <2> QED BY <1>1, <1>2, SetInduction
<1> QED
  BY <1>3

(* A function from 0 .. N that starts with b and goes on by st. *)
Recurses(N, V, b, st) ==
  \E g \in [0 .. N -> V] : g[0] = b /\ \A n \in 1 .. N : g[n] = st[g[n - 1]][n]

LEMMA RecFcn ==
  ASSUME NEW N \in Nat, NEW V, NEW b \in V, NEW st \in [V -> [1 .. N -> V]]
  PROVE  Recurses(N, V, b, st)
<1> DEFINE Is(g, n) == g[0] = b /\ \A m \in 1 .. n : g[m] = st[g[m - 1]][m]
           T == {n \in 0 .. N : \E g \in [0 .. n -> V] : Is(g, n)}
<1>1. 0 \in T
  <2>1. [n \in 0 .. 0 |-> b] \in [0 .. 0 -> V] /\ Is([n \in 0 .. 0 |-> b], 0)
    OBVIOUS
  <2> HIDE DEF Is
  <2> QED BY <2>1
<1>2. ASSUME NEW n \in 0 .. N, n \in T, n # N PROVE n + 1 \in T
  <2>1. PICK g \in [0 .. n -> V] : Is(g, n)
    BY <1>2
  <2> DEFINE h == [m \in 0 .. n + 1 |-> IF m = n + 1 THEN st[g[n]][n + 1] ELSE g[m]]
  <2>2. st[g[n]][n + 1] \in V
    BY <1>2
  <2>3. h \in [0 .. n + 1 -> V]
    BY <2>2
  <2>a. 0 \in 0 .. n /\ n \in 0 .. n /\ \A m \in 0 .. n : m \in 0 .. n + 1 /\ m # n + 1
    OBVIOUS
  <2>b. h[n + 1] = st[g[n]][n + 1] /\ \A m \in 0 .. n : h[m] = g[m]
    BY <2>a
  <2>4. h[0] = b /\ h[n + 1] = st[h[n]][n + 1] /\ \A m \in 0 .. n : h[m] = g[m]
    <3> HIDE DEF h
    <3> QED BY <2>1, <2>a, <2>b
  <2>5. Is(h, n + 1)
    <3> HIDE DEF h
    <3> SUFFICES ASSUME NEW m \in 1 .. n + 1 PROVE h[m] = st[h[m - 1]][m]
      BY <2>4
    <3>1. CASE m = n + 1
      BY <2>4, <3>1
    <3>2. CASE m # n + 1
      <4>1. m \in 1 .. n /\ m \in 0 .. n /\ m - 1 \in 0 .. n
        BY <3>2
      <4> QED BY <2>1, <2>4, <4>1
    <3> QED BY <3>1, <3>2
  <2> HIDE DEF Is, h
  <2>6. n + 1 \in 0 .. N
    BY <1>2
  <2> QED BY <2>3, <2>5, <2>6
<1>3. 0 .. N \subseteq T
  <2> HIDE DEF T
  <2> QED BY <1>1, <1>2, BoundedInduction
<1>4. N \in T
  <2> HIDE DEF T
  <2> QED BY <1>3
<1> QED
  BY <1>4 DEF Recurses

-----------------------------------------------------------------------------
(* What completionCallback adds.                                            *)

Item(n) == Redis!lowerString(CommandNames[n])

\* The command table, lower-cased.
LEMMA ItemsAre ==
    /\ Redis!setupCompletion \in Seq(Seq(Letter))
    /\ Len(Redis!setupCompletion) = Len(CommandNames) /\ Len(CommandNames) \in Nat
    /\ \A n \in 1 .. Len(CommandNames) :
          /\ Redis!setupCompletion[n] = Item(n) /\ CommandNames[n] \in Seq(Letter)
          /\ Item(n) \in Seq(Letter) /\ Len(Item(n)) = Len(CommandNames[n])
          /\ \A i \in 1 .. Len(CommandNames[n]) : Lower(Item(n)[i]) = Lower(CommandNames[n][i])
<1>1. /\ CommandNames \in Seq(Seq(Letter)) /\ DOMAIN CommandNames = 1 .. Len(CommandNames)
      /\ Len(CommandNames) \in Nat
      /\ \A n \in 1 .. Len(CommandNames) : CommandNames[n] \in Seq(Letter)
  BY CommandsAssumption
<1>2. ASSUME NEW s \in Seq(Letter)
      PROVE  /\ Redis!lowerString(s) \in Seq(Letter) /\ Len(Redis!lowerString(s)) = Len(s)
             /\ \A i \in 1 .. Len(s) : Lower(Redis!lowerString(s)[i]) = Lower(s[i])
  <2>1. DOMAIN s = 1 .. Len(s) /\ Len(s) \in Nat /\ \A i \in 1 .. Len(s) : s[i] \in Letter
    OBVIOUS
  <2>2. \A i \in 1 .. Len(s) : Lower(s[i]) \in Letter /\ Lower(Lower(s[i])) = Lower(s[i])
    BY <2>1, CommandsAssumption
  <2>3. Redis!lowerString(s) = [i \in 1 .. Len(s) |-> Lower(s[i])]
    BY <2>1 DEF Redis!lowerString
  <2> QED BY <2>1, <2>2, <2>3
<1>3. Redis!setupCompletion = [n \in 1 .. Len(CommandNames) |-> Item(n)]
  BY <1>1 DEF Redis!setupCompletion, Item
<1>4. \A n \in 1 .. Len(CommandNames) : Item(n) \in Seq(Letter)
  BY <1>1, <1>2 DEF Item
<1>5. Redis!setupCompletion \in Seq(Seq(Letter)) /\ Len(Redis!setupCompletion) = Len(CommandNames)
  BY <1>1, <1>3, <1>4
<1> QED
  BY <1>1, <1>2, <1>3, <1>4, <1>5 DEF Item

\* What the loop has added after n commands.
Adds(N, b, r) ==
    \E f \in [0 .. N -> Seq(Seq(Letter))] :
        /\ f[0] = <<>> /\ r = f[N]
        /\ \A n \in 1 .. N : f[n] = IF Redis!eqlIgnoreCase(Item(n), b) THEN Append(f[n - 1], Item(n))
                                       ELSE f[n - 1]

\* How far the loop comes.
Stops(n, b) == /\ \A i \in 1 .. n : Len(b) <= Len(CommandNames[i])
               /\ n < Len(CommandNames) => Len(b) > Len(CommandNames[n + 1])

LEMMA CallbackAdds ==
    ASSUME NEW b, b # <<>>, Len(b) \in Nat
    PROVE  \E N \in 0 .. Len(CommandNames) : Stops(N, b) /\ Adds(N, b, Redis!completionCallback(b))
<1> DEFINE items == Redis!setupCompletion
           M == Len(CommandNames)
           Q(n) == /\ \A i \in 1 .. n : Len(b) <= Len(items[i])
                   /\ n < Len(items) => Len(b) > Len(items[n + 1])
           N == CHOOSE n \in 0 .. Len(items) : Q(n)
           V == Seq(Seq(Letter))
           z == <<>>
           E(g) == g = [n \in 0 .. N |-> IF n = 0 THEN z
                                          ELSE IF Redis!eqlIgnoreCase(items[n], b) THEN Append(g[n - 1], items[n])
                                          ELSE g[n - 1]]
           f == CHOOSE g : E(g)
           To(u, n) == IF Redis!eqlIgnoreCase(items[n], b) THEN Append(u, items[n]) ELSE u
           st == [u \in V |-> [n \in 1 .. N |-> To(u, n)]]
<1>1. /\ M \in Nat /\ Len(items) = M
      /\ \A n \in 1 .. M : items[n] = Item(n) /\ items[n] \in Seq(Letter)
                            /\ Len(items[n]) = Len(CommandNames[n]) /\ Len(items[n]) \in Nat
  BY ItemsAre
<1>2. Redis!completionCallback(b) = f[N]
  BY DEF Redis!completionCallback
<1> HIDE DEF items
<1>3. N \in 0 .. M /\ Q(N)
  <2> DEFINE I == {n \in 0 .. M : n < M => Len(b) > Len(items[n + 1])}
  <2>1. M \in I /\ I \subseteq Nat
    BY <1>1
  <2>2. PICK n \in I : \A y \in I : n <= y
    <3> HIDE DEF I
    <3> QED BY <2>1, LeastNat
  <2>3. n \in 0 .. M /\ (n < M => Len(b) > Len(items[n + 1]))
    OBVIOUS
  <2>4. ASSUME NEW i \in 1 .. n PROVE Len(b) <= Len(items[i])
    <3>1. i - 1 \in 0 .. M /\ i - 1 < M /\ (i - 1) + 1 = i /\ i \in 1 .. M /\ ~(n <= i - 1)
      BY <1>1, <2>3
    <3>2. i - 1 \notin I
      <4> HIDE DEF I
      <4> QED BY <2>2, <3>1
    <3>3. ~(Len(b) > Len(items[i]))
      BY <3>1, <3>2
    <3> QED BY <1>1, <3>1, <3>3
  <2>5. Q(n)
    BY <1>1, <2>3, <2>4
  <2> HIDE DEF Q
  <2> QED BY <1>1, <2>3, <2>5
<1> HIDE DEF N
<1>4. Stops(N, b)
  <2>1. ASSUME NEW i \in 1 .. N PROVE Len(b) <= Len(CommandNames[i])
    <3>1. i \in 1 .. M
      BY <1>1, <1>3
    <3> QED BY <1>1, <1>3, <3>1
  <2>2. ASSUME N < M PROVE Len(b) > Len(CommandNames[N + 1])
    <3>1. N + 1 \in 1 .. M
      BY <1>1, <1>3, <2>2
    <3> QED BY <1>1, <1>3, <2>2, <3>1
  <2> QED BY <2>1, <2>2 DEF Stops
<1> HIDE DEF Q
<1>5. N \in Nat /\ z \in V /\ \A n \in 1 .. N : items[n] = Item(n) /\ items[n] \in Seq(Letter)
  BY <1>1, <1>3, EmptySeq
<1>6. \A u \in V, n \in 1 .. N : To(u, n) \in V
  BY <1>5, AppendProperties
<1> HIDE DEF V, z
<1>7. st \in [V -> [1 .. N -> V]]
  <2> HIDE DEF To
  <2> QED BY <1>6
<1>8. Recurses(N, V, z, st)
  <2> HIDE DEF st
  <2> QED BY <1>5, <1>7, RecFcn
<1>9. PICK w \in [0 .. N -> V] : w[0] = z /\ \A n \in 1 .. N : w[n] = st[w[n - 1]][n]
  <2> HIDE DEF st
  <2> QED BY <1>8 DEF Recurses
<1>10. \A n \in 1 .. N : w[n] = To(w[n - 1], n)
  <2> SUFFICES ASSUME NEW n \in 1 .. N PROVE w[n] = To(w[n - 1], n)
    OBVIOUS
  <2>1. n - 1 \in 0 .. N
    BY <1>5
  <2>2. w[n - 1] \in V /\ w[n] = st[w[n - 1]][n]
    <3> HIDE DEF st
    <3> QED BY <1>9, <2>1
  <2> HIDE DEF To
  <2> QED BY <2>2
<1> HIDE DEF st
<1>11. E(w)
  <2>1. w = [n \in 0 .. N |-> w[n]]
    OBVIOUS
  <2>2. ASSUME NEW n \in 0 .. N
        PROVE  w[n] = IF n = 0 THEN z ELSE IF Redis!eqlIgnoreCase(items[n], b) THEN Append(w[n - 1], items[n])
                                           ELSE w[n - 1]
    <3>1. n # 0 => n \in 1 .. N
      BY <1>5
    <3> QED BY <1>9, <1>10, <3>1
  <2> QED BY <2>1, <2>2
<1>12. E(f)
  BY <1>11
<1> HIDE DEF f
<1>13. ASSUME NEW n \in 0 .. N PROVE f[n] = IF n = 0 THEN z ELSE To(f[n - 1], n)
  BY <1>12
<1>14. 0 \in 0 .. N /\ \A n \in 1 .. N : n \in 0 .. N /\ n # 0
  BY <1>5
<1> HIDE DEF E
<1>15. f[0] = z /\ \A n \in 1 .. N : f[n] = To(f[n - 1], n)
  <2> HIDE DEF To
  <2> QED BY <1>13, <1>14
<1> HIDE DEF To
<1> DEFINE T == {n \in 0 .. N : f[n] \in V}
<1>16. 0 .. N \subseteq T
  <2>1. 0 \in T
    BY <1>5, <1>14, <1>15
  <2>2. ASSUME NEW n \in 0 .. N, n \in T, n # N PROVE n + 1 \in T
    <3>1. n + 1 \in 1 .. N /\ n + 1 \in 0 .. N /\ (n + 1) - 1 = n /\ f[n] \in V
      BY <1>5, <2>2
    <3>2. f[n + 1] \in V
      <4> HIDE DEF T
      <4> QED BY <1>6, <1>15, <3>1
    <3> QED BY <3>1, <3>2
  <2> HIDE DEF T
  <2> QED BY <1>5, <2>1, <2>2, BoundedInduction
<1>17. f \in [0 .. N -> V]
  <2>1. \A n \in 0 .. N : f[n] \in V
    BY <1>16
  <2> QED BY <1>12, <2>1 DEF E
<1>18. \A n \in 1 .. N : f[n] = IF Redis!eqlIgnoreCase(Item(n), b) THEN Append(f[n - 1], Item(n)) ELSE f[n - 1]
  BY <1>5, <1>15 DEF To
<1>19. Adds(N, b, Redis!completionCallback(b))
  BY <1>2, <1>15, <1>17, <1>18 DEF Adds, V, z
<1> QED
  BY <1>3, <1>4, <1>19

\* The completions are those of the commands looked at that begin with b.
LEMMA AddedAre ==
    ASSUME NEW N \in 0 .. Len(CommandNames), NEW b, NEW r, Adds(N, b, r)
    PROVE  {r[i] : i \in DOMAIN r} = {Item(n) : n \in {m \in 1 .. N : Redis!eqlIgnoreCase(Item(m), b)}}
<1> DEFINE Ok(m) == Redis!eqlIgnoreCase(Item(m), b)
           Of(u) == {u[i] : i \in DOMAIN u}
           Want(n) == {Item(m) : m \in {k \in 1 .. n : Ok(k)}}
<1>1. PICK f \in [0 .. N -> Seq(Seq(Letter))] :
          /\ f[0] = <<>> /\ r = f[N]
          /\ \A n \in 1 .. N : f[n] = IF Ok(n) THEN Append(f[n - 1], Item(n)) ELSE f[n - 1]
  BY DEF Adds
<1>2. N \in Nat /\ \A n \in 1 .. N : Item(n) \in Seq(Letter)
  BY ItemsAre
<1> HIDE DEF Ok
<1> DEFINE T == {n \in 0 .. N : Of(f[n]) = Want(n)}
<1>3. 0 \in T
  <2>1. DOMAIN f[0] = {} /\ 1 .. 0 = {}
    BY <1>1
  <2> QED BY <1>2, <2>1
<1>4. ASSUME NEW n \in 0 .. N, n \in T, n # N PROVE n + 1 \in T
  <2>1. /\ n + 1 \in 1 .. N /\ n + 1 \in 0 .. N /\ (n + 1) - 1 = n /\ Of(f[n]) = Want(n)
        /\ 1 .. n + 1 = (1 .. n) \cup {n + 1}
    <3>1. Of(f[n]) = Want(n)
      <4> HIDE DEF Of, Want
      <4> QED BY <1>4
    <3> HIDE DEF T, Of, Want
    <3>2. n + 1 \in 1 .. N /\ n + 1 \in 0 .. N /\ (n + 1) - 1 = n
      BY <1>2, <1>4
    <3>3. 1 .. n + 1 = (1 .. n) \cup {n + 1}
      BY <1>2
    <3> QED BY <3>1, <3>2, <3>3
  <2>2. f[n] \in Seq(Seq(Letter)) /\ f[n + 1] = IF Ok(n + 1) THEN Append(f[n], Item(n + 1)) ELSE f[n]
    BY <1>1, <2>1
  <2>3. CASE Ok(n + 1)
    <3>1. Of(Append(f[n], Item(n + 1))) = Of(f[n]) \cup {Item(n + 1)}
      <4> DEFINE u == f[n]
                 x == Item(n + 1)
      <4>1. u \in Seq(Seq(Letter)) /\ x \in Seq(Letter)
        BY <1>2, <2>1, <2>2
      <4> HIDE DEF u, x
      <4>2. /\ DOMAIN u = 1 .. Len(u) /\ Len(u) \in Nat /\ DOMAIN Append(u, x) = 1 .. Len(u) + 1
            /\ Append(u, x)[Len(u) + 1] = x /\ \A i \in 1 .. Len(u) : Append(u, x)[i] = u[i]
        BY <4>1, AppendProperties
      <4>3. 1 .. Len(u) + 1 = (1 .. Len(u)) \cup {Len(u) + 1}
        BY <4>2
      <4>4. Of(Append(u, x)) = Of(u) \cup {x}
        BY <4>2, <4>3
      <4> QED BY <4>4 DEF u, x
    <3>2. Want(n + 1) = Want(n) \cup {Item(n + 1)}
      BY <2>1, <2>3
    <3> HIDE DEF Of, Want
    <3> QED BY <2>1, <2>2, <2>3, <3>1, <3>2
  <2>4. CASE ~Ok(n + 1)
    <3>1. Want(n + 1) = Want(n)
      BY <2>1, <2>4
    <3> HIDE DEF Of, Want
    <3> QED BY <2>1, <2>2, <2>4, <3>1
  <2> QED BY <2>3, <2>4
<1>5. N \in T
  <2> HIDE DEF T
  <2>1. 0 .. N \subseteq T
    BY <1>2, <1>3, <1>4, BoundedInduction
  <2> QED BY <1>2, <2>1
<1>6. Of(r) = Want(N)
  BY <1>1, <1>5
<1> QED
  BY <1>6 DEF Ok

\* What is offered for a line that is not empty.
LEMMA OffersAre ==
    ASSUME NEW s \in LinesUpTo(BufLen), Len(s) > 0
    PROVE  LET lc == CompletionsOf(s)
               offers == {lc[i] : i \in DOMAIN lc}
               words == {Item(n) : n \in BeginWith(s)}
           IN  /\ offers \subseteq words
               /\ (\A n \in 1 .. Len(CommandNames) : Len(CommandNames[n]) >= Len(s)) => offers = words
<1> DEFINE lc == CompletionsOf(s)
           offers == {lc[i] : i \in DOMAIN lc}
<1>1. s # <<>> /\ Len(s) \in Nat /\ DOMAIN s = 1 .. Len(s)
  BY BufLenAssumption DEF LinesUpTo
<1>2. lc = Redis!completionCallback(s)
  BY CallbackAssumption
<1> HIDE DEF lc
<1>3. PICK N \in 0 .. Len(CommandNames) : Stops(N, s) /\ Adds(N, s, lc)
  BY <1>1, <1>2, CallbackAdds
<1>4. offers = {Item(n) : n \in {m \in 1 .. N : Redis!eqlIgnoreCase(Item(m), s)}}
  BY <1>3, AddedAre
<1> HIDE DEF offers
<1>5. /\ Len(CommandNames) \in Nat
      /\ \A n \in 1 .. Len(CommandNames) : Len(CommandNames[n]) \in Nat
  BY ItemsAre
<1>6. ASSUME NEW n \in 1 .. Len(CommandNames), Len(s) <= Len(CommandNames[n])
      PROVE  Redis!eqlIgnoreCase(Item(n), s) <=> n \in BeginWith(s)
  <2>1. \A i \in 1 .. Len(s) : i \in 1 .. Len(CommandNames[n])
    BY <1>1, <1>5, <1>6
  <2>2. \A i \in 1 .. Len(s) : Lower(Item(n)[i]) = Lower(CommandNames[n][i])
    BY <2>1, ItemsAre
  <2>3. Len(CommandNames[n]) >= Len(s)
    BY <1>1, <1>5, <1>6
  <2> QED BY <1>1, <2>2, <2>3 DEF Redis!eqlIgnoreCase, BeginWith
<1>7. ASSUME NEW n \in 1 .. N
      PROVE  n \in 1 .. Len(CommandNames) /\ Len(s) <= Len(CommandNames[n])
  BY <1>3, <1>5 DEF Stops
<1>8. \A n \in 1 .. N : Redis!eqlIgnoreCase(Item(n), s) <=> n \in BeginWith(s)
  BY <1>6, <1>7
<1>9. offers \subseteq {Item(n) : n \in BeginWith(s)}
  BY <1>4, <1>8
<1>10. ASSUME \A n \in 1 .. Len(CommandNames) : Len(CommandNames[n]) >= Len(s)
       PROVE  offers = {Item(n) : n \in BeginWith(s)}
  <2>1. N = Len(CommandNames)
    <3> SUFFICES ASSUME N # Len(CommandNames) PROVE FALSE
      OBVIOUS
    <3>1. N < Len(CommandNames) /\ N + 1 \in 1 .. Len(CommandNames)
      BY <1>5
    <3>2. Len(s) > Len(CommandNames[N + 1]) /\ Len(CommandNames[N + 1]) >= Len(s)
      BY <1>3, <1>10, <3>1 DEF Stops
    <3> QED BY <1>1, <1>5, <3>1, <3>2
  <2>2. \A n \in BeginWith(s) : n \in 1 .. N
    BY <2>1 DEF BeginWith
  <2> QED BY <1>4, <1>8, <2>2
<1> QED
  BY <1>9, <1>10 DEF lc, offers

\* If byte 0 is not typed, what is offered are commands of the table that begin
\* with the line, and all of them unless one is shorter than the line: for
\* every command table.
THEOREM OffersAreRight ==
    ASSUME NulKey = FALSE
    PROVE  Spec => []OffersRight
<1>1. IInv => OffersRight
  <2> SUFFICES ASSUME IInv, phase = "editing", l.len > 0 PROVE OffersRight
    BY DEF OffersRight
  <2>1. LineOf(l) \in LinesUpTo(BufLen) /\ Len(LineOf(l)) = l.len
    BY GoodString DEF IInv, TypeOK, Good
  <2>2. \A n : Item(n) = [i \in DOMAIN CommandNames[n] |-> Lower(CommandNames[n][i])]
    BY DEF Item, Redis!lowerString
  <2> DEFINE s == LineOf(l)
             words == {Item(n) : n \in BeginWith(s)}
             shown == {[i \in DOMAIN CommandNames[n] |-> Lower(CommandNames[n][i])] : n \in BeginWith(s)}
  <2>3. words = shown
    BY <2>2
  <2>4. /\ Offers \subseteq words
        /\ (\A n \in 1 .. Len(CommandNames) : Len(CommandNames[n]) >= Len(s)) => Offers = words
    <3>1. s \in LinesUpTo(BufLen) /\ Len(s) > 0
      BY <2>1
    <3> HIDE DEF s
    <3>2. LET lc == CompletionsOf(s)
              offers == {lc[i] : i \in DOMAIN lc}
          IN  /\ offers \subseteq words
              /\ (\A n \in 1 .. Len(CommandNames) : Len(CommandNames[n]) >= Len(s)) => offers = words
      BY <3>1, OffersAre
    <3> QED BY <3>2 DEF Offers, s
  <2>5. /\ Offers \subseteq shown
        /\ (\A n \in 1 .. Len(CommandNames) : Len(CommandNames[n]) >= l.len) => Offers = shown
    <3> HIDE DEF words, shown
    <3> QED BY <2>1, <2>3, <2>4
  <2> QED BY <2>5 DEF OffersRight
<1>2. IInv /\ [Next]_vars => IInv'
  BY NextIInv
<1> QED BY <1>1, <1>2, InitIInv, PTL DEF Spec
=============================================================================
