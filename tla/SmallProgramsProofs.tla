------------------------- MODULE SmallProgramsProofs -------------------------
(***************************************************************************)
(* Theorems about the programs that are a few functions long: the kafka     *)
(* consumer, the commands and the replies of the redis client, and the      *)
(* strings of c-string.                                                     *)
(***************************************************************************)
EXTENDS KafkaConsumer, PureFunctions, SequenceTheorems, WellFoundedInduction, TLAPS

(***************************************************************************)
(* The consumer has printed nothing since quitSig was closed unless it has  *)
(* come to the select that makes it return.                                 *)
(***************************************************************************)
QuitInv ==
  /\ quit \in BOOLEAN /\ afterQuit \in {0, 1}
  /\ quit => main = "returning"
  /\ ~quit \/ consumer \in {"unborn", "top", "reading", "print"} => afterQuit = 0

(***************************************************************************)
(* After Ctrl-C Consumer prints at most one more message, wherever the      *)
(* close of quitSig finds it, for any number of messages in the topic.      *)
(***************************************************************************)
THEOREM OneMoreMessage == Spec => []OneMoreAtMost
<1>1. Init => QuitInv
  <2>1. Init => quit \in BOOLEAN /\ ~quit
    BY Zenon DEF Init
  <2>2. Init => afterQuit = 0
    BY DEF Init
  <2> QED BY <2>1, <2>2 DEF QuitInv
<1>2. QuitInv /\ [Next]_vars => QuitInv'
  <2> SUFFICES ASSUME QuitInv, [Next]_vars PROVE QuitInv'
    OBVIOUS
  <2> USE DEF QuitInv
  <2>0. CASE SetupContainer \/ Produce \/ Wait
    <3>1. main # "returning" /\ UNCHANGED <<consumer, quit, afterQuit>>
      BY <2>0 DEF SetupContainer, Produce, Wait
    <3> QED BY <3>1
  <2>1. CASE Cleanup \/ Interrupt \/ UNCHANGED vars
    <3>1. UNCHANGED <<main, consumer, quit, afterQuit>>
      BY <2>1 DEF Cleanup, Interrupt, vars
    <3> QED BY <3>1
  <2>2. CASE Start
    BY <2>2 DEF Start
  <2>3. CASE CloseQuit
    BY <2>3 DEF CloseQuit
  <2>4. CASE Loop
    BY <2>4 DEF Loop, Select
  <2>5. CASE ReadMessage
    BY <2>5 DEF ReadMessage
  <2>6. CASE PrintMessage
    BY <2>6 DEF PrintMessage
  <2>7. CASE CloseReader
    BY <2>7 DEF CloseReader
  <2> QED
    BY <2>0, <2>1, <2>2, <2>3, <2>4, <2>5, <2>6, <2>7 DEF Next, MainStep, ConsumerStep
<1>3. QuitInv => OneMoreAtMost
  BY DEF QuitInv, OneMoreAtMost
<1> QED
  BY <1>1, <1>2, <1>3, PTL DEF Spec
-----------------------------------------------------------------------------
(* Induction over the natural numbers, for a set.                           *)
LEMMA LeastNat ==
  ASSUME NEW T, T \subseteq Nat, T # {}
  PROVE  \E x \in T : \A y \in T : x <= y
<1>1. PICK x \in T : \A y \in T : ~(<<y, x>> \in OpToRel(<, Nat))
  BY WFMin, NatLessThanWellFounded
<1>2. \A y \in T : ~(y < x)
  BY <1>1 DEF OpToRel
<1> QED
  BY <1>2

LEMMA SetInduction ==
  ASSUME NEW T \in SUBSET Nat, 0 \in T, \A n \in T : n + 1 \in T
  PROVE  T = Nat
<1> SUFFICES ASSUME Nat \ T # {} PROVE FALSE
  OBVIOUS
<1>1. PICK x \in Nat \ T : \A y \in Nat \ T : x <= y
  BY LeastNat
<1>2. x - 1 \in Nat /\ x - 1 \notin T
  BY <1>1
<1> QED
  BY <1>1, <1>2
-----------------------------------------------------------------------------
(* c-string: the first place where two strings differ.                      *)

LEMMA BoundedInduction ==
  ASSUME NEW N \in Nat, NEW T, 0 \in T, \A n \in 0 .. N : n \in T /\ n # N => n + 1 \in T
  PROVE  0 .. N \subseteq T
<1> DEFINE U == {n \in Nat : n <= N => n \in T}
<1>1. U \in SUBSET Nat /\ 0 \in U
  OBVIOUS
<1>2. ASSUME NEW n \in U PROVE n + 1 \in U
  OBVIOUS
<1>3. U = Nat
  <2> HIDE DEF U
  <2> QED BY <1>1, <1>2, SetInduction
<1> QED
  BY <1>3

(* A function from 0 .. N that starts with b and goes on by st. *)
Recurses(N, V, b, st) ==
  \E g \in [0 .. N -> V] : g[0] = b /\ \A n \in 1 .. N : g[n] = st[g[n - 1]][n]

LEMMA RecFcn ==
  ASSUME NEW N \in Nat, NEW V, NEW b \in V, NEW st \in [V -> [1 .. N -> V]]
  PROVE  Recurses(N, V, b, st)
<1> DEFINE Is(g, n) == g[0] = b /\ \A m \in 1 .. n : g[m] = st[g[m - 1]][m]
           T == {n \in 0 .. N : \E g \in [0 .. n -> V] : Is(g, n)}
<1>1. 0 \in T
  <2>1. [n \in 0 .. 0 |-> b] \in [0 .. 0 -> V] /\ Is([n \in 0 .. 0 |-> b], 0)
    OBVIOUS
  <2> HIDE DEF Is
  <2> QED BY <2>1
<1>2. ASSUME NEW n \in 0 .. N, n \in T, n # N PROVE n + 1 \in T
  <2>1. PICK g \in [0 .. n -> V] : Is(g, n)
    BY <1>2
  <2> DEFINE h == [m \in 0 .. n + 1 |-> IF m = n + 1 THEN st[g[n]][n + 1] ELSE g[m]]
  <2>2. st[g[n]][n + 1] \in V
    BY <1>2
  <2>3. h \in [0 .. n + 1 -> V]
    BY <2>2
  <2>a. 0 \in 0 .. n /\ n \in 0 .. n /\ \A m \in 0 .. n : m \in 0 .. n + 1 /\ m # n + 1
    OBVIOUS
  <2>b. h[n + 1] = st[g[n]][n + 1] /\ \A m \in 0 .. n : h[m] = g[m]
    BY <2>a
  <2>4. h[0] = b /\ h[n + 1] = st[h[n]][n + 1] /\ \A m \in 0 .. n : h[m] = g[m]
    <3> HIDE DEF h
    <3> QED BY <2>1, <2>a, <2>b
  <2>5. Is(h, n + 1)
    <3> HIDE DEF h
    <3> SUFFICES ASSUME NEW m \in 1 .. n + 1 PROVE h[m] = st[h[m - 1]][m]
      BY <2>4
    <3>1. CASE m = n + 1
      BY <2>4, <3>1
    <3>2. CASE m # n + 1
      <4>1. m \in 1 .. n /\ m \in 0 .. n /\ m - 1 \in 0 .. n
        BY <3>2
      <4> QED BY <2>1, <2>4, <4>1
    <3> QED BY <3>1, <3>2
  <2> HIDE DEF Is, h
  <2>6. n + 1 \in 0 .. N
    BY <1>2
  <2> QED BY <2>3, <2>5, <2>6
<1>3. 0 .. N \subseteq T
  <2> HIDE DEF T
  <2> QED BY <1>1, <1>2, BoundedInduction
<1>4. N \in T
  <2> HIDE DEF T
  <2> QED BY <1>3
<1> QED
  BY <1>4 DEF Recurses

(* What Comparable and the order say of two strings of numbers. *)
LEMMA OrderOfPrefix ==
  ASSUME NEW A \in Seq(Int), NEW B \in Seq(Int), Len(A) <= Len(B), \A i \in 1 .. Len(A) : A[i] = B[i]
  PROVE  /\ S8!Before(A, B) <=> Len(A) < Len(B)
         /\ A = B <=> Len(A) = Len(B)
<1>1. /\ DOMAIN A = 1 .. Len(A) /\ DOMAIN B = 1 .. Len(B) /\ Len(A) \in Nat /\ Len(B) \in Nat
      /\ \A i \in 1 .. Len(A) : A[i] \in Int
  OBVIOUS
<1>2. \A k \in DOMAIN A \cap DOMAIN B : ~(A[k] < B[k])
  BY <1>1
<1>3. S8!Before(A, B) <=> Len(A) < Len(B)
  BY <1>1, <1>2 DEF S8!Before
<1>4. Len(A) = Len(B) => A = B
  BY SeqEqual
<1> QED
  BY <1>3, <1>4

LEMMA OrderOfDifference ==
  ASSUME NEW A \in Seq(Int), NEW B \in Seq(Int), NEW k \in 1 .. Len(A), k <= Len(B), A[k] # B[k],
         \A i \in 1 .. k - 1 : A[i] = B[i]
  PROVE  /\ S8!Before(A, B) <=> A[k] < B[k]
         /\ A # B
<1>1. DOMAIN A = 1 .. Len(A) /\ DOMAIN B = 1 .. Len(B) /\ k \in DOMAIN A \cap DOMAIN B
  OBVIOUS
<1>2. A[k] < B[k] => S8!Before(A, B)
  BY <1>1 DEF S8!Before
<1>3. ASSUME S8!Before(A, B) PROVE A[k] < B[k]
  <2>1. ~ \A i \in DOMAIN A : A[i] = B[i]
    BY <1>1
  <2>2. PICK j \in DOMAIN A \cap DOMAIN B : A[j] < B[j] /\ \A i \in 1 .. j - 1 : A[i] = B[i]
    BY <1>3, <2>1 DEF S8!Before
  <2>3. A[j] # B[j] /\ j \in 1 .. Len(A)
    BY <1>1, <2>2
  <2>4. j = k
    <3>1. ASSUME j < k PROVE FALSE
      BY <2>3, <3>1
    <3>2. ASSUME k < j PROVE FALSE
      BY <2>2, <2>3, <3>2
    <3> QED BY <2>3, <3>1, <3>2
  <2> QED BY <2>2, <2>4
<1> QED
  BY <1>1, <1>2, <1>3

S8Types ==
  /\ mem \in [0 .. Size - 1 -> Int]
  /\ DOMAIN str = {"a", "b"}
  /\ \A s \in {"a", "b"} : /\ str[s].buf \in 0 .. Size /\ str[s].len \in 0 .. Size
                           /\ str[s].buf + str[s].len <= Size

LEMMA ValueIsSeq ==
  ASSUME S8Types, NEW s \in {"a", "b"}
  PROVE  /\ S8!Value(s) \in Seq(Int) /\ Len(S8!Value(s)) = str[s].len
         /\ \A i \in 1 .. str[s].len : S8!Value(s)[i] = mem[str[s].buf + i - 1]
<1>1. /\ str[s].buf \in Nat /\ str[s].len \in Nat /\ Size \in Nat
      /\ str[s].buf + str[s].len <= Size
  BY MemoryAssumption DEF S8Types
<1>2. ASSUME NEW i \in 1 .. str[s].len PROVE mem[str[s].buf + i - 1] \in Int
  <2>1. str[s].buf + i - 1 \in 0 .. Size - 1
    BY <1>1
  <2>2. mem \in [0 .. Size - 1 -> Int]
    BY DEF S8Types
  <2> QED BY <2>1, <2>2
<1> QED
  BY <1>1, <1>2 DEF S8!Value

(***************************************************************************)
(* s8Cmp's loop finds the first difference, and reads past the end of b     *)
(* only when b is a proper prefix of a.                                     *)
(***************************************************************************)
LEMMA CmpStep ==
  ASSUME S8Types, S8!s8Cmp
  PROVE  CmpIsOrder'
<1> DEFINE A == S8!Value("a")
           B == S8!Value("b")
           ba == str["a"].buf
           bb == str["b"].buf
           la == str["a"].len
           lb == str["b"].len
<1>1. /\ A \in Seq(Int) /\ B \in Seq(Int) /\ Len(A) = la /\ Len(B) = lb
      /\ \A i \in 1 .. la : A[i] = mem[ba + i - 1]
      /\ \A i \in 1 .. lb : B[i] = mem[bb + i - 1]
  BY ValueIsSeq
<1>2. /\ ba \in Nat /\ bb \in Nat /\ la \in Nat /\ lb \in Nat /\ Size \in Nat
      /\ ba + la <= Size /\ bb + lb <= Size
  BY MemoryAssumption DEF S8Types
<1>3. mem' = mem /\ str' = str
  BY DEF S8!s8Cmp
<1>4. S8!Value("a")' = A /\ S8!Value("b")' = B
  BY <1>3 DEF S8!Value
<1> DEFINE n == S8!CmpLen(str["a"], str["b"])
<1>5. PICK past \in [{i \in bb .. bb + n - 1 : i >= Size} -> Bytes] :
        LET at(i) == IF i < Size THEN mem[i] ELSE past[i]
            d == {i \in 0 .. n - 1 : at(ba + i) # at(bb + i)}
            first == CHOOSE i \in d : \A j \in d : i <= j
        IN  cmp' = IF d = {} THEN la - lb ELSE at(ba + first) - at(bb + first)
  BY DEF S8!s8Cmp
<1> DEFINE at(i) == IF i < Size THEN mem[i] ELSE past[i]
           d == {i \in 0 .. n - 1 : at(ba + i) # at(bb + i)}
           first == CHOOSE i \in d : \A j \in d : i <= j
<1>6. cmp' = IF d = {} THEN la - lb ELSE at(ba + first) - at(bb + first)
  BY <1>5
<1>11. n = la
  BY DEF S8!CmpLen
<1> HIDE DEF A, B, ba, bb, la, lb, n
<1>7. ASSUME NEW i \in 1 .. la, i <= lb
      PROVE  at(ba + (i - 1)) = A[i] /\ at(bb + (i - 1)) = B[i] /\ (i - 1 \in d <=> A[i] # B[i])
  <2>1. /\ ba + (i - 1) = ba + i - 1 /\ bb + (i - 1) = bb + i - 1 /\ i \in 1 .. lb
        /\ ba + (i - 1) < Size /\ bb + (i - 1) < Size /\ i - 1 \in 0 .. n - 1
    BY <1>2, <1>11, <1>7
  <2>2. at(ba + (i - 1)) = A[i] /\ at(bb + (i - 1)) = B[i]
    BY <1>1, <2>1
  <2> HIDE DEF at
  <2> QED BY <2>1, <2>2
<1> HIDE DEF d, at
<1>8. ASSUME NEW k \in 0 .. la, k <= la, \A i \in 1 .. la : i <= k => i - 1 \notin d, S8!Comparable'
      PROVE  /\ lb < la => k < lb
             /\ \A i \in 1 .. la : i <= k /\ i <= lb => A[i] = B[i]
  <2>1. \A i \in 1 .. la : i <= k /\ i <= lb => A[i] = B[i]
    BY <1>7, <1>8
  <2>2. ASSUME lb < la, k >= lb PROVE FALSE
    <3>1. \A i \in 1 .. lb : A[i] = B[i]
      BY <1>2, <2>1, <2>2
    <3>2. SubSeq(A, 1, lb) = B
      <4>1. SubSeq(A, 1, lb) \in Seq(Int) /\ Len(SubSeq(A, 1, lb)) = lb
        BY <1>1, <1>2, <2>2
      <4>2. \A i \in 1 .. lb : SubSeq(A, 1, lb)[i] = B[i]
        BY <1>1, <1>2, <2>2, <3>1
      <4> QED BY <1>1, <4>1, <4>2, SeqEqual
    <3> QED BY <1>1, <1>4, <1>8, <2>2, <3>2 DEF S8!Comparable
  <2> QED BY <1>2, <2>1, <2>2
<1>9. ASSUME S8!Comparable', d = {} PROVE (cmp' < 0 <=> S8!Before(A, B)) /\ (cmp' = 0 <=> A = B)
  <2>1. cmp' = la - lb /\ la \in 0 .. la
    BY <1>2, <1>6, <1>9
  <2>2. ~(lb < la) /\ \A i \in 1 .. la : i <= lb => A[i] = B[i]
    BY <1>2, <1>8, <1>9, <2>1
  <2>3. (S8!Before(A, B) <=> la < lb) /\ (A = B <=> la = lb)
    <3>1. Len(A) <= Len(B) /\ \A i \in 1 .. Len(A) : A[i] = B[i]
      BY <1>1, <1>2, <2>2
    <3>2. (S8!Before(A, B) <=> Len(A) < Len(B)) /\ (A = B <=> Len(A) = Len(B))
      BY <1>1, <3>1, OrderOfPrefix
    <3> QED BY <1>1, <3>2
  <2> QED BY <1>2, <2>1, <2>3
<1>10. ASSUME S8!Comparable', d # {} PROVE (cmp' < 0 <=> S8!Before(A, B)) /\ (cmp' = 0 <=> A = B)
  <2>1. d \subseteq 0 .. la - 1 /\ d \subseteq Nat
    BY <1>2, <1>11 DEF d
  <2>2. first \in d /\ \A j \in d : first <= j
    BY <1>10, <2>1, LeastNat
  <2> HIDE DEF first
  <2>3. first \in 0 .. la /\ first < la /\ first \in Nat
    BY <1>2, <2>1, <2>2
  <2>4. first < lb /\ \A i \in 1 .. la : i <= first => A[i] = B[i]
    <3>1. \A i \in 1 .. la : i <= first => i - 1 \notin d
      BY <1>2, <2>1, <2>2, <2>3
    <3>2. lb < la => first < lb
      BY <1>8, <1>10, <2>3, <3>1
    <3>3. \A i \in 1 .. la : i <= first /\ i <= lb => A[i] = B[i]
      BY <1>8, <1>10, <2>3, <3>1
    <3> QED BY <1>2, <2>3, <3>2, <3>3
  <2> DEFINE k == first + 1
  <2>5. k \in 1 .. la /\ k <= lb /\ k - 1 = first
    BY <1>2, <2>3, <2>4
  <2>6. A[k] # B[k] /\ at(ba + first) = A[k] /\ at(bb + first) = B[k]
    BY <1>7, <2>2, <2>5
  <2>7. \A i \in 1 .. k - 1 : A[i] = B[i]
    BY <1>2, <2>3, <2>4, <2>5
  <2>8. A[k] \in Int /\ B[k] \in Int
    BY <1>1, <1>2, <2>5
  <2>9. cmp' = A[k] - B[k]
    BY <1>6, <1>10, <2>6
  <2> HIDE DEF k
  <2>10. (S8!Before(A, B) <=> A[k] < B[k]) /\ A # B
    BY <1>1, <1>2, <2>5, <2>6, <2>7, OrderOfDifference
  <2> QED BY <2>6, <2>8, <2>9, <2>10
<1> QED
  BY <1>4, <1>9, <1>10 DEF CmpIsOrder, S8!CmpIsOrder

(***************************************************************************)
(* s8Cmp orders any two strings cut out of one memory of any size, equal,   *)
(* overlapping or changed by s8ToUpper and s8ToLower in between, as byte    *)
(* strings are ordered, unless the second is a proper prefix of the first.  *)
(***************************************************************************)
THEOREM CmpCorrect == S8!Spec => []CmpIsOrder
<1> DEFINE I == S8Types /\ CmpIsOrder
<1>1. S8!Init => I
  <2> SUFFICES ASSUME S8!Init PROVE I
    OBVIOUS
  <2>1. cmp = S8!None /\ str = [s \in {"a", "b"} |-> S8!s8Span(0, 0)] /\ mem \in [0 .. Size - 1 -> Bytes]
    BY DEF S8!Init
  <2>2. mem \in [0 .. Size - 1 -> Int]
    <3>1. Bytes \subseteq Int
      BY MemoryAssumption
    <3> QED BY <2>1, <3>1
  <2>3. S8Types
    BY <2>1, <2>2, MemoryAssumption DEF S8Types, S8!s8Span
  <2> QED BY <2>1, <2>3 DEF CmpIsOrder, S8!CmpIsOrder
<1>2. I /\ [S8!Next]_(S8!vars) => I'
  <2> SUFFICES ASSUME S8Types, CmpIsOrder, [S8!Next]_(S8!vars) PROVE S8Types' /\ CmpIsOrder'
    OBVIOUS
  <2>1. CASE S8!s8Cmp
    <3>1. UNCHANGED <<mem, str>>
      BY <2>1 DEF S8!s8Cmp
    <3> QED BY <2>1, <3>1, CmpStep DEF S8Types
  <2>2. ASSUME NEW s \in {"a", "b"}, S8!s8ToUpper(s) \/ S8!s8ToLower(s) PROVE S8Types' /\ CmpIsOrder'
    <3>1. cmp' = S8!None /\ str' = str /\ mem' \in [0 .. Size - 1 -> Int]
      BY <2>2 DEF S8!s8ToUpper, S8!s8ToLower, S8!UpperOf, S8!LowerOf, S8Types
    <3> QED BY <3>1 DEF S8Types, CmpIsOrder, S8!CmpIsOrder
  <2>3. ASSUME NEW s \in {"a", "b"}, NEW i \in 0 .. Size, NEW j \in 0 .. Size, i <= j, S8!Span(s, i, j)
        PROVE  S8Types' /\ CmpIsOrder'
    <3>1. cmp' = S8!None /\ str' = [str EXCEPT ![s] = [buf |-> i, len |-> j - i]] /\ mem' = mem
      BY <2>3 DEF S8!Span, S8!s8Span
    <3>2. j - i \in 0 .. Size /\ i + (j - i) <= Size
      BY <2>3, MemoryAssumption
    <3> QED BY <3>1, <3>2 DEF S8Types, CmpIsOrder, S8!CmpIsOrder
  <2>4. CASE UNCHANGED S8!vars
    BY <2>4 DEF S8!vars, S8Types, CmpIsOrder, S8!CmpIsOrder, S8!Comparable, S8!Value
  <2> QED
    BY <2>1, <2>2, <2>3, <2>4 DEF S8!Next
<1> QED
  BY <1>1, <1>2, PTL DEF S8!Spec
-----------------------------------------------------------------------------
(* The redis commands.                                                      *)

Word == DOMAIN WordLen

LEMMA ArityBounds ==
  /\ \A w \in DOMAIN RQ!Arity : RQ!Arity[w] \in -1 .. 4
  /\ "EXIT" \notin DOMAIN RQ!Arity
  /\ "LINSERT" \in DOMAIN RQ!Arity /\ RQ!Arity["LINSERT"] = 4
  BY DEF RQ!Arity

(* SubSeq, element by element. *)
LEMMA Slice ==
  ASSUME NEW S, NEW q \in Seq(S), NEW a \in Nat \ {0}, NEW b \in Nat, b <= Len(q), a <= b + 1
  PROVE  /\ SubSeq(q, a, b) \in Seq(S) /\ Len(SubSeq(q, a, b)) = b - a + 1
         /\ \A i \in 1 .. b - a + 1 : SubSeq(q, a, b)[i] = q[a + i - 1]
  OBVIOUS

(* A slice of a slice is a slice. *)
LEMMA SliceOfSlice ==
  ASSUME NEW S, NEW q \in Seq(S), NEW a \in Nat \ {0}, a <= Len(q) + 1, NEW m \in 0 .. Len(q) - a + 1
  PROVE  SubSeq(SubSeq(q, a, Len(q)), 1, m) = SubSeq(q, a, a + m - 1)
<1> DEFINE r == SubSeq(q, a, Len(q))
<1>0. /\ Len(q) \in Nat /\ m \in Nat /\ m <= Len(q) - a + 1 /\ m - 1 + 1 = m
      /\ a + m - 1 \in Nat /\ a + m - 1 <= Len(q) /\ a <= (a + m - 1) + 1 /\ (a + m - 1) - a + 1 = m
  OBVIOUS
<1>1. r \in Seq(S) /\ Len(r) = Len(q) - a + 1 /\ \A i \in 1 .. Len(q) - a + 1 : r[i] = q[a + i - 1]
  BY Slice
<1> HIDE DEF r
<1>2. /\ SubSeq(r, 1, m) \in Seq(S) /\ Len(SubSeq(r, 1, m)) = m
      /\ \A i \in 1 .. m : SubSeq(r, 1, m)[i] = r[i]
  <2>1. \A i \in 1 .. m : 1 + i - 1 = i
    BY <1>0
  <2>2. 1 \in Nat \ {0} /\ m <= Len(r) /\ 1 <= m + 1
    BY <1>0, <1>1
  <2>3. /\ SubSeq(r, 1, m) \in Seq(S) /\ Len(SubSeq(r, 1, m)) = m - 1 + 1
        /\ \A i \in 1 .. m - 1 + 1 : SubSeq(r, 1, m)[i] = r[1 + i - 1]
    BY <1>0, <1>1, <2>2, Slice
  <2> QED BY <1>0, <2>1, <2>3
<1>3. /\ SubSeq(q, a, a + m - 1) \in Seq(S) /\ Len(SubSeq(q, a, a + m - 1)) = m
      /\ \A i \in 1 .. m : SubSeq(q, a, a + m - 1)[i] = q[a + i - 1]
  <2> DEFINE e == a + m - 1
  <2>1. e \in Nat /\ e <= Len(q) /\ a <= e + 1 /\ e - a + 1 = m
    BY <1>0
  <2> HIDE DEF e
  <2>2. /\ SubSeq(q, a, e) \in Seq(S) /\ Len(SubSeq(q, a, e)) = e - a + 1
        /\ \A i \in 1 .. e - a + 1 : SubSeq(q, a, e)[i] = q[a + i - 1]
    BY <2>1, Slice
  <2> QED BY <2>1, <2>2 DEF e
<1>4. \A i \in 1 .. m : SubSeq(r, 1, m)[i] = SubSeq(q, a, a + m - 1)[i]
  BY <1>1, <1>2, <1>3
<1>5. SubSeq(r, 1, m) = SubSeq(q, a, a + m - 1)
  BY <1>2, <1>3, <1>4, SeqEqual
<1> QED
  BY <1>5 DEF r

LEMMA ConsSlice ==
  ASSUME NEW S, NEW q \in Seq(S), NEW a \in 1 .. Len(q), NEW b \in a .. Len(q)
  PROVE  <<q[a]>> \o SubSeq(q, a + 1, b) = SubSeq(q, a, b)
<1>1. /\ SubSeq(q, a + 1, b) \in Seq(S) /\ Len(SubSeq(q, a + 1, b)) = b - a
      /\ \A i \in 1 .. b - a : SubSeq(q, a + 1, b)[i] = q[a + i]
  OBVIOUS
<1>2. /\ SubSeq(q, a, b) \in Seq(S) /\ Len(SubSeq(q, a, b)) = b - a + 1
      /\ \A i \in 1 .. b - a + 1 : SubSeq(q, a, b)[i] = q[a + i - 1]
  OBVIOUS
<1> DEFINE t == SubSeq(q, a + 1, b)
           c == <<q[a]>> \o t
<1>3. t \in Seq(S) /\ Len(t) = b - a /\ \A i \in 1 .. b - a : t[i] = q[a + i]
  BY <1>1
<1> HIDE DEF t
<1>4. c \in Seq(S) /\ Len(c) = b - a + 1 /\ c[1] = q[a] /\ \A i \in 2 .. b - a + 1 : c[i] = t[i - 1]
  BY <1>3
<1> HIDE DEF c
<1>5. ASSUME NEW i \in 1 .. b - a + 1 PROVE c[i] = SubSeq(q, a, b)[i]
  <2>1. SubSeq(q, a, b)[i] = q[a + i - 1]
    BY <1>2
  <2>2. CASE i = 1
    BY <1>4, <2>1, <2>2
  <2>3. CASE i # 1
    <3>1. c[i] = t[i - 1] /\ i - 1 \in 1 .. b - a
      BY <1>4, <2>3
    <3>2. t[i - 1] = q[a + (i - 1)] /\ a + (i - 1) = a + i - 1
      BY <1>3, <3>1
    <3> QED BY <2>1, <3>1, <3>2
  <2> QED BY <2>2, <2>3
<1>6. c = SubSeq(q, a, b)
  BY <1>2, <1>4, <1>5, SeqEqual
<1> QED
  BY <1>6 DEF c, t

(* The loop of serializeHelper leaves no argument out: none is empty. *)
LEMMA BulksAreAll ==
  ASSUME NEW kv, kv.args \in Seq(Word)
  PROVE  RQ!Bulks(kv) = <<kv.name>> \o kv.args
<1> DEFINE args == kv.args
           N == Len(args)
           S == Word \cup {kv.name}
           E(g) == g = [n \in 0 .. N |->
                          IF n = 0 THEN <<kv.name>>
                          ELSE IF WordLen[args[n]] # 0 THEN Append(g[n - 1], args[n])
                          ELSE g[n - 1]]
           w == [n \in 0 .. N |-> <<kv.name>> \o SubSeq(args, 1, n)]
           f == CHOOSE g : E(g)
<1>1. RQ!Bulks(kv) = f[N]
  BY DEF RQ!Bulks
<1>2. args \in Seq(S) /\ N \in Nat /\ \A n \in 1 .. N : WordLen[args[n]] # 0
  BY WordsAssumption DEF Word
<1>3. ASSUME NEW n \in 1 .. N PROVE Append(w[n - 1], args[n]) = w[n]
  <2>1. SubSeq(args, 1, n) = Append(SubSeq(args, 1, n - 1), args[n])
    BY <1>2
  <2>2. w[n] = <<kv.name>> \o SubSeq(args, 1, n) /\ w[n - 1] = <<kv.name>> \o SubSeq(args, 1, n - 1)
    BY <1>2
  <2>3. SubSeq(args, 1, n - 1) \in Seq(S) /\ args[n] \in S /\ <<kv.name>> \in Seq(S)
    BY <1>2
  <2> HIDE DEF w, args
  <2>4. \A q \in Seq(S), e \in S : <<kv.name>> \o Append(q, e) = Append(<<kv.name>> \o q, e)
    BY <2>3
  <2> QED BY <2>1, <2>2, <2>3, <2>4
<1>4. w[0] = <<kv.name>>
  <2>1. 0 \in 0 .. N /\ SubSeq(args, 1, 0) = << >>
    BY <1>2
  <2>2. w[0] = <<kv.name>> \o << >>
    BY <2>1
  <2>3. <<kv.name>> \o << >> = <<kv.name>>
    OBVIOUS
  <2> QED BY <2>2, <2>3
<1>5. E(w)
  <2>1. w = [n \in 0 .. N |-> w[n]]
    OBVIOUS
  <2>2. ASSUME NEW n \in 0 .. N
        PROVE  w[n] = IF n = 0 THEN <<kv.name>>
                      ELSE IF WordLen[args[n]] # 0 THEN Append(w[n - 1], args[n])
                      ELSE w[n - 1]
    <3> HIDE DEF w
    <3>1. n # 0 => n \in 1 .. N
      BY <1>2
    <3> QED BY <1>2, <1>3, <1>4, <3>1
  <2> HIDE DEF w
  <2> QED BY <2>1, <2>2
<1>6. E(f)
  BY <1>5
<1> HIDE DEF f, w
<1>7. f[0] = <<kv.name>> /\ \A n \in 1 .. N : f[n] = Append(f[n - 1], args[n])
  <2>1. ASSUME NEW n \in 0 .. N
        PROVE  f[n] = IF n = 0 THEN <<kv.name>>
                      ELSE IF WordLen[args[n]] # 0 THEN Append(f[n - 1], args[n])
                      ELSE f[n - 1]
    BY <1>6
  <2>2. 0 \in 0 .. N /\ \A n \in 1 .. N : n \in 0 .. N /\ n # 0
    BY <1>2
  <2> QED BY <1>2, <2>1, <2>2
<1> DEFINE T == {n \in Nat : n <= N => f[n] = w[n]}
<1>8. 0 \in T
  BY <1>2, <1>4, <1>7
<1>9. ASSUME NEW n \in T PROVE n + 1 \in T
  <2>1. n \in Nat /\ n + 1 \in Nat /\ (n + 1) - 1 = n
    OBVIOUS
  <2>2. CASE n + 1 <= N
    <3>1. n + 1 \in 1 .. N /\ f[n] = w[n]
      BY <1>2, <2>1, <2>2
    <3>2. f[n + 1] = w[n + 1]
      BY <1>3, <1>7, <2>1, <3>1
    <3> QED BY <2>1, <3>2
  <2> QED BY <2>1, <2>2
<1>10. T = Nat
  <2> HIDE DEF T
  <2>1. T \in SUBSET Nat
    BY DEF T
  <2> QED BY <1>8, <1>9, <2>1, SetInduction
<1>11. f[N] = w[N]
  BY <1>2, <1>10
<1>12. w[N] = <<kv.name>> \o SubSeq(args, 1, N)
  BY <1>2 DEF w
<1>13. SubSeq(args, 1, N) = args
  BY <1>2
<1> QED
  BY <1>1, <1>11, <1>12, <1>13

(* What parseHelper accepts is a command with its first words, and leaves words out only up to arity 2. *)
LEMMA HelperTakes ==
  ASSUME NEW name, NEW rest \in Seq(Word), NEW argNum \in -1 .. 4,
         RQ!ParseHelper(name, rest, argNum).status = "ok"
  PROVE  \E m \in 0 .. Len(rest) :
           /\ RQ!ParseHelper(name, rest, argNum) = RQ!Accepted(name, SubSeq(rest, 1, m), m)
           /\ m < Len(rest) => m <= 2
<1>1. Len(rest) \in Nat
  OBVIOUS
<1>2. \A x \in {"InvalidCommandParam", "panic"} : RQ!Refused(x).status # "ok"
  BY DEF RQ!Refused
<1>3. CASE argNum \in 0 .. 2
  <2>1. Len(rest) >= argNum /\ RQ!ParseHelper(name, rest, argNum) = RQ!Accepted(name, SubSeq(rest, 1, argNum), argNum)
    BY <1>2, <1>3 DEF RQ!ParseHelper
  <2> QED BY <1>1, <1>3, <2>1
<1>4. CASE argNum \notin 0 .. 2
  <2>1. /\ Len(rest) >= 2
        /\ RQ!ParseHelper(name, rest, argNum) = RQ!Accepted(name, <<rest[1]>> \o RQ!Values(rest), RQ!ArgsNum(Len(rest) - 1))
    BY <1>1, <1>2, <1>4 DEF RQ!ParseHelper
  <2>2. <<rest[1]>> \o SubSeq(rest, 1 + 1, Len(rest)) = SubSeq(rest, 1, Len(rest))
    <3>1. 1 \in 1 .. Len(rest) /\ Len(rest) \in 1 .. Len(rest)
      BY <1>1, <2>1
    <3> QED BY <3>1, ConsSlice
  <2>3. <<rest[1]>> \o RQ!Values(rest) = SubSeq(rest, 1, Len(rest))
    BY <2>2 DEF RQ!Values
  <2>4. RQ!ArgsNum(Len(rest) - 1) = Len(rest)
    BY <1>1 DEF RQ!ArgsNum
  <2>5. RQ!ParseHelper(name, rest, argNum) = RQ!Accepted(name, SubSeq(rest, 1, Len(rest)), Len(rest))
    BY <2>1, <2>3, <2>4
  <2>6. Len(rest) \in 0 .. Len(rest) /\ ~(Len(rest) < Len(rest))
    BY <1>1
  <2> QED BY <2>5, <2>6
<1> QED
  BY <1>3, <1>4

(* parse goes to the first command of the line. *)
LEMMA FirstName ==
  ASSUME NEW words \in Seq(Word)
  PROVE  LET i == RQ!SelectInSeq(words, LAMBDA w : w \in RQ!Names)
         IN  /\ i \in 0 .. Len(words)
             /\ i # 0 => words[i] \in RQ!Names /\ \A k \in 1 .. i - 1 : words[k] \notin RQ!Names
             /\ i = 0 => \A k \in 1 .. Len(words) : words[k] \notin RQ!Names
<1> DEFINE I == {k \in 1 .. Len(words) : words[k] \in RQ!Names}
           i == RQ!SelectInSeq(words, LAMBDA w : w \in RQ!Names)
<1>1. i = IF I # {} THEN RQ!Min(I) ELSE 0
  BY DEF RQ!SelectInSeq
<1>2. I \subseteq Nat
  OBVIOUS
<1>3. I # {} => RQ!Min(I) \in I /\ \A k \in I : RQ!Min(I) <= k
  <2> HIDE DEF I
  <2> QED BY <1>2, LeastNat DEF RQ!Min
<1> HIDE DEF i
<1>4. /\ i \in 0 .. Len(words)
      /\ i # 0 => words[i] \in RQ!Names /\ \A k \in 1 .. i - 1 : words[k] \notin RQ!Names
      /\ i = 0 => \A k \in 1 .. Len(words) : words[k] \notin RQ!Names
  <2>1. CASE I = {}
    BY <1>1, <2>1
  <2>2. CASE I # {}
    <3>1. i \in I /\ \A k \in I : i <= k
      BY <1>1, <1>3, <2>2
    <3>2. i \in 1 .. Len(words) /\ words[i] \in RQ!Names
      BY <3>1
    <3>3. \A k \in 1 .. i - 1 : words[k] \notin RQ!Names
      BY <3>1, <3>2
    <3> QED BY <3>2, <3>3
  <2> QED BY <2>1, <2>2
<1> QED
  BY <1>4 DEF i

(* What parse accepts are words of the line without gaps, from its first command on. *)
LEMMA ParseTakes ==
  ASSUME NEW words \in Seq(Word), RQ!Parse(words).status = "ok"
  PROVE  \E i \in 1 .. Len(words), j \in 0 .. Len(words) :
           /\ i <= j /\ RQ!Parse(words) = RQ!Accepted(words[i], SubSeq(words, i + 1, j), j - i)
           /\ \A k \in 1 .. i - 1 : words[k] \notin RQ!Names
           /\ j < Len(words) => j - i <= 2
<1> DEFINE i == RQ!SelectInSeq(words, LAMBDA w : w \in RQ!Names)
           rest == SubSeq(words, i + 1, Len(words))
           kv == RQ!ParseHelper(words[i], rest, RQ!Arity[words[i]])
<1>1. RQ!Parse(words) = IF i = 0 THEN RQ!Refused("UnknownCommand")
        ELSE IF words[i] = "EXIT" THEN RQ!Refused("exit")
        ELSE IF words[i] = "LINSERT" /\ kv.status = "ok" /\ ~RQ!LinsertWhere(kv)
             THEN RQ!Refused("UnknownCommand")
        ELSE kv
  BY DEF RQ!Parse
<1>2. \A x \in {"UnknownCommand", "exit"} : RQ!Refused(x).status # "ok"
  BY DEF RQ!Refused
<1>3. /\ i \in 0 .. Len(words)
      /\ i # 0 => words[i] \in RQ!Names /\ \A k \in 1 .. i - 1 : words[k] \notin RQ!Names
  BY FirstName
<1> HIDE DEF i
<1>4. i # 0 /\ words[i] # "EXIT" /\ RQ!Parse(words) = kv
  <2> HIDE DEF kv
  <2> QED BY <1>1, <1>2
<1>5. words[i] \in DOMAIN RQ!Arity /\ RQ!Arity[words[i]] \in -1 .. 4
  BY <1>3, <1>4, ArityBounds DEF RQ!Names
<1>6. i \in 1 .. Len(words) /\ Len(words) \in Nat
  BY <1>3, <1>4
<1>7. rest \in Seq(Word) /\ Len(rest) = Len(words) - i
  BY <1>6
<1>8. PICK m \in 0 .. Len(rest) : kv = RQ!Accepted(words[i], SubSeq(rest, 1, m), m) /\ (m < Len(rest) => m <= 2)
  <2>1. kv.status = "ok"
    BY <1>4
  <2> HIDE DEF rest
  <2> QED BY <1>5, <1>7, <2>1, HelperTakes
<1>9. SubSeq(rest, 1, m) = SubSeq(words, i + 1, i + m)
  <2>1. i + 1 \in Nat \ {0} /\ i + 1 <= Len(words) + 1 /\ m \in 0 .. Len(words) - (i + 1) + 1 /\ (i + 1) + m - 1 = i + m
    BY <1>6, <1>7
  <2>2. SubSeq(SubSeq(words, i + 1, Len(words)), 1, m) = SubSeq(words, i + 1, (i + 1) + m - 1)
    BY <2>1, SliceOfSlice
  <2> QED BY <2>1, <2>2
<1>10. i + m \in 0 .. Len(words) /\ i <= i + m /\ (i + m) - i = m /\ (i + m < Len(words) => m < Len(rest))
  BY <1>6, <1>7
<1>11. RQ!Parse(words) = RQ!Accepted(words[i], SubSeq(words, i + 1, i + m), (i + m) - i)
  <2> HIDE DEF kv, rest
  <2> QED BY <1>4, <1>8, <1>9, <1>10
<1>12. i + m < Len(words) => (i + m) - i <= 2
  <2> HIDE DEF kv, rest
  <2> QED BY <1>8, <1>10
<1> QED
  BY <1>3, <1>4, <1>6, <1>10, <1>11, <1>12

(* Serialize sends exactly those words. *)
LEMMA SerializeSends ==
  ASSUME NEW words \in Seq(Word), NEW i \in 1 .. Len(words), NEW j \in i .. Len(words), NEW kv,
         kv = RQ!Accepted(words[i], SubSeq(words, i + 1, j), j - i)
  PROVE  RQ!Serialize(kv).bulks = SubSeq(words, i, j) /\ RQ!Serialize(kv).count = j - i + 1
<1>1. kv.args = SubSeq(words, i + 1, j) /\ kv.name = words[i] /\ kv.argsNum = j - i
  BY DEF RQ!Accepted
<1>2. kv.args \in Seq(Word)
  <2>1. i + 1 \in Nat \ {0} /\ j \in Nat /\ j <= Len(words) /\ i + 1 <= j + 1
    OBVIOUS
  <2>2. SubSeq(words, i + 1, j) \in Seq(Word)
    BY <2>1, Slice
  <2> QED BY <1>1, <2>2
<1>3. RQ!Bulks(kv) = <<words[i]>> \o SubSeq(words, i + 1, j)
  BY <1>1, <1>2, BulksAreAll
<1>4. RQ!Bulks(kv) = SubSeq(words, i, j)
  BY <1>3, ConsSlice
<1> QED
  BY <1>1, <1>4 DEF RQ!Serialize

LEMMA BulkLenIs == \A w \in Word : RQ!BulkLen(w) \in Nat
<1>1. \A n : RQ!Digits(n) \in Nat
  BY DEF RQ!Digits
<1>2. \A w \in Word : WordLen[w] \in Nat
  BY WordsAssumption DEF Word
<1> QED BY <1>1, <1>2 DEF RQ!BulkLen

(* A function that goes on by the lengths of the bulks is unique and grows. *)
LEMMA EndsAre ==
  ASSUME NEW line \in Seq(Word),
         NEW g, g = [n \in 0 .. Len(line) |->
                       IF n = 0 THEN RQ!HeaderLen(Len(line)) ELSE g[n - 1] + RQ!BulkLen(line[n])],
         NEW h, h = [n \in 0 .. Len(line) |->
                       IF n = 0 THEN RQ!HeaderLen(Len(line)) ELSE h[n - 1] + RQ!BulkLen(line[n])]
  PROVE  \A n \in 0 .. Len(line) : g[n] \in Nat /\ g[n] = h[n] /\ g[n] <= g[Len(line)]
<1> DEFINE N == Len(line)
           b == RQ!HeaderLen(N)
           d == [n \in 1 .. N |-> RQ!BulkLen(line[n])]
<1>1. N \in Nat /\ b \in Nat /\ \A n \in 1 .. N : d[n] \in Nat
  BY BulkLenIs DEF RQ!HeaderLen, RQ!Digits
<1>2. /\ g[0] = b /\ \A n \in 1 .. N : g[n] = g[n - 1] + d[n]
      /\ h[0] = b /\ \A n \in 1 .. N : h[n] = h[n - 1] + d[n]
  <2>1. 0 \in 0 .. N /\ \A n \in 1 .. N : n \in 0 .. N /\ n # 0
    BY <1>1
  <2>2. \A n \in 0 .. N : /\ g[n] = IF n = 0 THEN b ELSE g[n - 1] + RQ!BulkLen(line[n])
                         /\ h[n] = IF n = 0 THEN b ELSE h[n - 1] + RQ!BulkLen(line[n])
    OBVIOUS
  <2> HIDE DEF b
  <2> QED BY <2>1, <2>2
<1> HIDE DEF N, b, d
<1> DEFINE T == {n \in 0 .. N : g[n] = h[n] /\ \A k \in 0 .. n : g[k] \in Nat /\ g[k] <= g[n]}
<1>3. 0 \in T
  BY <1>1, <1>2
<1>4. ASSUME NEW n \in 0 .. N, n \in T, n # N PROVE n + 1 \in T
  <2>1. n + 1 \in 1 .. N /\ n + 1 \in 0 .. N /\ (n + 1) - 1 = n
    BY <1>1, <1>4
  <2>2. g[n + 1] = g[n] + d[n + 1] /\ h[n + 1] = h[n] + d[n + 1] /\ d[n + 1] \in Nat
    BY <1>1, <1>2, <2>1
  <2>3. g[n] = h[n] /\ \A k \in 0 .. n : g[k] \in Nat /\ g[k] <= g[n]
    BY <1>4
  <2>4. g[n] \in Nat /\ g[n + 1] \in Nat /\ g[n + 1] = h[n + 1] /\ g[n] <= g[n + 1]
    <3>1. n \in 0 .. n
      BY <1>1
    <3>2. g[n] \in Nat /\ g[n] = h[n]
      BY <2>3, <3>1
    <3> QED BY <2>2, <3>2
  <2>5. ASSUME NEW k \in 0 .. n + 1 PROVE g[k] \in Nat /\ g[k] <= g[n + 1]
    <3>1. CASE k = n + 1
      BY <2>4, <3>1
    <3>2. CASE k # n + 1
      <4>1. k \in 0 .. n
        BY <2>1, <3>2
      <4>2. g[k] \in Nat /\ g[k] <= g[n]
        BY <2>3, <4>1
      <4> QED BY <2>4, <4>2
    <3> QED BY <3>1, <3>2
  <2> QED BY <2>1, <2>4, <2>5
<1>6. 0 .. N \subseteq T
  <2> HIDE DEF T
  <2> QED BY <1>1, <1>3, <1>4, BoundedInduction
<1>7. \A n \in 0 .. N : n \in T
  <2> HIDE DEF T
  <2> QED BY <1>6
<1>8. N \in 0 .. N
  BY <1>1
<1> QED
  BY <1>7, <1>8 DEF N

(* The buffer holds every piece of a request exactly if it holds the whole. *)
LEMMA SerializeFits ==
  ASSUME NEW kv, NEW line \in Seq(Word), RQ!Bulks(kv) = line, kv.argsNum + 1 = Len(line)
  PROVE  RQ!Serialize(kv).status = IF RQ!WireLen(line) <= 2048 THEN "ok" ELSE "NoSpaceLeft"
<1> DEFINE N == Len(line)
           d == [n \in 1 .. N |-> RQ!BulkLen(line[n])]
           E(g) == g = [n \in 0 .. N |-> IF n = 0 THEN RQ!HeaderLen(N) ELSE g[n - 1] + RQ!BulkLen(line[n])]
           up == CHOOSE g : E(g)
           bulks == RQ!Bulks(kv)
           count == kv.argsNum + 1
           F(g) == g = [n \in 0 .. Len(bulks) |->
                          IF n = 0 THEN RQ!HeaderLen(count) ELSE g[n - 1] + RQ!BulkLen(bulks[n])]
           end == CHOOSE g : F(g)
<1>1. RQ!WireLen(line) = up[N]
  BY DEF RQ!WireLen
<1>2. RQ!Serialize(kv).status = IF \A n \in 0 .. Len(bulks) : RQ!Fits(end[n]) THEN "ok" ELSE "NoSpaceLeft"
  BY DEF RQ!Serialize
<1>3. \E g : E(g)
  <2> DEFINE st == [v \in Nat |-> [n \in 1 .. N |-> v + RQ!BulkLen(line[n])]]
             b == RQ!HeaderLen(N)
  <2>1. N \in Nat /\ b \in Nat
    BY DEF RQ!HeaderLen, RQ!Digits
  <2>2. st \in [Nat -> [1 .. N -> Nat]]
    BY BulkLenIs
  <2> HIDE DEF st, b
  <2>3. Recurses(N, Nat, b, st)
    BY <2>1, <2>2, RecFcn
  <2>4. PICK g \in [0 .. N -> Nat] : g[0] = b /\ \A n \in 1 .. N : g[n] = st[g[n - 1]][n]
    BY <2>3 DEF Recurses
  <2>5. ASSUME NEW n \in 0 .. N
        PROVE  g[n] = IF n = 0 THEN RQ!HeaderLen(N) ELSE g[n - 1] + RQ!BulkLen(line[n])
    <3>1. CASE n = 0
      BY <2>4, <3>1 DEF b
    <3>2. CASE n # 0
      <4>1. n \in 1 .. N /\ n - 1 \in 0 .. N
        BY <2>1, <3>2
      <4>2. g[n - 1] \in Nat
        BY <2>4, <4>1
      <4>3. st[g[n - 1]][n] = g[n - 1] + RQ!BulkLen(line[n])
        BY <4>1, <4>2 DEF st
      <4> QED BY <2>4, <3>2, <4>1, <4>3
    <3> QED BY <3>1, <3>2
  <2>6. g = [n \in 0 .. N |-> g[n]]
    BY <2>4
  <2>7. E(g)
    BY <2>5, <2>6
  <2> QED BY <2>7
<1>4. \A g : F(g) <=> E(g)
  BY DEF N
<1>5. E(up) /\ E(end)
  <2>1. E(up)
    BY <1>3
  <2>2. \E g : F(g)
    BY <1>3, <1>4
  <2>3. F(end)
    BY <2>2
  <2> QED BY <1>4, <2>1, <2>3
<1> HIDE DEF up, end
<1>6. \A n \in 0 .. N : end[n] \in Nat /\ end[n] = up[n] /\ end[n] <= end[N]
  BY <1>5, EndsAre
<1>7. N \in Nat /\ N \in 0 .. N /\ Len(bulks) = N
  OBVIOUS
<1> HIDE DEF N, bulks
<1>8. (\A n \in 0 .. N : end[n] <= 2048) <=> up[N] <= 2048
  <2>1. end[N] \in Nat /\ end[N] = up[N]
    BY <1>6, <1>7
  <2>2. ASSUME up[N] <= 2048, NEW n \in 0 .. N PROVE end[n] <= 2048
    BY <1>6, <2>1, <2>2
  <2> QED BY <1>7, <2>1, <2>2
<1> QED
  BY <1>1, <1>2, <1>7, <1>8 DEF RQ!Fits, RQ!BufLen

(* A well-formed line of at most 127 arguments is accepted whole. *)
LEMMA WellFormedParses ==
  ASSUME NEW words \in Seq(Word), RQ!WellFormed(words), Len(words) - 1 <= 127
  PROVE  /\ 1 \in 1 .. Len(words)
         /\ RQ!Parse(words) = RQ!Accepted(words[1], SubSeq(words, 2, Len(words)), Len(words) - 1)
<1> DEFINE i == RQ!SelectInSeq(words, LAMBDA w : w \in RQ!Names)
           rest == SubSeq(words, 2, Len(words))
           a == RQ!Arity[words[1]]
           kv == RQ!ParseHelper(words[1], rest, a)
<1>1. Len(words) \in Nat /\ 1 \in 1 .. Len(words) /\ Head(words) = words[1] /\ words[1] \in DOMAIN RQ!Arity
  BY DEF RQ!WellFormed
<1>2. rest \in Seq(Word) /\ Len(rest) = Len(words) - 1 /\ rest = Tail(words)
  <2>1. rest \in Seq(Word) /\ Len(rest) = Len(words) - 1 /\ \A k \in 1 .. Len(words) - 1 : rest[k] = words[k + 1]
    <3>1. 2 \in Nat \ {0} /\ Len(words) \in Nat /\ Len(words) <= Len(words) /\ 2 <= Len(words) + 1
      BY <1>1
    <3>2. /\ rest \in Seq(Word) /\ Len(rest) = Len(words) - 2 + 1
          /\ \A k \in 1 .. Len(words) - 2 + 1 : rest[k] = words[2 + k - 1]
      <4> DEFINE n == Len(words)
      <4>1. n \in Nat /\ n <= Len(words) /\ 2 <= n + 1
        BY <3>1
      <4> HIDE DEF n
      <4>2. /\ SubSeq(words, 2, n) \in Seq(Word) /\ Len(SubSeq(words, 2, n)) = n - 2 + 1
            /\ \A k \in 1 .. n - 2 + 1 : SubSeq(words, 2, n)[k] = words[2 + k - 1]
        BY <3>1, <4>1, Slice
      <4> QED BY <4>2 DEF n
    <3> QED BY <1>1, <3>2
  <2>2. Tail(words) \in Seq(Word) /\ Len(Tail(words)) = Len(words) - 1
        /\ \A k \in 1 .. Len(words) - 1 : Tail(words)[k] = words[k + 1]
    BY <1>1
  <2> HIDE DEF rest
  <2> QED BY <2>1, <2>2, SeqEqual
<1>3. /\ IF a = -1 THEN Len(rest) \in 2 .. 127 ELSE Len(rest) = a
      /\ words[1] = "LINSERT" => rest[2] \in {"BEFORE", "AFTER"}
  <2>1. Len(rest) \in Nat /\ Len(rest) <= 127
    BY <1>1, <1>2
  <2>2. /\ IF a = -1 THEN Len(rest) >= 2 ELSE Len(rest) = a
        /\ words[1] = "LINSERT" => rest[2] \in {"BEFORE", "AFTER"}
    BY <1>1, <1>2 DEF RQ!WellFormed
  <2> HIDE DEF a, rest
  <2>3. ASSUME a = -1 PROVE Len(rest) \in 2 .. 127
    <3>1. Len(rest) >= 2
      BY <2>2, <2>3
    <3>2. \A n \in Nat : n <= 127 /\ n >= 2 => n \in 2 .. 127
      OBVIOUS
    <3> QED BY <2>1, <3>1, <3>2
  <2>4. ASSUME a # -1 PROVE Len(rest) = a
    BY <2>2, <2>4
  <2> QED BY <2>2, <2>3, <2>4
<1>4. i = 1
  <2>1. /\ i \in 0 .. Len(words)
        /\ i # 0 => \A k \in 1 .. i - 1 : words[k] \notin RQ!Names
        /\ i = 0 => \A k \in 1 .. Len(words) : words[k] \notin RQ!Names
    BY FirstName
  <2> HIDE DEF i
  <2> QED BY <1>1, <2>1 DEF RQ!Names
<1>5. a \in -1 .. 4 /\ words[1] # "EXIT" /\ (words[1] = "LINSERT" => a = 4)
  BY <1>1, ArityBounds
<1> HIDE DEF rest, a
<1>6. SubSeq(rest, 1, Len(rest)) = rest
  BY <1>2
<1>7. kv = RQ!Accepted(words[1], rest, Len(rest))
  <2>1. CASE a \in 0 .. 2
    <3>1. Len(rest) = a
      BY <1>3, <2>1
    <3>2. ~(Len(rest) < a)
      BY <2>1, <3>1
    <3> QED BY <1>6, <2>1, <3>1, <3>2 DEF RQ!ParseHelper
  <2>2. CASE a \notin 0 .. 2
    <3>0. Len(rest) \in Nat
      BY <1>2
    <3>1. Len(rest) \in 2 .. 127 /\ a \in {-1, Len(rest)}
      <4>1. CASE a = -1
        BY <1>3, <4>1
      <4>2. CASE a # -1
        <5>1. Len(rest) = a
          BY <1>3, <4>2
        <5> QED BY <1>5, <2>2, <4>2, <5>1
      <4> QED BY <4>1, <4>2
    <3>6. /\ ~(Len(rest) < 2) /\ ~(Len(rest) - 1 >= 127) /\ Len(rest) - 1 + 1 = Len(rest)
          /\ 1 \in 1 .. Len(rest) /\ Len(rest) \in 1 .. Len(rest)
      <4>1. \A n \in 2 .. 127 : ~(n < 2) /\ ~(n - 1 >= 127) /\ n - 1 + 1 = n /\ 1 \in 1 .. n /\ n \in 1 .. n
        OBVIOUS
      <4> QED BY <3>1, <4>1
    <3>5. /\ ~(Len(rest) < 2) /\ ~(Len(rest) - 1 >= 127) /\ a \in {-1, Len(rest) - 1 + 1}
      BY <3>1, <3>6
    <3>2. kv = RQ!Accepted(words[1], <<rest[1]>> \o RQ!Values(rest), RQ!ArgsNum(Len(rest) - 1))
      BY <2>2, <3>5 DEF RQ!ParseHelper, RQ!I8Max
    <3>3. <<rest[1]>> \o SubSeq(rest, 1 + 1, Len(rest)) = SubSeq(rest, 1, Len(rest))
      <4>1. 1 \in 1 .. Len(rest) /\ Len(rest) \in 1 .. Len(rest)
        BY <3>6
      <4> QED BY <1>2, <4>1, ConsSlice
    <3>4. <<rest[1]>> \o RQ!Values(rest) = rest /\ RQ!ArgsNum(Len(rest) - 1) = Len(rest)
      <4>1. Len(rest) - 1 + 1 = Len(rest) /\ 1 + 1 = 2
        BY <3>0
      <4> QED BY <1>6, <3>3, <4>1 DEF RQ!Values, RQ!ArgsNum
    <3> QED BY <3>2, <3>4
  <2> QED BY <2>1, <2>2
<1>8. words[1] = "LINSERT" => RQ!LinsertWhere(kv)
  BY <1>3, <1>7 DEF RQ!LinsertWhere, RQ!Accepted
<1>9. RQ!Parse(words) = IF i = 0 THEN RQ!Refused("UnknownCommand")
        ELSE IF words[i] = "EXIT" THEN RQ!Refused("exit")
        ELSE IF words[i] = "LINSERT"
                /\ RQ!ParseHelper(words[i], SubSeq(words, i + 1, Len(words)), RQ!Arity[words[i]]).status = "ok"
                /\ ~RQ!LinsertWhere(RQ!ParseHelper(words[i], SubSeq(words, i + 1, Len(words)), RQ!Arity[words[i]]))
             THEN RQ!Refused("UnknownCommand")
        ELSE RQ!ParseHelper(words[i], SubSeq(words, i + 1, Len(words)), RQ!Arity[words[i]])
  BY DEF RQ!Parse
<1> HIDE DEF i
<1>10. RQ!ParseHelper(words[i], SubSeq(words, i + 1, Len(words)), RQ!Arity[words[i]]) = kv
  <2>1. i + 1 = 2
    BY <1>4
  <2> QED BY <1>4, <2>1 DEF rest, a
<1> HIDE DEF kv
<1>11. RQ!Parse(words) = kv
  BY <1>4, <1>5, <1>8, <1>9, <1>10
<1> QED
  BY <1>1, <1>2, <1>7, <1>11 DEF rest

(* The 128th argument ends the program. *)
LEMMA TooManyPanic ==
  ASSUME NEW words \in Seq(Word), RQ!WellFormed(words), ~(Len(words) - 1 <= 127)
  PROVE  RQ!Parse(words).status = "panic"
<1> DEFINE i == RQ!SelectInSeq(words, LAMBDA w : w \in RQ!Names)
           rest == SubSeq(words, i + 1, Len(words))
           a == RQ!Arity[words[i]]
           kv == RQ!ParseHelper(words[i], rest, a)
<1>1. Len(words) \in Nat /\ 1 \in 1 .. Len(words) /\ words[1] \in DOMAIN RQ!Arity /\ Head(words) = words[1]
      /\ Len(Tail(words)) = Len(words) - 1
  BY DEF RQ!WellFormed
<1>2. i = 1
  <2>1. /\ i \in 0 .. Len(words)
        /\ i # 0 => \A k \in 1 .. i - 1 : words[k] \notin RQ!Names
        /\ i = 0 => \A k \in 1 .. Len(words) : words[k] \notin RQ!Names
    BY FirstName
  <2> HIDE DEF i
  <2> QED BY <1>1, <2>1 DEF RQ!Names
<1>3. RQ!Parse(words) = IF i = 0 THEN RQ!Refused("UnknownCommand")
        ELSE IF words[i] = "EXIT" THEN RQ!Refused("exit")
        ELSE IF words[i] = "LINSERT" /\ kv.status = "ok" /\ ~RQ!LinsertWhere(kv)
             THEN RQ!Refused("UnknownCommand")
        ELSE kv
  BY DEF RQ!Parse
<1> HIDE DEF i
<1>4. words[i] \in DOMAIN RQ!Arity /\ a \in -1 .. 4 /\ words[i] # "EXIT"
  BY <1>1, <1>2, ArityBounds
<1>5. a = -1
  <2>1. IF a = -1 THEN Len(Tail(words)) >= 2 ELSE Len(Tail(words)) = a
    BY <1>1, <1>2 DEF RQ!WellFormed
  <2> HIDE DEF a
  <2> QED BY <1>1, <1>4, <2>1
<1>6. Len(rest) = Len(words) - 1
  <2>1. i + 1 = 2
    BY <1>2
  <2>2. Len(SubSeq(words, 2, Len(words))) = Len(words) - 2 + 1
    BY <1>1
  <2> QED BY <1>1, <2>1, <2>2
<1> HIDE DEF rest, a
<1>7. kv = RQ!Refused("panic")
  <2>1. ~(Len(rest) < 2) /\ Len(rest) - 1 >= 127 /\ a \notin 0 .. 2
    BY <1>1, <1>5, <1>6
  <2> QED BY <2>1 DEF RQ!ParseHelper, RQ!I8Max
<1>8. RQ!Refused("panic").status = "panic" /\ "panic" # "ok"
  BY DEF RQ!Refused
<1> HIDE DEF kv
<1>9. i # 0 /\ words[i] # "EXIT" /\ kv.status = "panic" /\ kv.status # "ok"
  BY <1>2, <1>4, <1>7, <1>8
<1>10. RQ!Parse(words) = kv
  BY <1>3, <1>9
<1> QED
  BY <1>9, <1>10

(***************************************************************************)
(* A line goes through parse and then, if accepted, through serialize.      *)
(***************************************************************************)
RequestInv ==
  /\ typed \in TypedLines
  /\ command = RQ!NotYet \/ command = RQ!Parse(typed)
  /\ request = RQ!NotYet \/ (command.status = "ok" /\ command # RQ!NotYet /\ request = RQ!Serialize(command))

LEMMA RequestInvHolds == RQ!Spec => []RequestInv
<1>1. RQ!Init => RequestInv
  BY DEF RQ!Init, RequestInv
<1>2. RequestInv /\ [RQ!Next]_(RQ!vars) => RequestInv'
  <2> SUFFICES ASSUME RequestInv, [RQ!Next]_(RQ!vars) PROVE RequestInv'
    OBVIOUS
  <2>1. RQ!NotYet.status # "ok"
    BY DEF RQ!NotYet
  <2>2. CASE RQ!ParseStep
    BY <2>1, <2>2 DEF RQ!ParseStep, RequestInv
  <2>3. CASE RQ!SerializeStep
    BY <2>1, <2>3 DEF RQ!SerializeStep, RequestInv
  <2>4. CASE UNCHANGED RQ!vars
    BY <2>4 DEF RQ!vars, RequestInv
  <2> QED BY <2>2, <2>3, <2>4 DEF RQ!Next
<1> QED
  BY <1>1, <1>2, PTL DEF RQ!Spec

(***************************************************************************)
(* For any words and any line: the request holds words of the line in their *)
(* order and without gaps, from its first command on, it leaves words out   *)
(* only behind a command of at most two arguments, and its header announces *)
(* exactly the bulks that follow.                                           *)
(***************************************************************************)
THEOREM RequestIsTyped == RQ!Spec => []TypedIsSent
<1>1. RequestInv => TypedIsSent
  <2> SUFFICES ASSUME RequestInv, RQ!Sent PROVE
               /\ request.count = Len(request.bulks)
               /\ \E i \in 1 .. Len(typed), j \in 0 .. Len(typed) :
                    /\ request.bulks = SubSeq(typed, i, j)
                    /\ \A k \in 1 .. i - 1 : typed[k] \notin RQ!Names
                    /\ j < Len(typed) => j - i <= 2
    BY DEF TypedIsSent, RQ!TypedIsSent
  <2>1. request # RQ!NotYet
    <3>1. request.status = "ok" /\ RQ!NotYet.status = "not yet"
      BY DEF RQ!Sent, RQ!NotYet
    <3>2. RQ!NotYet.status # "ok"
      BY <3>1
    <3> HIDE DEF RQ!NotYet
    <3> QED BY <3>1, <3>2
  <2>2. command = RQ!Parse(typed) /\ command.status = "ok" /\ request = RQ!Serialize(command)
    BY <2>1 DEF RequestInv
  <2>3. typed \in Seq(Word)
    BY WordsAssumption DEF RequestInv, Word
  <2>4. PICK i \in 1 .. Len(typed), j \in 0 .. Len(typed) :
           /\ i <= j /\ command = RQ!Accepted(typed[i], SubSeq(typed, i + 1, j), j - i)
           /\ \A k \in 1 .. i - 1 : typed[k] \notin RQ!Names
           /\ j < Len(typed) => j - i <= 2
    BY <2>2, <2>3, ParseTakes
  <2>5. request.bulks = SubSeq(typed, i, j) /\ request.count = j - i + 1
    <3>1. j \in i .. Len(typed)
      BY <2>4
    <3> QED BY <2>2, <2>3, <2>4, <3>1, SerializeSends
  <2>6. Len(SubSeq(typed, i, j)) = j - i + 1
    BY <2>3, <2>4
  <2> QED BY <2>4, <2>5, <2>6
<1> QED
  BY <1>1, RequestInvHolds, PTL

(***************************************************************************)
(* For any words and any line that has what its command needs: it is        *)
(* accepted if it has at most 127 arguments and ends the program otherwise, *)
(* and once accepted it is serialized if it takes at most 2048 bytes and    *)
(* refused otherwise.  What is serialized is the whole line.                *)
(***************************************************************************)
THEOREM WellFormedLinesAreSent == RQ!Spec => []WellFormedIsSent
<1>1. RequestInv => WellFormedIsSent
  <2> SUFFICES ASSUME RequestInv, RQ!WellFormed(typed)
               PROVE  /\ command # RQ!NotYet =>
                           command.status = IF Len(typed) - 1 <= 127 THEN "ok" ELSE "panic"
                      /\ request # RQ!NotYet =>
                           /\ request.status = IF RQ!WireLen(typed) <= 2048 THEN "ok" ELSE "NoSpaceLeft"
                           /\ request.bulks = typed
    BY DEF WellFormedIsSent, RQ!WellFormedIsSent
  <2>1. typed \in Seq(Word) /\ Len(typed) \in Nat
    BY WordsAssumption DEF RequestInv, Word
  <2>2. ASSUME ~(Len(typed) - 1 <= 127), command # RQ!NotYet PROVE command.status = "panic"
    BY <2>1, <2>2, TooManyPanic DEF RequestInv
  <2>3. ASSUME Len(typed) - 1 <= 127, command # RQ!NotYet
        PROVE  /\ 1 \in 1 .. Len(typed) /\ command.status = "ok"
               /\ command = RQ!Accepted(typed[1], SubSeq(typed, 1 + 1, Len(typed)), Len(typed) - 1)
    <3>1. /\ 1 \in 1 .. Len(typed)
          /\ command = RQ!Accepted(typed[1], SubSeq(typed, 1 + 1, Len(typed)), Len(typed) - 1)
      BY <2>1, <2>3, WellFormedParses DEF RequestInv
    <3> QED BY <3>1 DEF RQ!Accepted
  <2>4. ASSUME request # RQ!NotYet
        PROVE  /\ request.status = IF RQ!WireLen(typed) <= 2048 THEN "ok" ELSE "NoSpaceLeft"
               /\ request.bulks = typed
    <3>1. request = RQ!Serialize(command) /\ command.status = "ok" /\ command # RQ!NotYet
      BY <2>4 DEF RequestInv
    <3>2. Len(typed) - 1 <= 127
      BY <2>2, <3>1
    <3>3. Len(typed) \in 1 .. Len(typed)
      BY <2>1, <2>3, <3>1, <3>2
    <3>4. request.bulks = SubSeq(typed, 1, Len(typed))
      BY <2>1, <2>3, <3>1, <3>2, <3>3, SerializeSends
    <3>5. request.bulks = typed
      BY <2>1, <3>4
    <3>6. RQ!Bulks(command) = typed /\ command.argsNum + 1 = Len(typed)
      <4>1. request.bulks = RQ!Bulks(command)
        BY <3>1 DEF RQ!Serialize
      <4>2. command.argsNum = Len(typed) - 1
        BY <2>3, <3>1, <3>2 DEF RQ!Accepted
      <4>3. \A n \in Nat : (n - 1) + 1 = n
        OBVIOUS
      <4>4. command.argsNum + 1 = Len(typed)
        BY <2>1, <4>2, <4>3
      <4> QED BY <3>5, <4>1, <4>4
    <3> QED BY <2>1, <3>1, <3>5, <3>6, SerializeFits
  <2> QED BY <2>2, <2>3, <2>4
<1> QED
  BY <1>1, RequestInvHolds, PTL

SymSeq == Seq(Symbols)

LEMMA SymbolsAre ==
  /\ {"CR", "LF", "$", "*", "+", "-", ":", ",", "n", "i", "l"} \subseteq Symbols
  /\ \A i \in 1 .. 10 : RSP!Digits[i] \in Symbols
<1>1. {"CR", "LF", "$", "*", "+", "-", ":", ",", "n", "i", "l"} \subseteq Symbols
  BY TextsAssumption
<1>2. {"0", "1", "2", "3", "4", "5", "6", "7", "8", "9"} \subseteq Symbols
  BY TextsAssumption
<1>3. ASSUME NEW i \in 1 .. 10 PROVE RSP!Digits[i] \in {"0", "1", "2", "3", "4", "5", "6", "7", "8", "9"}
  <2>1. i = 1 \/ i = 2 \/ i = 3 \/ i = 4 \/ i = 5 \/ i = 6 \/ i = 7 \/ i = 8 \/ i = 9 \/ i = 10
    OBVIOUS
  <2> QED BY <2>1 DEF RSP!Digits
<1> QED BY <1>1, <1>2, <1>3

LEMMA SmallestIs ==
  ASSUME NEW T, T \subseteq Nat, T # {}
  PROVE  RSP!Smallest(T) \in T /\ \A j \in T : RSP!Smallest(T) <= j
BY LeastNat DEF RSP!Smallest

LEMMA SmallestOnce ==
  ASSUME NEW T, T \subseteq Nat, NEW i \in T, \A j \in T : i <= j
  PROVE  RSP!Smallest(T) = i
<1>1. RSP!Smallest(T) \in T /\ RSP!Smallest(T) <= i
  BY SmallestIs
<1>2. i <= RSP!Smallest(T) /\ i \in Nat /\ RSP!Smallest(T) \in Nat
  BY <1>1
<1> HIDE DEF RSP!Smallest
<1> QED BY <1>1, <1>2

DigitSet == {RSP!Digits[i] : i \in 1 .. 10}

LEMMA DigitIs ==
  /\ DOMAIN RSP!Digit = DigitSet
  /\ \A d \in DigitSet : RSP!Digit[d] \in 0 .. 9 /\ d \in Symbols /\ d \notin {"CR", "LF", "-", "+"}
  /\ \A i \in 1 .. 10 : RSP!Digits[i] \in DigitSet /\ RSP!Digit[RSP!Digits[i]] = i - 1
<1>1. \A i, j \in 1 .. 10 : RSP!Digits[i] = RSP!Digits[j] => i = j
  BY DEF RSP!Digits
<1>2. \A i \in 1 .. 10 : RSP!Digits[i] \notin {"CR", "LF", "-", "+"}
  BY DEF RSP!Digits
<1>3. DOMAIN RSP!Digit = DigitSet
  BY DEF RSP!Digit, DigitSet
<1>4. ASSUME NEW i \in 1 .. 10 PROVE RSP!Digits[i] \in DigitSet /\ RSP!Digit[RSP!Digits[i]] = i - 1
  <2> DEFINE d == RSP!Digits[i]
             k == CHOOSE j \in 1 .. 10 : RSP!Digits[j] = d
  <2>1. k \in 1 .. 10 /\ RSP!Digits[k] = d
    OBVIOUS
  <2>2. k = i
    <3> HIDE DEF k
    <3> QED BY <1>1, <2>1
  <2>3. d \in DigitSet
    BY DEF DigitSet
  <2>4. RSP!Digit[d] = k - 1
    BY <2>3 DEF RSP!Digit, DigitSet
  <2> QED BY <2>2, <2>3, <2>4
<1>5. ASSUME NEW d \in DigitSet
      PROVE  RSP!Digit[d] \in 0 .. 9 /\ d \in Symbols /\ d \notin {"CR", "LF", "-", "+"}
  <2>1. PICK i \in 1 .. 10 : d = RSP!Digits[i]
    BY DEF DigitSet
  <2>2. RSP!Digit[d] = i - 1 /\ i - 1 \in 0 .. 9
    BY <1>4, <2>1
  <2>3. d \in Symbols /\ d \notin {"CR", "LF", "-", "+"}
    BY <1>2, <2>1, SymbolsAre
  <2> QED BY <2>2, <2>3
<1> QED BY <1>3, <1>4, <1>5

-----------------------------------------------------------------------------
(* Decimal numbers: what is written for a length is read as that length. *)

Quotient(q, n) == /\ q \in [0 .. n + 1 -> Nat] /\ q[0] = n
                /\ \A i \in 1 .. n + 1 : q[i] = q[i - 1] \div 10

LEMMA QuotientsAre ==
  ASSUME NEW n \in Nat
  PROVE  Quotient(RSP!Quotients(n), n)
<1> DEFINE N == n + 1
           st == [v \in Nat |-> [i \in 1 .. N |-> v \div 10]]
           E(g) == g = [i \in 0 .. N |-> IF i = 0 THEN n ELSE g[i - 1] \div 10]
           f == CHOOSE g : E(g)
<1>1. RSP!Quotients(n) = f
  BY DEF RSP!Quotients
<1>2. N \in Nat /\ st \in [Nat -> [1 .. N -> Nat]] /\ \A v \in Nat, i \in 1 .. N : st[v][i] = v \div 10
  OBVIOUS
<1> HIDE DEF st
<1>0. Recurses(N, Nat, n, st)
  BY <1>2, RecFcn
<1>3. PICK w \in [0 .. N -> Nat] : w[0] = n /\ \A i \in 1 .. N : w[i] = st[w[i - 1]][i]
  BY <1>0 DEF Recurses
<1>4. ASSUME NEW i \in 1 .. N PROVE w[i] = w[i - 1] \div 10
  <2>0. i - 1 \in 0 .. N
    BY <1>2
  <2>1. w[i - 1] \in Nat
    BY <2>0
  <2> QED BY <1>2, <1>3, <2>1
<1>5. E(w)
  <2>1. w = [i \in 0 .. N |-> w[i]]
    OBVIOUS
  <2>2. ASSUME NEW i \in 0 .. N PROVE w[i] = IF i = 0 THEN n ELSE w[i - 1] \div 10
    BY <1>3, <1>4
  <2> QED BY <2>1, <2>2
<1>6. E(f)
  BY <1>5
<1> HIDE DEF f
<1>7. ASSUME NEW i \in 0 .. N PROVE f[i] = IF i = 0 THEN n ELSE f[i - 1] \div 10
  BY <1>6
<1>8. f = [i \in 0 .. N |-> f[i]]
  BY <1>6
<1> HIDE DEF E
<1> DEFINE T == {i \in 0 .. N : f[i] \in Nat}
<1>9. 0 .. N \subseteq T
  <2>0. 0 \in 0 .. N
    BY <1>2
  <2>1. 0 \in T
    BY <1>7, <2>0
  <2>2. ASSUME NEW i \in 0 .. N, i \in T, i # N PROVE i + 1 \in T
    <3>1. i + 1 \in 0 .. N /\ i + 1 # 0 /\ (i + 1) - 1 = i /\ f[i] \in Nat
      BY <1>2, <2>2
    <3>2. f[i + 1] = f[i] \div 10
      BY <1>7, <3>1
    <3> QED BY <3>1, <3>2
  <2> HIDE DEF T
  <2> QED BY <1>2, <2>1, <2>2, BoundedInduction
<1>10. f \in [0 .. N -> Nat]
  <2>1. \A i \in 0 .. N : f[i] \in Nat
    BY <1>9
  <2> HIDE DEF T
  <2> QED BY <1>8, <2>1
<1>11. f[0] = n /\ \A i \in 1 .. N : f[i] = f[i - 1] \div 10
  <2>1. 0 \in 0 .. N /\ \A i \in 1 .. N : i \in 0 .. N /\ i # 0
    BY <1>2
  <2> HIDE DEF T
  <2> QED BY <1>7, <2>1
<1> QED BY <1>1, <1>10, <1>11 DEF Quotient

(* The digits of n, which are size many; all that is left of n behind them is nothing. *)
Numeral(s, n, q, size) ==
  /\ size \in 1 .. n + 1 /\ q[size] = 0 /\ \A j \in 1 .. size - 1 : q[j] # 0
  /\ s \in Seq(DigitSet) /\ Len(s) = size
  /\ \A j \in 1 .. size : s[j] \in DigitSet /\ RSP!Digit[s[j]] = q[size - j] % 10

LEMMA NumTextIs ==
  ASSUME NEW n \in Nat
  PROVE  \E q, size : Quotient(q, n) /\ Numeral(RSP!NumText(n), n, q, size)
<1> DEFINE q == RSP!Quotients(n)
           K == {k \in 1 .. n + 1 : q[k] = 0}
           size == RSP!Smallest(K)
           s == [j \in 1 .. size |-> RSP!Digits[(q[size - j] % 10) + 1]]
<1>1. Quotient(q, n)
  BY QuotientsAre
<1>2. RSP!NumText(n) = s
  BY DEF RSP!NumText
<1> HIDE DEF q
<1>3. n + 1 \in K
  <2> DEFINE T == {i \in 0 .. n + 1 : q[i] = 0 \/ q[i] + i <= n}
  <2>1. 0 \in T
    BY <1>1 DEF Quotient
  <2>2. ASSUME NEW i \in 0 .. n + 1, i \in T, i # n + 1 PROVE i + 1 \in T
    <3>1. i + 1 \in 1 .. n + 1 /\ (i + 1) - 1 = i /\ i + 1 \in 0 .. n + 1
      BY <2>2
    <3>2. q[i] \in Nat /\ q[i + 1] = q[i] \div 10 /\ (q[i] = 0 \/ q[i] + i <= n)
      BY <1>1, <2>2, <3>1 DEF Quotient
    <3>3. q[i + 1] = 0 \/ q[i + 1] + (i + 1) <= n
      BY <3>1, <3>2
    <3> QED BY <3>1, <3>3
  <2>3. 0 .. n + 1 \subseteq T
    <3> HIDE DEF T
    <3> QED BY <2>1, <2>2, BoundedInduction
  <2>4. n + 1 \in 0 .. n + 1 /\ n + 1 \in 1 .. n + 1
    OBVIOUS
  <2>5. q[n + 1] = 0 \/ q[n + 1] + (n + 1) <= n
    BY <2>3, <2>4
  <2>6. q[n + 1] \in Nat
    BY <1>1, <2>4 DEF Quotient
  <2> QED BY <2>4, <2>5, <2>6
<1>4. size \in K /\ \A j \in K : size <= j
  <2>1. K \subseteq Nat /\ K # {}
    BY <1>3
  <2> HIDE DEF K
  <2> QED BY <2>1, SmallestIs
<1>5. size \in 1 .. n + 1 /\ q[size] = 0
  BY <1>4
<1>6. ASSUME NEW j \in 1 .. size - 1 PROVE q[j] # 0
  <2>1. j \in 1 .. n + 1 /\ j < size /\ size \in Nat
    BY <1>5
  <2> HIDE DEF size
  <2> QED BY <1>4, <2>1
<1> HIDE DEF size
<1>7. ASSUME NEW j \in 1 .. size PROVE s[j] \in DigitSet /\ RSP!Digit[s[j]] = q[size - j] % 10
  <2>1. size - j \in 0 .. n + 1 /\ q[size - j] \in Nat
    BY <1>1, <1>5 DEF Quotient
  <2>2. (q[size - j] % 10) + 1 \in 1 .. 10 /\ ((q[size - j] % 10) + 1) - 1 = q[size - j] % 10
    BY <2>1
  <2>3. s[j] = RSP!Digits[(q[size - j] % 10) + 1]
    OBVIOUS
  <2> QED BY <2>2, <2>3, DigitIs
<1>8. s \in Seq(DigitSet) /\ Len(s) = size
  <2>1. s \in [1 .. size -> DigitSet] /\ size \in Nat
    BY <1>5, <1>7
  <2> HIDE DEF s
  <2> QED BY <2>1
<1> QED BY <1>1, <1>2, <1>5, <1>6, <1>7, <1>8 DEF Numeral

Reads(v, s) == /\ v \in [0 .. Len(s) -> Nat] /\ v[0] = 0
               /\ \A n \in 1 .. Len(s) : v[n] = 10 * v[n - 1] + RSP!Digit[s[n]]

LEMMA ValueIs ==
  ASSUME NEW s \in Seq(DigitSet)
  PROVE  \E v : Reads(v, s) /\ RSP!Value(s) = v[Len(s)]
<1> DEFINE N == Len(s)
           st == [v \in Nat |-> [i \in 1 .. N |-> 10 * v + RSP!Digit[s[i]]]]
           E(g) == g = [n \in 0 .. N |-> IF n = 0 THEN 0 ELSE 10 * g[n - 1] + RSP!Digit[s[n]]]
           f == CHOOSE g : E(g)
<1>1. RSP!Value(s) = f[N]
  BY DEF RSP!Value
<1>2. N \in Nat /\ \A i \in 1 .. N : RSP!Digit[s[i]] \in Nat
  <2>1. \A i \in 1 .. N : s[i] \in DigitSet
    BY ElementOfSeq
  <2>2. \A d \in DigitSet : RSP!Digit[d] \in Nat
    BY DigitIs
  <2> QED BY <2>1, <2>2
<1>3. st \in [Nat -> [1 .. N -> Nat]] /\ \A v \in Nat, i \in 1 .. N : st[v][i] = 10 * v + RSP!Digit[s[i]]
  BY <1>2
<1> HIDE DEF st
<1>0. Recurses(N, Nat, 0, st)
  BY <1>2, <1>3, RecFcn
<1>4. PICK w \in [0 .. N -> Nat] : w[0] = 0 /\ \A i \in 1 .. N : w[i] = st[w[i - 1]][i]
  BY <1>0 DEF Recurses
<1>5. ASSUME NEW i \in 1 .. N PROVE w[i] = 10 * w[i - 1] + RSP!Digit[s[i]]
  <2>1. i - 1 \in 0 .. N /\ w[i - 1] \in Nat
    BY <1>2
  <2> QED BY <1>3, <1>4, <2>1
<1>6. E(w)
  <2>1. w = [n \in 0 .. N |-> w[n]]
    OBVIOUS
  <2>2. ASSUME NEW n \in 0 .. N PROVE w[n] = IF n = 0 THEN 0 ELSE 10 * w[n - 1] + RSP!Digit[s[n]]
    BY <1>4, <1>5
  <2> QED BY <2>1, <2>2
<1>7. E(f)
  BY <1>6
<1> HIDE DEF f
<1>8. ASSUME NEW n \in 0 .. N PROVE f[n] = IF n = 0 THEN 0 ELSE 10 * f[n - 1] + RSP!Digit[s[n]]
  BY <1>7
<1>9. f = [n \in 0 .. N |-> f[n]]
  BY <1>7
<1> HIDE DEF E
<1> DEFINE T == {n \in 0 .. N : f[n] \in Nat}
<1>10. 0 .. N \subseteq T
  <2>1. 0 \in T
    BY <1>2, <1>8
  <2>2. ASSUME NEW n \in 0 .. N, n \in T, n # N PROVE n + 1 \in T
    <3>1. n + 1 \in 0 .. N /\ n + 1 \in 1 .. N /\ n + 1 # 0 /\ (n + 1) - 1 = n /\ f[n] \in Nat
      BY <1>2, <2>2
    <3>2. f[n + 1] = 10 * f[n] + RSP!Digit[s[n + 1]]
      BY <1>8, <3>1
    <3> QED BY <1>2, <3>1, <3>2
  <2> HIDE DEF T
  <2> QED BY <1>2, <2>1, <2>2, BoundedInduction
<1>11. f \in [0 .. N -> Nat]
  <2>1. \A n \in 0 .. N : f[n] \in Nat
    BY <1>10
  <2> HIDE DEF T
  <2> QED BY <1>9, <2>1
<1>12. f[0] = 0 /\ \A n \in 1 .. N : f[n] = 10 * f[n - 1] + RSP!Digit[s[n]]
  <2>1. 0 \in 0 .. N /\ \A n \in 1 .. N : n \in 0 .. N /\ n # 0
    BY <1>2
  <2> HIDE DEF T
  <2> QED BY <1>8, <2>1
<1> QED BY <1>1, <1>11, <1>12 DEF Reads

LEMMA TenTimes ==
  ASSUME NEW a \in Nat
  PROVE  10 * (a \div 10) + (a % 10) = a
OBVIOUS

LEMMA NumValue ==
  ASSUME NEW n \in Nat
  PROVE  RSP!Value(RSP!NumText(n)) = n
<1> DEFINE s == RSP!NumText(n)
<1>1. PICK q, size : Quotient(q, n) /\ Numeral(s, n, q, size)
  BY NumTextIs
<1>2. PICK v : Reads(v, s) /\ RSP!Value(s) = v[Len(s)]
  BY <1>1, ValueIs DEF Numeral
<1> HIDE DEF s
<1>3. size \in Nat /\ size >= 1 /\ Len(s) = size /\ size <= n + 1
  BY <1>1 DEF Numeral
<1> DEFINE T == {j \in 0 .. size : v[j] = q[size - j]}
<1>4. 0 \in T
  BY <1>1, <1>2, <1>3 DEF Reads, Numeral
<1>5. ASSUME NEW j \in 0 .. size, j \in T, j # size PROVE j + 1 \in T
  <2>1. j + 1 \in 1 .. size /\ (j + 1) - 1 = j /\ size - j \in 1 .. n + 1 /\ (size - j) - 1 = size - (j + 1)
        /\ size - (j + 1) \in 0 .. n + 1
    BY <1>3, <1>5
  <2>2. q[size - j] = q[size - (j + 1)] \div 10 /\ q[size - (j + 1)] \in Nat
    BY <1>1, <2>1 DEF Quotient
  <2>3. v[j + 1] = 10 * v[j] + RSP!Digit[s[j + 1]] /\ RSP!Digit[s[j + 1]] = q[size - (j + 1)] % 10
    BY <1>1, <1>2, <1>3, <2>1 DEF Numeral, Reads
  <2>4. v[j] = q[size - j]
    BY <1>5
  <2>5. v[j + 1] = 10 * v[j] + (q[size - (j + 1)] % 10)
    BY <2>3
  <2>6. v[j + 1] = q[size - (j + 1)]
    BY <2>2, <2>4, <2>5, TenTimes
  <2> QED BY <2>1, <2>6
<1>6. 0 .. size \subseteq T
  <2> HIDE DEF T
  <2> QED BY <1>3, <1>4, <1>5, BoundedInduction
<1>7. v[size] = q[0]
  BY <1>3, <1>6
<1> QED BY <1>1, <1>2, <1>3, <1>7 DEF s, Quotient

(* A beginning of the digits of n, all of them or less, is a number too, and not 0 if n has more. *)
LEMMA NumPart ==
  ASSUME NEW n \in Nat
  PROVE  /\ RSP!NumText(n) \in Seq(DigitSet) /\ Len(RSP!NumText(n)) \in Nat \ {0}
         /\ Len(RSP!NumText(n)) > 1 => RSP!Digit[RSP!NumText(n)[1]] >= 1
<1> DEFINE s == RSP!NumText(n)
<1>1. PICK q, size : Quotient(q, n) /\ Numeral(s, n, q, size)
  BY NumTextIs
<1> HIDE DEF s
<1>2. s \in Seq(DigitSet) /\ Len(s) = size /\ size \in Nat \ {0}
  BY <1>1 DEF Numeral
<1>3. ASSUME size > 1 PROVE RSP!Digit[s[1]] >= 1
  <2>1. size - 1 \in 1 .. size - 1 /\ size - 1 \in 0 .. n + 1 /\ size \in 1 .. n + 1 /\ 1 \in 1 .. size
    BY <1>1, <1>2, <1>3 DEF Numeral
  <2>2. q[size - 1] # 0 /\ q[size] = 0 /\ RSP!Digit[s[1]] = q[size - 1] % 10
    BY <1>1, <2>1 DEF Numeral
  <2>3. q[size - 1] \in Nat /\ q[size] = q[size - 1] \div 10
    BY <1>1, <2>1 DEF Quotient
  <2> QED BY <2>2, <2>3
<1> QED BY <1>2, <1>3 DEF s

LEMMA ValueGrows ==
  ASSUME NEW s \in Seq(DigitSet)
  PROVE  /\ RSP!Value(s) \in Nat
         /\ s # << >> /\ RSP!Digit[s[1]] >= 1 => RSP!Value(s) >= 1
<1>1. PICK v : Reads(v, s) /\ RSP!Value(s) = v[Len(s)]
  BY ValueIs
<1>2. Len(s) \in Nat /\ \A i \in 1 .. Len(s) : RSP!Digit[s[i]] \in Nat
  <2>1. \A i \in 1 .. Len(s) : s[i] \in DigitSet
    BY ElementOfSeq
  <2>2. \A d \in DigitSet : RSP!Digit[d] \in Nat
    BY DigitIs
  <2> QED BY <2>1, <2>2
<1>3. v[Len(s)] \in Nat
  BY <1>1, <1>2 DEF Reads
<1>4. ASSUME s # << >>, RSP!Digit[s[1]] >= 1 PROVE v[Len(s)] >= 1
  <2> DEFINE T == {n \in 0 .. Len(s) : n > 0 => v[n] >= 1}
  <2>1. Len(s) >= 1
    BY <1>2, <1>4, EmptySeq
  <2>2. 0 \in T
    BY <1>2
  <2>3. ASSUME NEW n \in 0 .. Len(s), n \in T, n # Len(s) PROVE n + 1 \in T
    <3>1. n + 1 \in 1 .. Len(s) /\ (n + 1) - 1 = n /\ n + 1 \in 0 .. Len(s)
      BY <1>2, <2>3
    <3>2. v[n + 1] = 10 * v[n] + RSP!Digit[s[n + 1]] /\ v[n] \in Nat
      BY <1>1, <3>1 DEF Reads
    <3>3. v[n + 1] >= 1
      BY <1>2, <1>4, <2>3, <3>1, <3>2
    <3> QED BY <3>1, <3>3
  <2>4. 0 .. Len(s) \subseteq T
    <3> HIDE DEF T
    <3> QED BY <1>2, <2>2, <2>3, BoundedInduction
  <2> QED BY <1>2, <2>1, <2>4
<1> QED BY <1>1, <1>3, <1>4

(***************************************************************************)
(* What parse makes of the beginning of a length.                          *)
(***************************************************************************)
(* The first m symbols of a line with its CR LF, as the tokenizer returns them. *)
CutTo(l, m) == IF m <= Len(l) THEN SubSeq(l, 1, m) ELSE IF m = Len(l) + 1 THEN Append(l, "CR") ELSE l

LEMMA CutToIs ==
  ASSUME NEW S, NEW l \in Seq(S), "CR" \in S, NEW m \in Nat
  PROVE  /\ CutTo(l, m) \in Seq(S)
         /\ Len(CutTo(l, m)) = IF m <= Len(l) THEN m ELSE IF m = Len(l) + 1 THEN m ELSE Len(l)
         /\ \A i \in 1 .. Len(l) : i <= m => CutTo(l, m)[i] = l[i]
         /\ m = Len(l) + 1 => CutTo(l, m)[m] = "CR"
<1>1. Len(l) \in Nat /\ \A i \in 1 .. Len(l) : l[i] \in S
  BY ElementOfSeq, LenProperties
<1>2. CASE m <= Len(l)
  <2>1. SubSeq(l, 1, m) \in Seq(S) /\ Len(SubSeq(l, 1, m)) = m /\ \A i \in 1 .. m : SubSeq(l, 1, m)[i] = l[i]
    BY <1>1, <1>2
  <2>2. CutTo(l, m) = SubSeq(l, 1, m)
    BY <1>2 DEF CutTo
  <2> QED BY <1>1, <1>2, <2>1, <2>2
<1>3. CASE m = Len(l) + 1
  <2>1. CutTo(l, m) = Append(l, "CR") /\ ~(m <= Len(l))
    BY <1>1, <1>3 DEF CutTo
  <2>2. /\ Append(l, "CR") \in Seq(S) /\ Len(Append(l, "CR")) = Len(l) + 1 /\ Append(l, "CR")[Len(l) + 1] = "CR"
        /\ \A i \in 1 .. Len(l) : Append(l, "CR")[i] = l[i]
    BY AppendProperties
  <2> QED BY <1>3, <2>1, <2>2
<1>4. CASE m > Len(l) + 1
  <2>1. CutTo(l, m) = l /\ ~(m <= Len(l)) /\ m # Len(l) + 1
    BY <1>1, <1>4 DEF CutTo
  <2> QED BY <2>1
<1> QED BY <1>1, <1>2, <1>3, <1>4

(* The rest of a line that begins with the symbol c. *)
LEMMA TailOfCut ==
  ASSUME NEW c \in Symbols, NEW s \in SymSeq, NEW m \in Nat \ {0}
  PROVE  /\ <<c>> \o s \in SymSeq /\ Len(<<c>> \o s) = Len(s) + 1
         /\ CutTo(<<c>> \o s, m) # << >> /\ Head(CutTo(<<c>> \o s, m)) = c
         /\ Tail(CutTo(<<c>> \o s, m)) = CutTo(s, m - 1)
<1> DEFINE l == <<c>> \o s
           x == CutTo(l, m)
           y == CutTo(s, m - 1)
<1>1. <<c>> \in SymSeq /\ Len(<<c>>) = 1 /\ <<c>>[1] = c /\ "CR" \in Symbols /\ Len(s) \in Nat
  <2>1. <<c>> \in SymSeq /\ Len(<<c>>) = 1 /\ <<c>>[1] = c
    BY DEF SymSeq
  <2>2. "CR" \in Symbols
    BY SymbolsAre
  <2>3. Len(s) \in Nat
    BY LenProperties DEF SymSeq
  <2> QED BY <2>1, <2>2, <2>3
<1>2. l \in SymSeq /\ Len(l) = Len(s) + 1 /\ l[1] = c /\ \A i \in 1 .. Len(s) : l[i + 1] = s[i]
  <2>1. l \in SymSeq /\ Len(l) = 1 + Len(s)
        /\ \A i \in 1 .. 1 + Len(s) : l[i] = IF i <= 1 THEN <<c>>[i] ELSE s[i - 1]
    BY <1>1, ConcatProperties DEF SymSeq
  <2>2. 1 \in 1 .. 1 + Len(s) /\ \A i \in 1 .. Len(s) : i + 1 \in 1 .. 1 + Len(s) /\ ~(i + 1 <= 1) /\ (i + 1) - 1 = i
    BY <1>1
  <2> HIDE DEF l
  <2> QED BY <1>1, <2>1, <2>2
<1> HIDE DEF l
<1>3. m - 1 \in Nat
  OBVIOUS
<1>4. /\ x \in SymSeq /\ Len(x) = IF m <= Len(l) THEN m ELSE IF m = Len(l) + 1 THEN m ELSE Len(l)
      /\ \A i \in 1 .. Len(l) : i <= m => x[i] = l[i]
      /\ m = Len(l) + 1 => x[m] = "CR"
  BY <1>1, <1>2, CutToIs DEF SymSeq
<1>5. /\ y \in SymSeq /\ Len(y) = IF m - 1 <= Len(s) THEN m - 1 ELSE IF m - 1 = Len(s) + 1 THEN m - 1 ELSE Len(s)
      /\ \A i \in 1 .. Len(s) : i <= m - 1 => y[i] = s[i]
      /\ m - 1 = Len(s) + 1 => y[m - 1] = "CR"
  BY <1>1, <1>3, CutToIs DEF SymSeq
<1> HIDE DEF x, y
<1>6. Len(x) = Len(y) + 1 /\ Len(x) >= 1 /\ x[1] = c
  BY <1>1, <1>2, <1>4, <1>5
<1>7. x # << >>
  BY <1>4, <1>6, EmptySeq DEF SymSeq
<1>8. Head(x) = c /\ Tail(x) \in SymSeq /\ Len(Tail(x)) = Len(x) - 1 /\ \A i \in 1 .. Len(Tail(x)) : Tail(x)[i] = x[i + 1]
  <2>1. Head(x) = x[1]
    BY <1>4, <1>7 DEF SymSeq
  <2> QED BY <1>4, <1>6, <1>7, <2>1, HeadTailProperties DEF SymSeq
<1>9. ASSUME NEW i \in 1 .. Len(y) PROVE x[i + 1] = y[i]
  <2>0. Len(y) \in Nat
    BY <1>5, LenProperties DEF SymSeq
  <2>1. CASE i <= Len(s)
    <3>1. i + 1 \in 1 .. Len(l) /\ i + 1 <= m /\ i \in 1 .. Len(s) /\ i <= m - 1
      BY <1>1, <1>2, <1>5, <2>0, <2>1
    <3>2. x[i + 1] = l[i + 1] /\ y[i] = s[i] /\ l[i + 1] = s[i]
      BY <1>2, <1>4, <1>5, <3>1
    <3> QED BY <3>2
  <2>2. CASE i > Len(s)
    <3>1. m - 1 = Len(s) + 1 /\ i = m - 1 /\ m = Len(l) + 1 /\ i + 1 = m
      BY <1>1, <1>2, <1>5, <2>0, <2>2
    <3> QED BY <1>4, <1>5, <3>1
  <2> QED BY <1>1, <2>0, <2>1, <2>2
<1>10. Tail(x) = y
  <2>1. Len(Tail(x)) = Len(y) /\ Len(y) \in Nat
    BY <1>5, <1>6, <1>8, LenProperties DEF SymSeq
  <2> QED BY <1>5, <1>8, <1>9, <2>1, SeqEqual DEF SymSeq
<1> QED BY <1>2, <1>7, <1>8, <1>10 DEF l, x, y

(* Digits, one or more, are a number. *)
LEMMA DigitsRead ==
  ASSUME NEW s \in Seq(DigitSet), s # << >>
  PROVE  RSP!IsInt(s) /\ RSP!IntOf(s) = RSP!Value(s) /\ s[1] \in DigitSet
<1>1. Len(s) \in Nat /\ Len(s) >= 1 /\ \A i \in 1 .. Len(s) : s[i] \in DigitSet
  BY ElementOfSeq, LenProperties, EmptySeq
<1>2. s[1] \in DigitSet /\ s[1] \notin {"+", "-"}
  BY <1>1, DigitIs
<1>3. Head(s) = s[1]
  OBVIOUS
<1>4. RSP!Unsigned(s) = s
  BY <1>2, <1>3 DEF RSP!Unsigned
<1> QED BY <1>1, <1>2, <1>3, <1>4, DigitIs DEF RSP!IsInt, RSP!IntOf

(* What ends in a CR, or is empty, or only a sign, is none. *)
LEMMA NotNumbers ==
  /\ ~RSP!IsInt(<< >>)
  /\ ~RSP!IsInt(<<"-">>)
  /\ \A s \in SymSeq : s # << >> /\ s[Len(s)] = "CR" => ~RSP!IsInt(s)
<1>1. ~RSP!IsInt(<< >>)
  BY DEF RSP!IsInt, RSP!Unsigned
<1>2. ~RSP!IsInt(<<"-">>)
  <2>1. <<"-">> # << >> /\ Head(<<"-">>) = "-" /\ Tail(<<"-">>) = << >>
    OBVIOUS
  <2> QED BY <2>1 DEF RSP!IsInt, RSP!Unsigned
<1>3. ASSUME NEW s \in SymSeq, s # << >>, s[Len(s)] = "CR", RSP!IsInt(s) PROVE FALSE
  <2>1. Len(s) \in Nat /\ Len(s) >= 1 /\ Head(s) = s[1]
    BY <1>3, LenProperties, EmptySeq DEF SymSeq
  <2>2. "CR" \notin DOMAIN RSP!Digit
    BY DigitIs
  <2>3. CASE s[1] \in {"+", "-"}
    <3>1. RSP!Unsigned(s) = Tail(s)
      BY <1>3, <2>1, <2>3 DEF RSP!Unsigned
    <3>2. Len(s) # 1
      BY <1>3, <2>3
    <3>3. Len(Tail(s)) = Len(s) - 1 /\ \A i \in 1 .. Len(Tail(s)) : Tail(s)[i] = s[i + 1]
      BY <1>3, HeadTailProperties DEF SymSeq
    <3>4. Len(s) - 1 \in 1 .. Len(Tail(s)) /\ Tail(s)[Len(s) - 1] = "CR"
      BY <1>3, <2>1, <3>2, <3>3
    <3> QED BY <1>3, <2>2, <3>1, <3>4 DEF RSP!IsInt
  <2>4. CASE s[1] \notin {"+", "-"}
    <3>1. RSP!Unsigned(s) = s
      BY <2>1, <2>4 DEF RSP!Unsigned
    <3> QED BY <1>3, <2>1, <2>2, <3>1 DEF RSP!IsInt
  <2> QED BY <2>3, <2>4
<1> QED BY <1>1, <1>2, <1>3

LEMMA MinusOne == RSP!IsInt(<<"-", "1">>) /\ RSP!IntOf(<<"-", "1">>) = -1
<1> DEFINE s == <<"-", "1">>
<1>1. "1" = RSP!Digits[2] /\ 2 \in 1 .. 10
  BY DEF RSP!Digits
<1>2. "1" \in DigitSet /\ RSP!Digit["1"] = 1
  BY <1>1, DigitIs
<1>3. s # << >> /\ Head(s) = "-" /\ Tail(s) = <<"1">>
  OBVIOUS
<1>4. RSP!Unsigned(s) = <<"1">>
  BY <1>3 DEF RSP!Unsigned
<1>5. <<"1">> \in Seq(DigitSet) /\ Len(<<"1">>) = 1 /\ <<"1">> # << >> /\ <<"1">>[1] = "1"
  BY <1>2
<1>6. RSP!Value(<<"1">>) = 1
  <2>1. PICK v : Reads(v, <<"1">>) /\ RSP!Value(<<"1">>) = v[Len(<<"1">>)]
    BY <1>5, ValueIs
  <2>2. v[1] = 10 * v[0] + RSP!Digit["1"] /\ v[0] = 0
    BY <1>5, <2>1 DEF Reads
  <2> QED BY <1>2, <1>5, <2>1, <2>2
<1>7. RSP!IsInt(s)
  <2>1. \A i \in 1 .. Len(<<"1">>) : <<"1">>[i] \in DOMAIN RSP!Digit
    BY <1>2, <1>5, DigitIs
  <2> QED BY <1>4, <1>5, <2>1 DEF RSP!IsInt
<1>8. RSP!IntOf(s) = -1
  BY <1>3, <1>4, <1>6 DEF RSP!IntOf
<1> QED BY <1>7, <1>8

(* A cut length: it is a number if it has a digit and not its CR. *)
LEMMA CutNumber ==
  ASSUME NEW n \in Nat, NEW m \in Nat, NEW s, s = RSP!NumText(n), NEW c, c = CutTo(s, m)
  PROVE  /\ s \in SymSeq /\ Len(s) \in Nat \ {0} /\ c \in SymSeq
         /\ m = 0 => c = << >>
         /\ m # 0 => c # << >> /\ c[1] # "-"
         /\ m \in 1 .. Len(s) \/ m >= Len(s) + 2 =>
              /\ RSP!IsInt(c) /\ RSP!IntOf(c) \in Nat
              /\ n >= 1 => RSP!IntOf(c) >= 1
         /\ m >= Len(s) /\ m # Len(s) + 1 => RSP!IntOf(c) = n
         /\ m = Len(s) + 1 => ~RSP!IsInt(c)
<1>1. s \in Seq(DigitSet) /\ Len(s) \in Nat \ {0} /\ (Len(s) > 1 => RSP!Digit[s[1]] >= 1) /\ RSP!Value(s) = n
  BY NumPart, NumValue
<1>2. s \in SymSeq /\ \A i \in 1 .. Len(s) : s[i] \in DigitSet
  <2>1. DigitSet \subseteq Symbols
    BY DigitIs
  <2>2. \A i \in 1 .. Len(s) : s[i] \in DigitSet
    BY <1>1, ElementOfSeq
  <2> QED BY <1>1, <2>1, <2>2 DEF SymSeq
<1>3. "CR" \in Symbols /\ "CR" # "-"
  BY SymbolsAre
<1>4. /\ c \in SymSeq
      /\ Len(c) = IF m <= Len(s) THEN m ELSE IF m = Len(s) + 1 THEN m ELSE Len(s)
      /\ \A i \in 1 .. Len(s) : i <= m => c[i] = s[i]
      /\ m = Len(s) + 1 => c[m] = "CR"
  BY <1>2, <1>3, CutToIs DEF SymSeq
<1>5. m = 0 => c = << >>
  BY <1>1, <1>4, EmptySeq DEF SymSeq
<1>6. m # 0 => c # << >> /\ c[1] # "-" /\ c[1] = s[1]
  <2> HAVE m # 0
  <2>1. Len(c) >= 1 /\ c[1] = s[1]
    BY <1>1, <1>4
  <2>2. s[1] \in DigitSet
    BY <1>1, <1>2
  <2> QED BY <1>4, <2>1, <2>2, DigitIs, EmptySeq DEF SymSeq
<1>7. m = Len(s) + 1 => ~RSP!IsInt(c)
  BY <1>1, <1>4, <1>6, NotNumbers
<1>8. ASSUME m >= Len(s), m # Len(s) + 1 PROVE c = s
  <2>1. Len(c) = Len(s) /\ Len(c) \in Nat
    BY <1>1, <1>4, <1>8
  <2>2. \A i \in 1 .. Len(c) : c[i] = s[i]
    BY <1>1, <1>4, <1>8, <2>1
  <2> QED BY <1>2, <1>4, <2>1, <2>2, SeqEqual DEF SymSeq
<1>9. ASSUME m >= Len(s), m # Len(s) + 1 PROVE RSP!IsInt(c) /\ RSP!IntOf(c) = n
  <2>1. s # << >>
    BY <1>1
  <2> QED BY <1>1, <1>8, <1>9, <2>1, DigitsRead
<1>10. ASSUME m \in 1 .. Len(s), m # Len(s) PROVE RSP!IsInt(c) /\ RSP!IntOf(c) \in Nat /\ RSP!IntOf(c) >= 1
  <2>1. Len(c) = m /\ Len(s) > 1 /\ \A i \in 1 .. m : c[i] = s[i] /\ s[i] \in DigitSet
    BY <1>1, <1>2, <1>4, <1>10
  <2>2. c \in Seq(DigitSet)
    <3>1. c = [i \in 1 .. m |-> c[i]]
      BY <1>4, <2>1 DEF SymSeq
    <3>2. \A i \in 1 .. m : c[i] \in DigitSet
      BY <2>1
    <3>3. c \in [1 .. m -> DigitSet]
      BY <3>1, <3>2
    <3> QED BY <3>3
  <2>3. c # << >> /\ RSP!Digit[c[1]] >= 1
    BY <1>1, <1>6, <1>10
  <2> QED BY <2>2, <2>3, DigitsRead, ValueGrows
<1> QED BY <1>1, <1>2, <1>4, <1>5, <1>6, <1>7, <1>9, <1>10

LEMMA CutMinusOne ==
  ASSUME NEW m \in Nat, NEW c, c = CutTo(<<"-", "1">>, m)
  PROVE  /\ m = 0 => c = << >>
         /\ m = 1 => c = <<"-">>
         /\ m = 3 => c = <<"-", "1", "CR">>
         /\ m = 2 \/ m >= 4 => c = <<"-", "1">>
<1> DEFINE s == <<"-", "1">>
           S == {"-", "1", "CR"}
<1>1. Len(s) = 2 /\ s \in Seq(S) /\ s[1] = "-" /\ s[2] = "1"
  OBVIOUS
<1>2. m = 0 => c = << >>
  <2>1. SubSeq(s, 1, 0) = << >>
    OBVIOUS
  <2> QED BY <1>1, <2>1 DEF CutTo
<1>3. m = 1 => c = <<"-">>
  <2> DEFINE x == SubSeq(s, 1, 1)
  <2>1. x \in Seq(S) /\ Len(x) = 1 /\ x[1] = "-"
    BY <1>1
  <2>2. <<"-">> \in Seq(S) /\ Len(<<"-">>) = 1 /\ <<"-">>[1] = "-"
    OBVIOUS
  <2>3. x = <<"-">>
    <3> HIDE DEF x
    <3> QED BY <2>1, <2>2, SeqEqual
  <2> QED BY <1>1, <2>3 DEF CutTo
<1>4. m = 3 => c = <<"-", "1", "CR">>
  <2> DEFINE x == Append(s, "CR")
             y == <<"-", "1", "CR">>
  <2>1. x \in Seq(S) /\ Len(x) = 3 /\ x[1] = "-" /\ x[2] = "1" /\ x[3] = "CR"
    BY <1>1, AppendProperties
  <2>2. y \in Seq(S) /\ Len(y) = 3 /\ y[1] = "-" /\ y[2] = "1" /\ y[3] = "CR"
    OBVIOUS
  <2>3. x = y
    <3> HIDE DEF x, y
    <3> QED BY <2>1, <2>2, SeqEqual
  <2> QED BY <1>1, <2>3 DEF CutTo
<1>5. m = 2 => c = s
  <2> DEFINE x == SubSeq(s, 1, 2)
  <2>1. x \in Seq(S) /\ Len(x) = 2 /\ x[1] = "-" /\ x[2] = "1"
    BY <1>1
  <2>2. x = s
    <3> HIDE DEF x, s
    <3> QED BY <1>1, <2>1, SeqEqual
  <2> QED BY <1>1, <2>2 DEF CutTo
<1>6. m >= 4 => c = s
  BY <1>1 DEF CutTo
<1> QED BY <1>2, <1>3, <1>4, <1>5, <1>6

(***************************************************************************)
(* The lines of what was read: raw is the first got symbols of W, and l a  *)
(* line of W that begins at i.                                             *)
(***************************************************************************)
Occurs(W, i, s) == i \in Nat \ {0} /\ i + Len(s) - 1 <= Len(W) /\ \A k \in 1 .. Len(s) : W[i + k - 1] = s[k]

LineAt(W, i, l) ==
  /\ l \in SymSeq /\ RSP!Plain(l)
  /\ Occurs(W, i, l)
  /\ i + Len(l) + 1 <= Len(W) /\ W[i + Len(l)] = "CR" /\ W[i + Len(l) + 1] = "LF"

Begun(raw, W, got) ==
  /\ W \in SymSeq /\ got \in 0 .. Len(W)
  /\ raw \in SymSeq /\ Len(raw) = got /\ \A i \in 1 .. got : raw[i] = W[i]

(* The iterator's index before the line at i: the CR LF in front of it, or the start. *)
Before(W, got, at, i) ==
  \/ at = 1 /\ i = 1
  \/ at \in Nat \ {0} /\ at = i - 2 /\ W[at] = "CR" /\ W[at + 1] = "LF" /\ got >= i - 1

LEMMA EolIs ==
  ASSUME NEW W, NEW got, NEW raw, Begun(raw, W, got), NEW j \in Int
  PROVE  RSP!EolAt(raw, j) <=> j \in 1 .. got - 1 /\ W[j] = "CR" /\ W[j + 1] = "LF"
<1>1. got \in Nat /\ Len(raw) = got /\ \A i \in 1 .. got : raw[i] = W[i]
  BY LenProperties DEF Begun, SymSeq
<1>2. j \in 1 .. got - 1 => j \in 1 .. got /\ j + 1 \in 1 .. got
  BY <1>1
<1> QED BY <1>1, <1>2 DEF RSP!EolAt

LEMMA LineIs ==
  ASSUME NEW W, NEW got, NEW raw, Begun(raw, W, got), NEW i, NEW l, LineAt(W, i, l)
  PROVE  /\ i \in Nat \ {0} /\ Len(l) \in Nat \ {0} /\ got \in Nat
         /\ \A j \in i .. i + Len(l) - 1 : ~RSP!EolAt(raw, j)
         /\ \A j \in i .. i + Len(l) - 1 : W[j] = l[j - i + 1]
         /\ RSP!EolAt(raw, i + Len(l)) <=> got >= i + Len(l) + 1
<1>1. i \in Nat \ {0} /\ Len(l) \in Nat \ {0} /\ got \in Nat
  BY LenProperties, EmptySeq DEF LineAt, Begun, Occurs, SymSeq, RSP!Plain
<1>2. ASSUME NEW j \in i .. i + Len(l) - 1 PROVE W[j] = l[j - i + 1]
  <2>1. j - i + 1 \in 1 .. Len(l) /\ i + (j - i + 1) - 1 = j
    BY <1>1
  <2> QED BY <2>1 DEF LineAt, Occurs
<1>3. ASSUME NEW j \in i .. i + Len(l) - 1 PROVE ~RSP!EolAt(raw, j)
  <2>1. RSP!EolAt(raw, j) => W[j] = "CR" /\ W[j + 1] = "LF"
    BY <1>1, EolIs
  <2>2. CASE j = i + Len(l) - 1
    <3>1. W[j + 1] = "CR"
      BY <1>1, <2>2 DEF LineAt
    <3> QED BY <2>1, <3>1
  <2>3. CASE j # i + Len(l) - 1
    <3>1. /\ j + 1 \in i .. i + Len(l) - 1 /\ (j + 1) - i + 1 = (j - i + 1) + 1
          /\ j - i + 1 \in 1 .. Len(l) - 1
      BY <1>1, <2>3
    <3>2. ~RSP!EolAt(l, j - i + 1)
      BY <3>1 DEF LineAt, RSP!Plain
    <3>3. W[j] = l[j - i + 1] /\ W[j + 1] = l[(j - i + 1) + 1]
      BY <1>2, <3>1
    <3> QED BY <2>1, <3>1, <3>2, <3>3 DEF RSP!EolAt
  <2> QED BY <2>2, <2>3
<1>4. RSP!EolAt(raw, i + Len(l)) <=> got >= i + Len(l) + 1
  <2>1. i + Len(l) \in 1 .. got - 1 <=> got >= i + Len(l) + 1
    BY <1>1
  <2>2. W[i + Len(l)] = "CR" /\ W[i + Len(l) + 1] = "LF" /\ i + Len(l) \in Int
    BY <1>1 DEF LineAt
  <2> QED BY <2>1, <2>2, EolIs
<1> QED BY <1>1, <1>2, <1>3, <1>4

(* The index at which next() finds the line. *)
LEMMA FoundAt ==
  ASSUME NEW W, NEW got, NEW raw, Begun(raw, W, got), NEW i, NEW l, LineAt(W, i, l),
         NEW at, Before(W, got, at, i)
  PROVE  /\ got - i + 1 \in Nat /\ at \in Nat
         /\ got - i + 1 = 0 => ~RSP!HasLine(raw, at)
         /\ got - i + 1 # 0 => RSP!Begins(raw, i) /\ RSP!LineFrom(raw, at) = i /\ RSP!HasLine(raw, at)
<1>1. i \in Nat \ {0} /\ Len(l) \in Nat \ {0} /\ got \in Nat /\ Len(raw) = got /\ i \in i .. i + Len(l) - 1
  <2>1. i \in Nat \ {0} /\ Len(l) \in Nat \ {0} /\ got \in Nat
    BY LineIs
  <2> QED BY <2>1 DEF Begun
<1>2. got - i + 1 \in Nat /\ at \in Nat /\ at <= i
  BY <1>1 DEF Before
<1>3. ~RSP!EolAt(raw, i)
  BY <1>1, LineIs
<1>4. ASSUME NEW j \in at .. i - 1, RSP!Begins(raw, j) PROVE FALSE
  <2>1. at \in Nat \ {0} /\ at = i - 2 /\ W[at] = "CR" /\ W[at + 1] = "LF" /\ got >= i - 1 /\ j \in {i - 2, i - 1}
    BY <1>1, <1>4 DEF Before
  <2>2. RSP!EolAt(raw, i - 2)
    <3>1. i - 2 \in 1 .. got - 1 /\ i - 2 \in Int
      BY <1>1, <2>1
    <3> QED BY <2>1, <3>1, EolIs
  <2>3. j = i - 1 /\ i - 1 # 1 /\ RSP!EolAt(raw, (i - 1) - 2)
    BY <1>1, <1>4, <2>1, <2>2 DEF RSP!Begins
  <2>4. W[((i - 1) - 2) + 1] = "LF"
    <3>1. (i - 1) - 2 \in Int
      BY <1>1
    <3> QED BY <2>3, <3>1, EolIs
  <2>5. ((i - 1) - 2) + 1 = i - 2
    BY <1>1
  <2> QED BY <2>1, <2>4, <2>5
<1> DEFINE F == {j \in at .. Len(raw) : RSP!Begins(raw, j)} \cup {Len(raw) + 1}
<1>5. RSP!LineFrom(raw, at) = RSP!Smallest(F)
  BY DEF RSP!LineFrom
<1>6. F \subseteq Nat
  BY <1>1, <1>2
<1>7. ASSUME got - i + 1 = 0 PROVE ~RSP!HasLine(raw, at)
  <2>1. i = got + 1
    BY <1>1, <1>7
  <2>2. Len(raw) + 1 \in F /\ \A j \in F : Len(raw) + 1 <= j
    BY <1>1, <1>2, <1>4, <2>1
  <2>3. RSP!LineFrom(raw, at) = got + 1
    <3> HIDE DEF F
    <3> QED BY <1>1, <1>5, <1>6, <2>2, SmallestOnce
  <2> QED BY <1>1, <2>3 DEF RSP!HasLine
<1>8. ASSUME got - i + 1 # 0 PROVE RSP!Begins(raw, i) /\ RSP!LineFrom(raw, at) = i /\ RSP!HasLine(raw, at)
  <2>1. i <= got /\ i \in 1 .. Len(raw)
    BY <1>1, <1>2, <1>8
  <2>2. i = 1 \/ RSP!EolAt(raw, i - 2)
    <3>1. CASE at = 1 /\ i = 1
      BY <3>1
    <3>2. CASE at \in Nat \ {0} /\ at = i - 2 /\ W[at] = "CR" /\ W[at + 1] = "LF" /\ got >= i - 1
      <4>1. i - 2 \in 1 .. got - 1 /\ i - 2 \in Int
        BY <1>1, <3>2
      <4> QED BY <3>2, <4>1, EolIs
    <3> QED BY <3>1, <3>2 DEF Before
  <2>3. RSP!Begins(raw, i)
    BY <1>3, <2>1, <2>2 DEF RSP!Begins
  <2>4. i \in F /\ \A j \in F : i <= j
    BY <1>1, <1>2, <1>4, <2>1, <2>3
  <2>5. RSP!LineFrom(raw, at) = i
    <3> HIDE DEF F
    <3> QED BY <1>5, <1>6, <2>4, SmallestOnce
  <2> QED BY <1>1, <2>1, <2>3, <2>5 DEF RSP!HasLine
<1> QED BY <1>2, <1>7, <1>8

(* The line as next() returns it, and where it leaves the index. *)
LineRead(raw, at, i, l, got) ==
  LET m == got - i + 1
  IN  /\ RSP!HasLine(raw, at) /\ RSP!NextLine(raw, at) = CutTo(l, m)
      /\ RSP!Passed(raw, at) = IF m >= Len(l) + 2 THEN i + Len(l) ELSE got + 1

LEMMA ReadsLine ==
  ASSUME NEW W, NEW got, NEW raw, Begun(raw, W, got), NEW i, NEW l, LineAt(W, i, l),
         NEW at, Before(W, got, at, i), got - i + 1 # 0
  PROVE  LineRead(raw, at, i, l, got)
<1> DEFINE m == got - i + 1
           size == IF m >= Len(l) + 2 THEN Len(l) ELSE m
           G == {j \in i .. Len(raw) : RSP!EolAt(raw, j)} \cup {Len(raw) + 1}
<1>1. /\ i \in Nat \ {0} /\ Len(l) \in Nat \ {0} /\ got \in Nat /\ l \in SymSeq
      /\ raw \in SymSeq /\ Len(raw) = got /\ got <= Len(W) /\ Len(W) \in Nat
  <2>1. i \in Nat \ {0} /\ Len(l) \in Nat \ {0} /\ got \in Nat
    BY LineIs
  <2>2. raw \in SymSeq /\ Len(raw) = got /\ got <= Len(W) /\ Len(W) \in Nat
    BY LenProperties DEF Begun, SymSeq
  <2> QED BY <2>1, <2>2 DEF LineAt
<1>2. m \in Nat \ {0} /\ RSP!LineFrom(raw, at) = i /\ RSP!HasLine(raw, at)
  BY FoundAt
<1>3. size \in Nat /\ size >= 1 /\ size <= m
  BY <1>1, <1>2
<1>4. RSP!LineEnd(raw, i) = i + size
  <2>1. RSP!LineEnd(raw, i) = RSP!Smallest(G)
    BY DEF RSP!LineEnd
  <2>2. \A j \in i .. i + Len(l) - 1 : ~RSP!EolAt(raw, j)
    BY LineIs
  <2>3. G \subseteq Nat
    BY <1>1
  <2>4. CASE m >= Len(l) + 2
    <3>1. i + Len(l) \in i .. Len(raw) /\ RSP!EolAt(raw, i + Len(l))
      BY <1>1, <2>4, LineIs
    <3>2. i + Len(l) \in G /\ \A j \in G : i + Len(l) <= j
      BY <1>1, <2>2, <3>1
    <3>3. RSP!Smallest(G) = i + Len(l)
      <4> HIDE DEF G
      <4> QED BY <2>3, <3>2, SmallestOnce
    <3> QED BY <2>1, <2>4, <3>3
  <2>5. CASE m < Len(l) + 2
    <3>1. ASSUME NEW j \in i .. Len(raw), RSP!EolAt(raw, j) PROVE FALSE
      <4>1. j \in 1 .. got - 1
        <5>1. j \in Int
          BY <1>1
        <5> QED BY <3>1, <5>1, EolIs
      <4>2. j \in i .. i + Len(l) - 1
        BY <1>1, <2>5, <4>1
      <4> QED BY <2>2, <3>1, <4>2
    <3>2. got + 1 \in G /\ \A j \in G : got + 1 <= j
      BY <1>1, <3>1
    <3>3. RSP!Smallest(G) = got + 1
      <4> HIDE DEF G
      <4> QED BY <2>3, <3>2, SmallestOnce
    <3>4. i + size = got + 1
      BY <1>1, <2>5
    <3> QED BY <2>1, <3>3, <3>4
  <2> QED BY <1>1, <1>2, <2>4, <2>5
<1>5. RSP!Passed(raw, at) = i + size
  BY <1>2, <1>4 DEF RSP!Passed
<1>6. RSP!Passed(raw, at) = IF m >= Len(l) + 2 THEN i + Len(l) ELSE got + 1
  BY <1>1, <1>2, <1>5
<1> DEFINE x == SubSeq(raw, i, i + size - 1)
           y == CutTo(l, m)
<1>7. RSP!NextLine(raw, at) = x
  <2>1. RSP!NextLine(raw, at) = SubSeq(raw, i, RSP!LineEnd(raw, i) - 1)
    BY <1>2 DEF RSP!NextLine
  <2> HIDE DEF size
  <2> QED BY <1>1, <1>3, <1>4, <2>1
<1>8. x \in SymSeq /\ Len(x) = size /\ \A k \in 1 .. size : x[k] = raw[i + k - 1]
  <2>1. i \in 1 .. Len(raw) + 1 /\ i + size - 1 \in i - 1 .. Len(raw)
    BY <1>1, <1>3
  <2>2. /\ x \in SymSeq /\ Len(x) = IF i <= i + size - 1 THEN (i + size - 1) - i + 1 ELSE 0
        /\ \A k \in 1 .. (i + size - 1) - i + 1 : x[k] = raw[i + k - 1]
    BY <1>1, <2>1, SubSeqProperties DEF SymSeq
  <2>3. i <= i + size - 1 /\ (i + size - 1) - i + 1 = size
    BY <1>1, <1>3
  <2> HIDE DEF x
  <2> QED BY <2>2, <2>3
<1>9. /\ y \in SymSeq
      /\ Len(y) = IF m <= Len(l) THEN m ELSE IF m = Len(l) + 1 THEN m ELSE Len(l)
      /\ \A k \in 1 .. Len(l) : k <= m => y[k] = l[k]
      /\ m = Len(l) + 1 => y[m] = "CR"
  <2>1. "CR" \in Symbols /\ m \in Nat /\ l \in Seq(Symbols)
    BY <1>1, <1>2, SymbolsAre DEF SymSeq
  <2> HIDE DEF m
  <2> QED BY <2>1, CutToIs DEF SymSeq
<1> HIDE DEF x, y
<1>10. Len(y) = size
  BY <1>1, <1>2, <1>9
<1>11. ASSUME NEW k \in 1 .. size PROVE x[k] = y[k]
  <2>1. i + k - 1 \in 1 .. got /\ x[k] = W[i + k - 1]
    <3>1. i + k - 1 \in 1 .. got
      BY <1>1, <1>3
    <3> QED BY <1>8, <3>1 DEF Begun
  <2>2. CASE k <= Len(l)
    <3>1. k \in 1 .. Len(l) /\ k <= m
      BY <1>1, <1>2, <1>3, <2>2
    <3>2. W[i + k - 1] = l[k]
      BY <3>1 DEF LineAt, Occurs
    <3> QED BY <1>9, <2>1, <3>1, <3>2
  <2>3. CASE k > Len(l)
    <3>1. m = Len(l) + 1 /\ k = m /\ i + k - 1 = i + Len(l)
      BY <1>1, <1>2, <1>3, <2>3
    <3>2. W[i + Len(l)] = "CR"
      BY DEF LineAt
    <3> QED BY <1>9, <2>1, <3>1, <3>2
  <2> QED BY <1>1, <1>3, <2>2, <2>3
<1>12. x = y
  BY <1>8, <1>9, <1>10, <1>11, SeqEqual DEF SymSeq
<1> QED BY <1>2, <1>6, <1>7, <1>12 DEF LineRead, y

(* Behind the last symbol there is no line. *)
LEMMA NoneLeft ==
  ASSUME NEW W, NEW got, NEW raw, Begun(raw, W, got)
  PROVE  ~RSP!HasLine(raw, got + 1)
<1>1. got \in Nat /\ Len(raw) = got
  BY LenProperties DEF Begun, SymSeq
<1> DEFINE F == {j \in got + 1 .. Len(raw) : RSP!Begins(raw, j)} \cup {Len(raw) + 1}
<1>2. F = {got + 1}
  BY <1>1
<1>3. RSP!Smallest(F) = got + 1
  <2> HIDE DEF F
  <2> QED BY <1>1, <1>2, SmallestOnce
<1>4. RSP!LineFrom(raw, got + 1) = got + 1
  BY <1>3 DEF RSP!LineFrom
<1> QED BY <1>1, <1>4 DEF RSP!HasLine

(* When the whole line is there, the index is in front of the next one. *)
LEMMA NextBefore ==
  ASSUME NEW W, NEW got, NEW raw, Begun(raw, W, got), NEW i, NEW l, LineAt(W, i, l),
         NEW at, LineRead(raw, at, i, l, got)
  PROVE  /\ got - i + 1 >= Len(l) + 2 => Before(W, got, RSP!Passed(raw, at), i + Len(l) + 2)
         /\ got - i + 1 < Len(l) + 2 => RSP!Passed(raw, at) = got + 1
<1>1. i \in Nat \ {0} /\ Len(l) \in Nat \ {0} /\ got \in Nat
  BY LineIs
<1>2. ASSUME got - i + 1 >= Len(l) + 2 PROVE Before(W, got, RSP!Passed(raw, at), i + Len(l) + 2)
  <2>1. RSP!Passed(raw, at) = i + Len(l)
    BY <1>2 DEF LineRead
  <2>2. i + Len(l) \in Nat \ {0} /\ i + Len(l) = (i + Len(l) + 2) - 2 /\ got >= (i + Len(l) + 2) - 1
    BY <1>1, <1>2
  <2> QED BY <2>1, <2>2 DEF Before, LineAt
<1>3. ASSUME got - i + 1 < Len(l) + 2 PROVE RSP!Passed(raw, at) = got + 1
  BY <1>1, <1>3 DEF LineRead
<1> QED BY <1>2, <1>3

(***************************************************************************)
(* Where the lines of a reply are.                                         *)
(***************************************************************************)
LEMMA OccursBoth ==
  ASSUME NEW W \in SymSeq, NEW i, NEW a \in SymSeq, NEW b \in SymSeq, Occurs(W, i, a \o b)
  PROVE  Occurs(W, i, a) /\ Occurs(W, i + Len(a), b)
<1>1. Len(a) \in Nat /\ Len(b) \in Nat /\ Len(W) \in Nat /\ i \in Nat \ {0}
  BY LenProperties DEF SymSeq, Occurs
<1>2. Len(a \o b) = Len(a) + Len(b) /\ \A k \in 1 .. Len(a) + Len(b) : (a \o b)[k] = IF k <= Len(a) THEN a[k] ELSE b[k - Len(a)]
  BY ConcatProperties DEF SymSeq
<1>3. \A k \in 1 .. Len(a) + Len(b) : W[i + k - 1] = (a \o b)[k]
  BY <1>2 DEF Occurs
<1>4. i + (Len(a) + Len(b)) - 1 <= Len(W)
  BY <1>2 DEF Occurs
<1>5. ASSUME NEW k \in 1 .. Len(a) PROVE W[i + k - 1] = a[k]
  <2>1. k \in 1 .. Len(a) + Len(b) /\ k <= Len(a)
    BY <1>1
  <2> QED BY <1>2, <1>3, <2>1
<1>6. ASSUME NEW k \in 1 .. Len(b) PROVE W[(i + Len(a)) + k - 1] = b[k]
  <2>1. Len(a) + k \in 1 .. Len(a) + Len(b) /\ ~(Len(a) + k <= Len(a)) /\ (Len(a) + k) - Len(a) = k
        /\ (i + Len(a)) + k - 1 = i + (Len(a) + k) - 1
    BY <1>1
  <2>2. W[i + (Len(a) + k) - 1] = (a \o b)[Len(a) + k]
    BY <1>3, <2>1
  <2>3. (a \o b)[Len(a) + k] = b[k]
    BY <1>2, <2>1
  <2> QED BY <2>1, <2>2, <2>3
<1>7. i + Len(a) - 1 <= Len(W) /\ (i + Len(a)) + Len(b) - 1 <= Len(W) /\ i + Len(a) \in Nat \ {0}
  BY <1>1, <1>4
<1> QED BY <1>1, <1>5, <1>6, <1>7 DEF Occurs

LEMMA EolSeq == RSP!EOL \in SymSeq /\ Len(RSP!EOL) = 2 /\ RSP!EOL[1] = "CR" /\ RSP!EOL[2] = "LF"
<1>1. "CR" \in Symbols /\ "LF" \in Symbols
  BY SymbolsAre
<1> QED BY <1>1 DEF RSP!EOL, SymSeq

LEMMA LineOccurs ==
  ASSUME NEW W \in SymSeq, NEW i, NEW l \in SymSeq, RSP!Plain(l), Occurs(W, i, l), Occurs(W, i + Len(l), RSP!EOL)
  PROVE  LineAt(W, i, l)
<1>1. Len(l) \in Nat /\ Len(W) \in Nat /\ i \in Nat \ {0}
  BY LenProperties DEF SymSeq, Occurs
<1>2. i + Len(l) + 1 <= Len(W)
  BY <1>1, EolSeq DEF Occurs
<1>3. \A k \in 1 .. 2 : W[(i + Len(l)) + k - 1] = RSP!EOL[k]
  BY EolSeq DEF Occurs
<1>4. W[i + Len(l)] = "CR" /\ W[i + Len(l) + 1] = "LF"
  <2>1. (i + Len(l)) + 1 - 1 = i + Len(l) /\ (i + Len(l)) + 2 - 1 = i + Len(l) + 1 /\ 1 \in 1 .. 2 /\ 2 \in 1 .. 2
    BY <1>1
  <2>2. W[(i + Len(l)) + 1 - 1] = "CR" /\ W[(i + Len(l)) + 2 - 1] = "LF"
    BY <1>3, <2>1, EolSeq
  <2> QED BY <2>1, <2>2
<1> QED BY <1>2, <1>4 DEF LineAt

LEMMA HeadedPlain ==
  ASSUME NEW c \in Symbols, c # "CR", NEW s \in SymSeq, RSP!Plain(s)
  PROVE  <<c>> \o s \in SymSeq /\ Len(<<c>> \o s) = Len(s) + 1 /\ RSP!Plain(<<c>> \o s) /\ (<<c>> \o s)[1] = c
<1> DEFINE l == <<c>> \o s
<1>1. <<c>> \in SymSeq /\ Len(<<c>>) = 1 /\ <<c>>[1] = c
  BY DEF SymSeq
<1>2. Len(s) \in Nat
  BY LenProperties DEF SymSeq
<1>3. l \in SymSeq /\ Len(l) = 1 + Len(s) /\ \A k \in 1 .. 1 + Len(s) : l[k] = IF k <= 1 THEN <<c>>[k] ELSE s[k - 1]
  BY <1>1, ConcatProperties DEF SymSeq
<1> HIDE DEF l
<1>4. l[1] = c
  BY <1>1, <1>2, <1>3
<1>5. ASSUME NEW j \in 1 .. Len(l) - 1, RSP!EolAt(l, j) PROVE FALSE
  <2>1. l[j] = "CR" /\ l[j + 1] = "LF" /\ j # 1
    BY <1>4, <1>5 DEF RSP!EolAt
  <2>2. /\ j - 1 \in 1 .. Len(s) - 1 /\ j \in 1 .. 1 + Len(s) /\ j + 1 \in 1 .. 1 + Len(s)
        /\ ~(j <= 1) /\ ~(j + 1 <= 1) /\ (j + 1) - 1 = (j - 1) + 1
    BY <1>2, <1>3, <2>1
  <2>3. s[j - 1] = "CR" /\ s[(j - 1) + 1] = "LF"
    BY <1>3, <2>1, <2>2
  <2>4. ~RSP!EolAt(s, j - 1)
    BY <2>2 DEF RSP!Plain
  <2> QED BY <2>2, <2>3, <2>4 DEF RSP!EolAt
<1>6. l # << >>
  BY <1>2, <1>3, EmptySeq DEF SymSeq
<1>7. RSP!Plain(l)
  BY <1>5, <1>6 DEF RSP!Plain
<1> QED BY <1>2, <1>3, <1>4, <1>7 DEF l

(* Lengths are plain, those of nil too. *)
LEMMA LengthsPlain ==
  /\ \A n \in Nat : RSP!NumText(n) \in SymSeq /\ RSP!Plain(RSP!NumText(n)) /\ Len(RSP!NumText(n)) \in Nat \ {0}
  /\ <<"-", "1">> \in SymSeq /\ RSP!Plain(<<"-", "1">>) /\ Len(<<"-", "1">>) = 2
<1>1. ASSUME NEW n \in Nat
      PROVE  RSP!NumText(n) \in SymSeq /\ RSP!Plain(RSP!NumText(n)) /\ Len(RSP!NumText(n)) \in Nat \ {0}
  <2> DEFINE s == RSP!NumText(n)
  <2>1. s \in Seq(DigitSet) /\ Len(s) \in Nat \ {0}
    BY NumPart
  <2> HIDE DEF s
  <2>2. \A k \in 1 .. Len(s) : s[k] \in DigitSet
    BY <2>1, ElementOfSeq
  <2>3. s \in SymSeq /\ s # << >>
    <3>1. DigitSet \subseteq Symbols
      BY DigitIs
    <3> QED BY <2>1, <3>1 DEF SymSeq
  <2>4. ASSUME NEW j \in 1 .. Len(s) - 1 PROVE ~RSP!EolAt(s, j)
    <3>1. j \in 1 .. Len(s)
      BY <2>1
    <3>2. s[j] # "CR"
      BY <2>2, <3>1, DigitIs
    <3> QED BY <3>2 DEF RSP!EolAt
  <2> QED BY <2>1, <2>3, <2>4 DEF RSP!Plain, s
<1>2. <<"-", "1">> \in SymSeq /\ Len(<<"-", "1">>) = 2
  <2>1. "-" \in Symbols /\ "1" \in Symbols
    BY TextsAssumption
  <2> QED BY <2>1 DEF SymSeq
<1>3. RSP!Plain(<<"-", "1">>)
  BY DEF RSP!Plain, RSP!EolAt
<1> QED BY <1>1, <1>2, <1>3

LEMMA ItemIs ==
  ASSUME NEW item \in RSP!Items, item # RSP!Nil
  PROVE  item \in SymSeq /\ Len(item) \in Nat /\ item \in Texts
BY TextsAssumption, LenProperties DEF RSP!Items, SymSeq

LEMMA TextIs ==
  ASSUME NEW t \in Texts
  PROVE  t \in SymSeq /\ t # RSP!Nil
<1>1. t \in SymSeq
  BY TextsAssumption DEF SymSeq
<1>2. ASSUME t = RSP!Nil PROVE FALSE
  <2>1. Len(t) = 1 /\ t[1] = "no value"
    BY <1>2 DEF RSP!Nil
  <2>2. t[1] \in Symbols
    <3>0. Len(t) = 1
      BY <2>1
    <3>1. 1 \in 1 .. Len(t)
      BY <3>0
    <3> QED BY <1>1, <3>1, ElementOfSeq DEF SymSeq
  <2> QED BY <2>1, <2>2, TextsAssumption
<1> QED BY <1>1, <1>2

(* The parts of an item on the wire. *)
LEMMA ItemParts ==
  ASSUME NEW item \in RSP!Items
  PROVE  LET l == <<"$">> \o (IF item = RSP!Nil THEN <<"-", "1">> ELSE RSP!NumText(Len(item)))
         IN  /\ l \in SymSeq /\ l \o RSP!EOL \in SymSeq
             /\ item = RSP!Nil => RSP!WireItem(item) = l \o RSP!EOL /\ Len(RSP!WireItem(item)) = 5
             /\ item # RSP!Nil => /\ item \in SymSeq /\ (l \o RSP!EOL) \o item \in SymSeq
                                  /\ RSP!WireItem(item) = ((l \o RSP!EOL) \o item) \o RSP!EOL
                                  /\ Len((l \o RSP!EOL) \o item) = Len(RSP!NumText(Len(item))) + Len(item) + 3
                                  /\ Len(RSP!WireItem(item)) = Len(RSP!NumText(Len(item))) + Len(item) + 5
             /\ RSP!WireItem(item) \in SymSeq
<1> DEFINE s == IF item = RSP!Nil THEN <<"-", "1">> ELSE RSP!NumText(Len(item))
           l == <<"$">> \o s
           h == l \o RSP!EOL
<1>1. s \in SymSeq /\ RSP!Plain(s) /\ Len(s) \in Nat
  BY ItemIs, LengthsPlain
<1>2. "$" \in Symbols /\ "$" # "CR"
  BY SymbolsAre
<1>3. l \in SymSeq /\ Len(l) = Len(s) + 1
  <2> HIDE DEF s
  <2> QED BY <1>1, <1>2, HeadedPlain
<1>4. h \in SymSeq /\ Len(h) = Len(s) + 3
  <2> HIDE DEF l
  <2>1. h \in SymSeq /\ Len(h) = Len(l) + Len(RSP!EOL)
    BY <1>3, EolSeq, ConcatProperties DEF SymSeq
  <2> HIDE DEF h, s
  <2> QED BY <1>1, <1>3, <2>1, EolSeq
<1>5. CASE item = RSP!Nil
  <2>1. RSP!WireItem(item) = <<"$", "-", "1">> \o RSP!EOL
    BY <1>5 DEF RSP!WireItem
  <2>2. s = <<"-", "1">> /\ Len(s) = 2
    BY <1>5
  <2>3. l = <<"$", "-", "1">>
    <3>1. Len(<<"$">>) = 1 /\ <<"$">> \in SymSeq /\ <<"$">>[1] = "$"
      BY <1>2 DEF SymSeq
    <3>2. Len(l) = 3 /\ l[1] = "$" /\ l[2] = "-" /\ l[3] = "1"
      <4>1. s[1] = "-" /\ s[2] = "1"
        BY <2>2
      <4>2. \A k \in 1 .. 1 + Len(s) : l[k] = IF k <= 1 THEN <<"$">>[k] ELSE s[k - 1]
        <5> HIDE DEF s
        <5> QED BY <1>1, <3>1, ConcatProperties DEF SymSeq
      <4>3. 1 \in 1 .. 1 + 2 /\ 2 \in 1 .. 1 + 2 /\ 3 \in 1 .. 1 + 2
        OBVIOUS
      <4> HIDE DEF l, s
      <4> QED BY <1>3, <2>2, <3>1, <4>1, <4>2, <4>3
    <3>3. <<"$", "-", "1">> \in SymSeq /\ Len(<<"$", "-", "1">>) = 3
      <4>1. "$" \in Symbols /\ "-" \in Symbols /\ "1" \in Symbols
        BY TextsAssumption
      <4> QED BY <4>1 DEF SymSeq
    <3> HIDE DEF l
    <3>4. \A k \in 1 .. 3 : l[k] = <<"$", "-", "1">>[k]
      BY <3>2
    <3> QED BY <1>3, <3>2, <3>3, <3>4, SeqEqual DEF SymSeq
  <2>4. RSP!WireItem(item) = h
    <3> HIDE DEF l
    <3> QED BY <2>1, <2>3
  <2>5. Len(RSP!WireItem(item)) = 5
    <3> HIDE DEF h, s
    <3> QED BY <1>4, <2>2, <2>4
  <2> QED BY <1>3, <1>4, <1>5, <2>4, <2>5
<1>6. CASE item # RSP!Nil
  <2>1. item \in SymSeq /\ Len(item) \in Nat /\ s = RSP!NumText(Len(item))
    BY <1>6, ItemIs
  <2>2. RSP!WireItem(item) = (h \o item) \o RSP!EOL
    BY <1>6 DEF RSP!WireItem
  <2> HIDE DEF h, l
  <2>3. h \o item \in SymSeq /\ Len(h \o item) = Len(s) + 3 + Len(item)
    <3>1. h \o item \in SymSeq /\ Len(h \o item) = Len(h) + Len(item)
      BY <1>4, <2>1, ConcatProperties DEF SymSeq
    <3> QED BY <1>4, <3>1
  <2> DEFINE x == h \o item
  <2>4. x \o RSP!EOL \in SymSeq /\ Len(x \o RSP!EOL) = Len(s) + Len(item) + 5
    <3> HIDE DEF x
    <3>0. x \in SymSeq
      BY <2>3 DEF x
    <3>1. x \o RSP!EOL \in SymSeq /\ Len(x \o RSP!EOL) = Len(x) + Len(RSP!EOL)
      BY <3>0, EolSeq, ConcatProperties DEF SymSeq
    <3>2. Len(RSP!EOL) = 2
      BY EolSeq
    <3> QED BY <1>1, <2>1, <2>3, <3>1, <3>2 DEF x
  <2>5. Len(x) = Len(s) + Len(item) + 3
    BY <1>1, <2>1, <2>3
  <2> HIDE DEF s
  <2> QED BY <1>3, <1>4, <1>6, <2>1, <2>2, <2>3, <2>4, <2>5 DEF l, h
<1> QED BY <1>5, <1>6

(* The lines of an item: its length, and behind it the item unless it is nil. *)
LEMMA ItemLines ==
  ASSUME NEW W \in SymSeq, NEW i, NEW item \in RSP!Items, RSP!Plain(item), Occurs(W, i, RSP!WireItem(item))
  PROVE  /\ item = RSP!Nil => LineAt(W, i, <<"$">> \o <<"-", "1">>)
         /\ item # RSP!Nil => /\ LineAt(W, i, <<"$">> \o RSP!NumText(Len(item)))
                              /\ LineAt(W, i + Len(RSP!NumText(Len(item))) + 3, item)
<1> DEFINE s == IF item = RSP!Nil THEN <<"-", "1">> ELSE RSP!NumText(Len(item))
           l == <<"$">> \o s
           h == l \o RSP!EOL
<1>0. i \in Nat
  BY DEF Occurs
<1>1. s \in SymSeq /\ RSP!Plain(s) /\ Len(s) \in Nat
  BY ItemIs, LengthsPlain
<1>2. "$" \in Symbols /\ "$" # "CR"
  BY SymbolsAre
<1>3. l \in SymSeq /\ Len(l) = Len(s) + 1 /\ RSP!Plain(l)
  <2> HIDE DEF s
  <2> QED BY <1>1, <1>2, HeadedPlain
<1>4. h \in SymSeq /\ Len(h) = Len(s) + 3
  <2> HIDE DEF l
  <2>1. h \in SymSeq /\ Len(h) = Len(l) + Len(RSP!EOL)
    BY <1>3, EolSeq, ConcatProperties DEF SymSeq
  <2> HIDE DEF h, s
  <2> QED BY <1>1, <1>3, <2>1, EolSeq
<1>5. ASSUME Occurs(W, i, h) PROVE LineAt(W, i, l)
  <2> HIDE DEF l
  <2>1. Occurs(W, i, l) /\ Occurs(W, i + Len(l), RSP!EOL)
    BY <1>3, <1>5, EolSeq, OccursBoth
  <2> QED BY <1>3, <2>1, LineOccurs
<1>6. CASE item = RSP!Nil
  <2>1. RSP!WireItem(item) = h
    BY <1>6, ItemParts
  <2> QED BY <1>5, <1>6, <2>1
<1>7. CASE item # RSP!Nil
  <2>1. item \in SymSeq /\ Len(item) \in Nat /\ h \o item \in SymSeq /\ RSP!WireItem(item) = (h \o item) \o RSP!EOL
        /\ Len(h \o item) = Len(RSP!NumText(Len(item))) + Len(item) + 3
    BY <1>7, ItemIs, ItemParts
  <2> HIDE DEF h
  <2>2. Occurs(W, i, h \o item) /\ Occurs(W, i + Len(h \o item), RSP!EOL)
    BY <2>1, EolSeq, OccursBoth
  <2>3. Occurs(W, i, h) /\ Occurs(W, i + Len(h), item)
    BY <1>4, <2>1, <2>2, OccursBoth
  <2>4. s = RSP!NumText(Len(item))
    BY <1>7
  <2>5. i + Len(h) = i + Len(s) + 3 /\ i + Len(h \o item) = (i + Len(s) + 3) + Len(item)
    <3> HIDE DEF s
    <3> QED BY <1>0, <1>1, <1>4, <2>1, <2>4
  <2>6. LineAt(W, i + Len(s) + 3, item)
    <3> HIDE DEF s
    <3> QED BY <2>1, <2>2, <2>3, <2>5, LineOccurs
  <2> QED BY <1>5, <1>7, <2>3, <2>4, <2>6
<1> QED BY <1>6, <1>7

Builds(f, items) == /\ f \in [0 .. Len(items) -> SymSeq] /\ f[0] = << >>
                    /\ \A n \in 1 .. Len(items) : f[n] = f[n - 1] \o RSP!WireItem(items[n])

LEMMA WireItemsIs ==
  ASSUME NEW items \in Seq(RSP!Items)
  PROVE  \E f : Builds(f, items) /\ RSP!WireItems(items) = f[Len(items)]
<1> DEFINE N == Len(items)
           st == [v \in SymSeq |-> [i \in 1 .. N |-> v \o RSP!WireItem(items[i])]]
           E(g) == g = [n \in 0 .. N |-> IF n = 0 THEN << >> ELSE g[n - 1] \o RSP!WireItem(items[n])]
           f == CHOOSE g : E(g)
<1>1. RSP!WireItems(items) = f[N]
  BY DEF RSP!WireItems
<1>2. N \in Nat /\ << >> \in SymSeq /\ \A i \in 1 .. N : RSP!WireItem(items[i]) \in SymSeq
  <2>1. \A i \in 1 .. N : items[i] \in RSP!Items
    BY ElementOfSeq
  <2>2. N \in Nat
    BY LenProperties
  <2>3. << >> \in SymSeq
    BY DEF SymSeq
  <2>4. \A i \in 1 .. N : RSP!WireItem(items[i]) \in SymSeq
    BY <2>1, ItemParts
  <2> QED BY <2>2, <2>3, <2>4
<1>3. ASSUME NEW v \in SymSeq, NEW i \in 1 .. N PROVE v \o RSP!WireItem(items[i]) \in SymSeq
  BY <1>2, ConcatProperties DEF SymSeq
<1>4. st \in [SymSeq -> [1 .. N -> SymSeq]] /\ \A v \in SymSeq, i \in 1 .. N : st[v][i] = v \o RSP!WireItem(items[i])
  BY <1>3
<1> HIDE DEF st
<1>5. Recurses(N, SymSeq, << >>, st)
  BY <1>2, <1>4, RecFcn
<1>6. PICK w \in [0 .. N -> SymSeq] : w[0] = << >> /\ \A i \in 1 .. N : w[i] = st[w[i - 1]][i]
  BY <1>5 DEF Recurses
<1>7. ASSUME NEW i \in 1 .. N PROVE w[i] = w[i - 1] \o RSP!WireItem(items[i])
  <2>1. i - 1 \in 0 .. N /\ w[i - 1] \in SymSeq
    BY <1>2
  <2> QED BY <1>4, <1>6, <2>1
<1>8. E(w)
  <2>1. w = [n \in 0 .. N |-> w[n]]
    OBVIOUS
  <2>2. ASSUME NEW n \in 0 .. N PROVE w[n] = IF n = 0 THEN << >> ELSE w[n - 1] \o RSP!WireItem(items[n])
    <3>1. CASE n = 0
      BY <1>6, <3>1
    <3>2. CASE n # 0
      <4>1. n \in 1 .. N
        BY <1>2, <3>2
      <4> QED BY <1>7, <3>2, <4>1
    <3> QED BY <3>1, <3>2
  <2> QED BY <2>1, <2>2
<1>9. E(f)
  BY <1>8
<1> HIDE DEF f
<1>10. ASSUME NEW n \in 0 .. N PROVE f[n] = IF n = 0 THEN << >> ELSE f[n - 1] \o RSP!WireItem(items[n])
  BY <1>9
<1>11. f = [n \in 0 .. N |-> f[n]]
  BY <1>9
<1> HIDE DEF E
<1> DEFINE T == {n \in 0 .. N : f[n] \in SymSeq}
<1>12. 0 .. N \subseteq T
  <2>1. 0 \in T
    BY <1>2, <1>10
  <2>2. ASSUME NEW n \in 0 .. N, n \in T, n # N PROVE n + 1 \in T
    <3>1. n + 1 \in 0 .. N /\ n + 1 \in 1 .. N /\ n + 1 # 0 /\ (n + 1) - 1 = n /\ f[n] \in SymSeq
      BY <1>2, <2>2
    <3>2. f[n + 1] = f[n] \o RSP!WireItem(items[n + 1])
      BY <1>10, <3>1
    <3> QED BY <1>3, <3>1, <3>2
  <2> HIDE DEF T
  <2> QED BY <1>2, <2>1, <2>2, BoundedInduction
<1>13. f \in [0 .. N -> SymSeq]
  <2>1. \A n \in 0 .. N : f[n] \in SymSeq
    BY <1>12
  <2> HIDE DEF T
  <2> QED BY <1>11, <2>1
<1>14. f[0] = << >> /\ \A n \in 1 .. N : f[n] = f[n - 1] \o RSP!WireItem(items[n])
  <2>1. 0 \in 0 .. N /\ \A n \in 1 .. N : n \in 0 .. N /\ n # 0
    BY <1>2
  <2> HIDE DEF T
  <2> QED BY <1>10, <2>1
<1> QED BY <1>1, <1>13, <1>14 DEF Builds

LEMMA ItemsAt ==
  ASSUME NEW items \in Seq(RSP!Items), NEW f, Builds(f, items),
         NEW W \in SymSeq, NEW h \in Nat \ {0}, Occurs(W, h, f[Len(items)])
  PROVE  /\ \A n \in 0 .. Len(items) : Len(f[n]) \in Nat
         /\ \A n \in 1 .. Len(items) :
              /\ Occurs(W, h + Len(f[n - 1]), RSP!WireItem(items[n]))
              /\ Len(f[n]) = Len(f[n - 1]) + Len(RSP!WireItem(items[n]))
<1> DEFINE N == Len(items)
           T == {d \in 0 .. N : Occurs(W, h, f[N - d])}
<1>1. N \in Nat /\ \A n \in 1 .. N : RSP!WireItem(items[n]) \in SymSeq
  <2>1. \A n \in 1 .. N : items[n] \in RSP!Items
    BY ElementOfSeq
  <2>2. \A n \in 1 .. N : RSP!WireItem(items[n]) \in SymSeq
    BY <2>1, ItemParts
  <2> QED BY <2>2, LenProperties
<1>2. \A n \in 0 .. N : f[n] \in SymSeq /\ Len(f[n]) \in Nat
  BY LenProperties DEF Builds, SymSeq
<1>3. ASSUME NEW n \in 1 .. N, Occurs(W, h, f[n])
      PROVE  Occurs(W, h, f[n - 1]) /\ Occurs(W, h + Len(f[n - 1]), RSP!WireItem(items[n]))
  <2>1. n - 1 \in 0 .. N /\ f[n - 1] \in SymSeq
    BY <1>1, <1>2
  <2>2. f[n] = f[n - 1] \o RSP!WireItem(items[n])
    BY DEF Builds
  <2>3. Occurs(W, h, f[n - 1] \o RSP!WireItem(items[n])) /\ RSP!WireItem(items[n]) \in SymSeq
    BY <1>1, <1>3, <2>2
  <2> DEFINE a == f[n - 1]
             b == RSP!WireItem(items[n])
  <2>4. a \in SymSeq /\ b \in SymSeq /\ Occurs(W, h, a \o b)
    BY <2>1, <2>3
  <2>5. Occurs(W, h, a) /\ Occurs(W, h + Len(a), b)
    <3> HIDE DEF a, b
    <3> QED BY <2>4, OccursBoth
  <2> QED BY <2>5
<1>4. 0 .. N \subseteq T
  <2>1. 0 \in T
    <3>1. N - 0 = N /\ 0 \in 0 .. N
      BY <1>1
    <3> QED BY <3>1
  <2>2. ASSUME NEW d \in 0 .. N, d \in T, d # N PROVE d + 1 \in T
    <3>1. N - d \in 1 .. N /\ (N - d) - 1 = N - (d + 1) /\ d + 1 \in 0 .. N
      BY <1>1, <2>2
    <3>2. Occurs(W, h, f[N - d])
      BY <2>2
    <3>3. Occurs(W, h, f[(N - d) - 1])
      BY <1>3, <3>1, <3>2
    <3> QED BY <3>1, <3>3
  <2> HIDE DEF T
  <2> QED BY <1>1, <2>1, <2>2, BoundedInduction
<1>5. ASSUME NEW n \in 0 .. N PROVE Occurs(W, h, f[n])
  <2>1. N - n \in 0 .. N /\ N - (N - n) = n
    BY <1>1
  <2>2. Occurs(W, h, f[N - (N - n)])
    BY <1>4, <2>1
  <2> QED BY <2>1, <2>2
<1>6. ASSUME NEW n \in 1 .. N PROVE Len(f[n]) = Len(f[n - 1]) + Len(RSP!WireItem(items[n]))
  <2>1. n - 1 \in 0 .. N /\ f[n - 1] \in SymSeq /\ RSP!WireItem(items[n]) \in SymSeq
    BY <1>1, <1>2
  <2>2. f[n] = f[n - 1] \o RSP!WireItem(items[n])
    BY DEF Builds
  <2> QED BY <2>1, <2>2, ConcatProperties DEF SymSeq
<1>7. ASSUME NEW n \in 1 .. N PROVE Occurs(W, h + Len(f[n - 1]), RSP!WireItem(items[n]))
  <2>1. n \in 0 .. N
    BY <1>1
  <2> QED BY <1>3, <1>5, <2>1
<1> QED BY <1>2, <1>6, <1>7

(***************************************************************************)
(* The turns of the loop over an array's items.                            *)
(***************************************************************************)
Progress == [ok : BOOLEAN, at : Nat, items : Seq(SymSeq)]

LEMMA LineTyped ==
  ASSUME NEW raw \in SymSeq, NEW at \in Nat
  PROVE  /\ RSP!Passed(raw, at) \in Nat
         /\ RSP!HasLine(raw, at) => RSP!NextLine(raw, at) \in SymSeq /\ RSP!NextLine(raw, at) # << >>
<1> DEFINE i == RSP!LineFrom(raw, at)
           F == {j \in at .. Len(raw) : RSP!Begins(raw, j)} \cup {Len(raw) + 1}
           G == {j \in i .. Len(raw) : RSP!EolAt(raw, j)} \cup {Len(raw) + 1}
           e == RSP!LineEnd(raw, i)
<1>1. Len(raw) \in Nat
  BY LenProperties DEF SymSeq
<1>2. i \in F
  <2>1. F \subseteq Nat /\ F # {}
    BY <1>1
  <2>2. RSP!Smallest(F) \in F
    <3> HIDE DEF F
    <3> QED BY <2>1, SmallestIs
  <2> QED BY <2>2 DEF RSP!LineFrom
<1>3. i \in Nat
  BY <1>1, <1>2
<1>4. e \in G
  <2> HIDE DEF i
  <2>1. G \subseteq Nat /\ G # {}
    BY <1>1, <1>3
  <2>2. RSP!Smallest(G) \in G
    <3> HIDE DEF G
    <3> QED BY <2>1, SmallestIs
  <2> QED BY <2>2 DEF RSP!LineEnd
<1>5. e \in Nat
  <2> HIDE DEF i, e
  <2> QED BY <1>1, <1>3, <1>4
<1>6. RSP!Passed(raw, at) = e
  BY DEF RSP!Passed
<1>7. ASSUME RSP!HasLine(raw, at) PROVE RSP!NextLine(raw, at) \in SymSeq /\ RSP!NextLine(raw, at) # << >>
  <2>1. i <= Len(raw)
    BY <1>7 DEF RSP!HasLine
  <2>2. RSP!Begins(raw, i)
    <3> HIDE DEF i
    <3> QED BY <1>1, <1>2, <2>1
  <2>3. i \in 1 .. Len(raw) /\ ~RSP!EolAt(raw, i)
    BY <2>2 DEF RSP!Begins
  <2>4. e - 1 \in i .. Len(raw)
    <3> HIDE DEF i, e
    <3> QED BY <1>1, <1>4, <2>3
  <2> DEFINE x == SubSeq(raw, i, e - 1)
  <2>5. RSP!NextLine(raw, at) = x
    BY DEF RSP!NextLine
  <2> HIDE DEF i, e
  <2>6. x \in SymSeq /\ Len(x) = (e - 1) - i + 1
    <3>1. i \in 1 .. Len(raw) + 1 /\ e - 1 \in i - 1 .. Len(raw) /\ i <= e - 1
      BY <1>1, <2>3, <2>4
    <3> QED BY <3>1, SubSeqProperties DEF SymSeq
  <2>7. x # << >>
    <3>1. Len(x) >= 1
      BY <1>1, <1>5, <2>3, <2>4, <2>6
    <3> HIDE DEF x
    <3> QED BY <2>6, <3>1, EmptySeq DEF SymSeq
  <2> QED BY <2>5, <2>6, <2>7
<1> QED BY <1>5, <1>6, <1>7

LEMMA IntTyped ==
  ASSUME NEW s \in SymSeq, RSP!IsInt(s)
  PROVE  RSP!IntOf(s) \in Int
<1> DEFINE u == RSP!Unsigned(s)
<1>1. u \in SymSeq
  <2>1. CASE s # << >> /\ Head(s) \in {"+", "-"}
    BY <2>1, HeadTailProperties DEF RSP!Unsigned, SymSeq
  <2>2. CASE ~(s # << >> /\ Head(s) \in {"+", "-"})
    BY <2>2 DEF RSP!Unsigned
  <2> QED BY <2>1, <2>2
<1>2. \A i \in 1 .. Len(u) : u[i] \in DigitSet
  BY DigitIs DEF RSP!IsInt
<1> HIDE DEF u
<1>3. u \in Seq(DigitSet)
  <2>1. u = [i \in 1 .. Len(u) |-> u[i]] /\ Len(u) \in Nat
    BY <1>1, LenProperties DEF SymSeq
  <2>2. u \in [1 .. Len(u) -> DigitSet]
    BY <1>2, <2>1
  <2> QED BY <2>1, <2>2
<1>4. RSP!Value(u) \in Nat
  BY <1>3, ValueGrows
<1> QED BY <1>4 DEF RSP!IntOf, u

LEMMA LengthTyped ==
  ASSUME NEW l \in SymSeq, l # << >>
  PROVE  RSP!ParseLength(l) \in Int
<1>1. Tail(l) \in SymSeq
  BY HeadTailProperties DEF SymSeq
<1>2. RSP!IsInt(Tail(l)) => RSP!IntOf(Tail(l)) \in Int
  BY <1>1, IntTyped
<1> QED BY <1>2 DEF RSP!ParseLength

LEMMA TurnTyped ==
  ASSUME NEW raw \in SymSeq, NEW p \in Progress
  PROVE  RSP!ParseItem(raw, p) \in Progress
<1> DEFINE line == RSP!NextLine(raw, p.at)
           length == RSP!ParseLength(line)
           text == RSP!Passed(raw, p.at)
           cont == RSP!NextLine(raw, text)
<1>1. p.ok \in BOOLEAN /\ p.at \in Nat /\ p.items \in Seq(SymSeq)
  BY DEF Progress
<1>2. text \in Nat /\ (RSP!HasLine(raw, p.at) => line \in SymSeq /\ line # << >>)
  BY <1>1, LineTyped
<1>3. RSP!Passed(raw, text) \in Nat /\ (RSP!HasLine(raw, text) => cont \in SymSeq)
  <2> HIDE DEF text
  <2> QED BY <1>2, LineTyped
<1>4. RSP!HasLine(raw, p.at) => length \in Int
  <2> HIDE DEF line
  <2> QED BY <1>2, LengthTyped
<1>5. RSP!NilItem \in SymSeq
  <2>1. "n" \in Symbols /\ "i" \in Symbols /\ "l" \in Symbols
    BY SymbolsAre
  <2> QED BY <2>1 DEF RSP!NilItem, SymSeq
<1> HIDE DEF line, length, text, cont
<1>6. CASE ~RSP!HasLine(raw, p.at)
  <2>1. RSP!ParseItem(raw, p) = [p EXCEPT !.ok = FALSE]
    BY <1>6 DEF RSP!ParseItem
  <2> QED BY <2>1 DEF Progress
<1>7. CASE RSP!HasLine(raw, p.at) /\ length = -1
  <2>1. RSP!ParseItem(raw, p) = [p EXCEPT !.at = text, !.items = Append(p.items, RSP!NilItem)]
    BY <1>7 DEF RSP!ParseItem, line, length, text
  <2>2. Append(p.items, RSP!NilItem) \in Seq(SymSeq)
    BY <1>1, <1>5, AppendProperties
  <2> QED BY <1>2, <2>1, <2>2 DEF Progress
<1>8. CASE RSP!HasLine(raw, p.at) /\ length # -1 /\ (length < 0 \/ ~RSP!HasLine(raw, text) \/ Len(cont) < length)
  <2>1. RSP!ParseItem(raw, p) = [p EXCEPT !.ok = FALSE]
    BY <1>8 DEF RSP!ParseItem, line, length, text, cont
  <2> QED BY <2>1 DEF Progress
<1>9. CASE RSP!HasLine(raw, p.at) /\ length # -1 /\ ~(length < 0 \/ ~RSP!HasLine(raw, text) \/ Len(cont) < length)
  <2>1. RSP!ParseItem(raw, p) =
          [p EXCEPT !.at = RSP!Passed(raw, text), !.items = Append(p.items, SubSeq(cont, 1, length))]
    BY <1>9 DEF RSP!ParseItem, line, length, text, cont
  <2>2. SubSeq(cont, 1, length) \in SymSeq
    <3>1. cont \in SymSeq /\ length \in Nat /\ length <= Len(cont) /\ Len(cont) \in Nat
      BY <1>3, <1>4, <1>9, LenProperties DEF SymSeq
    <3>2. 1 \in 1 .. Len(cont) + 1 /\ length \in 1 - 1 .. Len(cont)
      BY <3>1
    <3> QED BY <3>1, <3>2, SubSeqProperties DEF SymSeq
  <2>3. Append(p.items, SubSeq(cont, 1, length)) \in Seq(SymSeq)
    BY <1>1, <2>2, AppendProperties
  <2> QED BY <1>3, <2>1, <2>3 DEF Progress
<1> QED BY <1>6, <1>7, <1>8, <1>9

Turns(g, raw, n, at) ==
  /\ g \in [0 .. n -> Progress]
  /\ g[0] = [ok |-> TRUE, at |-> at, items |-> << >>]
  /\ \A j \in 1 .. n : g[j] = IF g[j - 1].ok THEN RSP!ParseItem(raw, g[j - 1]) ELSE g[j - 1]

LEMMA TurnsAre ==
  ASSUME NEW raw \in SymSeq, NEW n \in Nat, NEW at \in Nat
  PROVE  \E g : Turns(g, raw, n, at) /\ RSP!ParseItems(raw, n, at) = g[n]
<1> DEFINE b == [ok |-> TRUE, at |-> at, items |-> << >>]
           next(p) == IF p.ok THEN RSP!ParseItem(raw, p) ELSE p
           st == [p \in Progress |-> [j \in 1 .. n |-> next(p)]]
           E(g) == g = [j \in 0 .. n |-> IF j = 0 THEN b ELSE IF g[j - 1].ok THEN RSP!ParseItem(raw, g[j - 1]) ELSE g[j - 1]]
           f == CHOOSE g : E(g)
<1>1. RSP!ParseItems(raw, n, at) = f[n]
  BY DEF RSP!ParseItems
<1>2. b \in Progress
  BY DEF Progress
<1>3. ASSUME NEW p \in Progress PROVE next(p) \in Progress
  BY TurnTyped
<1> HIDE DEF b
<1>4. st \in [Progress -> [1 .. n -> Progress]] /\ \A p \in Progress, j \in 1 .. n : st[p][j] = next(p)
  <2> HIDE DEF next
  <2> QED BY <1>3
<1> HIDE DEF st
<1>5. Recurses(n, Progress, b, st)
  BY <1>2, <1>4, RecFcn
<1>6. PICK w \in [0 .. n -> Progress] : w[0] = b /\ \A j \in 1 .. n : w[j] = st[w[j - 1]][j]
  BY <1>5 DEF Recurses
<1>7. ASSUME NEW j \in 1 .. n PROVE w[j] = next(w[j - 1])
  <2>1. j - 1 \in 0 .. n /\ w[j - 1] \in Progress
    OBVIOUS
  <2> HIDE DEF next
  <2> QED BY <1>4, <1>6, <2>1
<1>8. E(w)
  <2>1. w = [j \in 0 .. n |-> w[j]]
    OBVIOUS
  <2>2. ASSUME NEW j \in 0 .. n
        PROVE  w[j] = IF j = 0 THEN b ELSE IF w[j - 1].ok THEN RSP!ParseItem(raw, w[j - 1]) ELSE w[j - 1]
    <3>1. CASE j = 0
      BY <1>6, <3>1
    <3>2. CASE j # 0
      <4>1. j \in 1 .. n
        BY <3>2
      <4> QED BY <1>7, <3>2, <4>1
    <3> QED BY <3>1, <3>2
  <2> QED BY <2>1, <2>2
<1>9. E(f)
  BY <1>8
<1> HIDE DEF f
<1>10. ASSUME NEW j \in 0 .. n PROVE f[j] = IF j = 0 THEN b ELSE next(f[j - 1])
  BY <1>9
<1>11. f = [j \in 0 .. n |-> f[j]]
  BY <1>9
<1> HIDE DEF E
<1> DEFINE T == {j \in 0 .. n : f[j] \in Progress}
<1>12. 0 .. n \subseteq T
  <2>1. 0 \in T
    BY <1>2, <1>10
  <2>2. ASSUME NEW j \in 0 .. n, j \in T, j # n PROVE j + 1 \in T
    <3>1. j + 1 \in 0 .. n /\ j + 1 # 0 /\ (j + 1) - 1 = j /\ f[j] \in Progress
      BY <2>2
    <3> HIDE DEF next
    <3>2. f[j + 1] = next(f[j])
      BY <1>10, <3>1
    <3> QED BY <1>3, <3>1, <3>2
  <2> HIDE DEF T
  <2> QED BY <2>1, <2>2, BoundedInduction
<1>13. f \in [0 .. n -> Progress]
  <2>1. \A j \in 0 .. n : f[j] \in Progress
    BY <1>12
  <2> HIDE DEF T
  <2> QED BY <1>11, <2>1
<1>14. f[0] = b /\ \A j \in 1 .. n : f[j] = next(f[j - 1])
  <2>1. 0 \in 0 .. n /\ \A j \in 1 .. n : j \in 0 .. n /\ j # 0
    OBVIOUS
  <2> HIDE DEF T, next
  <2> QED BY <1>10, <2>1
<1> QED BY <1>1, <1>13, <1>14 DEF Turns, b

LEMMA CutWhole ==
  ASSUME NEW l \in SymSeq, NEW m \in Nat, m >= Len(l)
  PROVE  /\ Len(CutTo(l, m)) >= Len(l) /\ SubSeq(CutTo(l, m), 1, Len(l)) = l
<1> DEFINE c == CutTo(l, m)
           x == SubSeq(c, 1, Len(l))
<1>1. "CR" \in Symbols /\ Len(l) \in Nat
  BY SymbolsAre, LenProperties DEF SymSeq
<1>2. /\ c \in SymSeq /\ Len(c) = IF m <= Len(l) THEN m ELSE IF m = Len(l) + 1 THEN m ELSE Len(l)
      /\ \A i \in 1 .. Len(l) : i <= m => c[i] = l[i]
  BY <1>1, CutToIs DEF SymSeq
<1> HIDE DEF c
<1>3. Len(c) >= Len(l) /\ Len(c) \in Nat
  BY <1>1, <1>2
<1>4. x \in SymSeq /\ Len(x) = Len(l) /\ \A i \in 1 .. Len(l) : x[i] = c[i]
  <2>1. Len(l) \in 0 .. Len(c) /\ 1 \in 1 .. Len(c) + 1 /\ Len(l) \in 1 - 1 .. Len(c)
    BY <1>1, <1>3
  <2>2. /\ x \in SymSeq /\ Len(x) = IF 1 <= Len(l) THEN Len(l) - 1 + 1 ELSE 0
        /\ \A i \in 1 .. Len(l) - 1 + 1 : x[i] = c[1 + i - 1]
    BY <1>2, <2>1, SubSeqProperties DEF SymSeq
  <2>3. Len(l) - 1 + 1 = Len(l) /\ \A i \in 1 .. Len(l) : 1 + i - 1 = i
    BY <1>1
  <2> HIDE DEF x
  <2> QED BY <1>1, <2>2, <2>3
<1> HIDE DEF x
<1>5. \A i \in 1 .. Len(x) : x[i] = l[i]
  BY <1>1, <1>2, <1>4
<1>6. x = l
  BY <1>4, <1>5, SeqEqual DEF SymSeq
<1> QED BY <1>3, <1>6 DEF x, c

(* What parseLength makes of a cut line that begins with "$". *)
LEMMA LengthOfCut ==
  ASSUME NEW s \in SymSeq, NEW m \in Nat \ {0}
  PROVE  LET c == CutTo(s, m - 1)
         IN  RSP!ParseLength(CutTo(<<"$">> \o s, m)) = IF RSP!IsInt(c) THEN RSP!IntOf(c) ELSE -1
<1>1. "$" \in Symbols
  BY SymbolsAre
<1>2. Head(CutTo(<<"$">> \o s, m)) = "$" /\ Tail(CutTo(<<"$">> \o s, m)) = CutTo(s, m - 1)
  BY <1>1, TailOfCut
<1> QED BY <1>2 DEF RSP!ParseLength

LEMMA NilLength ==
  ASSUME NEW m \in Nat \ {0}
  PROVE  RSP!ParseLength(CutTo(<<"$">> \o <<"-", "1">>, m)) = -1
<1> DEFINE s == <<"-", "1">>
           c == CutTo(s, m - 1)
<1>1. s \in SymSeq /\ m - 1 \in Nat
  BY LengthsPlain
<1>2. RSP!ParseLength(CutTo(<<"$">> \o s, m)) = IF RSP!IsInt(c) THEN RSP!IntOf(c) ELSE -1
  <2> HIDE DEF s
  <2> QED BY <1>1, LengthOfCut
<1>3. /\ m - 1 = 0 => c = << >>
      /\ m - 1 = 1 => c = <<"-">>
      /\ m - 1 = 3 => c = <<"-", "1", "CR">>
      /\ m - 1 = 2 \/ m - 1 >= 4 => c = <<"-", "1">>
  BY <1>1, CutMinusOne
<1>4. m - 1 = 0 \/ m - 1 = 1 \/ m - 1 = 3 \/ m - 1 = 2 \/ m - 1 >= 4
  BY <1>1
<1> HIDE DEF c
<1>5. ~RSP!IsInt(<<"-", "1", "CR">>)
  <2> DEFINE x == <<"-", "1", "CR">>
  <2>1. "-" \in Symbols /\ "1" \in Symbols /\ "CR" \in Symbols
    BY TextsAssumption
  <2>2. x \in SymSeq /\ x # << >> /\ x[Len(x)] = "CR"
    BY <2>1 DEF SymSeq
  <2> HIDE DEF x
  <2>3. ~RSP!IsInt(x)
    BY <2>2, NotNumbers
  <2> QED BY <2>3 DEF x
<1>6. (IF RSP!IsInt(c) THEN RSP!IntOf(c) ELSE -1) = -1
  <2>1. CASE m - 1 = 0 \/ m - 1 = 1 \/ m - 1 = 3
    <3>1. ~RSP!IsInt(c)
      BY <1>3, <1>5, <2>1, NotNumbers
    <3> QED BY <3>1
  <2>2. CASE m - 1 = 2 \/ m - 1 >= 4
    BY <1>3, <2>2, MinusOne
  <2> QED BY <1>4, <2>1, <2>2
<1> QED BY <1>2, <1>6

LEMMA TextLength ==
  ASSUME NEW n \in Nat \ {0}, NEW m \in Nat \ {0}
  PROVE  LET s == RSP!NumText(n)
             length == RSP!ParseLength(CutTo(<<"$">> \o s, m))
         IN  /\ m = 1 \/ m = Len(s) + 2 => length = -1
             /\ m \in 2 .. Len(s) + 1 => length \in Nat /\ length >= 1
             /\ m >= Len(s) + 3 => length = n
<1> DEFINE s == RSP!NumText(n)
           c == CutTo(s, m - 1)
           length == RSP!ParseLength(CutTo(<<"$">> \o s, m))
<1>0. n \in Nat /\ m - 1 \in Nat
  OBVIOUS
<1>1. s \in SymSeq /\ m - 1 \in Nat /\ Len(s) \in Nat \ {0}
  BY <1>0, LengthsPlain
<1>2. length = IF RSP!IsInt(c) THEN RSP!IntOf(c) ELSE -1
  <2> HIDE DEF s
  <2> QED BY <1>1, LengthOfCut
<1>3. /\ m - 1 = 0 => c = << >>
      /\ m - 1 \in 1 .. Len(s) \/ m - 1 >= Len(s) + 2 => RSP!IsInt(c) /\ RSP!IntOf(c) \in Nat /\ (n >= 1 => RSP!IntOf(c) >= 1)
      /\ m - 1 >= Len(s) /\ m - 1 # Len(s) + 1 => RSP!IntOf(c) = n
      /\ m - 1 = Len(s) + 1 => ~RSP!IsInt(c)
  <2> DEFINE k == m - 1
  <2>1. s = RSP!NumText(n) /\ c = CutTo(s, k) /\ k \in Nat
    BY <1>0
  <2> HIDE DEF s, c, k
  <2>2. /\ k = 0 => c = << >>
        /\ k \in 1 .. Len(s) \/ k >= Len(s) + 2 => RSP!IsInt(c) /\ RSP!IntOf(c) \in Nat /\ (n >= 1 => RSP!IntOf(c) >= 1)
        /\ k >= Len(s) /\ k # Len(s) + 1 => RSP!IntOf(c) = n
        /\ k = Len(s) + 1 => ~RSP!IsInt(c)
    BY <1>0, <2>1, CutNumber
  <2> QED BY <2>2 DEF k
<1> HIDE DEF s, c, length
<1>4. m = 1 \/ m = Len(s) + 2 => length = -1
  <2>1. m = 1 => ~RSP!IsInt(c)
    BY <1>1, <1>3, NotNumbers
  <2>2. m = Len(s) + 2 => m - 1 = Len(s) + 1
    BY <1>1
  <2> QED BY <1>2, <1>3, <2>1, <2>2
<1>5. m \in 2 .. Len(s) + 1 => length \in Nat /\ length >= 1
  <2> HAVE m \in 2 .. Len(s) + 1
  <2>1. m - 1 \in 1 .. Len(s) /\ n >= 1
    BY <1>1
  <2> QED BY <1>2, <1>3, <2>1
<1>6. m >= Len(s) + 3 => length = n
  <2> HAVE m >= Len(s) + 3
  <2>1. m - 1 >= Len(s) + 2 /\ m - 1 >= Len(s) /\ m - 1 # Len(s) + 1
    BY <1>1
  <2> QED BY <1>2, <1>3, <2>1
<1> QED BY <1>4, <1>5, <1>6 DEF s, length

ShownItem(item) == IF item = RSP!Nil THEN RSP!NilItem ELSE item

(* The item is whole; or the turn fails; or it takes what is left, and may have lost the length. *)
ItemWhole(raw, W, got, p, i, item) ==
  LET q == RSP!ParseItem(raw, p)
  IN  q.ok /\ q.items = Append(p.items, ShownItem(item)) /\ Before(W, got, q.at, i + Len(RSP!WireItem(item)))

ItemCut(raw, got, p, i, item) ==
  LET q == RSP!ParseItem(raw, p)
      kept == got - i + 1
  IN  \/ ~q.ok
      \/ /\ q.ok /\ q.at = got + 1
         /\ \E x \in SymSeq :
              /\ q.items = Append(p.items, x)
              /\ x = ShownItem(item) \/ kept \in {1, Len(RSP!WireItem(item)) - Len(item) - 3}

LEMMA NilTurn ==
  ASSUME NEW W, NEW got, NEW raw, Begun(raw, W, got),
         NEW i, Occurs(W, i, RSP!WireItem(RSP!Nil)),
         NEW p \in Progress, p.ok, Before(W, got, p.at, i)
  PROVE  /\ got - i + 1 >= Len(RSP!WireItem(RSP!Nil)) => ItemWhole(raw, W, got, p, i, RSP!Nil)
         /\ got - i + 1 < Len(RSP!WireItem(RSP!Nil)) => ItemCut(raw, got, p, i, RSP!Nil)
<1> DEFINE l == <<"$">> \o <<"-", "1">>
           m == got - i + 1
           q == RSP!ParseItem(raw, p)
           text == RSP!Passed(raw, p.at)
<1>1. RSP!Nil \in RSP!Items /\ RSP!Plain(RSP!Nil) /\ W \in SymSeq
  <2>1. RSP!Nil # << >> /\ Len(RSP!Nil) = 1
    BY DEF RSP!Nil
  <2>2. RSP!Plain(RSP!Nil)
    BY <2>1 DEF RSP!Plain
  <2> QED BY <2>2 DEF RSP!Items, Begun
<1>2. LineAt(W, i, l)
  BY <1>1, ItemLines
<1>3. Len(RSP!WireItem(RSP!Nil)) = 5 /\ Len(l) = 3
  <2>1. Len(l) = 3
    OBVIOUS
  <2> QED BY <1>1, <2>1, ItemParts
<1> HIDE DEF l
<1>4. m \in Nat /\ (m = 0 => ~RSP!HasLine(raw, p.at)) /\ i \in Nat /\ got \in Nat
  BY <1>2, FoundAt, LineIs
<1>5. ASSUME m # 0 PROVE LineRead(raw, p.at, i, l, got) /\ RSP!ParseLength(CutTo(l, m)) = -1
  <2>1. LineRead(raw, p.at, i, l, got)
    BY <1>2, <1>5, ReadsLine
  <2> HIDE DEF m
  <2>2. m \in Nat \ {0}
    BY <1>4, <1>5
  <2> QED BY <2>1, <2>2, NilLength DEF l
<1>6. ASSUME m # 0 PROVE q = [p EXCEPT !.at = text, !.items = Append(p.items, RSP!NilItem)]
  BY <1>5, <1>6 DEF RSP!ParseItem, LineRead
<1>7. ASSUME m # 0 PROVE q.ok /\ q.at = text /\ q.items = Append(p.items, RSP!NilItem)
  <2> HIDE DEF q, text, m
  <2> QED BY <1>6, <1>7 DEF Progress
<1>8. ASSUME m = 0 PROVE ~q.ok
  <2>1. q = [p EXCEPT !.ok = FALSE]
    BY <1>4, <1>8 DEF RSP!ParseItem
  <2> HIDE DEF q
  <2> QED BY <2>1 DEF Progress
<1>9. ASSUME m >= 5 PROVE ItemWhole(raw, W, got, p, i, RSP!Nil)
  <2>1. m # 0 /\ m >= Len(l) + 2 /\ i + Len(l) + 2 = i + 5
    BY <1>3, <1>4, <1>9
  <2>2. Before(W, got, text, i + Len(l) + 2)
    BY <1>2, <1>5, <2>1, NextBefore
  <2> HIDE DEF text, m, q
  <2> QED BY <1>3, <1>7, <2>1, <2>2 DEF ItemWhole, ShownItem, q
<1>10. ASSUME m < 5, m # 0 PROVE ItemCut(raw, got, p, i, RSP!Nil)
  <2>1. text = got + 1
    <3>1. m < Len(l) + 2
      BY <1>3, <1>10
    <3> QED BY <1>2, <1>5, <1>10, <3>1, NextBefore
  <2>2. RSP!NilItem \in SymSeq /\ RSP!NilItem = ShownItem(RSP!Nil)
    <3>1. "n" \in Symbols /\ "i" \in Symbols /\ "l" \in Symbols
      BY SymbolsAre
    <3> QED BY <3>1 DEF RSP!NilItem, SymSeq, ShownItem
  <2> HIDE DEF text, m, q
  <2> QED BY <1>7, <1>10, <2>1, <2>2 DEF ItemCut, q
<1>11. ASSUME m = 0 PROVE ItemCut(raw, got, p, i, RSP!Nil)
  BY <1>8, <1>11 DEF ItemCut
<1> HIDE DEF m
<1> QED BY <1>3, <1>4, <1>9, <1>10, <1>11 DEF m

LEMMA TextTurn ==
  ASSUME NEW W, NEW got, NEW raw, Begun(raw, W, got), NEW item \in RSP!Items, item # RSP!Nil, RSP!Plain(item),
         NEW i, Occurs(W, i, RSP!WireItem(item)),
         NEW p \in Progress, p.ok, Before(W, got, p.at, i)
  PROVE  /\ got - i + 1 >= Len(RSP!WireItem(item)) => ItemWhole(raw, W, got, p, i, item)
         /\ got - i + 1 < Len(RSP!WireItem(item)) => ItemCut(raw, got, p, i, item)
<1> DEFINE s == RSP!NumText(Len(item))
           l == <<"$">> \o s
           m == got - i + 1
           k == i + Len(s) + 3
           r == got - k + 1
           q == RSP!ParseItem(raw, p)
           length == RSP!ParseLength(RSP!NextLine(raw, p.at))
           text == RSP!Passed(raw, p.at)
           cont == RSP!NextLine(raw, text)
<1>1. W \in SymSeq /\ item \in SymSeq /\ Len(item) \in Nat \ {0} /\ p.at \in Nat /\ p.items \in Seq(SymSeq)
  <2>1. item \in SymSeq /\ Len(item) \in Nat
    BY ItemIs
  <2>2. Len(item) # 0
    BY <2>1, EmptySeq DEF RSP!Plain, SymSeq
  <2> QED BY <2>1, <2>2 DEF Begun, Progress
<1>2. LineAt(W, i, l) /\ LineAt(W, k, item)
  BY <1>1, ItemLines
<1>3. s \in SymSeq /\ Len(s) \in Nat \ {0} /\ Len(l) = Len(s) + 1 /\ Len(RSP!WireItem(item)) = Len(s) + Len(item) + 5
  <2>1. s \in SymSeq /\ RSP!Plain(s) /\ Len(s) \in Nat \ {0}
    BY <1>1, LengthsPlain
  <2>2. "$" \in Symbols /\ "$" # "CR"
    BY SymbolsAre
  <2>3. Len(RSP!WireItem(item)) = Len(s) + Len(item) + 5
    BY ItemParts
  <2> HIDE DEF s
  <2>4. Len(l) = Len(s) + 1
    BY <2>1, <2>2, HeadedPlain
  <2> QED BY <2>1, <2>3, <2>4
<1>4. m \in Nat /\ (m = 0 => ~RSP!HasLine(raw, p.at)) /\ i \in Nat /\ got \in Nat
  <2> HIDE DEF l, k
  <2> QED BY <1>2, FoundAt, LineIs
<1>5. ASSUME m = 0 PROVE ~q.ok
  <2>1. q = [p EXCEPT !.ok = FALSE]
    BY <1>4, <1>5 DEF RSP!ParseItem
  <2> HIDE DEF q
  <2> QED BY <2>1 DEF Progress
<1>6. ASSUME m # 0 PROVE LineRead(raw, p.at, i, l, got)
  <2> HIDE DEF l, k
  <2> QED BY <1>2, <1>6, ReadsLine
<1>7. ASSUME m # 0
      PROVE  /\ m = 1 \/ m = Len(s) + 2 => length = -1
             /\ m \in 2 .. Len(s) + 1 => length \in Nat /\ length >= 1
             /\ m >= Len(s) + 3 => length = Len(item)
  <2>1. length = RSP!ParseLength(CutTo(l, m))
    <3> HIDE DEF l
    <3> QED BY <1>6, <1>7 DEF LineRead
  <2> DEFINE n == Len(item)
             len == RSP!ParseLength(CutTo(l, m))
  <2>2. m \in Nat \ {0} /\ n \in Nat \ {0}
    BY <1>1, <1>4, <1>7
  <2> HIDE DEF n, m
  <2>3. /\ m = 1 \/ m = Len(s) + 2 => len = -1
        /\ m \in 2 .. Len(s) + 1 => len \in Nat /\ len >= 1
        /\ m >= Len(s) + 3 => len = n
    BY <2>2, TextLength DEF n
  <2> HIDE DEF s, l, len, length
  <2> QED BY <2>1, <2>3 DEF n, len
<1>8. ASSUME m # 0
      PROVE  /\ m >= Len(s) + 3 => Before(W, got, text, k)
             /\ m < Len(s) + 3 => text = got + 1
  <2>1. /\ m >= Len(l) + 2 => Before(W, got, text, i + Len(l) + 2)
        /\ m < Len(l) + 2 => text = got + 1
    <3> HIDE DEF l, k
    <3> QED BY <1>2, <1>6, <1>8, NextBefore
  <2>2. Len(l) + 2 = Len(s) + 3 /\ i + Len(l) + 2 = k
    <3> HIDE DEF s, l
    <3> QED BY <1>3, <1>4
  <2> HIDE DEF s, l, k, text, m
  <2> QED BY <2>1, <2>2
<1>9. ASSUME m # 0 PROVE RSP!HasLine(raw, p.at)
  BY <1>6, <1>9 DEF LineRead
<1> HIDE DEF length, text, cont, s, l
<1>10. ASSUME m = 1 \/ m = Len(s) + 2 PROVE ItemCut(raw, got, p, i, item)
  <2>1. m # 0 /\ m < Len(s) + 3
    BY <1>3, <1>10
  <2>2. q = [p EXCEPT !.at = text, !.items = Append(p.items, RSP!NilItem)]
    BY <1>7, <1>9, <1>10, <2>1 DEF RSP!ParseItem, length, text
  <2>3. q.ok /\ q.at = text /\ q.items = Append(p.items, RSP!NilItem) /\ text = got + 1
    <3> HIDE DEF q, m
    <3> QED BY <1>8, <2>1, <2>2 DEF Progress
  <2>4. RSP!NilItem \in SymSeq
    <3>1. "n" \in Symbols /\ "i" \in Symbols /\ "l" \in Symbols
      BY SymbolsAre
    <3> QED BY <3>1 DEF RSP!NilItem, SymSeq
  <2>5. Len(RSP!WireItem(item)) - Len(item) - 3 = Len(s) + 2
    BY <1>1, <1>3
  <2> QED BY <1>10, <2>3, <2>4, <2>5 DEF ItemCut
<1>11. ASSUME m \in 2 .. Len(s) + 1 PROVE ItemCut(raw, got, p, i, item)
  <2>1. m # 0 /\ m < Len(s) + 3 /\ length # -1 /\ text = got + 1
    <3>1. m # 0 /\ m < Len(s) + 3
      BY <1>3, <1>11
    <3> HIDE DEF m
    <3> QED BY <1>7, <1>8, <1>11, <3>1
  <2>2. ~RSP!HasLine(raw, text)
    BY <2>1, NoneLeft
  <2>3. q = [p EXCEPT !.ok = FALSE]
    BY <1>9, <2>1, <2>2 DEF RSP!ParseItem, length, text
  <2>4. ~q.ok
    <3> HIDE DEF q
    <3> QED BY <2>3 DEF Progress
  <2> QED BY <2>4 DEF ItemCut
<1>12. ASSUME m >= Len(s) + 3
       PROVE  length = Len(item) /\ Before(W, got, text, k) /\ r \in Nat /\ RSP!HasLine(raw, p.at)
              /\ (r = 0 => ~RSP!HasLine(raw, text)) /\ (r # 0 => LineRead(raw, text, k, item, got))
  <2>1. m # 0
    BY <1>3, <1>4, <1>12
  <2>2. length = Len(item) /\ Before(W, got, text, k) /\ RSP!HasLine(raw, p.at)
    <3> HIDE DEF m
    <3> QED BY <1>7, <1>8, <1>9, <1>12, <2>1
  <2> HIDE DEF k
  <2>3. r \in Nat /\ (r = 0 => ~RSP!HasLine(raw, text))
    BY <1>2, <2>2, FoundAt
  <2>4. r # 0 => LineRead(raw, text, k, item, got)
    BY <1>2, <2>2, ReadsLine
  <2> QED BY <2>2, <2>3, <2>4
<1>13. ASSUME m >= Len(s) + 3, r # 0
       PROVE  /\ RSP!HasLine(raw, text) /\ cont = CutTo(item, r)
              /\ r >= Len(item) + 2 => Before(W, got, RSP!Passed(raw, text), k + Len(item) + 2)
              /\ r < Len(item) + 2 => RSP!Passed(raw, text) = got + 1
  <2>1. LineRead(raw, text, k, item, got)
    BY <1>12, <1>13
  <2> HIDE DEF k
  <2>2. /\ r >= Len(item) + 2 => Before(W, got, RSP!Passed(raw, text), k + Len(item) + 2)
        /\ r < Len(item) + 2 => RSP!Passed(raw, text) = got + 1
    BY <1>2, <2>1, NextBefore
  <2> QED BY <2>1, <2>2 DEF LineRead, cont
<1>14. ASSUME m >= Len(s) + 3, r < Len(item) PROVE ~q.ok
  <2>1. length # -1 /\ length >= 0 /\ RSP!HasLine(raw, p.at)
    BY <1>1, <1>12, <1>14
  <2>2. ~RSP!HasLine(raw, text) \/ Len(cont) < length
    <3>1. CASE r = 0
      BY <1>12, <1>14, <3>1
    <3>2. CASE r # 0
      <4>1. r \in Nat /\ "CR" \in Symbols
        BY <1>12, <1>14, SymbolsAre
      <4> HIDE DEF r, k, m
      <4>2. Len(CutTo(item, r)) = r
        BY <1>1, <1>14, <4>1, CutToIs DEF SymSeq
      <4> QED BY <1>12, <1>13, <1>14, <3>2, <4>1, <4>2
    <3> QED BY <3>1, <3>2
  <2>3. q = [p EXCEPT !.ok = FALSE]
    BY <2>1, <2>2 DEF RSP!ParseItem, length, text, cont
  <2> HIDE DEF q
  <2> QED BY <2>3 DEF Progress
<1>15. ASSUME m >= Len(s) + 3, r >= Len(item)
       PROVE  q.ok /\ q.at = RSP!Passed(raw, text) /\ q.items = Append(p.items, item)
  <2>1. length = Len(item) /\ length # -1 /\ ~(length < 0) /\ RSP!HasLine(raw, p.at)
    BY <1>1, <1>12, <1>15
  <2>2. r # 0 /\ r \in Nat
    BY <1>1, <1>12, <1>15
  <2>3. RSP!HasLine(raw, text) /\ ~(Len(cont) < length) /\ SubSeq(cont, 1, length) = item
    <3> HIDE DEF r, k, m
    <3>1. Len(CutTo(item, r)) >= Len(item) /\ SubSeq(CutTo(item, r), 1, Len(item)) = item
      BY <1>1, <1>15, <2>2, CutWhole
    <3>2. RSP!HasLine(raw, text) /\ cont = CutTo(item, r)
      BY <1>13, <1>15, <2>2
    <3>3. Len(CutTo(item, r)) \in Nat
      <4>1. "CR" \in Symbols
        BY SymbolsAre
      <4>2. CutTo(item, r) \in SymSeq
        BY <1>1, <2>2, <4>1, CutToIs DEF SymSeq
      <4> QED BY <4>2, LenProperties DEF SymSeq
    <3> QED BY <1>1, <2>1, <3>1, <3>2, <3>3
  <2>4. q = [p EXCEPT !.at = RSP!Passed(raw, text), !.items = Append(p.items, item)]
    BY <2>1, <2>3 DEF RSP!ParseItem, length, text, cont
  <2> HIDE DEF q
  <2> QED BY <2>4 DEF Progress
<1>16. /\ m >= Len(RSP!WireItem(item)) <=> m >= Len(s) + 3 /\ r >= Len(item) + 2
       /\ k + Len(item) + 2 = i + Len(RSP!WireItem(item))
  BY <1>1, <1>3, <1>4
<1>17. ASSUME m >= Len(RSP!WireItem(item)) PROVE ItemWhole(raw, W, got, p, i, item)
  <2>1. m >= Len(s) + 3 /\ r >= Len(item) + 2 /\ r >= Len(item) /\ r # 0
    BY <1>1, <1>12, <1>16, <1>17
  <2> HIDE DEF m, r, k, q
  <2>2. Before(W, got, q.at, i + Len(RSP!WireItem(item))) /\ q.ok /\ q.items = Append(p.items, item)
    BY <1>13, <1>15, <1>16, <2>1
  <2> QED BY <2>2 DEF ItemWhole, ShownItem, q
<1>18. ASSUME m < Len(RSP!WireItem(item)) PROVE ItemCut(raw, got, p, i, item)
  <2>1. CASE m = 0
    BY <1>5, <2>1 DEF ItemCut
  <2>2. CASE m >= Len(s) + 3 /\ r < Len(item)
    BY <1>14, <2>2 DEF ItemCut
  <2>3. CASE m >= Len(s) + 3 /\ r >= Len(item)
    <3>1. r < Len(item) + 2 /\ r # 0
      BY <1>1, <1>3, <1>4, <1>18, <2>3
    <3> HIDE DEF m, r, k, q
    <3>2. q.ok /\ q.at = got + 1 /\ q.items = Append(p.items, item)
      BY <1>13, <1>15, <2>3, <3>1
    <3> QED BY <1>1, <3>2 DEF ItemCut, ShownItem, q
  <2>4. CASE m # 0 /\ ~(m >= Len(s) + 3)
    <3>1. m = 1 \/ m = Len(s) + 2 \/ m \in 2 .. Len(s) + 1
      BY <1>3, <1>4, <2>4
    <3> QED BY <1>10, <1>11, <3>1
  <2>5. m \in Nat /\ r \in Int
    BY <1>1, <1>3, <1>4
  <2> QED BY <1>1, <2>1, <2>2, <2>3, <2>4, <2>5
<1> HIDE DEF m
<1> QED BY <1>17, <1>18 DEF m

ShownItems(items, j) == [i \in 1 .. j |-> ShownItem(items[i])]

LEMMA ShownGrows ==
  ASSUME NEW items \in Seq(RSP!Items), NEW j \in 0 .. Len(items) - 1
  PROVE  /\ Append(ShownItems(items, j), ShownItem(items[j + 1])) = ShownItems(items, j + 1)
         /\ ShownItems(items, j) \in Seq(SymSeq) /\ ShownItem(items[j + 1]) \in SymSeq
<1>1. ASSUME NEW i \in 1 .. Len(items) PROVE ShownItem(items[i]) \in SymSeq
  <2>1. items[i] \in RSP!Items
    BY ElementOfSeq
  <2>2. RSP!NilItem \in SymSeq
    <3>1. "n" \in Symbols /\ "i" \in Symbols /\ "l" \in Symbols
      BY SymbolsAre
    <3> QED BY <3>1 DEF RSP!NilItem, SymSeq
  <2> QED BY <2>1, <2>2, ItemIs DEF ShownItem
<1>2. Len(items) \in Nat /\ j \in Nat /\ j + 1 \in 1 .. Len(items) /\ \A i \in 1 .. j + 1 : i \in 1 .. Len(items)
  BY LenProperties
<1> DEFINE a == ShownItems(items, j)
           b == ShownItems(items, j + 1)
           x == ShownItem(items[j + 1])
<1>3. a \in Seq(SymSeq) /\ Len(a) = j /\ \A i \in 1 .. j : a[i] = ShownItem(items[i])
  <2>1. a \in [1 .. j -> SymSeq]
    BY <1>1, <1>2 DEF ShownItems
  <2>2. \A i \in 1 .. j : a[i] = ShownItem(items[i])
    BY DEF ShownItems
  <2> HIDE DEF a
  <2> QED BY <1>2, <2>1, <2>2
<1>4. b \in Seq(SymSeq) /\ Len(b) = j + 1 /\ \A i \in 1 .. j + 1 : b[i] = ShownItem(items[i])
  <2>1. b \in [1 .. j + 1 -> SymSeq]
    BY <1>1, <1>2 DEF ShownItems
  <2>2. \A i \in 1 .. j + 1 : b[i] = ShownItem(items[i])
    BY DEF ShownItems
  <2> HIDE DEF b
  <2> QED BY <1>2, <2>1, <2>2
<1>5. x \in SymSeq
  BY <1>1, <1>2
<1> HIDE DEF a, b
<1>6. Append(a, x) \in Seq(SymSeq) /\ Len(Append(a, x)) = j + 1 /\ Append(a, x)[j + 1] = x
      /\ \A i \in 1 .. j : Append(a, x)[i] = a[i]
  <2> HIDE DEF x
  <2> QED BY <1>3, <1>5, AppendProperties
<1>7. ASSUME NEW i \in 1 .. j + 1 PROVE Append(a, x)[i] = b[i]
  <2>1. CASE i = j + 1
    BY <1>4, <1>6, <2>1
  <2>2. CASE i # j + 1
    <3>1. i \in 1 .. j
      BY <1>2, <2>2
    <3> HIDE DEF x
    <3> QED BY <1>3, <1>4, <1>6, <3>1
  <2> QED BY <2>1, <2>2
<1>8. Append(a, x) = b
  <2> HIDE DEF x
  <2> QED BY <1>2, <1>4, <1>6, <1>7, SeqEqual
<1> QED BY <1>3, <1>5, <1>8 DEF a, b

(* Cut where the length of the item at i cannot be read. *)
CutInLength(got, i, item) == got - i + 1 \in {1, Len(RSP!WireItem(item)) - Len(item) - 3}

(* All of the first j items were there; or their end was not, and the j-th was taken all the same, or not. *)
GoodTurn(W, got, g, j, items, i) ==
  got >= i - 1 /\ g[j].ok /\ g[j].items = ShownItems(items, j) /\ Before(W, got, g[j].at, i)
CutTurn(got, g, j, items, i) ==
  /\ got < i - 1
  /\ \/ ~g[j].ok
     \/ /\ j >= 1 /\ g[j].ok /\ g[j].at = got + 1
        /\ \/ g[j].items = ShownItems(items, j)
           \/ CutInLength(got, i - Len(RSP!WireItem(items[j])), items[j])

LEMMA OneTurn ==
  ASSUME NEW W, NEW got, NEW raw, Begun(raw, W, got),
         NEW items \in Seq(RSP!Items), \A n \in 1 .. Len(items) : RSP!Plain(items[n]),
         NEW g, NEW at, Turns(g, raw, Len(items), at),
         NEW j \in 1 .. Len(items), NEW i \in Nat, NEW e \in Nat,
         Occurs(W, i, RSP!WireItem(items[j])), e = i + Len(RSP!WireItem(items[j])),
         GoodTurn(W, got, g, j - 1, items, i) \/ CutTurn(got, g, j - 1, items, i)
  PROVE  GoodTurn(W, got, g, j, items, e) \/ CutTurn(got, g, j, items, e)
<1> DEFINE item == items[j]
           size == Len(RSP!WireItem(item))
           p == g[j - 1]
           q == RSP!ParseItem(raw, p)
<1>1. /\ item \in RSP!Items /\ RSP!Plain(item) /\ size \in Nat /\ got \in Nat /\ Len(items) \in Nat
      /\ j - 1 \in 0 .. Len(items) - 1 /\ j - 1 \in 0 .. Len(items) /\ (j - 1) + 1 = j
  <2>1. item \in RSP!Items
    BY ElementOfSeq
  <2>2. RSP!WireItem(item) \in SymSeq
    BY <2>1, ItemParts
  <2>3. size \in Nat
    BY <2>2, LenProperties DEF SymSeq
  <2>4. got \in Nat /\ Len(items) \in Nat
    BY LenProperties DEF Begun, SymSeq
  <2>5. j - 1 \in 0 .. Len(items) - 1 /\ j - 1 \in 0 .. Len(items) /\ (j - 1) + 1 = j
    BY <2>4
  <2> QED BY <2>1, <2>3, <2>4, <2>5
<1>2. p \in Progress /\ g[j] = IF p.ok THEN q ELSE p
  BY <1>1 DEF Turns
<1>3. /\ Append(ShownItems(items, j - 1), ShownItem(item)) = ShownItems(items, j)
  BY <1>1, ShownGrows
<1> HIDE DEF item, size, p, q
<1>4. e = i + size
  BY DEF item, size
<1>5. CASE GoodTurn(W, got, g, j - 1, items, i)
  <2>1. p.ok /\ p.items = ShownItems(items, j - 1) /\ Before(W, got, p.at, i) /\ got >= i - 1 /\ g[j] = q
    BY <1>2, <1>5 DEF GoodTurn, p
  <2>2. Occurs(W, i, RSP!WireItem(item))
    BY DEF item
  <2>3. /\ got - i + 1 >= size => ItemWhole(raw, W, got, p, i, item)
        /\ got - i + 1 < size => ItemCut(raw, got, p, i, item)
    <3>1. CASE item = RSP!Nil
      BY <1>2, <2>1, <2>2, <3>1, NilTurn DEF size
    <3>2. CASE item # RSP!Nil
      BY <1>1, <1>2, <2>1, <2>2, <3>2, TextTurn DEF size
    <3> QED BY <3>1, <3>2
  <2>4. CASE got - i + 1 >= size
    <3>1. q.ok /\ q.items = ShownItems(items, j) /\ Before(W, got, q.at, e)
      BY <1>3, <1>4, <2>1, <2>3, <2>4 DEF ItemWhole, q, size
    <3>2. got >= e - 1
      BY <1>1, <1>4, <2>4
    <3> QED BY <2>1, <3>1, <3>2 DEF GoodTurn
  <2>5. CASE got - i + 1 < size
    <3>1. got < e - 1
      BY <1>1, <1>4, <2>5
    <3>2. ItemCut(raw, got, p, i, item)
      BY <2>3, <2>5
    <3>3. CASE ~q.ok
      BY <2>1, <3>1, <3>3 DEF CutTurn
    <3>4. CASE q.ok
      <4>1. PICK x \in SymSeq : /\ q.at = got + 1 /\ q.items = Append(p.items, x)
                                /\ x = ShownItem(item) \/ CutInLength(got, i, item)
        BY <3>2, <3>4 DEF ItemCut, CutInLength, q
      <4>2. e - Len(RSP!WireItem(items[j])) = i
        BY <1>1, <1>4 DEF size, item
      <4>3. q.items = ShownItems(items, j) \/ CutInLength(got, e - Len(RSP!WireItem(items[j])), items[j])
        BY <1>3, <2>1, <4>1, <4>2 DEF item
      <4> QED BY <2>1, <3>1, <3>4, <4>1, <4>3 DEF CutTurn
    <3> QED BY <3>3, <3>4
  <2>6. got - i + 1 \in Int
    BY <1>1
  <2> QED BY <1>1, <2>4, <2>5, <2>6
<1>6. CASE CutTurn(got, g, j - 1, items, i)
  <2>1. got < e - 1
    BY <1>1, <1>4, <1>6 DEF CutTurn
  <2>2. ~g[j].ok
    <3>1. CASE ~p.ok
      BY <1>2, <3>1
    <3>2. CASE p.ok
      <4>1. p.at = got + 1
        BY <1>6, <3>2 DEF CutTurn, p
      <4>2. ~RSP!HasLine(raw, p.at)
        BY <4>1, NoneLeft
      <4>3. q = [p EXCEPT !.ok = FALSE]
        BY <4>2 DEF RSP!ParseItem, q
      <4> QED BY <1>2, <3>2, <4>3 DEF Progress
    <3> QED BY <3>1, <3>2
  <2> QED BY <2>1, <2>2 DEF CutTurn
<1> QED BY <1>5, <1>6

(* The items of an array, behind what precedes them, and what becomes of them. *)
ItemsFollow(W, got, raw, items, f, h, at) ==
  /\ Begun(raw, W, got) /\ Builds(f, items)
  /\ items \in Seq(RSP!Items) /\ \A n \in 1 .. Len(items) : RSP!Plain(items[n])
  /\ h \in Nat \ {0} /\ Occurs(W, h, f[Len(items)]) /\ Len(W) = h - 1 + Len(f[Len(items)])
  /\ at \in Nat /\ Before(W, got, at, h) /\ got >= h - 1

ItemsCome(W, got, q, items, N) ==
  /\ got = Len(W) => q.ok /\ q.items = ShownItems(items, N)
  /\ q.ok => \/ q.items = ShownItems(items, N)
             \/ N >= 1 /\ CutInLength(got, Len(W) + 1 - Len(RSP!WireItem(items[N])), items[N])

LEMMA ItemsParsed ==
  ASSUME NEW W, NEW got, NEW raw, NEW items, NEW f, NEW h, NEW at, ItemsFollow(W, got, raw, items, f, h, at)
  PROVE  ItemsCome(W, got, RSP!ParseItems(raw, Len(items), at), items, Len(items))
<1> SUFFICES
      ASSUME Begun(raw, W, got),
             items \in Seq(RSP!Items), \A n \in 1 .. Len(items) : RSP!Plain(items[n]),
             Builds(f, items), h \in Nat \ {0}, Occurs(W, h, f[Len(items)]),
             Len(W) = h - 1 + Len(f[Len(items)]),
             at \in Nat, Before(W, got, at, h), got >= h - 1
      PROVE  LET N == Len(items)
                 q == RSP!ParseItems(raw, N, at)
             IN  /\ got = Len(W) => q.ok /\ q.items = ShownItems(items, N)
                 /\ q.ok => \/ q.items = ShownItems(items, N)
                            \/ N >= 1 /\ CutInLength(got, Len(W) + 1 - Len(RSP!WireItem(items[N])), items[N])
  BY DEF ItemsFollow, ItemsCome
<1> DEFINE N == Len(items)
           P(j) == h + Len(f[j])
           q == RSP!ParseItems(raw, N, at)
<1>1. raw \in SymSeq /\ W \in SymSeq /\ N \in Nat /\ got \in Nat /\ Len(W) \in Nat /\ got <= Len(W)
  BY LenProperties DEF Begun, SymSeq
<1>2. PICK g : Turns(g, raw, N, at) /\ q = g[N]
  BY <1>1, TurnsAre
<1>3. /\ \A n \in 0 .. N : Len(f[n]) \in Nat
      /\ \A n \in 1 .. N : /\ Occurs(W, h + Len(f[n - 1]), RSP!WireItem(items[n]))
                           /\ Len(f[n]) = Len(f[n - 1]) + Len(RSP!WireItem(items[n]))
  BY <1>1, ItemsAt
<1> HIDE DEF q
<1> DEFINE Turned(j) == GoodTurn(W, got, g, j, items, P(j)) \/ CutTurn(got, g, j, items, P(j))
           T == {j \in 0 .. N : Turned(j)}
<1>4. Turned(0)
  <2>1. g[0] = [ok |-> TRUE, at |-> at, items |-> << >>]
    BY <1>2 DEF Turns
  <2>2. ShownItems(items, 0) = << >>
    BY DEF ShownItems
  <2>3. Len(f[0]) = 0 /\ P(0) = h
    <3>1. f[0] = << >>
      BY DEF Builds
    <3> QED BY <3>1
  <2> HIDE DEF P
  <2> QED BY <2>1, <2>2, <2>3 DEF GoodTurn
<1>5. ASSUME NEW j \in 0 .. N, j \in T, j # N PROVE j + 1 \in T
  <2>1. j + 1 \in 1 .. N /\ (j + 1) - 1 = j /\ j + 1 \in 0 .. N
    BY <1>1, <1>5
  <2>2. P(j) \in Nat /\ P(j + 1) \in Nat
    BY <1>3, <2>1
  <2>3. Occurs(W, P(j), RSP!WireItem(items[j + 1]))
    BY <1>3, <2>1
  <2>4. P(j + 1) = P(j) + Len(RSP!WireItem(items[j + 1]))
    <3>1. Len(f[j + 1]) = Len(f[(j + 1) - 1]) + Len(RSP!WireItem(items[j + 1]))
      BY <1>3, <2>1
    <3>2. Len(f[j]) \in Nat /\ Len(f[j + 1]) \in Nat
      BY <1>3, <2>1
    <3>3. Len(RSP!WireItem(items[j + 1])) \in Nat
      <4>1. items[j + 1] \in RSP!Items
        BY <2>1, ElementOfSeq
      <4>2. RSP!WireItem(items[j + 1]) \in SymSeq
        BY <4>1, ItemParts
      <4> QED BY <4>2, LenProperties DEF SymSeq
    <3>4. Len(f[j + 1]) = Len(f[j]) + Len(RSP!WireItem(items[j + 1]))
      BY <2>1, <3>1
    <3> DEFINE a == Len(f[j + 1])
               b == Len(f[j])
               c == Len(RSP!WireItem(items[j + 1]))
    <3>5. h + a = (h + b) + c
      <4>1. a \in Nat /\ b \in Nat /\ c \in Nat /\ a = b + c
        BY <3>2, <3>3, <3>4
      <4> HIDE DEF a, b, c
      <4> QED BY <4>1
    <3> QED BY <3>5
  <2> DEFINE k == j + 1
             i == P(j)
             e == P(j + 1)
  <2>5. GoodTurn(W, got, g, k - 1, items, i) \/ CutTurn(got, g, k - 1, items, i)
    <3>1. Turned(j)
      BY <1>5
    <3> HIDE DEF P
    <3> QED BY <2>1, <3>1
  <2>6. /\ k \in 1 .. Len(items) /\ i \in Nat /\ e \in Nat /\ Occurs(W, i, RSP!WireItem(items[k]))
        /\ e = i + Len(RSP!WireItem(items[k])) /\ Turns(g, raw, Len(items), at)
    <3> HIDE DEF P
    <3> QED BY <1>2, <2>1, <2>2, <2>3, <2>4
  <2>7. GoodTurn(W, got, g, k, items, e) \/ CutTurn(got, g, k, items, e)
    <3> HIDE DEF k, i, e
    <3> QED BY <2>5, <2>6, OneTurn
  <2> HIDE DEF P
  <2> QED BY <2>1, <2>7
<1>6. N \in T
  <2>1. 0 \in T
    BY <1>1, <1>4
  <2>2. 0 .. N \subseteq T
    <3> HIDE DEF T, N
    <3> QED BY <1>1, <1>5, <2>1, BoundedInduction
  <2> HIDE DEF T
  <2> QED BY <1>1, <2>2
<1>7. GoodTurn(W, got, g, N, items, P(N)) \/ CutTurn(got, g, N, items, P(N))
  <2> HIDE DEF P, N
  <2> QED BY <1>6
<1>8. P(N) = Len(W) + 1
  <2>1. Len(f[N]) \in Nat
    BY <1>1, <1>3
  <2> QED BY <1>1, <2>1
<1> HIDE DEF P, N, T, Turned
<1>9. CASE GoodTurn(W, got, g, N, items, P(N))
  BY <1>2, <1>9 DEF GoodTurn, q, N
<1>10. CASE CutTurn(got, g, N, items, P(N))
  <2>1. got # Len(W)
    BY <1>1, <1>8, <1>10 DEF CutTurn
  <2>2. q.ok => \/ q.items = ShownItems(items, N)
                \/ N >= 1 /\ CutInLength(got, Len(W) + 1 - Len(RSP!WireItem(items[N])), items[N])
    <3>1. P(N) - Len(RSP!WireItem(items[N])) = Len(W) + 1 - Len(RSP!WireItem(items[N]))
      BY <1>8
    <3>2. q.ok => \/ q.items = ShownItems(items, N)
                  \/ N >= 1 /\ CutInLength(got, P(N) - Len(RSP!WireItem(items[N])), items[N])
      BY <1>2, <1>10 DEF CutTurn
    <3> QED BY <3>1, <3>2
  <2> QED BY <2>1, <2>2 DEF q, N
<1> QED BY <1>7, <1>9, <1>10

(* Without a line in front of it the loop fails, or has nothing to do. *)
LEMMA NoneParsed ==
  ASSUME NEW raw \in SymSeq, NEW n \in Nat, NEW at \in Nat, ~RSP!HasLine(raw, at)
  PROVE  LET q == RSP!ParseItems(raw, n, at)
         IN  IF n = 0 THEN q.ok /\ q.items = << >> ELSE ~q.ok
<1> DEFINE q == RSP!ParseItems(raw, n, at)
<1>1. PICK g : Turns(g, raw, n, at) /\ q = g[n]
  BY TurnsAre
<1> HIDE DEF q
<1>2. g[0] = [ok |-> TRUE, at |-> at, items |-> << >>]
  BY <1>1 DEF Turns
<1>3. CASE n = 0
  <2>1. q.ok /\ q.items = << >>
    BY <1>1, <1>2, <1>3
  <2> QED BY <1>3, <2>1 DEF q
<1>4. CASE n # 0
  <2> DEFINE T == {j \in 0 .. n : j >= 1 => ~g[j].ok}
  <2>1. 0 \in T
    OBVIOUS
  <2>2. ASSUME NEW j \in 0 .. n, j \in T, j # n PROVE j + 1 \in T
    <3>1. j + 1 \in 1 .. n /\ (j + 1) - 1 = j /\ j + 1 \in 0 .. n
      BY <2>2
    <3>2. g[j + 1] = IF g[j].ok THEN RSP!ParseItem(raw, g[j]) ELSE g[j]
      BY <1>1, <3>1 DEF Turns
    <3>3. ~g[j + 1].ok
      <4>1. CASE j = 0
        <5> DEFINE p == g[0]
        <5>1. p \in Progress /\ p.ok /\ p.at = at
          <6>1. 0 \in 0 .. n /\ g \in [0 .. n -> Progress]
            BY <1>1 DEF Turns
          <6>2. p.ok /\ p.at = at
            BY <1>2
          <6> QED BY <6>1, <6>2
        <5> HIDE DEF p
        <5>2. RSP!ParseItem(raw, p) = [p EXCEPT !.ok = FALSE]
          BY <5>1 DEF RSP!ParseItem
        <5>3. ~RSP!ParseItem(raw, p).ok
          BY <5>1, <5>2 DEF Progress
        <5> QED BY <3>2, <4>1, <5>1, <5>3 DEF p
      <4>2. CASE j # 0
        BY <2>2, <3>2, <4>2
      <4> QED BY <4>1, <4>2
    <3> QED BY <3>1, <3>3
  <2>3. 0 .. n \subseteq T
    <3> HIDE DEF T
    <3> QED BY <2>1, <2>2, BoundedInduction
  <2>4. ~g[n].ok
    BY <1>4, <2>3
  <2> QED BY <1>1, <1>4, <2>4 DEF q
<1> QED BY <1>3, <1>4

(***************************************************************************)
(* The replies, one kind after the other.                                  *)
(***************************************************************************)
LEMMA BegunIs ==
  ASSUME NEW W \in SymSeq, NEW got \in 0 .. Len(W)
  PROVE  Begun(SubSeq(W, 1, got), W, got) /\ Occurs(W, 1, W)
<1> DEFINE raw == SubSeq(W, 1, got)
<1>1. Len(W) \in Nat /\ got \in Nat
  BY LenProperties DEF SymSeq
<1>2. raw \in SymSeq /\ Len(raw) = got /\ \A i \in 1 .. got : raw[i] = W[i]
  <2>1. 1 \in 1 .. Len(W) + 1 /\ got \in 1 - 1 .. Len(W)
    BY <1>1
  <2>2. /\ raw \in SymSeq /\ Len(raw) = IF 1 <= got THEN got - 1 + 1 ELSE 0
        /\ \A i \in 1 .. got - 1 + 1 : raw[i] = W[1 + i - 1]
    BY <2>1, SubSeqProperties DEF SymSeq
  <2>3. got - 1 + 1 = got /\ \A i \in 1 .. got : 1 + i - 1 = i
    BY <1>1
  <2> HIDE DEF raw
  <2> QED BY <1>1, <2>2, <2>3
<1> HIDE DEF raw
<1>3. Occurs(W, 1, W)
  BY <1>1 DEF Occurs
<1> QED BY <1>2, <1>3 DEF Begun, raw

Kinds == {"+", "-", ":", ",", "$", "*"}

(* What the first line's kind decides about the rest of it and the lines that follow. *)
Decided(raw, c, rest, at) ==
  IF c = "$" THEN RSP!ParseBulk(raw, rest, at) ELSE IF c = "*" THEN RSP!ParseArray(raw, rest, at) ELSE RSP!Ok(c, <<rest>>)

(* The first line, of kind c, is cut to m symbols behind its kind. *)
Opens(W, got, raw, m, c, s) ==
  /\ m \in Nat /\ got = m + 1 /\ Begun(raw, W, got)
  /\ c \in Kinds /\ s \in SymSeq /\ RSP!Plain(s) /\ LineAt(W, 1, <<c>> \o s)

Opened(W, got, raw, m, c, s) ==
  /\ RSP!Passed(raw, 1) \in Nat
  /\ m >= Len(s) + 2 => Before(W, got, RSP!Passed(raw, 1), Len(s) + 4)
  /\ m < Len(s) + 2 => RSP!Passed(raw, 1) = got + 1
  /\ RSP!Parse(raw) = Decided(raw, c, CutTo(s, m), RSP!Passed(raw, 1))

LEMMA FirstLine ==
  ASSUME NEW W, NEW got, NEW raw, NEW m, NEW c, NEW s, Opens(W, got, raw, m, c, s)
  PROVE  Opened(W, got, raw, m, c, s)
<1>0. /\ m \in Nat /\ got = m + 1 /\ Begun(raw, W, got)
      /\ c \in Kinds /\ s \in SymSeq /\ RSP!Plain(s) /\ LineAt(W, 1, <<c>> \o s)
  BY DEF Opens
<1> DEFINE l == <<c>> \o s
           at == RSP!Passed(raw, 1)
           R == {i \in 1 .. Len(raw) : RSP!Begins(raw, i) /\ raw[i] \in {"+", "-", ":", ",", "$", "*"}}
           rest == Tail(RSP!NextLine(raw, RSP!Smallest(R)))
<1>1. c \in Symbols /\ c # "CR"
  BY <1>0, SymbolsAre DEF Kinds
<1>2. l \in SymSeq /\ Len(l) = Len(s) + 1 /\ l[1] = c /\ Len(s) \in Nat
  BY <1>0, <1>1, HeadedPlain, LenProperties DEF SymSeq
<1> HIDE DEF l
<1>3. raw \in SymSeq /\ got \in Nat /\ got # 0 /\ Len(raw) = got
  BY <1>0, LenProperties DEF Begun, SymSeq
<1>4. Before(W, got, 1, 1)
  BY DEF Before
<1>5. LineAt(W, 1, l)
  BY <1>0 DEF l
<1>6. RSP!Parse(raw) = IF R = {} THEN RSP!Failed("InvalidResp")
                       ELSE CASE raw[RSP!Smallest(R)] = "$" -> RSP!ParseBulk(raw, rest, RSP!Passed(raw, RSP!Smallest(R)))
                              [] raw[RSP!Smallest(R)] = "*" -> RSP!ParseArray(raw, rest, RSP!Passed(raw, RSP!Smallest(R)))
                              [] OTHER -> RSP!Ok(raw[RSP!Smallest(R)], <<rest>>)
  BY DEF RSP!Parse
<1>8. /\ RSP!Smallest(R) = 1 /\ R # {} /\ raw[1] = c /\ RSP!NextLine(raw, 1) = CutTo(l, got)
      /\ LineRead(raw, 1, 1, l, got)
  <2>1. got - 1 + 1 = got /\ got - 1 + 1 # 0
    BY <1>3
  <2>2. LineRead(raw, 1, 1, l, got)
    BY <1>0, <1>4, <1>5, <2>1, ReadsLine
  <2>3. RSP!Begins(raw, 1)
    BY <1>0, <1>4, <1>5, <2>1, FoundAt
  <2>4. raw[1] = c
    <3>1. 1 \in 1 .. got /\ 1 \in 1 .. Len(l) /\ 1 + 1 - 1 = 1
      BY <1>2, <1>3
    <3>2. raw[1] = W[1] /\ W[1] = l[1]
      BY <1>0, <1>5, <3>1 DEF Begun, LineAt, Occurs
    <3> QED BY <1>2, <3>2
  <2>5. 1 \in R /\ R \subseteq Nat /\ \A j \in R : 1 <= j
    <3>1. 1 \in 1 .. Len(raw)
      BY <1>3
    <3>2. raw[1] \in {"+", "-", ":", ",", "$", "*"}
      BY <1>0, <2>4 DEF Kinds
    <3>3. 1 \in R
      BY <2>3, <3>1, <3>2
    <3>4. R \subseteq 1 .. Len(raw)
      OBVIOUS
    <3>5. \A j \in 1 .. Len(raw) : j \in Nat /\ 1 <= j
      BY <1>3
    <3> HIDE DEF R
    <3> QED BY <3>3, <3>4, <3>5
  <2>6. RSP!Smallest(R) = 1
    <3> HIDE DEF R
    <3> QED BY <2>5, SmallestOnce
  <2> QED BY <2>1, <2>2, <2>4, <2>5, <2>6 DEF LineRead
<1> HIDE DEF R
<1>9. rest = CutTo(s, m)
  <2>1. got \in Nat \ {0} /\ got - 1 = m
    BY <1>0, <1>3
  <2>2. Tail(CutTo(l, got)) = CutTo(s, got - 1)
    BY <1>0, <1>1, <2>1, TailOfCut DEF l
  <2> QED BY <1>8, <2>1, <2>2
<1>10. at \in Nat
  BY <1>3, LineTyped
<1>11. /\ m >= Len(s) + 2 => Before(W, got, at, Len(s) + 4)
       /\ m < Len(s) + 2 => at = got + 1
  <2>1. got - 1 + 1 = got
    BY <1>3
  <2>2. /\ got - 1 + 1 >= Len(l) + 2 => Before(W, got, at, 1 + Len(l) + 2)
        /\ got - 1 + 1 < Len(l) + 2 => at = got + 1
    BY <1>0, <1>5, <1>8, NextBefore
  <2>3. Len(l) + 2 = Len(s) + 3 /\ 1 + Len(l) + 2 = Len(s) + 4
    BY <1>2
  <2>4. (m >= Len(s) + 2 => got >= Len(l) + 2) /\ (m < Len(s) + 2 => got < Len(l) + 2)
    BY <1>0, <1>2
  <2> HIDE DEF at
  <2> QED BY <2>1, <2>2, <2>3, <2>4
<1> HIDE DEF rest, at
<1>12. /\ c = "$" => RSP!Parse(raw) = RSP!ParseBulk(raw, CutTo(s, m), at)
       /\ c = "*" => RSP!Parse(raw) = RSP!ParseArray(raw, CutTo(s, m), at)
       /\ c \notin {"$", "*"} => RSP!Parse(raw) = RSP!Ok(c, <<CutTo(s, m)>>)
  BY <1>6, <1>8, <1>9 DEF at
<1>13. RSP!Parse(raw) = Decided(raw, c, CutTo(s, m), at)
  BY <1>12 DEF Decided
<1> QED BY <1>10, <1>11, <1>13 DEF at, Opened

LEMMA HeadAt ==
  ASSUME NEW c \in Symbols, c # "CR", NEW s \in SymSeq, RSP!Plain(s)
  PROVE  /\ (<<c>> \o s) \o RSP!EOL \in SymSeq
         /\ Len((<<c>> \o s) \o RSP!EOL) = Len(s) + 3 /\ Len(s) \in Nat
         /\ \A W \in SymSeq : Occurs(W, 1, (<<c>> \o s) \o RSP!EOL) => LineAt(W, 1, <<c>> \o s)
<1> DEFINE l == <<c>> \o s
           h == l \o RSP!EOL
<1>1. l \in SymSeq /\ Len(l) = Len(s) + 1 /\ RSP!Plain(l) /\ Len(s) \in Nat
  BY HeadedPlain, LenProperties DEF SymSeq
<1> HIDE DEF l
<1>2. h \in SymSeq /\ Len(h) = Len(l) + Len(RSP!EOL)
  BY <1>1, EolSeq, ConcatProperties DEF SymSeq
<1> HIDE DEF h
<1>3. Len(h) = Len(s) + 3
  BY <1>1, <1>2, EolSeq
<1>4. ASSUME NEW W \in SymSeq, Occurs(W, 1, h) PROVE LineAt(W, 1, l)
  <2>1. Occurs(W, 1, l \o RSP!EOL)
    BY <1>4 DEF h
  <2>2. Occurs(W, 1, l) /\ Occurs(W, 1 + Len(l), RSP!EOL)
    BY <1>1, <2>1, EolSeq, OccursBoth
  <2> QED BY <1>1, <2>2, LineOccurs
<1> QED BY <1>1, <1>2, <1>3, <1>4 DEF h, l

LEMMA CutSame ==
  ASSUME NEW l \in SymSeq, NEW m \in Nat, Len(CutTo(l, m)) = Len(l), m >= Len(l)
  PROVE  CutTo(l, m) = l
<1>1. "CR" \in Symbols /\ Len(l) \in Nat
  BY SymbolsAre, LenProperties DEF SymSeq
<1> DEFINE c == CutTo(l, m)
<1>2. c \in SymSeq /\ \A i \in 1 .. Len(l) : i <= m => c[i] = l[i]
  BY <1>1, CutToIs DEF SymSeq
<1>3. Len(c) = Len(l)
  OBVIOUS
<1> HIDE DEF c
<1>4. \A i \in 1 .. Len(c) : c[i] = l[i]
  BY <1>1, <1>2, <1>3
<1>5. c = l
  BY <1>2, <1>3, <1>4, SeqEqual DEF SymSeq
<1> QED BY <1>5 DEF c

(* A reply of one item, as a sequence. *)
LEMMA OneItem ==
  ASSUME NEW x
  PROVE  [i \in 1 .. 1 |-> x] = <<x>>
OBVIOUS

LEMMA SimpleParsed ==
  ASSUME NEW k \in Kinds \ {"$", "*"}, NEW t \in SymSeq, RSP!Plain(t), NEW raw,
         NEW W, W = (<<k>> \o t) \o RSP!EOL
  PROVE  /\ W \in SymSeq
         /\ Begun(raw, W, Len(W)) => RSP!Parse(raw) = RSP!Ok(k, <<t>>)
<1> DEFINE l == <<k>> \o t
           got == Len(W)
<1>1. k \in Symbols /\ k # "CR" /\ k \in Kinds /\ k \notin {"$", "*"}
  BY SymbolsAre DEF Kinds
<1>4. W \in SymSeq /\ Len(W) = Len(t) + 3 /\ Len(t) \in Nat
  BY <1>1, HeadAt
<1>5. ASSUME Begun(raw, W, Len(W)) PROVE RSP!Parse(raw) = RSP!Ok(k, <<t>>)
  <2>1. Len(W) \in 0 .. Len(W)
    BY <1>4
  <2>2. Occurs(W, 1, W)
    BY <1>4, <2>1, BegunIs
  <2>3. LineAt(W, 1, l)
    BY <1>1, <1>4, <2>2, HeadAt
  <2> DEFINE m == Len(t) + 2
  <2>4. m \in Nat /\ got = m + 1 /\ Begun(raw, W, got)
    BY <1>4, <1>5
  <2>5. CutTo(t, m) = t
    BY <1>4 DEF CutTo
  <2> HIDE DEF got, m
  <2> HIDE DEF l
  <2>6. RSP!Parse(raw) = Decided(raw, k, CutTo(t, m), RSP!Passed(raw, 1))
    <3>1. Opens(W, got, raw, m, k, t)
      BY <1>1, <2>3, <2>4 DEF Opens, l
    <3> QED BY <3>1, FirstLine DEF Opened
  <2>7. RSP!Parse(raw) = RSP!Ok(k, <<t>>)
    BY <1>1, <2>5, <2>6 DEF m, Decided
  <2> QED BY <2>7
<1> QED BY <1>4, <1>5

(* Refused, or understood. *)
Noticed(res, right) == res.status # "ok" \/ res = right

(* With nothing read there is no reply; else its first line decides. *)
LEMMA NothingRead ==
  ASSUME NEW W, NEW raw, Begun(raw, W, 0)
  PROVE  RSP!Parse(raw) = RSP!Failed("InvalidResp")
<1> DEFINE R == {i \in 1 .. Len(raw) : RSP!Begins(raw, i) /\ raw[i] \in {"+", "-", ":", ",", "$", "*"}}
<1>1. Len(raw) = 0
  BY DEF Begun
<1>2. R = {}
  BY <1>1
<1> HIDE DEF R
<1>3. R = {} => RSP!Parse(raw) = RSP!Failed("InvalidResp")
  BY DEF RSP!Parse, R
<1> QED BY <1>2, <1>3

LEMMA RefusedNoticed ==
  ASSUME NEW res, NEW right, NEW why \in {"InvalidResp", "ParseIntError", "panic", "use after free"}, res = RSP!Failed(why)
  PROVE  Noticed(res, right)
<1>1. res.status = why
  BY DEF RSP!Failed, RSP!Result
<1> QED BY <1>1 DEF Noticed

LEMMA NilBulkParsed ==
  ASSUME NEW W, NEW raw, NEW got, Begun(raw, W, got), W = RSP!WireItem(RSP!Nil)
  PROVE  /\ Noticed(RSP!Parse(raw), RSP!Ok("$", <<RSP!NilBulk>>))
         /\ got = Len(W) => RSP!Parse(raw) = RSP!Ok("$", <<RSP!NilBulk>>)
<1> DEFINE s == <<"-", "1">>
           size == CutTo(s, got - 1)
           at == RSP!Passed(raw, 1)
           res == RSP!Parse(raw)
           right == RSP!Ok("$", <<RSP!NilBulk>>)
<1>1. W \in SymSeq /\ RSP!Nil \in RSP!Items /\ RSP!Plain(RSP!Nil) /\ Len(W) = 5 /\ got \in Nat
  <2>1. RSP!Nil # << >> /\ Len(RSP!Nil) = 1
    BY DEF RSP!Nil
  <2>2. RSP!Plain(RSP!Nil) /\ RSP!Nil \in RSP!Items
    BY <2>1 DEF RSP!Plain, RSP!Items
  <2>3. Len(W) = 5
    BY <2>2, ItemParts
  <2> QED BY <2>2, <2>3 DEF Begun
<1>2. LineAt(W, 1, <<"$">> \o s)
  <2>1. Occurs(W, 1, W)
    BY <1>1, BegunIs DEF Begun
  <2> QED BY <1>1, <2>1, ItemLines
<1>3. s \in SymSeq /\ RSP!Plain(s)
  BY LengthsPlain
<1>4. /\ got = 0 => res = RSP!Failed("InvalidResp")
      /\ got # 0 => got - 1 \in Nat /\ res = RSP!ParseBulk(raw, size, at)
  <2>1. got = 0 => res = RSP!Failed("InvalidResp")
    BY NothingRead
  <2>2. ASSUME got # 0 PROVE got - 1 \in Nat /\ res = RSP!ParseBulk(raw, size, at)
    <3> DEFINE m == got - 1
    <3>1. m \in Nat /\ got = m + 1
      BY <1>1, <2>2
    <3> HIDE DEF m, s
    <3> DEFINE c == "$"
    <3>2. c = "$" /\ Opens(W, got, raw, m, c, s)
      BY <1>2, <1>3, <3>1 DEF Opens, Kinds
    <3> HIDE DEF c
    <3>3. RSP!Parse(raw) = Decided(raw, c, CutTo(s, m), RSP!Passed(raw, 1))
      BY <3>2, FirstLine DEF Opened
    <3>4. res = RSP!ParseBulk(raw, CutTo(s, m), at)
      BY <3>2, <3>3 DEF Decided
    <3> QED BY <3>1, <3>4 DEF m
  <2> QED BY <2>1, <2>2
<1>5. got # 0 => /\ got - 1 = 0 => size = << >>
                 /\ got - 1 = 1 => size = <<"-">>
                 /\ got - 1 = 3 => size = <<"-", "1", "CR">>
                 /\ got - 1 = 2 \/ got - 1 >= 4 => size = s
  BY <1>4, CutMinusOne
<1> HIDE DEF res, at, size, right
<1>6. CASE got = 0
  <2>1. Noticed(res, right)
    BY <1>4, <1>6, RefusedNoticed
  <2>2. got # Len(W)
    BY <1>1, <1>6
  <2> QED BY <2>1, <2>2 DEF res, right
<1>7. CASE got # 0 /\ (got - 1 = 0 \/ got - 1 = 1)
  <2>1. size = << >> \/ size = <<"-">>
    BY <1>5, <1>7
  <2>2. res = RSP!Failed("InvalidResp")
    BY <1>4, <1>7, <2>1 DEF RSP!ParseBulk
  <2>8. Noticed(res, right)
    BY <2>2, RefusedNoticed
  <2>9. got # Len(W)
    BY <1>1, <1>7
  <2> QED BY <2>8, <2>9 DEF res, right
<1>8. CASE got # 0 /\ ~(got - 1 = 0 \/ got - 1 = 1)
  <2>1. got - 1 = 3 \/ got - 1 = 2 \/ got - 1 >= 4
    BY <1>1, <1>4, <1>8
  <2>2. size = <<"-", "1", "CR">> \/ size = s
    BY <1>5, <1>8, <2>1
  <2>3. ~(size = << >> \/ size = <<"-">>) /\ size[1] = "-" /\ size[2] = "1"
    BY <2>2
  <2>4. res = right
    <3>1. res = RSP!ParseBulk(raw, size, at)
      BY <1>4, <1>8
    <3>2. RSP!ParseBulk(raw, size, at) = right
      BY <2>3 DEF RSP!ParseBulk, right
    <3> QED BY <3>1, <3>2
  <2> QED BY <2>4 DEF Noticed, res, right
<1> QED BY <1>6, <1>7, <1>8

LEMMA TextBulkParsed ==
  ASSUME NEW W, NEW raw, NEW got, Begun(raw, W, got),
         NEW item \in RSP!Items, item # RSP!Nil, RSP!Plain(item), W = RSP!WireItem(item)
  PROVE  /\ Noticed(RSP!Parse(raw), RSP!Ok("$", <<item>>))
         /\ got = Len(W) => RSP!Parse(raw) = RSP!Ok("$", <<item>>)
<1> DEFINE n == Len(item)
           s == RSP!NumText(n)
           k == 1 + Len(s) + 3
           size == CutTo(s, got - 1)
           at == RSP!Passed(raw, 1)
           r == got - k + 1
           res == RSP!Parse(raw)
           right == RSP!Ok("$", <<item>>)
<1>1. W \in SymSeq /\ item \in SymSeq /\ n \in Nat /\ got \in Nat /\ got <= Len(W) /\ raw \in SymSeq
  BY ItemIs DEF Begun
<1>2. LineAt(W, 1, <<"$">> \o s) /\ LineAt(W, k, item)
  <2>1. Occurs(W, 1, W)
    BY <1>1, BegunIs DEF Begun
  <2> QED BY <1>1, <2>1, ItemLines
<1>3. s \in SymSeq /\ RSP!Plain(s) /\ Len(s) \in Nat \ {0} /\ Len(W) = Len(s) + n + 5
  BY <1>1, LengthsPlain, ItemParts
<1>4. /\ got = 0 => res = RSP!Failed("InvalidResp")
      /\ got # 0 => /\ got - 1 \in Nat /\ at \in Nat
                    /\ res = RSP!ParseBulk(raw, size, at)
                    /\ got >= Len(s) + 3 => Before(W, got, at, Len(s) + 4)
                    /\ got < Len(s) + 3 => at = got + 1
  <2>1. got = 0 => res = RSP!Failed("InvalidResp")
    BY NothingRead
  <2>2. ASSUME got # 0
        PROVE  /\ got - 1 \in Nat /\ at \in Nat
               /\ res = RSP!ParseBulk(raw, size, at)
               /\ got >= Len(s) + 3 => Before(W, got, at, Len(s) + 4)
               /\ got < Len(s) + 3 => at = got + 1
    <3> DEFINE m == got - 1
    <3>1. m \in Nat /\ got = m + 1
      BY <1>1, <2>2
    <3>2. (got >= Len(s) + 3 => m >= Len(s) + 2) /\ (got < Len(s) + 3 => m < Len(s) + 2)
      BY <1>1, <1>3
    <3> DEFINE c == "$"
    <3> HIDE DEF m, s
    <3>5. c = "$" /\ Opens(W, got, raw, m, c, s)
      BY <1>2, <1>3, <3>1 DEF Opens, Kinds
    <3> HIDE DEF c
    <3>3. /\ at \in Nat
          /\ m >= Len(s) + 2 => Before(W, got, at, Len(s) + 4)
          /\ m < Len(s) + 2 => at = got + 1
      BY <3>5, FirstLine DEF Opened
    <3>6. RSP!Parse(raw) = Decided(raw, c, CutTo(s, m), RSP!Passed(raw, 1))
      BY <3>5, FirstLine DEF Opened
    <3>4. res = RSP!ParseBulk(raw, CutTo(s, m), at)
      BY <3>5, <3>6 DEF Decided
    <3> HIDE DEF at, res
    <3> QED BY <3>1, <3>2, <3>3, <3>4 DEF m
  <2> QED BY <2>1, <2>2
<1>5. got # 0 => /\ got - 1 = 0 => size = << >>
                 /\ got - 1 # 0 => size # << >> /\ size[1] # "-"
                 /\ got - 1 \in 1 .. Len(s) \/ got - 1 >= Len(s) + 2 => RSP!IsInt(size) /\ RSP!IntOf(size) \in Nat
                 /\ got - 1 >= Len(s) /\ got - 1 # Len(s) + 1 => RSP!IntOf(size) = n
                 /\ got - 1 = Len(s) + 1 => ~RSP!IsInt(size)
  <2> HAVE got # 0
  <2> DEFINE m == got - 1
  <2>1. m \in Nat /\ s = RSP!NumText(n) /\ size = CutTo(s, m)
    BY <1>4
  <2> HIDE DEF m, s, size, n
  <2>2. /\ m = 0 => size = << >>
        /\ m # 0 => size # << >> /\ size[1] # "-"
        /\ m \in 1 .. Len(s) \/ m >= Len(s) + 2 => RSP!IsInt(size) /\ RSP!IntOf(size) \in Nat
        /\ m >= Len(s) /\ m # Len(s) + 1 => RSP!IntOf(size) = n
        /\ m = Len(s) + 1 => ~RSP!IsInt(size)
    BY <1>1, <2>1, CutNumber
  <2> QED BY <2>2 DEF m
<1> HIDE DEF res, at, size, s, n, right
<1>6. CASE got = 0
  <2>1. Noticed(res, right)
    BY <1>4, <1>6, RefusedNoticed
  <2>2. got # Len(W)
    BY <1>1, <1>3, <1>6
  <2> QED BY <2>1, <2>2 DEF res, right
<1>7. CASE got = 1
  <2>1. size = << >>
    BY <1>5, <1>7
  <2>2. res = RSP!Failed("InvalidResp")
    BY <1>4, <1>7, <2>1 DEF RSP!ParseBulk
  <2>8. Noticed(res, right)
    BY <2>2, RefusedNoticed
  <2>9. got # Len(W)
    BY <1>1, <1>3, <1>7
  <2> QED BY <2>8, <2>9 DEF res, right
<1>8. ASSUME got # 0, got # 1
      PROVE  /\ size # << >> /\ size # <<"-">> /\ ~(size[1] = "-" /\ size[2] = "1")
             /\ res = RSP!ParseBulk(raw, size, at)
  <2>1. size # << >> /\ size[1] # "-"
    BY <1>4, <1>5, <1>8
  <2> QED BY <1>4, <1>8, <2>1
<1>9. CASE got = Len(s) + 2
  <2>1. got # 0 /\ got # 1 /\ ~RSP!IsInt(size)
    BY <1>3, <1>5, <1>9
  <2>2. res = RSP!Failed("ParseIntError")
    BY <1>8, <2>1 DEF RSP!ParseBulk
  <2>8. Noticed(res, right)
    BY <2>2, RefusedNoticed
  <2>9. got # Len(W)
    BY <1>1, <1>3, <1>9
  <2> QED BY <2>8, <2>9 DEF res, right
<1>10. CASE got \in 2 .. Len(s) + 1
  <2>1. got # 0 /\ got # 1 /\ RSP!IsInt(size) /\ RSP!IntOf(size) \in Nat /\ at = got + 1
    BY <1>3, <1>4, <1>5, <1>10
  <2>2. ~RSP!HasLine(raw, at)
    BY <2>1, NoneLeft
  <2>3. res = RSP!Failed("InvalidResp")
    BY <1>8, <2>1, <2>2 DEF RSP!ParseBulk
  <2>8. Noticed(res, right)
    BY <2>3, RefusedNoticed
  <2>9. got # Len(W)
    BY <1>1, <1>3, <1>10
  <2> QED BY <2>8, <2>9 DEF res, right
<1>11. ASSUME got >= Len(s) + 3
       PROVE  /\ got # 0 /\ got # 1 /\ RSP!IsInt(size) /\ RSP!IntOf(size) = n /\ r \in Nat
              /\ (r = 0 => ~RSP!HasLine(raw, at)) /\ (r # 0 => LineRead(raw, at, k, item, got))
  <2>1. got # 0 /\ got # 1 /\ RSP!IsInt(size) /\ RSP!IntOf(size) = n
    BY <1>1, <1>3, <1>5, <1>11
  <2>2. Before(W, got, at, k)
    <3>1. Before(W, got, at, Len(s) + 4)
      BY <1>4, <1>11, <2>1
    <3>2. Len(s) + 4 = k
      BY <1>3
    <3> QED BY <3>1, <3>2
  <2> HIDE DEF k
  <2>3. r \in Nat /\ (r = 0 => ~RSP!HasLine(raw, at))
    BY <1>2, <2>2, FoundAt
  <2>4. r # 0 => LineRead(raw, at, k, item, got)
    BY <1>2, <2>2, ReadsLine
  <2> QED BY <2>1, <2>3, <2>4
<1>12. CASE got >= Len(s) + 3
  <2> DEFINE line == RSP!NextLine(raw, at)
  <2>0. n \in Nat /\ ~(n < 0)
    BY <1>1
  <2>1. r # 0 => RSP!HasLine(raw, at) /\ line = CutTo(item, r)
    BY <1>11, <1>12 DEF LineRead
  <2>2. RSP!ParseBulk(raw, size, at) =
          IF ~RSP!HasLine(raw, at) \/ Len(line) # n THEN RSP!Failed("InvalidResp") ELSE RSP!Ok("$", <<line>>)
    BY <1>8, <1>11, <1>12, <2>0 DEF RSP!ParseBulk
  <2>3. res = RSP!ParseBulk(raw, size, at)
    BY <1>8, <1>11, <1>12
  <2> HIDE DEF line, k
  <2>4. CASE ~RSP!HasLine(raw, at) \/ Len(line) # n
    <3>1. res = RSP!Failed("InvalidResp")
      BY <2>2, <2>3, <2>4
    <3>2. got # Len(W)
      <4>1. ASSUME got = Len(W) PROVE FALSE
        <5>1. r = n + 2 /\ r # 0
          BY <1>1, <1>3, <4>1 DEF k
        <5>2. CutTo(item, r) = item
          BY <1>1, <5>1 DEF CutTo, n
        <5> QED BY <2>1, <2>4, <5>1, <5>2 DEF n
      <4> QED BY <4>1
    <3>3. Noticed(res, right)
      BY <3>1, RefusedNoticed
    <3> QED BY <3>2, <3>3 DEF res, right
  <2>5. CASE RSP!HasLine(raw, at) /\ Len(line) = n
    <3>1. r \in Nat /\ r # 0 /\ line = CutTo(item, r)
      BY <1>11, <1>12, <2>1, <2>5
    <3>2. r >= Len(item)
      <4>1. "CR" \in Symbols
        BY SymbolsAre
      <4>2. r <= Len(item) => Len(CutTo(item, r)) = r
        BY <1>1, <3>1, <4>1, CutToIs DEF SymSeq
      <4> QED BY <1>1, <2>5, <3>1, <4>2 DEF n
    <3>3. line = item
      BY <1>1, <2>5, <3>1, <3>2, CutSame DEF n
    <3>4. res = right
      BY <2>2, <2>3, <2>5, <3>3 DEF right
    <3> QED BY <3>4 DEF Noticed, res, right
  <2> QED BY <2>4, <2>5
<1>13. got = 0 \/ got = 1 \/ got = Len(s) + 2 \/ got \in 2 .. Len(s) + 1 \/ got >= Len(s) + 3
  BY <1>1, <1>3
<1> QED BY <1>6, <1>7, <1>9, <1>10, <1>12, <1>13

(* The first line of what has been read of a reply of kind c, with its rest cut. *)
LEMMA HeadRead ==
  ASSUME NEW W, NEW raw, NEW got, Begun(raw, W, got), got # 0,
         NEW c \in Kinds, NEW s \in SymSeq, RSP!Plain(s), LineAt(W, 1, <<c>> \o s)
  PROVE  /\ got - 1 \in Nat /\ RSP!Passed(raw, 1) \in Nat /\ Len(s) \in Nat
         /\ RSP!Parse(raw) = Decided(raw, c, CutTo(s, got - 1), RSP!Passed(raw, 1))
         /\ got >= Len(s) + 3 => Before(W, got, RSP!Passed(raw, 1), Len(s) + 4)
         /\ got < Len(s) + 3 => RSP!Passed(raw, 1) = got + 1
<1> DEFINE m == got - 1
           at == RSP!Passed(raw, 1)
<1>1. m \in Nat /\ got = m + 1
  BY LenProperties DEF Begun, SymSeq
<1>2. Len(s) \in Nat
  BY LenProperties DEF SymSeq
<1>3. (got >= Len(s) + 3 => m >= Len(s) + 2) /\ (got < Len(s) + 3 => m < Len(s) + 2)
  BY <1>1, <1>2
<1> HIDE DEF m
<1>4. Opens(W, got, raw, m, c, s)
  BY <1>1 DEF Opens
<1>5. Opened(W, got, raw, m, c, s)
  BY <1>4, FirstLine
<1> QED BY <1>1, <1>2, <1>3, <1>5 DEF Opened, m

LEMMA NilArrayParsed ==
  ASSUME NEW W, NEW raw, NEW got, Begun(raw, W, got), W = (<<"*">> \o <<"-", "1">>) \o RSP!EOL
  PROVE  /\ Noticed(RSP!Parse(raw), RSP!Ok("*nil", << >>))
         /\ got = Len(W) => RSP!Parse(raw) = RSP!Ok("*nil", << >>)
<1> DEFINE c == "*"
           s == <<"-", "1">>
           size == CutTo(s, got - 1)
           at == RSP!Passed(raw, 1)
           res == RSP!Parse(raw)
           right == RSP!Ok("*nil", << >>)
<1>1. s \in SymSeq /\ RSP!Plain(s) /\ Len(s) = 2
  BY LengthsPlain
<1>2. c \in Kinds /\ c \in Symbols /\ c # "CR"
  BY SymbolsAre DEF Kinds
<1>3. W \in SymSeq /\ Len(W) = 5 /\ LineAt(W, 1, <<c>> \o s) /\ got \in Nat
  <2>1. got \in Nat /\ got \in 0 .. Len(W) /\ W \in SymSeq
    BY LenProperties DEF Begun, SymSeq
  <2>2. Occurs(W, 1, W)
    BY <2>1, BegunIs
  <2>3. W = (<<c>> \o s) \o RSP!EOL
    OBVIOUS
  <2> HIDE DEF s, c
  <2>4. Len((<<c>> \o s) \o RSP!EOL) = 2 + 3 /\ LineAt(W, 1, <<c>> \o s)
    BY <1>1, <1>2, <2>1, <2>2, <2>3, HeadAt
  <2> QED BY <2>1, <2>3, <2>4
<1>4. /\ got = 0 => res = RSP!Failed("InvalidResp")
      /\ got # 0 => got - 1 \in Nat /\ res = RSP!ParseArray(raw, size, at)
  <2>1. got = 0 => res = RSP!Failed("InvalidResp")
    BY NothingRead
  <2>2. ASSUME got # 0 PROVE got - 1 \in Nat /\ res = RSP!ParseArray(raw, size, at)
    <3> HIDE DEF s, c
    <3>1. got - 1 \in Nat /\ RSP!Parse(raw) = Decided(raw, c, size, at)
      BY <1>1, <1>2, <1>3, <2>2, HeadRead
    <3> QED BY <3>1 DEF Decided, c
  <2> QED BY <2>1, <2>2
<1>5. got # 0 => /\ got - 1 = 0 => size = << >>
                 /\ got - 1 = 1 => size = <<"-">>
                 /\ got - 1 = 3 => size = <<"-", "1", "CR">>
                 /\ got - 1 = 2 \/ got - 1 >= 4 => size = s
  BY <1>4, CutMinusOne
<1> HIDE DEF res, at, size, right
<1>6. CASE got = 0
  <2>1. Noticed(res, right)
    BY <1>4, <1>6, RefusedNoticed
  <2> QED BY <1>3, <1>6, <2>1 DEF res, right
<1>7. CASE got # 0 /\ got - 1 = 0
  <2>1. res = RSP!Failed("InvalidResp")
    BY <1>4, <1>5, <1>7 DEF RSP!ParseArray
  <2>2. Noticed(res, right)
    BY <2>1, RefusedNoticed
  <2> QED BY <1>3, <1>7, <2>2 DEF res, right
<1>8. CASE got # 0 /\ (got - 1 = 1 \/ got - 1 = 3)
  <2>1. size # << >> /\ ~RSP!IsInt(size)
    <3>1. CASE size = <<"-">>
      BY <3>1, NotNumbers
    <3>2. CASE size = <<"-", "1", "CR">>
      <4>1. <<"-", "1", "CR">> \in SymSeq
        <5>1. "-" \in Symbols /\ "1" \in Symbols /\ "CR" \in Symbols
          BY TextsAssumption
        <5> QED BY <5>1 DEF SymSeq
      <4>2. <<"-", "1", "CR">> # << >> /\ Len(<<"-", "1", "CR">>) = 3 /\ <<"-", "1", "CR">>[3] = "CR"
        OBVIOUS
      <4> QED BY <3>2, <4>1, <4>2, NotNumbers
    <3> QED BY <1>5, <1>8, <3>1, <3>2
  <2>2. res = RSP!Failed("ParseIntError")
    BY <1>4, <1>8, <2>1 DEF RSP!ParseArray
  <2>3. Noticed(res, right)
    BY <2>2, RefusedNoticed
  <2> QED BY <1>3, <1>8, <2>3 DEF res, right
<1>9. CASE got # 0 /\ (got - 1 = 2 \/ got - 1 >= 4)
  <2>1. size # << >> /\ RSP!IsInt(size) /\ RSP!IntOf(size) = -1
    <3>1. size = <<"-", "1">>
      BY <1>5, <1>9
    <3> QED BY <3>1, MinusOne
  <2>2. res = right
    <3>1. RSP!ParseArray(raw, size, at) = right
      BY <2>1 DEF RSP!ParseArray, right
    <3> QED BY <1>4, <1>9, <3>1
  <2> QED BY <2>2 DEF Noticed, res, right
<1> QED
  <2>1. got = 0 \/ got - 1 = 0 \/ got - 1 = 1 \/ got - 1 = 3 \/ got - 1 = 2 \/ got - 1 >= 4
    BY <1>3
  <2> QED BY <1>6, <1>7, <1>8, <1>9, <2>1

(* An array's reply: its header, and the items. *)
ArrayReply(W, s, items) ==
  s = RSP!NumText(Len(items)) /\ W = ((<<"*">> \o s) \o RSP!EOL) \o RSP!WireItems(items)

LEMMA ArrayParsed ==
  ASSUME NEW items \in Seq(RSP!Items), \A n \in 1 .. Len(items) : RSP!Plain(items[n]),
         NEW s, NEW W, ArrayReply(W, s, items),
         NEW raw, NEW got, Begun(raw, W, got)
  PROVE  LET N == Len(items)
             res == RSP!Parse(raw)
             right == RSP!Ok("*", ShownItems(items, N))
         IN  /\ Noticed(res, right) \/ (N >= 1 /\ CutInLength(got, Len(W) + 1 - Len(RSP!WireItem(items[N])), items[N]))
             /\ got = Len(W) => res = right
<1> DEFINE c == "*"
           N == Len(items)
           size == CutTo(s, got - 1)
           at == RSP!Passed(raw, 1)
           res == RSP!Parse(raw)
           right == RSP!Ok("*", ShownItems(items, N))
           h == (<<c>> \o s) \o RSP!EOL
           q == RSP!ParseItems(raw, N, at)
           CutLast == N >= 1 /\ CutInLength(got, Len(W) + 1 - Len(RSP!WireItem(items[N])), items[N])
<1>1. N \in Nat /\ s \in SymSeq /\ RSP!Plain(s) /\ Len(s) \in Nat \ {0}
  BY LenProperties, LengthsPlain DEF ArrayReply
<1>2. c \in Kinds /\ c \in Symbols /\ c # "CR"
  BY SymbolsAre DEF Kinds
<1>3. PICK f : Builds(f, items) /\ RSP!WireItems(items) = f[N]
  BY WireItemsIs
<1>4. f[N] \in SymSeq /\ f[0] = << >> /\ Len(f[N]) \in Nat
  <2>1. f \in [0 .. N -> SymSeq] /\ N \in 0 .. N /\ f[0] = << >>
    BY <1>1, <1>3 DEF Builds
  <2> HIDE DEF N
  <2> QED BY <2>1, LenProperties DEF SymSeq
<1>5. h \in SymSeq /\ Len(h) = Len(s) + 3
  <2> HIDE DEF c
  <2> QED BY <1>1, <1>2, HeadAt
<1>6. /\ W \in SymSeq /\ raw \in SymSeq /\ got \in Nat /\ got <= Len(W) /\ Len(raw) = got
      /\ Len(W) = Len(s) + 3 + Len(f[N])
  <2>1. W = h \o f[N]
    BY <1>3 DEF ArrayReply
  <2> HIDE DEF h
  <2>2. Len(h \o f[N]) = Len(h) + Len(f[N])
    BY <1>4, <1>5, ConcatProperties DEF SymSeq
  <2>3. W \in SymSeq /\ raw \in SymSeq /\ got \in Nat /\ got <= Len(W) /\ Len(raw) = got
    BY LenProperties DEF Begun, SymSeq
  <2> QED BY <1>5, <2>1, <2>2, <2>3
<1>7. LineAt(W, 1, <<c>> \o s) /\ Occurs(W, Len(s) + 4, f[N])
  <2>1. Occurs(W, 1, h \o f[N])
    <3>1. Occurs(W, 1, W)
      BY <1>6, BegunIs
    <3> QED BY <1>3, <3>1 DEF ArrayReply
  <2>2. Occurs(W, 1, h) /\ Occurs(W, 1 + Len(h), f[N])
    <3> HIDE DEF h
    <3> QED BY <1>4, <1>5, <1>6, <2>1, OccursBoth
  <2>3. 1 + Len(h) = Len(s) + 4
    BY <1>1, <1>5
  <2> HIDE DEF c
  <2>4. LineAt(W, 1, <<c>> \o s)
    BY <1>1, <1>2, <1>6, <2>2, HeadAt
  <2> QED BY <2>2, <2>3, <2>4
<1>8. /\ got = 0 => res = RSP!Failed("InvalidResp")
      /\ got # 0 => /\ got - 1 \in Nat /\ at \in Nat
                    /\ res = RSP!ParseArray(raw, size, at)
                    /\ got >= Len(s) + 3 => Before(W, got, at, Len(s) + 4)
                    /\ got < Len(s) + 3 => at = got + 1
  <2>1. got = 0 => res = RSP!Failed("InvalidResp")
    BY NothingRead
  <2>2. ASSUME got # 0
        PROVE  /\ got - 1 \in Nat /\ at \in Nat
               /\ res = RSP!ParseArray(raw, size, at)
               /\ got >= Len(s) + 3 => Before(W, got, at, Len(s) + 4)
               /\ got < Len(s) + 3 => at = got + 1
    <3>0. c = "*"
      OBVIOUS
    <3> HIDE DEF c, size
    <3>1. /\ got - 1 \in Nat /\ at \in Nat /\ RSP!Parse(raw) = Decided(raw, c, size, at)
          /\ got >= Len(s) + 3 => Before(W, got, at, Len(s) + 4)
          /\ got < Len(s) + 3 => at = got + 1
      BY <1>1, <1>2, <1>7, <2>2, HeadRead DEF size
    <3> QED BY <3>0, <3>1 DEF Decided
  <2> QED BY <2>1, <2>2
<1>9. got # 0 => /\ got - 1 = 0 => size = << >>
                 /\ got - 1 # 0 => size # << >>
                 /\ got - 1 \in 1 .. Len(s) \/ got - 1 >= Len(s) + 2 =>
                      RSP!IsInt(size) /\ RSP!IntOf(size) \in Nat /\ (N >= 1 => RSP!IntOf(size) >= 1)
                 /\ got - 1 >= Len(s) /\ got - 1 # Len(s) + 1 => RSP!IntOf(size) = N
                 /\ got - 1 = Len(s) + 1 => ~RSP!IsInt(size)
  <2> HAVE got # 0
  <2> DEFINE m == got - 1
  <2>1. m \in Nat /\ s = RSP!NumText(N) /\ size = CutTo(s, m) /\ N \in Nat
    BY <1>1, <1>8 DEF ArrayReply
  <2> HIDE DEF m, size, N
  <2>2. /\ m = 0 => size = << >>
        /\ m # 0 => size # << >> /\ size[1] # "-"
        /\ m \in 1 .. Len(s) \/ m >= Len(s) + 2 =>
             RSP!IsInt(size) /\ RSP!IntOf(size) \in Nat /\ (N >= 1 => RSP!IntOf(size) >= 1)
        /\ m >= Len(s) /\ m # Len(s) + 1 => RSP!IntOf(size) = N
        /\ m = Len(s) + 1 => ~RSP!IsInt(size)
    BY <2>1, CutNumber
  <2> QED BY <2>2 DEF m
<1>10. ASSUME got # 0, got # 1, RSP!IsInt(size), RSP!IntOf(size) \in Nat
       PROVE  LET p == RSP!ParseItems(raw, RSP!IntOf(size), at)
              IN  res = IF p.ok THEN RSP!Ok("*", p.items)
                        ELSE RSP!Failed(IF p.items = << >> THEN "InvalidResp" ELSE "use after free")
  <2>1. size # << >> /\ ~(RSP!IntOf(size) < 0) /\ RSP!IntOf(size) # -1
    BY <1>8, <1>9, <1>10
  <2>2. res = RSP!ParseArray(raw, size, at)
    BY <1>8, <1>10
  <2> HIDE DEF size, at, res
  <2> QED BY <1>10, <2>1, <2>2 DEF RSP!ParseArray
<1>11. ASSUME \/ res = RSP!Failed("InvalidResp")
              \/ res = RSP!Failed("ParseIntError")
              \/ res = RSP!Failed("use after free")
       PROVE  Noticed(res, right)
  <2> HIDE DEF res, right
  <2> QED BY <1>11, RefusedNoticed
<1> SUFFICES (Noticed(res, right) \/ CutLast) /\ (got = Len(W) => res = right)
  OBVIOUS
<1> HIDE DEF res, at, size, right, q, CutLast, h, c, N
<1>0. Len(W) \in Nat /\ Len(W) >= Len(s) + 3
  <2> DEFINE a == Len(s)
             b == Len(f[N])
             e == Len(W)
  <2>1. a \in Nat /\ b \in Nat /\ e = a + 3 + b
    BY <1>1, <1>4, <1>6
  <2> HIDE DEF a, b, e
  <2>2. e \in Nat /\ e >= a + 3
    BY <2>1
  <2> QED BY <2>2 DEF a, e
<1>18. ASSUME got < Len(s) + 3, \/ res = RSP!Failed("InvalidResp")
                               \/ res = RSP!Failed("ParseIntError")
                               \/ res = RSP!Failed("use after free")
       PROVE  (Noticed(res, right) \/ CutLast) /\ (got = Len(W) => res = right)
  <2>1. got # Len(W)
    <3>1. ~(Len(W) < Len(s) + 3)
      BY <1>0, <1>1
    <3> QED BY <1>18, <3>1
  <2> QED BY <1>11, <1>18, <2>1
<1>12. CASE got = 0
  <2>1. got < Len(s) + 3
    BY <1>1, <1>12
  <2> QED BY <1>8, <1>12, <1>18, <2>1
<1>13. CASE got = 1
  <2>1. size = << >> /\ res = RSP!ParseArray(raw, size, at)
    BY <1>8, <1>9, <1>13
  <2>2. res = RSP!Failed("InvalidResp")
    BY <2>1 DEF RSP!ParseArray
  <2>3. got < Len(s) + 3
    BY <1>1, <1>13
  <2> QED BY <1>18, <2>2, <2>3
<1>14. CASE got = Len(s) + 2
  <2>1. size # << >> /\ res = RSP!ParseArray(raw, size, at) /\ ~RSP!IsInt(size)
    BY <1>1, <1>8, <1>9, <1>14
  <2>2. res = RSP!Failed("ParseIntError")
    BY <2>1 DEF RSP!ParseArray
  <2>3. got < Len(s) + 3
    BY <1>1, <1>14
  <2> QED BY <1>18, <2>2, <2>3
<1>15. CASE got \in 2 .. Len(s) + 1
  <2> DEFINE n == RSP!IntOf(size)
             p == RSP!ParseItems(raw, n, at)
  <2>1. RSP!IsInt(size) /\ n \in Nat /\ (N >= 1 => n >= 1) /\ at = got + 1 /\ got # 0 /\ got # 1
    BY <1>1, <1>8, <1>9, <1>15
  <2>2. res = IF p.ok THEN RSP!Ok("*", p.items)
              ELSE RSP!Failed(IF p.items = << >> THEN "InvalidResp" ELSE "use after free")
    BY <1>10, <2>1
  <2>3. ~RSP!HasLine(raw, at)
    BY <2>1, NoneLeft
  <2> HIDE DEF n
  <2>4. IF n = 0 THEN p.ok /\ p.items = << >> ELSE ~p.ok
    BY <1>6, <1>8, <2>1, <2>3, NoneParsed
  <2> HIDE DEF p
  <2>5. CASE n = 0
    <3>1. N = 0
      BY <1>1, <2>1, <2>5
    <3>2. ShownItems(items, N) = << >>
      BY <3>1 DEF ShownItems
    <3>3. res = right
      BY <2>2, <2>4, <2>5, <3>2 DEF right
    <3> QED BY <3>3 DEF Noticed, res, right
  <2>6. CASE n # 0
    <3>1. res = RSP!Failed("InvalidResp") \/ res = RSP!Failed("use after free")
      BY <2>2, <2>4, <2>6
    <3>2. got < Len(s) + 3
      BY <1>1, <1>15
    <3> QED BY <1>18, <3>1, <3>2
  <2> QED BY <2>5, <2>6
<1>16. CASE got >= Len(s) + 3
  <2>1. RSP!IsInt(size) /\ RSP!IntOf(size) = N /\ got # 0 /\ got # 1 /\ at \in Nat /\ Before(W, got, at, Len(s) + 4)
    BY <1>1, <1>6, <1>8, <1>9, <1>16
  <2>2. res = IF q.ok THEN RSP!Ok("*", q.items)
              ELSE RSP!Failed(IF q.items = << >> THEN "InvalidResp" ELSE "use after free")
    BY <1>1, <1>10, <2>1 DEF q
  <2> DEFINE H == Len(s) + 4
  <2>3. H \in Nat \ {0} /\ Len(W) = H - 1 + Len(f[N]) /\ got >= H - 1 /\ Before(W, got, at, H) /\ Occurs(W, H, f[N])
    BY <1>1, <1>4, <1>6, <1>7, <1>16, <2>1
  <2>4. /\ got = Len(W) => q.ok /\ q.items = ShownItems(items, N)
        /\ q.ok => q.items = ShownItems(items, N) \/ CutLast
    <3> HIDE DEF H
    <3>1. ItemsFollow(W, got, raw, items, f, H, at)
      BY <1>3, <2>1, <2>3 DEF N, ItemsFollow
    <3>2. ItemsCome(W, got, q, items, N)
      BY <3>1, ItemsParsed DEF q, N
    <3> QED BY <3>2 DEF ItemsCome, CutLast
  <2>5. ASSUME q.ok, q.items = ShownItems(items, N) PROVE res = right
    BY <2>2, <2>5 DEF right
  <2>6. ASSUME ~q.ok PROVE Noticed(res, right)
    <3>1. res = RSP!Failed("InvalidResp") \/ res = RSP!Failed("use after free")
      BY <2>2, <2>6
    <3> QED BY <1>11, <3>1
  <2>7. Noticed(res, right) \/ CutLast
    BY <2>4, <2>5, <2>6 DEF Noticed
  <2> QED BY <2>4, <2>5, <2>7
<1> QED
  <2>1. got = 0 \/ got = 1 \/ got = Len(s) + 2 \/ got \in 2 .. Len(s) + 1 \/ got >= Len(s) + 3
    BY <1>1, <1>6
  <2> QED BY <1>12, <1>13, <1>14, <1>15, <1>16, <2>1

(***************************************************************************)
(* What the prompt shows of a reply r of which got symbols were read.      *)
(***************************************************************************)
Understood(r, res) == res = [status |-> "ok", reply |-> RSP!Shown(r)]

CutLast(r, got) ==
  /\ r.kind = "*"
  /\ r.items # << >>
  /\ LET text == r.items[Len(r.items)]
         item == RSP!WireItem(text)
         kept == got - (Len(RSP!Wire(r)) - Len(item))
     IN  kept \in {1, Len(item) - Len(text) - 3}

AllPlain(r) == \A i \in 1 .. Len(r.items) : RSP!Plain(r.items[i])

Answered(r, got, res) ==
  /\ got = Len(RSP!Wire(r)) => Understood(r, res)
  /\ r.kind \in {"$", "*", "*nil"} => res.status # "ok" \/ Understood(r, res) \/ CutLast(r, got)

LEMMA ReplyIs ==
  ASSUME NEW k, NEW s, NEW r, r = RSP!Reply(k, s)
  PROVE  /\ r.kind = k /\ r.items = s
         /\ RSP!Ok(k, s) = [status |-> "ok", reply |-> r]
BY DEF RSP!Reply, RSP!Ok, RSP!Result

LEMMA WireIs ==
  ASSUME NEW k, NEW s, NEW r, r = RSP!Reply(k, s)
  PROVE  /\ k = "$" => RSP!Wire(r) = RSP!WireItem(s[1])
         /\ k = "*" => RSP!Wire(r) = <<"*">> \o RSP!NumText(Len(s)) \o RSP!EOL \o RSP!WireItems(s)
         /\ k = "*nil" => RSP!Wire(r) = <<"*", "-", "1">> \o RSP!EOL
         /\ k \notin {"$", "*", "*nil"} => RSP!Wire(r) = <<k>> \o s[1] \o RSP!EOL
<1>1. r.kind = k /\ r.items = s
  BY ReplyIs
<1>2. k = "$" => RSP!Wire(r) = RSP!WireItem(s[1])
  BY <1>1, Zenon DEF RSP!Wire
<1>3. k = "*" => RSP!Wire(r) = <<"*">> \o RSP!NumText(Len(s)) \o RSP!EOL \o RSP!WireItems(s)
  BY <1>1, Zenon DEF RSP!Wire
<1>4. k = "*nil" => RSP!Wire(r) = <<"*", "-", "1">> \o RSP!EOL
  BY <1>1, Zenon DEF RSP!Wire
<1>5. k \notin {"$", "*", "*nil"} => RSP!Wire(r) = <<k>> \o s[1] \o RSP!EOL
  BY <1>1, Zenon DEF RSP!Wire
<1> QED BY <1>2, <1>3, <1>4, <1>5

LEMMA OneShown ==
  ASSUME NEW k, NEW x, NEW r, r = RSP!Reply(k, <<x>>)
  PROVE  RSP!Shown(r) = RSP!Reply(k, <<IF x # RSP!Nil THEN x ELSE IF k = "$" THEN RSP!NilBulk ELSE RSP!NilItem>>)
<1> DEFINE y == IF x # RSP!Nil THEN x ELSE IF k = "$" THEN RSP!NilBulk ELSE RSP!NilItem
           shown == [i \in 1 .. Len(r.items) |->
                       IF r.items[i] # RSP!Nil THEN r.items[i]
                       ELSE IF r.kind = "$" THEN RSP!NilBulk ELSE RSP!NilItem]
<1>1. r.kind = k /\ r.items = <<x>>
  BY ReplyIs
<1>2. shown = [i \in 1 .. 1 |-> y]
  <2>1. Len(r.items) = 1 /\ r.items[1] = x
    BY <1>1
  <2>2. \A i \in 1 .. 1 : i = 1
    OBVIOUS
  <2> QED BY <1>1, <2>1, <2>2
<1>3. [i \in 1 .. 1 |-> y] = <<y>>
  <2> HIDE DEF y
  <2> QED BY OneItem
<1>4. RSP!Shown(r) = RSP!Reply(r.kind, shown)
  BY DEF RSP!Shown
<1> QED BY <1>1, <1>2, <1>3, <1>4

LEMMA SimpleAnswered ==
  ASSUME NEW k \in Kinds \ {"$", "*"}, NEW t \in Texts, NEW r, r = RSP!Reply(k, <<t>>), AllPlain(r),
         NEW got \in 0 .. Len(RSP!Wire(r))
  PROVE  Answered(r, got, RSP!Parse(SubSeq(RSP!Wire(r), 1, got)))
<1> DEFINE W == RSP!Wire(r)
           res == RSP!Parse(SubSeq(W, 1, got))
<1>1. r.kind = k /\ r.items = <<t>>
  BY ReplyIs
<1>2. t \in SymSeq /\ t # RSP!Nil /\ RSP!Plain(t)
  <2>0. Len(r.items) = 1
    BY <1>1
  <2>1. 1 \in 1 .. Len(r.items) /\ r.items[1] = t
    BY <1>1, <2>0
  <2> QED BY <2>1, TextIs DEF AllPlain
<1>3. k \in Kinds \ {"$", "*"} /\ k \notin {"$", "*", "*nil"}
  BY DEF Kinds
<1>4. W = (<<k>> \o t) \o RSP!EOL
  <2>1. <<t>>[1] = t
    OBVIOUS
  <2> QED BY <1>3, <2>1, WireIs
<1>5. RSP!Shown(r) = r
  <2>1. RSP!Shown(r) = RSP!Reply(k, <<IF t # RSP!Nil THEN t ELSE IF k = "$" THEN RSP!NilBulk ELSE RSP!NilItem>>)
    BY OneShown
  <2> QED BY <1>2, <2>1
<1>6. ASSUME got = Len(W) PROVE Understood(r, res)
  <2> HIDE DEF W
  <2>1. W \in SymSeq
    BY <1>2, <1>3, <1>4, SimpleParsed
  <2>2. Begun(SubSeq(W, 1, got), W, got)
    BY <2>1, BegunIs DEF W
  <2>3. Begun(SubSeq(W, 1, got), W, Len(W))
    BY <1>6, <2>2
  <2>4. res = RSP!Ok(k, <<t>>)
    BY <1>2, <1>3, <1>4, <2>3, SimpleParsed
  <2> HIDE DEF res
  <2>5. RSP!Ok(k, <<t>>) = [status |-> "ok", reply |-> r]
    BY ReplyIs
  <2> QED BY <1>5, <2>4, <2>5 DEF Understood
<1> QED BY <1>1, <1>3, <1>6 DEF Answered

LEMMA BulkAnswered ==
  ASSUME NEW t \in RSP!Items, NEW r, r = RSP!Reply("$", <<t>>), AllPlain(r), NEW got \in 0 .. Len(RSP!Wire(r))
  PROVE  Answered(r, got, RSP!Parse(SubSeq(RSP!Wire(r), 1, got)))
<1> DEFINE W == RSP!Wire(r)
           raw == SubSeq(W, 1, got)
           res == RSP!Parse(raw)
           x == IF t # RSP!Nil THEN t ELSE RSP!NilBulk
           right == RSP!Ok("$", <<x>>)
<1>1. r.kind = "$" /\ r.items = <<t>>
  BY ReplyIs
<1>2. RSP!Plain(t)
  <2>0. Len(r.items) = 1
    BY <1>1
  <2>1. 1 \in 1 .. Len(r.items) /\ r.items[1] = t
    BY <1>1, <2>0
  <2> QED BY <2>1 DEF AllPlain
<1>3. W = RSP!WireItem(t) /\ W \in SymSeq
  <2>1. <<t>>[1] = t
    OBVIOUS
  <2>2. W = RSP!WireItem(t)
    BY <2>1, WireIs
  <2> QED BY <2>2, ItemParts
<1>4. right = [status |-> "ok", reply |-> RSP!Shown(r)]
  <2>1. RSP!Shown(r) = RSP!Reply("$", <<x>>)
    BY OneShown
  <2> HIDE DEF x
  <2> QED BY <2>1, ReplyIs
<1>5. Begun(raw, W, got)
  <2>1. got \in 0 .. Len(W)
    OBVIOUS
  <2> HIDE DEF W
  <2> QED BY <1>3, <2>1, BegunIs
<1>6. Noticed(res, right) /\ (got = Len(W) => res = right)
  <2> HIDE DEF W, raw
  <2>1. CASE t = RSP!Nil
    BY <1>3, <1>5, <2>1, NilBulkParsed
  <2>2. CASE t # RSP!Nil
    BY <1>2, <1>3, <1>5, <2>2, TextBulkParsed
  <2> QED BY <2>1, <2>2
<1> HIDE DEF res, right
<1>7. res.status # "ok" \/ Understood(r, res)
  BY <1>4, <1>6 DEF Noticed, Understood
<1>8. got = Len(W) => Understood(r, res)
  BY <1>4, <1>6 DEF Understood
<1> QED BY <1>7, <1>8 DEF Answered, res

LEMMA NilArrayAnswered ==
  ASSUME NEW r, r = RSP!Reply("*nil", << >>), NEW got \in 0 .. Len(RSP!Wire(r))
  PROVE  Answered(r, got, RSP!Parse(SubSeq(RSP!Wire(r), 1, got)))
<1> DEFINE W == RSP!Wire(r)
           raw == SubSeq(W, 1, got)
           res == RSP!Parse(raw)
           right == RSP!Ok("*nil", << >>)
           c == "*"
           s == <<"-", "1">>
<1>1. r.kind = "*nil" /\ r.items = << >>
  BY ReplyIs
<1>2. W = (<<c>> \o s) \o RSP!EOL
  <2>1. W = <<"*", "-", "1">> \o RSP!EOL
    BY WireIs
  <2>2. <<"*", "-", "1">> = <<"*">> \o <<"-", "1">>
    OBVIOUS
  <2> QED BY <2>1, <2>2
<1>3. W \in SymSeq
  <2>1. c \in Symbols /\ c # "CR" /\ s \in SymSeq /\ RSP!Plain(s)
    BY SymbolsAre, LengthsPlain
  <2> HIDE DEF c, s, W
  <2> QED BY <1>2, <2>1, HeadAt
<1>4. right = [status |-> "ok", reply |-> RSP!Shown(r)]
  <2> DEFINE shown == [i \in 1 .. Len(r.items) |->
                         IF r.items[i] # RSP!Nil THEN r.items[i]
                         ELSE IF r.kind = "$" THEN RSP!NilBulk ELSE RSP!NilItem]
  <2>1. RSP!Shown(r) = RSP!Reply(r.kind, shown)
    BY DEF RSP!Shown
  <2>2. shown = << >>
    BY <1>1
  <2> HIDE DEF shown
  <2>3. RSP!Shown(r) = RSP!Reply("*nil", << >>)
    BY <1>1, <2>1, <2>2
  <2> QED BY <2>3, ReplyIs
<1>5. Begun(raw, W, got)
  <2>1. got \in 0 .. Len(W)
    OBVIOUS
  <2> HIDE DEF W
  <2> QED BY <1>3, <2>1, BegunIs
<1>6. Noticed(res, right) /\ (got = Len(W) => res = right)
  <2> HIDE DEF W, raw
  <2> QED BY <1>2, <1>5, NilArrayParsed
<1> HIDE DEF res, right
<1>7. res.status # "ok" \/ Understood(r, res)
  BY <1>4, <1>6 DEF Noticed, Understood
<1>8. got = Len(W) => Understood(r, res)
  BY <1>4, <1>6 DEF Understood
<1> QED BY <1>7, <1>8 DEF Answered, res

LEMMA ArrayAnswered ==
  ASSUME NEW items \in Seq(RSP!Items), NEW r, r = RSP!Reply("*", items), AllPlain(r), NEW got \in 0 .. Len(RSP!Wire(r))
  PROVE  Answered(r, got, RSP!Parse(SubSeq(RSP!Wire(r), 1, got)))
<1> DEFINE W == RSP!Wire(r)
           N == Len(items)
           s == RSP!NumText(N)
           raw == SubSeq(W, 1, got)
           res == RSP!Parse(raw)
           right == RSP!Ok("*", ShownItems(items, N))
           last == RSP!WireItem(items[N])
<1>1. r.kind = "*" /\ r.items = items
  BY ReplyIs
<1>2. \A n \in 1 .. Len(items) : RSP!Plain(items[n])
  BY <1>1 DEF AllPlain
<1>3. ArrayReply(W, s, items)
  <2>1. W = <<"*">> \o RSP!NumText(Len(items)) \o RSP!EOL \o RSP!WireItems(items)
    BY WireIs
  <2> QED BY <2>1 DEF ArrayReply
<1>4. W \in SymSeq /\ N \in Nat
  <2> DEFINE c == "*"
             h == (<<c>> \o s) \o RSP!EOL
  <2>1. N \in Nat /\ c \in Symbols /\ c # "CR" /\ s \in SymSeq /\ RSP!Plain(s)
    BY SymbolsAre, LengthsPlain, LenProperties
  <2>2. h \in SymSeq
    <3> HIDE DEF c, s
    <3> QED BY <2>1, HeadAt
  <2>3. W = h \o RSP!WireItems(items)
    BY <1>3 DEF ArrayReply
  <2>4. RSP!WireItems(items) \in SymSeq
    <3>1. PICK f : Builds(f, items) /\ RSP!WireItems(items) = f[N]
      BY WireItemsIs
    <3>2. f \in [0 .. N -> SymSeq] /\ N \in 0 .. N
      BY <2>1, <3>1 DEF Builds
    <3> HIDE DEF N
    <3> QED BY <3>1, <3>2
  <2> HIDE DEF W, h
  <2>5. h \o RSP!WireItems(items) \in SymSeq
    BY <2>2, <2>4, ConcatProperties DEF SymSeq
  <2> QED BY <2>1, <2>3, <2>5
<1>5. Begun(raw, W, got)
  <2>1. got \in 0 .. Len(W)
    OBVIOUS
  <2> HIDE DEF W
  <2> QED BY <1>4, <2>1, BegunIs
<1>6. right = [status |-> "ok", reply |-> RSP!Shown(r)]
  <2> DEFINE shown == [i \in 1 .. Len(r.items) |->
                         IF r.items[i] # RSP!Nil THEN r.items[i]
                         ELSE IF r.kind = "$" THEN RSP!NilBulk ELSE RSP!NilItem]
  <2>1. RSP!Shown(r) = RSP!Reply(r.kind, shown)
    BY DEF RSP!Shown
  <2>2. shown = ShownItems(items, N)
    BY <1>1 DEF ShownItems, ShownItem
  <2> HIDE DEF shown, N
  <2>3. RSP!Shown(r) = RSP!Reply("*", ShownItems(items, N))
    BY <1>1, <2>1, <2>2
  <2> QED BY <2>3, ReplyIs
<1>7. /\ Noticed(res, right) \/ (N >= 1 /\ CutInLength(got, Len(W) + 1 - Len(last), items[N]))
      /\ got = Len(W) => res = right
  <2> HIDE DEF W, raw, s
  <2> QED BY <1>2, <1>3, <1>5, ArrayParsed
<1> HIDE DEF res, right
<1>8. ASSUME N >= 1, CutInLength(got, Len(W) + 1 - Len(last), items[N]) PROVE CutLast(r, got)
  <2>1. items[N] \in RSP!Items /\ items # << >>
    BY <1>4, <1>8, ElementOfSeq, EmptySeq
  <2> DEFINE a == Len(last)
             b == Len(items[N])
             e == Len(W)
  <2>2. a \in Nat /\ e \in Nat /\ got \in Nat
    <3>1. last \in SymSeq
      BY <2>1, ItemParts
    <3> HIDE DEF last, W
    <3> QED BY <1>4, <3>1, LenProperties DEF SymSeq
  <2>3. got - (e + 1 - a) + 1 \in {1, a - b - 3}
    BY <1>8 DEF CutInLength
  <2>4. got - (e - a) \in {1, a - b - 3}
    <3> HIDE DEF a, b, e
    <3>1. got - (e + 1 - a) + 1 = got - (e - a)
      BY <2>2
    <3> QED BY <2>3, <3>1
  <2> QED BY <1>1, <2>1, <2>4 DEF CutLast
<1>9. res.status # "ok" \/ Understood(r, res) \/ CutLast(r, got)
  BY <1>6, <1>7, <1>8 DEF Noticed, Understood
<1>10. got = Len(W) => Understood(r, res)
  BY <1>6, <1>7 DEF Understood
<1> QED BY <1>9, <1>10 DEF Answered, res

(* Every reply. *)
LEMMA RepliesAnswered ==
  ASSUME NEW r \in RSP!Replies, AllPlain(r), NEW got \in 0 .. Len(RSP!Wire(r))
  PROVE  Answered(r, got, RSP!Parse(SubSeq(RSP!Wire(r), 1, got)))
<1>1. CASE r \in RSP!SimpleReplies
  <2>1. PICK k \in {"+", "-", ":", ","}, t \in Texts : r = RSP!Reply(k, <<t>>)
    BY <1>1 DEF RSP!SimpleReplies
  <2>2. k \in Kinds \ {"$", "*"}
    BY <2>1 DEF Kinds
  <2> QED BY <2>1, <2>2, SimpleAnswered
<1>2. CASE r \in RSP!BulkReplies
  <2>1. PICK t \in RSP!Items : r = RSP!Reply("$", <<t>>)
    BY <1>2 DEF RSP!BulkReplies
  <2> QED BY <2>1, BulkAnswered
<1>3. CASE r \in RSP!ArrayReplies
  <2>1. PICK items \in UNION {[1 .. n -> RSP!Items] : n \in 0 .. MaxItems} : r = RSP!Reply("*", items)
    BY <1>3 DEF RSP!ArrayReplies
  <2>2. items \in Seq(RSP!Items)
    <3>1. PICK n \in 0 .. MaxItems : items \in [1 .. n -> RSP!Items]
      BY <2>1
    <3>2. MaxItems \in Nat
      BY TextsAssumption
    <3>3. n \in Nat
      BY <3>1, <3>2
    <3> QED BY <3>1, <3>3, SeqDef
  <2> QED BY <2>1, <2>2, ArrayAnswered
<1>4. CASE r = RSP!Reply("*nil", << >>)
  BY <1>4, NilArrayAnswered
<1> QED BY <1>1, <1>2, <1>3, <1>4 DEF RSP!Replies

(***************************************************************************)
(* The reply that was sent, how much of it was read, and what parse made   *)
(* of that.                                                                *)
(***************************************************************************)
ReplyInv ==
  /\ reply \in RSP!Replies
  /\ cut \in 0 .. Len(RSP!Wire(reply))
  /\ result = RSP!NotParsed \/ result = RSP!Parse(SubSeq(RSP!Wire(reply), 1, cut))

LEMMA ReplyInvHolds == RSP!Spec => []ReplyInv
<1>1. RSP!Init => ReplyInv
  BY DEF RSP!Init, ReplyInv
<1>2. ReplyInv /\ [RSP!ParseStep]_RSP!readerVars => ReplyInv'
  <2> SUFFICES ASSUME ReplyInv, [RSP!ParseStep]_RSP!readerVars PROVE ReplyInv'
    OBVIOUS
  <2>1. CASE RSP!ParseStep
    <3>1. reply' = reply /\ cut' = cut /\ result' = RSP!Parse(SubSeq(RSP!Wire(reply), 1, cut))
      BY <2>1 DEF RSP!ParseStep
    <3> QED BY <3>1 DEF ReplyInv
  <2>2. CASE UNCHANGED RSP!readerVars
    <3>1. reply' = reply /\ cut' = cut /\ result' = result
      BY <2>2 DEF RSP!readerVars
    <3> QED BY <3>1 DEF ReplyInv
  <2> QED BY <2>1, <2>2
<1> QED BY <1>1, <1>2, PTL DEF RSP!Spec

LEMMA ParsedAnswered ==
  ASSUME ReplyInv, RSP!Parsed, RSP!PlainItems
  PROVE  Answered(reply, cut, result)
<1>1. AllPlain(reply)
  BY DEF RSP!PlainItems, AllPlain
<1>2. reply \in RSP!Replies /\ cut \in 0 .. Len(RSP!Wire(reply)) /\ result = RSP!Parse(SubSeq(RSP!Wire(reply), 1, cut))
  BY DEF ReplyInv, RSP!Parsed
<1> QED BY <1>1, <1>2, RepliesAnswered

(***************************************************************************)
(* For any texts, and any number of them in an array: a reply that arrives *)
(* in one read is shown as the server meant it, if none of its texts is    *)
(* empty or holds a CR LF (rsp.zig parse).                                 *)
(***************************************************************************)
THEOREM WholeRepliesShown == RSP!Spec => []WholeRepliesAreRight
<1>1. ReplyInv => WholeRepliesAreRight
  <2> SUFFICES ASSUME ReplyInv, RSP!Parsed, RSP!PlainItems, cut = Len(RSP!Wire(reply))
               PROVE  result.status = "ok" /\ result.reply = RSP!Shown(reply)
    BY DEF WholeRepliesAreRight, RSP!WholeRepliesAreRight
  <2>1. Understood(reply, result)
    BY ParsedAnswered DEF Answered
  <2> QED BY <2>1 DEF Understood
<1> QED BY <1>1, ReplyInvHolds, PTL

(***************************************************************************)
(* For the same replies: a bulk string or an array of which only the       *)
(* beginning was read is refused, wherever the cut is, or nothing of its   *)
(* value is missing, unless the cut leaves the length of an array's last   *)
(* item unreadable (rsp.zig parse, parseLength).                           *)
(***************************************************************************)
THEOREM CutsAreNoticed == RSP!Spec => []CutIsNoticed
<1>1. ReplyInv => CutIsNoticed
  <2> SUFFICES ASSUME ReplyInv, RSP!Parsed, RSP!PlainItems, reply.kind \in {"$", "*", "*nil"}
               PROVE  result.status # "ok" \/ result.reply = RSP!Shown(reply) \/ RSP!CutInLastLength
    BY DEF CutIsNoticed, RSP!CutIsNoticed
  <2>1. result.status # "ok" \/ Understood(reply, result) \/ CutLast(reply, cut)
    BY ParsedAnswered DEF Answered
  <2>2. Understood(reply, result) => result.reply = RSP!Shown(reply)
    BY DEF Understood
  <2>3. CutLast(reply, cut) => RSP!CutInLastLength
    BY DEF CutLast, RSP!CutInLastLength
  <2> QED BY <2>1, <2>2, <2>3
<1> QED BY <1>1, ReplyInvHolds, PTL

(* Replies are texts of at least one symbol. *)
LEMMA WireTyped ==
  ASSUME NEW r \in RSP!Replies, AllPlain(r)
  PROVE  RSP!Wire(r) \in SymSeq /\ RSP!Wire(r) # << >>
<1> DEFINE W == RSP!Wire(r)
<1>1. ASSUME NEW k \in Kinds, NEW s \in SymSeq, RSP!Plain(s), NEW b \in SymSeq
      PROVE  /\ (<<k>> \o s) \o RSP!EOL \in SymSeq /\ (<<k>> \o s) \o RSP!EOL # << >>
             /\ ((<<k>> \o s) \o RSP!EOL) \o b \in SymSeq /\ ((<<k>> \o s) \o RSP!EOL) \o b # << >>
  <2> DEFINE h == (<<k>> \o s) \o RSP!EOL
  <2>1. k \in Symbols /\ k # "CR"
    BY SymbolsAre DEF Kinds
  <2>2. h \in SymSeq /\ Len(h) = Len(s) + 3 /\ Len(s) \in Nat
    BY <1>1, <2>1, HeadAt
  <2> HIDE DEF h
  <2>3. h \o b \in SymSeq /\ Len(h \o b) = Len(h) + Len(b) /\ Len(b) \in Nat
    BY <1>1, <2>2, ConcatProperties, LenProperties DEF SymSeq
  <2>4. Len(h) # 0 /\ Len(h \o b) # 0
    BY <2>2, <2>3
  <2>5. h # << >> /\ h \o b # << >>
    BY <2>4, EmptySeq
  <2> QED BY <2>2, <2>3, <2>5 DEF h
<1>2. CASE r \in RSP!SimpleReplies
  <2>1. PICK k \in Kinds \ {"$", "*"}, t \in Texts : r = RSP!Reply(k, <<t>>)
    BY <1>2 DEF RSP!SimpleReplies, Kinds
  <2>2. k \in Kinds /\ k \notin {"$", "*", "*nil"}
    BY <2>1 DEF Kinds
  <2>3. r.items = <<t>>
    BY <2>1, ReplyIs
  <2>4. Len(r.items) = 1 /\ r.items[1] = t /\ <<t>>[1] = t
    BY <2>3
  <2>5. RSP!Plain(t) /\ t \in SymSeq
    <3>1. 1 \in 1 .. Len(r.items)
      BY <2>4
    <3> QED BY <2>4, <3>1, TextIs DEF AllPlain
  <2>6. W = <<k>> \o t \o RSP!EOL
    <3>1. W = <<k>> \o <<t>>[1] \o RSP!EOL
      BY <2>1, <2>2, WireIs
    <3> QED BY <2>4, <3>1
  <2> QED BY <1>1, <2>2, <2>5, <2>6
<1>3. CASE r \in RSP!BulkReplies
  <2>1. PICK t \in RSP!Items : r = RSP!Reply("$", <<t>>)
    BY <1>3 DEF RSP!BulkReplies
  <2>2. W = RSP!WireItem(t)
    <3>1. <<t>>[1] = t
      OBVIOUS
    <3> QED BY <2>1, <3>1, WireIs
  <2>3. RSP!WireItem(t) \in SymSeq
    BY ItemParts
  <2>4. Len(RSP!WireItem(t)) # 0
    <3>1. CASE t = RSP!Nil
      <4>1. Len(RSP!WireItem(t)) = 5
        BY <3>1, ItemParts
      <4> QED BY <4>1
    <3>2. CASE t # RSP!Nil
      <4>1. Len(RSP!WireItem(t)) = Len(RSP!NumText(Len(t))) + Len(t) + 5
        BY <3>2, ItemParts
      <4>2. Len(t) \in Nat /\ Len(RSP!NumText(Len(t))) \in Nat
        BY <3>2, ItemIs, LengthsPlain
      <4> QED BY <4>1, <4>2
    <3> QED BY <3>1, <3>2
  <2>5. RSP!WireItem(t) # << >>
    <3> DEFINE w == RSP!WireItem(t)
    <3> HIDE DEF w
    <3>1. Len(w) # 0
      BY <2>4 DEF w
    <3>2. w # << >>
      BY <3>1, EmptySeq
    <3> QED BY <3>2 DEF w
  <2> QED BY <2>2, <2>3, <2>5
<1>4. CASE r \in RSP!ArrayReplies
  <2>1. PICK items \in UNION {[1 .. n -> RSP!Items] : n \in 0 .. MaxItems} : r = RSP!Reply("*", items)
    BY <1>4 DEF RSP!ArrayReplies
  <2>2. items \in Seq(RSP!Items)
    <3>1. PICK n \in 0 .. MaxItems : items \in [1 .. n -> RSP!Items]
      BY <2>1
    <3>2. MaxItems \in Nat
      BY TextsAssumption
    <3>3. n \in Nat
      BY <3>1, <3>2
    <3> QED BY <3>1, <3>3, SeqDef
  <2>3. W = <<"*">> \o RSP!NumText(Len(items)) \o RSP!EOL \o RSP!WireItems(items)
    BY <2>1, WireIs
  <2>4. RSP!WireItems(items) \in SymSeq
    <3>1. PICK f : Builds(f, items) /\ RSP!WireItems(items) = f[Len(items)]
      BY <2>2, WireItemsIs
    <3>2. f \in [0 .. Len(items) -> SymSeq] /\ Len(items) \in 0 .. Len(items)
      BY <2>2, <3>1, LenProperties DEF Builds
    <3> QED BY <3>1, <3>2
  <2>5. "*" \in Kinds /\ RSP!NumText(Len(items)) \in SymSeq /\ RSP!Plain(RSP!NumText(Len(items)))
    BY <2>2, LengthsPlain, LenProperties DEF Kinds
  <2> QED BY <1>1, <2>3, <2>4, <2>5
<1>5. CASE r = RSP!Reply("*nil", << >>)
  <2> DEFINE s == <<"-", "1">>
  <2>1. W = <<"*", "-", "1">> \o RSP!EOL
    BY <1>5, WireIs
  <2>2. <<"*", "-", "1">> = <<"*">> \o s
    OBVIOUS
  <2>3. "*" \in Kinds /\ s \in SymSeq /\ RSP!Plain(s)
    BY LengthsPlain DEF Kinds
  <2>4. W = (<<"*">> \o s) \o RSP!EOL
    BY <2>1, <2>2
  <2> HIDE DEF s
  <2> QED BY <1>1, <2>3, <2>4
<1> QED BY <1>2, <1>3, <1>4, <1>5 DEF RSP!Replies

(***************************************************************************)
(* What RedisSession assumes of replies and their parser (ReplyAssumption) *)
(* holds for Resp.parse and any replies whose texts are plain and not nil. *)
(***************************************************************************)
THEOREM ParserServesSession ==
  ASSUME Symbols \subseteq STRING,
         NEW S \in SUBSET {r \in RSP!Replies : AllPlain(r) /\ RSP!Shown(r) = r}
  PROVE  /\ \A r \in S : RSP!Wire(r) # << >> /\ RSP!Wire(r) \in Seq(STRING)
         /\ \A r \in S : RSP!Parse(RSP!Wire(r)) = [status |-> "ok", reply |-> r]
         /\ RSP!Parse(<< >>).status # "ok"
<1>1. ASSUME NEW r \in S
      PROVE  /\ RSP!Wire(r) # << >> /\ RSP!Wire(r) \in Seq(STRING)
             /\ RSP!Parse(RSP!Wire(r)) = [status |-> "ok", reply |-> r]
  <2> DEFINE W == RSP!Wire(r)
             got == Len(W)
  <2>1. r \in RSP!Replies /\ AllPlain(r) /\ RSP!Shown(r) = r
    OBVIOUS
  <2>2. W \in SymSeq /\ W # << >>
    BY <2>1, WireTyped
  <2>3. got \in 0 .. Len(W)
    <3> HIDE DEF W
    <3> QED BY <2>2, LenProperties DEF SymSeq
  <2>4. SubSeq(W, 1, got) = W
    <3> HIDE DEF W
    <3>1. Begun(SubSeq(W, 1, got), W, got)
      BY <2>2, <2>3, BegunIs
    <3> DEFINE raw == SubSeq(W, 1, got)
    <3>2. raw \in SymSeq /\ Len(raw) = Len(W) /\ \A i \in 1 .. Len(raw) : raw[i] = W[i]
      BY <3>1 DEF Begun
    <3> HIDE DEF raw
    <3>3. raw = W
      BY <2>2, <3>2, SeqEqual DEF SymSeq
    <3> QED BY <3>3 DEF raw
  <2>5. Answered(r, got, RSP!Parse(SubSeq(W, 1, got)))
    BY <2>1, <2>3, RepliesAnswered
  <2>6. Understood(r, RSP!Parse(W))
    BY <2>4, <2>5 DEF Answered
  <2>7. W \in Seq(STRING)
    <3> HIDE DEF W
    <3>1. ASSUME NEW T, Symbols \subseteq T PROVE W \in Seq(T)
      <4>1. W \in [1 .. Len(W) -> Symbols] /\ Len(W) \in Nat
        BY <2>2, LenProperties DEF SymSeq
      <4>2. W \in [1 .. Len(W) -> T]
        BY <3>1, <4>1
      <4> QED BY <4>1, <4>2, SeqDef
    <3> QED BY <3>1
  <2> QED BY <2>1, <2>2, <2>6, <2>7 DEF Understood
<1>2. RSP!Parse(<< >>).status # "ok"
  <2> DEFINE W == << >>
  <2>1. Begun(<< >>, W, 0)
    BY DEF Begun, SymSeq
  <2>2. RSP!Parse(<< >>) = RSP!Failed("InvalidResp")
    BY <2>1, NothingRead
  <2>3. RSP!Failed("InvalidResp").status = "InvalidResp"
    BY DEF RSP!Failed, RSP!Result
  <2> QED BY <2>2, <2>3
<1> QED BY <1>1, <1>2
=============================================================================
