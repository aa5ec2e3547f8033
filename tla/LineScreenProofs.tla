--------------------------- MODULE LineScreenProofs ---------------------------
(***************************************************************************)
(* Theorems about what linenoise.c draws: the screen shows the line, the    *)
(* cursor is on the byte that the next key acts on, and what is above the   *)
(* prompt is left alone, for every width of the terminal, every prompt that *)
(* is narrower, and lines of any length.                                    *)
(***************************************************************************)
EXTENDS LineScreen, SequenceTheorems, WellFoundedInduction, TLAPS

-----------------------------------------------------------------------------
(* Rows and columns of the byte with number i.                              *)

LEMMA Widths == Cols \in Nat /\ Cols >= 2 /\ PLen \in 1 .. Cols - 1 /\ Rows \in Nat /\ Rows >= 1
BY PromptAssumption, SheetAssumption

LEMMA DivMod ==
  ASSUME NEW i \in Nat
  PROVE  i \div Cols \in Nat /\ i % Cols \in 0 .. Cols - 1 /\ i = (i \div Cols) * Cols + (i % Cols)
BY Widths

LEMMA DivModOf ==
  ASSUME NEW q \in Nat, NEW m \in 0 .. Cols - 1
  PROVE  (q * Cols + m) \div Cols = q /\ (q * Cols + m) % Cols = m
<1> DEFINE i == q * Cols + m
           p == i \div Cols
           n == i % Cols
<1>1. i \in Nat
  BY Widths
<1>2. p \in Nat /\ n \in 0 .. Cols - 1 /\ i = p * Cols + n
  BY <1>1, DivMod
<1> HIDE DEF p, n
<1>3. ~(p < q) /\ ~(q < p)
  BY <1>2, Widths
<1> QED BY <1>2, <1>3, Widths DEF p, n

LEMMA DivModNext ==
  ASSUME NEW i \in Nat
  PROVE  IF i % Cols = Cols - 1 THEN (i + 1) \div Cols = i \div Cols + 1 /\ (i + 1) % Cols = 0
         ELSE (i + 1) \div Cols = i \div Cols /\ (i + 1) % Cols = (i % Cols) + 1
<1> DEFINE q == i \div Cols
           m == i % Cols
<1>1. q \in Nat /\ m \in 0 .. Cols - 1 /\ i = q * Cols + m
  BY DivMod
<1> HIDE DEF q, m
<1>2. CASE m = Cols - 1
  <2>1. i + 1 = (q + 1) * Cols + 0 /\ q + 1 \in Nat /\ 0 \in 0 .. Cols - 1
    BY <1>1, <1>2, Widths
  <2>2. (i + 1) \div Cols = q + 1 /\ (i + 1) % Cols = 0
    BY <2>1, DivModOf
  <2> QED BY <1>2, <2>2 DEF q, m
<1>3. CASE m # Cols - 1
  <2>1. i + 1 = q * Cols + (m + 1) /\ m + 1 \in 0 .. Cols - 1
    BY <1>1, <1>3, Widths
  <2>2. (i + 1) \div Cols = q /\ (i + 1) % Cols = m + 1
    BY <1>1, <2>1, DivModOf
  <2> QED BY <1>3, <2>2 DEF q, m
<1> QED BY <1>2, <1>3

LEMMA DivMonotone ==
  ASSUME NEW i \in Nat, NEW j \in Nat, i <= j
  PROVE  i \div Cols <= j \div Cols
BY Widths

LEMMA DivSmall ==
  ASSUME NEW i \in Nat, i < Cols
  PROVE  i \div Cols = 0 /\ i % Cols = i
BY Widths

LEMMA RowAtIs ==
  ASSUME NEW k \in Nat
  PROVE  RowAt(k) = (PLen + k) \div Cols + 1 /\ (PLen + k) \div Cols \in Nat
BY Widths DEF RowAt

(* The rows of a line, by its last byte. *)
LEMMA RowsOfIs ==
  ASSUME NEW n \in Nat
  PROVE  /\ RowsOf(n) = (PLen + n - 1) \div Cols + 1 /\ (PLen + n - 1) \div Cols \in Nat
         /\ (PLen + n) % Cols = 0 => (PLen + n) \div Cols = (PLen + n - 1) \div Cols + 1
         /\ (PLen + n) % Cols # 0 => (PLen + n) \div Cols = (PLen + n - 1) \div Cols
<1>1. PLen + n - 1 \in Nat /\ (PLen + n - 1) + 1 = PLen + n /\ PLen + n + Cols - 1 = (PLen + n - 1) + Cols
  BY Widths
<1>2. RowsOf(n) = (PLen + n - 1) \div Cols + 1 /\ (PLen + n - 1) \div Cols \in Nat
  BY <1>1, Widths DEF RowsOf
<1> DEFINE i == PLen + n - 1
<1>3. i \in Nat /\ i + 1 = PLen + n
  BY <1>1
<1> HIDE DEF i
<1>4. /\ (i + 1) % Cols = 0 => (i + 1) \div Cols = i \div Cols + 1
      /\ (i + 1) % Cols # 0 => (i + 1) \div Cols = i \div Cols
  <2>1. i % Cols \in 0 .. Cols - 1
    BY <1>3, DivMod
  <2>2. CASE i % Cols = Cols - 1
    BY <1>3, <2>2, DivModNext
  <2>3. CASE i % Cols # Cols - 1
    <3>1. (i + 1) \div Cols = i \div Cols /\ (i + 1) % Cols = (i % Cols) + 1
      BY <1>3, <2>3, DivModNext
    <3>2. (i % Cols) + 1 # 0
      BY <2>1
    <3> QED BY <3>1, <3>2
  <2> QED BY <2>2, <2>3
<1> QED BY <1>2, <1>3, <1>4 DEF i

-----------------------------------------------------------------------------
(* Induction over the natural numbers, for a set, and functions defined by   *)
(* recursion over a range of numbers.                                       *)
LEMMA LeastNat ==
  ASSUME NEW T, T \subseteq Nat, T # {}
  PROVE  \E x \in T : \A y \in T : x <= y
<1>1. PICK x \in T : \A y \in T : ~(<<y, x>> \in OpToRel(<, Nat))
  BY WFMin, NatLessThanWellFounded
<1>2. \A y \in T : ~(y < x)
  BY <1>1 DEF OpToRel
<1> QED
  BY <1>2

LEMMA SetInduction ==
  ASSUME NEW T \in SUBSET Nat, 0 \in T, \A n \in T : n + 1 \in T
  PROVE  T = Nat
<1> SUFFICES ASSUME Nat \ T # {} PROVE FALSE
  OBVIOUS
<1>1. PICK x \in Nat \ T : \A y \in Nat \ T : x <= y
  BY LeastNat
<1>2. x - 1 \in Nat /\ x - 1 \notin T
  BY <1>1
<1> QED
  BY <1>1, <1>2

(* The same up to a bound. *)
LEMMA BoundedInduction ==
  ASSUME NEW N \in Nat, NEW T, 0 \in T, \A n \in 0 .. N : n \in T /\ n # N => n + 1 \in T
  PROVE  0 .. N \subseteq T
<1> DEFINE U == {n \in Nat : n <= N => n \in T}
<1>1. U \in SUBSET Nat /\ 0 \in U
  OBVIOUS
<1>2. ASSUME NEW n \in U PROVE n + 1 \in U
  OBVIOUS
<1>3. U = Nat
  <2> HIDE DEF U
  <2> QED BY <1>1, <1>2, SetInduction
<1> QED
  BY <1>3

(* A function from 0 .. N that starts with b and goes on by st. *)
Recurses(N, V, b, st) ==
  \E g \in [0 .. N -> V] : g[0] = b /\ \A n \in 1 .. N : g[n] = st[g[n - 1]][n]

LEMMA RecFcn ==
  ASSUME NEW N \in Nat, NEW V, NEW b \in V, NEW st \in [V -> [1 .. N -> V]]
  PROVE  Recurses(N, V, b, st)
<1> DEFINE Is(g, n) == g[0] = b /\ \A m \in 1 .. n : g[m] = st[g[m - 1]][m]
           T == {n \in 0 .. N : \E g \in [0 .. n -> V] : Is(g, n)}
<1>1. 0 \in T
  <2>1. [n \in 0 .. 0 |-> b] \in [0 .. 0 -> V] /\ Is([n \in 0 .. 0 |-> b], 0)
    OBVIOUS
  <2> HIDE DEF Is
  <2> QED BY <2>1
<1>2. ASSUME NEW n \in 0 .. N, n \in T, n # N PROVE n + 1 \in T
  <2>1. PICK g \in [0 .. n -> V] : Is(g, n)
    BY <1>2
  <2> DEFINE h == [m \in 0 .. n + 1 |-> IF m = n + 1 THEN st[g[n]][n + 1] ELSE g[m]]
  <2>2. st[g[n]][n + 1] \in V
    BY <1>2
  <2>3. h \in [0 .. n + 1 -> V]
    BY <2>2
  <2>a. 0 \in 0 .. n /\ n \in 0 .. n /\ \A m \in 0 .. n : m \in 0 .. n + 1 /\ m # n + 1
    OBVIOUS
  <2>b. h[n + 1] = st[g[n]][n + 1] /\ \A m \in 0 .. n : h[m] = g[m]
    BY <2>a
  <2>4. h[0] = b /\ h[n + 1] = st[h[n]][n + 1] /\ \A m \in 0 .. n : h[m] = g[m]
    <3> HIDE DEF h
    <3> QED BY <2>1, <2>a, <2>b
  <2>5. Is(h, n + 1)
    <3> HIDE DEF h
    <3> SUFFICES ASSUME NEW m \in 1 .. n + 1 PROVE h[m] = st[h[m - 1]][m]
      BY <2>4
    <3>1. CASE m = n + 1
      BY <2>4, <3>1
    <3>2. CASE m # n + 1
      <4>1. m \in 1 .. n /\ m \in 0 .. n /\ m - 1 \in 0 .. n
        BY <3>2
      <4> QED BY <2>1, <2>4, <4>1
    <3> QED BY <3>1, <3>2
  <2> HIDE DEF Is, h
  <2>6. n + 1 \in 0 .. N
    BY <1>2
  <2> QED BY <2>3, <2>5, <2>6
<1>3. 0 .. N \subseteq T
  <2> HIDE DEF T
  <2> QED BY <1>1, <1>2, BoundedInduction
<1>4. N \in T
  <2> HIDE DEF T
  <2> QED BY <1>3
<1> QED
  BY <1>4 DEF Recurses

-----------------------------------------------------------------------------
(* What each control sequence does to the terminal.                         *)

Sheets == [0 .. Rows - 1 -> [0 .. Cols - 1 -> Glyphs]]
Terms == [cell : Sheets, row : Nat, col : 0 .. Cols - 1, wrap : BOOLEAN]
Ops == {CR, LF, EraseRight, ClearAll} \cup {Up(n) : n \in Nat} \cup {Down(n) : n \in Nat}
         \cup {Right(n) : n \in Nat} \cup {Put(b) : b \in Glyphs}

(* One cell, and the rest of a row, with another content. *)
PutCell(cell, r, c, b) == [cell EXCEPT ![r][c] = b]
Erased(cell, r, k) == [cell EXCEPT ![r] = [c \in 0 .. Cols - 1 |-> IF c < k THEN @[c] ELSE BlankCell]]

LEMMA ZeroIs == 0 \in Nat /\ 0 \in 0 .. Cols - 1 /\ FALSE \in BOOLEAN
BY Widths

LEMMA TermIs ==
  ASSUME NEW t \in Terms
  PROVE  t.cell \in Sheets /\ t.row \in Nat /\ t.col \in 0 .. Cols - 1 /\ t.wrap \in BOOLEAN
BY DEF Terms

LEMMA DisplayIs ==
  ASSUME NEW cell, NEW row, NEW col, NEW wrap
  PROVE  /\ Display(cell, row, col, wrap).cell = cell /\ Display(cell, row, col, wrap).row = row
         /\ Display(cell, row, col, wrap).col = col /\ Display(cell, row, col, wrap).wrap = wrap
BY DEF Display

LEMMA DisplayType ==
  ASSUME NEW cell \in Sheets, NEW row \in Nat, NEW col \in 0 .. Cols - 1, NEW wrap \in BOOLEAN
  PROVE  Display(cell, row, col, wrap) \in Terms
BY DEF Terms, Display

(* A terminal with no wrap pending. *)
Still(cell, row, col) == Display(cell, row, col, FALSE)

LEMMA StillIs ==
  ASSUME NEW cell, NEW row, NEW col
  PROVE  /\ Still(cell, row, col).cell = cell /\ Still(cell, row, col).row = row
         /\ Still(cell, row, col).col = col /\ ~Still(cell, row, col).wrap
BY DEF Display, Still

LEMMA StillType ==
  ASSUME NEW cell \in Sheets, NEW row \in Nat, NEW col \in 0 .. Cols - 1
  PROVE  Still(cell, row, col) \in Terms
BY DEF Terms, Display, Still

LEMMA PutCellIs ==
  ASSUME NEW cell \in Sheets, NEW r \in Nat, NEW c \in 0 .. Cols - 1, NEW b \in Glyphs
  PROVE  /\ PutCell(cell, r, c, b) \in Sheets
         /\ \A q \in 0 .. Rows - 1, d \in 0 .. Cols - 1 :
              PutCell(cell, r, c, b)[q][d] = IF q = r /\ d = c THEN b ELSE cell[q][d]
BY Widths DEF PutCell, Sheets

LEMMA ErasedIs ==
  ASSUME NEW cell \in Sheets, NEW r \in Nat, NEW k \in 0 .. Cols - 1
  PROVE  /\ Erased(cell, r, k) \in Sheets
         /\ \A q \in 0 .. Rows - 1, d \in 0 .. Cols - 1 :
              Erased(cell, r, k)[q][d] = IF q = r /\ d >= k THEN BlankCell ELSE cell[q][d]
BY Widths, GlyphsAssumption DEF Erased, Sheets

LEMMA ApplyPut ==
  ASSUME NEW t, NEW b
  PROVE  Apply(t, Put(b)) =
           LET r == IF t.wrap THEN t.row + 1 ELSE t.row
               c == IF t.wrap THEN 0 ELSE t.col
           IN  Display(PutCell(t.cell, r, c, b), r, Least(c + 1, Cols - 1), c = Cols - 1)
BY DEF Apply, Put, PutByte, PutCell

LEMMA ApplyCR == ASSUME NEW t PROVE Apply(t, CR) = Still(t.cell, t.row, 0)
BY DEF Apply, CR, At, Still

LEMMA ApplyLF == ASSUME NEW t PROVE Apply(t, LF) = Still(t.cell, Least(t.row + 1, Rows - 1), t.col)
BY DEF Apply, LF, At, Still

LEMMA ApplyUp ==
  ASSUME NEW t, NEW n \in Nat, n > 0
  PROVE  Apply(t, Up(n)) = Still(t.cell, Most(t.row - n, 0), t.col)
<1>1. Count(n) = n
  BY DEF Count, Most
<1> QED BY <1>1 DEF Apply, Up, At, Still

LEMMA ApplyDown ==
  ASSUME NEW t, NEW n \in Nat, n > 0
  PROVE  Apply(t, Down(n)) = Still(t.cell, Least(t.row + n, Rows - 1), t.col)
<1>1. Count(n) = n
  BY DEF Count, Most
<1> QED BY <1>1 DEF Apply, Down, At, Still

LEMMA ApplyRight ==
  ASSUME NEW t, NEW n \in Nat, n > 0
  PROVE  Apply(t, Right(n)) = Still(t.cell, t.row, Least(t.col + n, Cols - 1))
<1>1. Count(n) = n
  BY DEF Count, Most
<1> QED BY <1>1 DEF Apply, Right, At, Still

LEMMA ApplyErase ==
  ASSUME NEW t
  PROVE  Apply(t, EraseRight) = Still(Erased(t.cell, t.row, t.col), t.row, t.col)
BY DEF Apply, EraseRight, Erased, EraseFrom, Still

LEMMA ApplyClear ==
  ASSUME NEW t
  PROVE  Apply(t, ClearAll) = Still([r \in 0 .. Rows - 1 |-> BlankRow], 0, 0)
BY DEF Apply, ClearAll, Still

LEMMA BlankSheet == [r \in 0 .. Rows - 1 |-> BlankRow] \in Sheets
BY GlyphsAssumption DEF BlankRow, Sheets

LEMMA LeastMost ==
  /\ \A n \in Nat : Least(n, Rows - 1) \in Nat /\ Least(n, Cols - 1) \in 0 .. Cols - 1
  /\ \A n \in Int : Most(n, 0) \in Nat
BY Widths DEF Least, Most

LEMMA ApplyType ==
  ASSUME NEW t \in Terms, NEW o \in Ops
  PROVE  Apply(t, o) \in Terms
<1>1. t.cell \in Sheets /\ t.row \in Nat /\ t.col \in Nat /\ t.col \in 0 .. Cols - 1 /\ t.wrap \in BOOLEAN
  BY TermIs, Widths
<1>2. CASE o = CR
  BY <1>1, <1>2, ApplyCR, StillType, ZeroIs
<1>3. CASE o = LF
  <2>1. Least(t.row + 1, Rows - 1) \in Nat
    BY <1>1, LeastMost
  <2> QED BY <1>1, <1>3, <2>1, ApplyLF, StillType, ZeroIs
<1>4. CASE o = EraseRight
  <2>1. Erased(t.cell, t.row, t.col) \in Sheets
    BY <1>1, ErasedIs
  <2> QED BY <1>1, <1>4, <2>1, ApplyErase, StillType, ZeroIs
<1>5. CASE o = ClearAll
  BY <1>5, ApplyClear, BlankSheet, StillType, ZeroIs
<1>6. ASSUME NEW n \in Nat, o \in {Up(n), Down(n), Right(n)} PROVE Apply(t, o) \in Terms
  <2> DEFINE m == Most(n, 1)
  <2>1. m \in Nat
    BY DEF Most
  <2> HIDE DEF m
  <2>2. /\ Most(t.row - m, 0) \in Nat /\ Least(t.row + m, Rows - 1) \in Nat
        /\ Least(t.col + m, Cols - 1) \in 0 .. Cols - 1
    BY <1>1, <2>1, LeastMost
  <2>3. CASE o = Up(n)
    <3>1. Apply(t, o) = Still(t.cell, Most(t.row - m, 0), t.col)
      BY <2>3 DEF Apply, Up, At, Still, Count, m
    <3> QED BY <1>1, <2>2, <3>1, StillType, ZeroIs
  <2>4. CASE o = Down(n)
    <3>1. Apply(t, o) = Still(t.cell, Least(t.row + m, Rows - 1), t.col)
      BY <2>4 DEF Apply, Down, At, Still, Count, m
    <3> QED BY <1>1, <2>2, <3>1, StillType, ZeroIs
  <2>5. CASE o = Right(n)
    <3>1. Apply(t, o) = Still(t.cell, t.row, Least(t.col + m, Cols - 1))
      BY <2>5 DEF Apply, Right, At, Still, Count, m
    <3> QED BY <1>1, <2>2, <3>1, StillType, ZeroIs
  <2> QED BY <1>6, <2>3, <2>4, <2>5
<1>7. ASSUME NEW b \in Glyphs, o = Put(b) PROVE Apply(t, o) \in Terms
  <2> DEFINE r == IF t.wrap THEN t.row + 1 ELSE t.row
             c == IF t.wrap THEN 0 ELSE t.col
  <2>1. r \in Nat /\ c \in 0 .. Cols - 1 /\ c + 1 \in Nat
    BY <1>1, ZeroIs
  <2>2. Apply(t, o) = Display(PutCell(t.cell, r, c, b), r, Least(c + 1, Cols - 1), c = Cols - 1)
    BY <1>7, ApplyPut
  <2> HIDE DEF r, c
  <2>3. PutCell(t.cell, r, c, b) \in Sheets
    BY <1>1, <2>1, PutCellIs
  <2>4. Least(c + 1, Cols - 1) \in 0 .. Cols - 1 /\ (c = Cols - 1) \in BOOLEAN
    BY <2>1, LeastMost
  <2> QED BY <2>1, <2>2, <2>3, <2>4, DisplayType
<1> QED
  BY <1>2, <1>3, <1>4, <1>5, <1>6, <1>7 DEF Ops

-----------------------------------------------------------------------------
(* What is written, one operation after the other.                          *)

(* f says what the terminal shows after each operation. *)
Goes(t, ops, f) == /\ f \in [0 .. Len(ops) -> Terms] /\ f[0] = t
                   /\ \A n \in 1 .. Len(ops) : f[n] = Apply(f[n - 1], ops[n])

LEMMA WriteFcn ==
  ASSUME NEW t \in Terms, NEW ops \in Seq(Ops)
  PROVE  \E f : Goes(t, ops, f) /\ Write(t, ops) = f[Len(ops)]
<1> DEFINE N == Len(ops)
           E(g) == g = [n \in 0 .. N |-> IF n = 0 THEN t ELSE Apply(g[n - 1], ops[n])]
           f == CHOOSE g : E(g)
           st == [u \in Terms |-> [n \in 1 .. N |-> Apply(u, ops[n])]]
<1>1. N \in Nat /\ \A n \in 1 .. N : ops[n] \in Ops
  BY ElementOfSeq, LenProperties
<1>2. Write(t, ops) = f[N]
  BY DEF Write
<1> HIDE DEF N
<1>3. \A u \in Terms, n \in 1 .. N : Apply(u, ops[n]) \in Terms
  BY <1>1, ApplyType
<1>4. st \in [Terms -> [1 .. N -> Terms]]
  BY <1>3
<1>5. Recurses(N, Terms, t, st)
  <2> HIDE DEF st
  <2> QED BY <1>1, <1>4, RecFcn
<1>6. PICK w \in [0 .. N -> Terms] : w[0] = t /\ \A n \in 1 .. N : w[n] = st[w[n - 1]][n]
  <2> HIDE DEF st
  <2> QED BY <1>5 DEF Recurses
<1>7. \A n \in 1 .. N : w[n] = Apply(w[n - 1], ops[n])
  <2> SUFFICES ASSUME NEW n \in 1 .. N PROVE w[n] = Apply(w[n - 1], ops[n])
    OBVIOUS
  <2>1. n - 1 \in 0 .. N
    BY <1>1
  <2>2. w[n - 1] \in Terms /\ w[n] = st[w[n - 1]][n]
    <3> HIDE DEF st
    <3> QED BY <1>6, <2>1
  <2> QED BY <2>1, <2>2
<1> HIDE DEF st
<1>8. E(w)
  <2>1. w = [n \in 0 .. N |-> w[n]]
    OBVIOUS
  <2>2. ASSUME NEW n \in 0 .. N
        PROVE  w[n] = IF n = 0 THEN t ELSE Apply(w[n - 1], ops[n])
    <3>1. n # 0 => n \in 1 .. N
      BY <1>1
    <3> QED BY <1>6, <1>7, <3>1
  <2> QED BY <2>1, <2>2
<1>9. E(f)
  BY <1>8
<1> HIDE DEF f
<1>10. ASSUME NEW n \in 0 .. N PROVE f[n] = IF n = 0 THEN t ELSE Apply(f[n - 1], ops[n])
  BY <1>9
<1>11. 0 \in 0 .. N /\ \A n \in 1 .. N : n \in 0 .. N /\ n # 0
  BY <1>1
<1> HIDE DEF E
<1>12. f[0] = t /\ \A n \in 1 .. N : f[n] = Apply(f[n - 1], ops[n])
  BY <1>10, <1>11
<1> DEFINE T == {n \in 0 .. N : f[n] \in Terms}
<1>13. 0 .. N \subseteq T
  <2>1. 0 \in T
    BY <1>11, <1>12
  <2>2. ASSUME NEW n \in 0 .. N, n \in T, n # N PROVE n + 1 \in T
    <3>1. n + 1 \in 1 .. N /\ n + 1 \in 0 .. N /\ (n + 1) - 1 = n /\ f[n] \in Terms
      BY <1>1, <2>2
    <3>2. f[n + 1] \in Terms
      <4> HIDE DEF T
      <4> QED BY <1>3, <1>12, <3>1
    <3> QED BY <3>1, <3>2
  <2> HIDE DEF T
  <2> QED BY <1>1, <2>1, <2>2, BoundedInduction
<1>14. f \in [0 .. N -> Terms]
  <2>1. \A n \in 0 .. N : f[n] \in Terms
    BY <1>13
  <2> QED BY <1>9, <2>1 DEF E
<1> QED
  BY <1>2, <1>12, <1>14 DEF Goes, N

(* There is one such f. *)
LEMMA GoesOnce ==
  ASSUME NEW t, NEW ops \in Seq(Ops), NEW f, Goes(t, ops, f), NEW g, Goes(t, ops, g)
  PROVE  f[Len(ops)] = g[Len(ops)]
<1> DEFINE k == Len(ops)
           T == {n \in 0 .. k : f[n] = g[n]}
<1>1. 0 \in T /\ k \in Nat
  BY LenProperties DEF Goes
<1>2. ASSUME NEW n \in 0 .. k, n \in T, n # k PROVE n + 1 \in T
  <2>1. n + 1 \in 1 .. k /\ n + 1 \in 0 .. k /\ (n + 1) - 1 = n
    BY <1>1, <1>2
  <2> QED BY <1>2, <2>1 DEF Goes
<1>3. 0 .. k \subseteq T
  <2> HIDE DEF T
  <2> QED BY <1>1, <1>2, BoundedInduction
<1> QED BY <1>1, <1>3

LEMMA WriteType ==
  ASSUME NEW t \in Terms, NEW ops \in Seq(Ops)
  PROVE  Write(t, ops) \in Terms
<1>1. PICK f : Goes(t, ops, f) /\ Write(t, ops) = f[Len(ops)]
  BY WriteFcn
<1>2. Len(ops) \in 0 .. Len(ops)
  BY LenProperties
<1> QED BY <1>1, <1>2 DEF Goes

LEMMA WriteNothing ==
  ASSUME NEW t \in Terms
  PROVE  Write(t, <<>>) = t
<1>1. <<>> \in Seq(Ops) /\ Len(<<>>) = 0
  BY EmptySeq
<1>2. PICK f : Goes(t, <<>>, f) /\ Write(t, <<>>) = f[Len(<<>>)]
  BY <1>1, WriteFcn
<1> QED BY <1>1, <1>2 DEF Goes

LEMMA WriteOne ==
  ASSUME NEW t \in Terms, NEW o \in Ops
  PROVE  Write(t, <<o>>) = Apply(t, o)
<1>1. <<o>> \in Seq(Ops) /\ Len(<<o>>) = 1 /\ <<o>>[1] = o
  OBVIOUS
<1>2. PICK f : Goes(t, <<o>>, f) /\ Write(t, <<o>>) = f[Len(<<o>>)]
  BY <1>1, WriteFcn
<1>3. f[1] = Apply(f[1 - 1], o) /\ f[0] = t
  BY <1>1, <1>2 DEF Goes
<1> QED BY <1>1, <1>2, <1>3

LEMMA WriteTwo ==
  ASSUME NEW t \in Terms, NEW a \in Seq(Ops), NEW b \in Seq(Ops)
  PROVE  Write(t, a \o b) = Write(Write(t, a), b)
<1>1. PICK f : Goes(t, a, f) /\ Write(t, a) = f[Len(a)]
  BY WriteFcn
<1>2. Write(t, a) \in Terms
  BY WriteType
<1>3. PICK g : Goes(Write(t, a), b, g) /\ Write(Write(t, a), b) = g[Len(b)]
  BY <1>2, WriteFcn
<1>4. /\ a \o b \in Seq(Ops) /\ Len(a \o b) = Len(a) + Len(b) /\ Len(a) \in Nat /\ Len(b) \in Nat
      /\ \A i \in 1 .. Len(a) + Len(b) : (a \o b)[i] = IF i <= Len(a) THEN a[i] ELSE b[i - Len(a)]
  BY ConcatProperties, LenProperties
<1>5. PICK h : Goes(t, a \o b, h) /\ Write(t, a \o b) = h[Len(a \o b)]
  BY <1>4, WriteFcn
<1> DEFINE e == [n \in 0 .. Len(a) + Len(b) |-> IF n <= Len(a) THEN f[n] ELSE g[n - Len(a)]]
<1>6. e[0] = t /\ e[Len(a) + Len(b)] = g[Len(b)]
  <2>1. CASE Len(b) = 0
    BY <1>1, <1>3, <1>4, <2>1 DEF Goes
  <2>2. CASE Len(b) # 0
    BY <1>1, <1>3, <1>4, <2>2 DEF Goes
  <2> QED BY <2>1, <2>2
<1>7. ASSUME NEW n \in 1 .. Len(a) + Len(b) PROVE e[n] = Apply(e[n - 1], (a \o b)[n])
  <2>1. n \in 0 .. Len(a) + Len(b) /\ n - 1 \in 0 .. Len(a) + Len(b)
    BY <1>4
  <2>2. CASE n <= Len(a)
    <3>1. n \in 1 .. Len(a) /\ n - 1 <= Len(a)
      BY <1>4, <2>2
    <3> QED BY <1>1, <1>4, <2>1, <2>2, <3>1 DEF Goes
  <2>3. CASE n = Len(a) + 1
    <3>1. 1 \in 1 .. Len(b) /\ n - Len(a) = 1 /\ n - 1 = Len(a) /\ ~(n <= Len(a)) /\ n - 1 <= Len(a)
      BY <1>4, <2>3
    <3>2. e[n] = g[1] /\ e[n - 1] = f[Len(a)] /\ (a \o b)[n] = b[1]
      BY <1>4, <2>1, <3>1
    <3>3. g[1] = Apply(g[1 - 1], b[1]) /\ g[0] = f[Len(a)]
      BY <1>1, <1>3, <3>1 DEF Goes
    <3> QED BY <3>2, <3>3
  <2>4. CASE n > Len(a) + 1
    <3>1. n - Len(a) \in 1 .. Len(b) /\ ~(n <= Len(a)) /\ ~(n - 1 <= Len(a)) /\ (n - 1) - Len(a) = (n - Len(a)) - 1
      BY <1>4, <2>4
    <3>2. e[n] = g[n - Len(a)] /\ e[n - 1] = g[(n - Len(a)) - 1] /\ (a \o b)[n] = b[n - Len(a)]
      BY <1>4, <2>1, <3>1
    <3>3. g[n - Len(a)] = Apply(g[(n - Len(a)) - 1], b[n - Len(a)])
      BY <1>3, <3>1 DEF Goes
    <3> QED BY <3>2, <3>3
  <2> QED BY <1>4, <2>2, <2>3, <2>4
<1>8. e \in [0 .. Len(a) + Len(b) -> Terms]
  <2>1. ASSUME NEW n \in 0 .. Len(a) + Len(b) PROVE (IF n <= Len(a) THEN f[n] ELSE g[n - Len(a)]) \in Terms
    <3>1. CASE n <= Len(a)
      <4>1. n \in 0 .. Len(a)
        BY <1>4, <3>1
      <4> QED BY <1>1, <3>1, <4>1 DEF Goes
    <3>2. CASE ~(n <= Len(a))
      <4>1. n - Len(a) \in 0 .. Len(b)
        BY <1>4, <3>2
      <4> QED BY <1>3, <3>2, <4>1 DEF Goes
    <3> QED BY <3>1, <3>2
  <2> QED BY <2>1
<1> HIDE DEF e
<1>9. Goes(t, a \o b, e)
  BY <1>4, <1>6, <1>7, <1>8 DEF Goes
<1>10. h[Len(a \o b)] = e[Len(a \o b)]
  BY <1>4, <1>5, <1>9, GoesOnce
<1> QED BY <1>3, <1>4, <1>5, <1>6, <1>10

-----------------------------------------------------------------------------
(* Bytes written from the start of row tp on.                               *)

(* The number of a cell, counted from the start of row tp. *)
Idx(tp, r, c) == (r - tp) * Cols + c

(* The cells when the first n bytes of s are in them. *)
Paint(cell, tp, s, n) ==
  [r \in 0 .. Rows - 1 |->
     [c \in 0 .. Cols - 1 |->
        IF r >= tp /\ Idx(tp, r, c) < n THEN s[Idx(tp, r, c) + 1] ELSE cell[r][c]]]

LEMMA SheetIs ==
  ASSUME NEW a \in Sheets, NEW b \in Sheets,
         \A r \in 0 .. Rows - 1, c \in 0 .. Cols - 1 : a[r][c] = b[r][c]
  PROVE  a = b
<1>1. ASSUME NEW r \in 0 .. Rows - 1 PROVE a[r] = b[r]
  <2>1. a[r] \in [0 .. Cols - 1 -> Glyphs] /\ b[r] \in [0 .. Cols - 1 -> Glyphs]
    BY DEF Sheets
  <2>2. a[r] = [c \in 0 .. Cols - 1 |-> a[r][c]] /\ b[r] = [c \in 0 .. Cols - 1 |-> b[r][c]]
    BY <2>1
  <2> QED BY <2>2
<1>2. a = [r \in 0 .. Rows - 1 |-> a[r]] /\ b = [r \in 0 .. Rows - 1 |-> b[r]]
  BY DEF Sheets
<1> QED BY <1>1, <1>2

LEMMA RowIs ==
  ASSUME NEW a \in Sheets, NEW b \in Sheets, NEW r \in 0 .. Rows - 1,
         \A c \in 0 .. Cols - 1 : a[r][c] = b[r][c]
  PROVE  a[r] = b[r]
<1>1. a[r] \in [0 .. Cols - 1 -> Glyphs] /\ b[r] \in [0 .. Cols - 1 -> Glyphs]
  BY DEF Sheets
<1>2. a[r] = [c \in 0 .. Cols - 1 |-> a[r][c]] /\ b[r] = [c \in 0 .. Cols - 1 |-> b[r][c]]
  BY <1>1
<1> QED BY <1>2

LEMMA IdxIs ==
  ASSUME NEW tp \in Nat, NEW r \in Nat, r >= tp, NEW c \in 0 .. Cols - 1
  PROVE  /\ Idx(tp, r, c) \in Nat /\ Idx(tp, r, c) \div Cols = r - tp /\ Idx(tp, r, c) % Cols = c
<1> DEFINE q == r - tp
<1>1. q \in Nat
  OBVIOUS
<1> HIDE DEF q
<1>2. q * Cols + c \in Nat
  BY <1>1, Widths
<1>3. (q * Cols + c) \div Cols = q /\ (q * Cols + c) % Cols = c
  BY <1>1, DivModOf
<1> QED BY <1>2, <1>3 DEF q, Idx

LEMMA IdxOf ==
  ASSUME NEW tp \in Nat, NEW i \in Nat
  PROVE  /\ tp + i \div Cols \in Nat /\ tp + i \div Cols >= tp /\ i % Cols \in 0 .. Cols - 1
         /\ Idx(tp, tp + i \div Cols, i % Cols) = i
<1> DEFINE q == i \div Cols
           m == i % Cols
<1>1. q \in Nat /\ m \in 0 .. Cols - 1 /\ i = q * Cols + m
  BY DivMod
<1> HIDE DEF q, m
<1>2. (tp + q) - tp = q
  BY <1>1
<1>3. tp + q \in Nat /\ tp + q >= tp /\ ((tp + q) - tp) * Cols + m = i
  BY <1>1, <1>2
<1> QED BY <1>1, <1>3 DEF q, m, Idx

LEMMA PaintIs ==
  ASSUME NEW cell \in Sheets, NEW tp \in Nat, NEW s \in Seq(Glyphs), NEW n \in 0 .. Len(s)
  PROVE  /\ Paint(cell, tp, s, n) \in Sheets
         /\ \A r \in 0 .. Rows - 1, c \in 0 .. Cols - 1 :
              Paint(cell, tp, s, n)[r][c] = IF r >= tp /\ Idx(tp, r, c) < n THEN s[Idx(tp, r, c) + 1] ELSE cell[r][c]
<1>1. Len(s) \in Nat /\ \A i \in 1 .. Len(s) : s[i] \in Glyphs
  BY ElementOfSeq, LenProperties
<1>2. ASSUME NEW r \in 0 .. Rows - 1, NEW c \in 0 .. Cols - 1, r >= tp, Idx(tp, r, c) < n
      PROVE  s[Idx(tp, r, c) + 1] \in Glyphs
  <2>1. Idx(tp, r, c) \in Nat
    BY <1>2, IdxIs
  <2>2. Idx(tp, r, c) + 1 \in 1 .. Len(s)
    BY <1>1, <1>2, <2>1
  <2> QED BY <1>1, <2>2
<1>3. \A r \in 0 .. Rows - 1, c \in 0 .. Cols - 1 : cell[r][c] \in Glyphs
  BY DEF Sheets
<1> QED BY <1>2, <1>3 DEF Paint, Sheets

(* The cells of the sheet p are those of cell with the first n glyphs of s painted. *)
Painted(p, cell, tp, s, n) ==
  /\ p \in Sheets
  /\ \A q \in 0 .. Rows - 1, d \in 0 .. Cols - 1 :
       p[q][d] = IF q >= tp /\ Idx(tp, q, d) < n THEN s[Idx(tp, q, d) + 1] ELSE cell[q][d]

LEMMA PaintIsPainted ==
  ASSUME NEW cell \in Sheets, NEW tp \in Nat, NEW s \in Seq(Glyphs), NEW n \in 0 .. Len(s)
  PROVE  Painted(Paint(cell, tp, s, n), cell, tp, s, n)
BY PaintIs DEF Painted

LEMMA PaintNothing ==
  ASSUME NEW cell \in Sheets, NEW tp \in Nat, NEW s \in Seq(Glyphs)
  PROVE  Paint(cell, tp, s, 0) = cell
<1>1. 0 \in 0 .. Len(s)
  BY LenProperties
<1>2. Paint(cell, tp, s, 0) \in Sheets
  BY <1>1, PaintIs
<1>3. ASSUME NEW r \in 0 .. Rows - 1, NEW c \in 0 .. Cols - 1 PROVE Paint(cell, tp, s, 0)[r][c] = cell[r][c]
  <2>1. r \in Nat
    BY Widths
  <2>2. r >= tp => Idx(tp, r, c) \in Nat
    BY <2>1, IdxIs
  <2>3. Paint(cell, tp, s, 0)[r][c] = IF r >= tp /\ Idx(tp, r, c) < 0 THEN s[Idx(tp, r, c) + 1] ELSE cell[r][c]
    BY <1>1, PaintIs
  <2>4. ~(r >= tp /\ Idx(tp, r, c) < 0)
    BY <2>2
  <2> QED BY <2>3, <2>4
<1> QED BY <1>2, <1>3, SheetIs

LEMMA IdxOnce ==
  ASSUME NEW tp \in Nat, NEW r \in Nat, r >= tp, NEW c \in 0 .. Cols - 1,
         NEW q \in Nat, q >= tp, NEW d \in 0 .. Cols - 1, Idx(tp, r, c) = Idx(tp, q, d)
  PROVE  r = q /\ c = d
<1>1. Idx(tp, r, c) \div Cols = r - tp /\ Idx(tp, r, c) % Cols = c
  BY IdxIs
<1>2. Idx(tp, q, d) \div Cols = q - tp /\ Idx(tp, q, d) % Cols = d
  BY IdxIs
<1>3. r - tp = q - tp
  BY <1>1, <1>2
<1> QED BY <1>1, <1>2, <1>3

LEMMA PaintNext ==
  ASSUME NEW cell \in Sheets, NEW tp \in Nat, NEW s \in Seq(Glyphs), NEW n \in 0 .. Len(s) - 1,
         NEW r \in 0 .. Rows - 1, r >= tp, NEW c \in 0 .. Cols - 1, Idx(tp, r, c) = n
  PROVE  PutCell(Paint(cell, tp, s, n), r, c, s[n + 1]) = Paint(cell, tp, s, n + 1)
<1> DEFINE m == n + 1
           b == s[m]
           p == Paint(cell, tp, s, n)
           o == Paint(cell, tp, s, m)
           x == PutCell(p, r, c, b)
<1>1. n \in Nat /\ n \in 0 .. Len(s) /\ m \in 0 .. Len(s) /\ m \in 1 .. Len(s) /\ m = n + 1
  BY LenProperties
<1>2. r \in Nat /\ b \in Glyphs
  BY <1>1, Widths, ElementOfSeq
<1> HIDE DEF m
<1>3. Painted(p, cell, tp, s, n)
  BY <1>1, PaintIsPainted
<1>4. Painted(o, cell, tp, s, m)
  BY <1>1, PaintIsPainted
<1> HIDE DEF p, o, b
<1>5. /\ x \in Sheets /\ \A q \in 0 .. Rows - 1, d \in 0 .. Cols - 1 :
           x[q][d] = IF q = r /\ d = c THEN b ELSE p[q][d]
  BY <1>2, <1>3, PutCellIs DEF Painted
<1> HIDE DEF x
<1>6. ASSUME NEW q \in 0 .. Rows - 1, NEW d \in 0 .. Cols - 1 PROVE x[q][d] = o[q][d]
  <2>1. x[q][d] = IF q = r /\ d = c THEN b ELSE p[q][d]
    BY <1>5
  <2>2. p[q][d] = IF q >= tp /\ Idx(tp, q, d) < n THEN s[Idx(tp, q, d) + 1] ELSE cell[q][d]
    BY <1>3 DEF Painted
  <2>3. o[q][d] = IF q >= tp /\ Idx(tp, q, d) < m THEN s[Idx(tp, q, d) + 1] ELSE cell[q][d]
    BY <1>4 DEF Painted
  <2>4. q \in Nat
    BY Widths
  <2>5. q >= tp => Idx(tp, q, d) \in Nat /\ (Idx(tp, q, d) = n => q = r /\ d = c)
    BY <1>2, <2>4, IdxIs, IdxOnce
  <2>6. CASE q = r /\ d = c
    <3>1. Idx(tp, q, d) < m /\ Idx(tp, q, d) + 1 = m
      BY <1>1, <2>6
    <3> QED BY <2>1, <2>3, <2>6, <3>1 DEF b
  <2>7. CASE ~(q = r /\ d = c) /\ q >= tp
    <3>1. Idx(tp, q, d) < m <=> Idx(tp, q, d) < n
      BY <1>1, <2>5, <2>7
    <3> QED BY <2>1, <2>2, <2>3, <2>7, <3>1
  <2>8. CASE ~(q = r /\ d = c) /\ ~(q >= tp)
    BY <2>1, <2>2, <2>3, <2>8
  <2> QED BY <2>6, <2>7, <2>8
<1>7. x = o
  BY <1>4, <1>5, <1>6, SheetIs DEF Painted
<1> QED BY <1>7 DEF x, o, p, b, m

LEMMA PutsType ==
  ASSUME NEW s \in Seq(Glyphs)
  PROVE  Puts(s) \in Seq(Ops) /\ Len(Puts(s)) = Len(s) /\ \A i \in 1 .. Len(s) : Puts(s)[i] = Put(s[i])
<1>1. DOMAIN s = 1 .. Len(s) /\ Len(s) \in Nat /\ \A i \in 1 .. Len(s) : Put(s[i]) \in Ops
  BY ElementOfSeq, LenProperties DEF Ops
<1>2. Puts(s) = [i \in 1 .. Len(s) |-> Put(s[i])]
  BY <1>1 DEF Puts
<1> QED BY <1>1, <1>2, IsASeq

(* Where the cursor is after n bytes. *)
After(cell, tp, s, n) ==
  Display(Paint(cell, tp, s, n), tp + (n - 1) \div Cols,
          Least(((n - 1) % Cols) + 1, Cols - 1), (n - 1) % Cols = Cols - 1)

LEMMA WriteBytes ==
  ASSUME NEW t \in Terms, t.col = 0, ~t.wrap, NEW s \in Seq(Glyphs), Len(s) > 0,
         t.row + (Len(s) - 1) \div Cols < Rows
  PROVE  Write(t, Puts(s)) = After(t.cell, t.row, s, Len(s))
<1> DEFINE N == Len(s)
           tp == t.row
           cell == t.cell
<1>1. /\ N \in Nat /\ Len(Puts(s)) = N /\ Puts(s) \in Seq(Ops) /\ tp \in Nat /\ cell \in Sheets
      /\ \A i \in 1 .. N : Puts(s)[i] = Put(s[i]) /\ s[i] \in Glyphs
  BY PutsType, LenProperties, ElementOfSeq, TermIs
<1>2. PICK f : Goes(t, Puts(s), f) /\ Write(t, Puts(s)) = f[N]
  BY <1>1, WriteFcn
<1>3. f[0] = t /\ \A n \in 1 .. N : f[n] = Apply(f[n - 1], Put(s[n]))
  BY <1>1, <1>2 DEF Goes
<1> DEFINE T == {n \in 0 .. N : n > 0 => f[n] = After(cell, tp, s, n)}
<1>4. 0 \in T
  BY <1>1
<1>5. ASSUME NEW n \in 0 .. N, n \in T, n # N PROVE n + 1 \in T
  <2> DEFINE r == tp + n \div Cols
             c == n % Cols
  <2>1. n \in Nat /\ n \in 0 .. N - 1 /\ n + 1 \in 1 .. N /\ (n + 1) - 1 = n /\ n + 1 > 0 /\ n + 1 \in 0 .. N
    BY <1>1, <1>5
  <2>2. f[n + 1] = Apply(f[n], Put(s[n + 1]))
    BY <1>3, <2>1
  <2>3. r \in Nat /\ c \in 0 .. Cols - 1 /\ r < Rows
    <3>1. n <= N - 1 /\ N - 1 \in Nat
      BY <1>1, <2>1
    <3>2. n \div Cols <= (N - 1) \div Cols /\ n \div Cols \in Nat /\ (N - 1) \div Cols \in Nat
      BY <2>1, <3>1, DivMonotone, DivMod
    <3>3. c \in 0 .. Cols - 1
      BY <2>1, DivMod
    <3>4. tp + (N - 1) \div Cols < Rows
      OBVIOUS
    <3> HIDE DEF N, tp
    <3> QED BY <1>1, <3>2, <3>3, <3>4, Widths
  <2>4. /\ r = IF f[n].wrap THEN f[n].row + 1 ELSE f[n].row
        /\ c = IF f[n].wrap THEN 0 ELSE f[n].col
        /\ f[n].cell = Paint(cell, tp, s, n)
    <3>1. CASE n = 0
      <4>1. 0 \div Cols = 0 /\ 0 % Cols = 0
        BY DivSmall, Widths
      <4> QED BY <1>1, <1>3, <3>1, <4>1, PaintNothing
    <3>2. CASE n # 0
      <4> DEFINE i == n - 1
      <4>1. i \in Nat /\ i + 1 = n /\ f[n] = After(cell, tp, s, n)
        BY <1>5, <2>1, <3>2
      <4>2. /\ f[n].cell = Paint(cell, tp, s, n) /\ f[n].row = tp + i \div Cols
            /\ f[n].col = Least((i % Cols) + 1, Cols - 1) /\ f[n].wrap = (i % Cols = Cols - 1)
        BY <4>1, DisplayIs DEF After
      <4> HIDE DEF i
      <4>3. IF i % Cols = Cols - 1 THEN n \div Cols = i \div Cols + 1 /\ n % Cols = 0
            ELSE n \div Cols = i \div Cols /\ n % Cols = (i % Cols) + 1
        BY <4>1, DivModNext
      <4>4. i \div Cols \in Nat /\ i % Cols \in 0 .. Cols - 1
        BY <4>1, DivMod
      <4>5. CASE i % Cols = Cols - 1
        <5>1. f[n].wrap
          BY <4>2, <4>5
        <5>2. f[n].row + 1 = r /\ c = 0
          BY <1>1, <4>2, <4>3, <4>4, <4>5
        <5> QED BY <4>2, <5>1, <5>2
      <4>6. CASE i % Cols # Cols - 1
        <5>1. Least((i % Cols) + 1, Cols - 1) = (i % Cols) + 1
          BY <4>4, <4>6, Widths DEF Least
        <5> QED BY <1>1, <4>2, <4>3, <4>4, <4>6, <5>1
      <4> QED BY <4>5, <4>6
    <3> QED BY <3>1, <3>2
  <2>5. f[n + 1] = Display(PutCell(Paint(cell, tp, s, n), r, c, s[n + 1]), r, Least(c + 1, Cols - 1), c = Cols - 1)
    <3> HIDE DEF r, c
    <3> QED BY <2>2, <2>4, ApplyPut
  <2>6. PutCell(Paint(cell, tp, s, n), r, c, s[n + 1]) = Paint(cell, tp, s, n + 1)
    <3>1. r \in 0 .. Rows - 1 /\ r >= tp /\ Idx(tp, r, c) = n
      <4>1. r >= tp /\ Idx(tp, r, c) = n
        BY <1>1, <2>1, IdxOf
      <4> HIDE DEF r
      <4> QED BY <2>3, <4>1, Widths
    <3> HIDE DEF r, c, cell, tp
    <3> QED BY <1>1, <2>1, <2>3, <3>1, PaintNext
  <2>7. f[n + 1] = After(cell, tp, s, n + 1)
    BY <2>1, <2>5, <2>6 DEF After
  <2> QED BY <2>1, <2>7
<1>6. 0 .. N \subseteq T
  <2> HIDE DEF T, N
  <2> QED BY <1>1, <1>4, <1>5, BoundedInduction
<1> QED BY <1>1, <1>2, <1>6

-----------------------------------------------------------------------------
(* Rows erased from the bottom up.                                          *)

LEMMA OpsAre ==
  /\ CR \in Ops /\ LF \in Ops /\ EraseRight \in Ops /\ ClearAll \in Ops
  /\ \A n \in Nat : Up(n) \in Ops /\ Down(n) \in Ops /\ Right(n) \in Ops
  /\ \A b \in Glyphs : Put(b) \in Ops
BY DEF Ops

LEMMA BlankRowIs == BlankRow \in [0 .. Cols - 1 -> Glyphs] /\ \A c \in 0 .. Cols - 1 : BlankRow[c] = BlankCell
BY GlyphsAssumption DEF BlankRow

LEMMA ErasedRow ==
  ASSUME NEW cell \in Sheets, NEW r \in Nat
  PROVE  /\ Erased(cell, r, 0) \in Sheets
         /\ \A q \in 0 .. Rows - 1 : Erased(cell, r, 0)[q] = IF q = r THEN BlankRow ELSE cell[q]
<1> DEFINE e == Erased(cell, r, 0)
<1>1. /\ e \in Sheets
      /\ \A q \in 0 .. Rows - 1, d \in 0 .. Cols - 1 : e[q][d] = IF q = r /\ d >= 0 THEN BlankCell ELSE cell[q][d]
  BY ErasedIs, ZeroIs
<1> HIDE DEF e
<1>2. ASSUME NEW q \in 0 .. Rows - 1 PROVE e[q] = IF q = r THEN BlankRow ELSE cell[q]
  <2>1. e[q] \in [0 .. Cols - 1 -> Glyphs] /\ cell[q] \in [0 .. Cols - 1 -> Glyphs]
    BY <1>1 DEF Sheets
  <2>2. e[q] = [d \in 0 .. Cols - 1 |-> e[q][d]] /\ cell[q] = [d \in 0 .. Cols - 1 |-> cell[q][d]]
        /\ BlankRow = [d \in 0 .. Cols - 1 |-> BlankRow[d]]
    BY <2>1, BlankRowIs
  <2>3. ASSUME NEW d \in 0 .. Cols - 1 PROVE e[q][d] = IF q = r THEN BlankRow[d] ELSE cell[q][d]
    <3>1. d >= 0
      BY Widths
    <3> QED BY <1>1, <3>1, BlankRowIs
  <2> QED BY <2>2, <2>3
<1> QED BY <1>1, <1>2 DEF e

LEMMA EraseRow ==
  ASSUME NEW t \in Terms
  PROVE  Write(t, <<CR, EraseRight>>) = Still(Erased(t.cell, t.row, 0), t.row, 0)
<1>1. <<CR>> \in Seq(Ops) /\ <<EraseRight>> \in Seq(Ops) /\ <<CR, EraseRight>> = <<CR>> \o <<EraseRight>>
  BY OpsAre
<1> DEFINE u == Still(t.cell, t.row, 0)
<1>2. Write(t, <<CR>>) = u /\ u \in Terms
  BY WriteOne, OpsAre, ApplyCR, StillType, TermIs, ZeroIs
<1>3. u.cell = t.cell /\ u.row = t.row /\ u.col = 0
  BY StillIs
<1> HIDE DEF u
<1>4. Write(u, <<EraseRight>>) = Still(Erased(t.cell, t.row, 0), t.row, 0)
  BY <1>2, <1>3, WriteOne, OpsAre, ApplyErase
<1>5. Write(t, <<CR>> \o <<EraseRight>>) = Write(Write(t, <<CR>>), <<EraseRight>>)
  BY <1>1, WriteTwo
<1>6. Write(t, <<CR>> \o <<EraseRight>>) = Write(t, <<CR, EraseRight>>)
  BY <1>1
<1> QED BY <1>2, <1>4, <1>5, <1>6

(* n times "\r", erase, one row up. *)
Ups(n, f) == /\ f \in [0 .. n -> Seq(Ops)] /\ f[0] = <<>>
             /\ \A k \in 1 .. n : f[k] = f[k - 1] \o <<CR, EraseRight, Up(1)>>

LEMMA ClearUpFcn ==
  ASSUME NEW N \in Nat
  PROVE  \E f : Ups(N, f) /\ ClearUp(N) = f[N]
<1> DEFINE V == Seq(Ops)
           x == <<CR, EraseRight, Up(1)>>
           z == <<>>
           E(g) == g = [n \in 0 .. N |-> IF n = 0 THEN z ELSE g[n - 1] \o x]
           f == CHOOSE g : E(g)
           st == [u \in V |-> [n \in 1 .. N |-> u \o x]]
<1>1. z \in V /\ x \in V
  BY OpsAre
<1>2. ClearUp(N) = f[N]
  BY DEF ClearUp
<1>3. \A u \in V : u \o x \in V
  <2> HIDE DEF x
  <2> QED BY <1>1, ConcatProperties
<1> HIDE DEF V, x, z
<1>4. st \in [V -> [1 .. N -> V]]
  BY <1>3
<1>5. Recurses(N, V, z, st)
  <2> HIDE DEF st
  <2> QED BY <1>1, <1>4, RecFcn
<1>6. PICK w \in [0 .. N -> V] : w[0] = z /\ \A n \in 1 .. N : w[n] = st[w[n - 1]][n]
  <2> HIDE DEF st
  <2> QED BY <1>5 DEF Recurses
<1>7. \A n \in 1 .. N : w[n] = w[n - 1] \o x
  <2> SUFFICES ASSUME NEW n \in 1 .. N PROVE w[n] = w[n - 1] \o x
    OBVIOUS
  <2>1. n - 1 \in 0 .. N
    OBVIOUS
  <2>2. w[n - 1] \in V /\ w[n] = st[w[n - 1]][n]
    <3> HIDE DEF st
    <3> QED BY <1>6, <2>1
  <2> QED BY <2>1, <2>2
<1> HIDE DEF st
<1>8. E(w)
  <2>1. w = [n \in 0 .. N |-> w[n]]
    OBVIOUS
  <2>2. ASSUME NEW n \in 0 .. N PROVE w[n] = IF n = 0 THEN z ELSE w[n - 1] \o x
    <3>1. n # 0 => n \in 1 .. N
      OBVIOUS
    <3> QED BY <1>6, <1>7, <3>1
  <2> QED BY <2>1, <2>2
<1>9. E(f)
  BY <1>8
<1> HIDE DEF f
<1>10. ASSUME NEW n \in 0 .. N PROVE f[n] = IF n = 0 THEN z ELSE f[n - 1] \o x
  BY <1>9
<1>11. 0 \in 0 .. N /\ \A n \in 1 .. N : n \in 0 .. N /\ n # 0
  OBVIOUS
<1> HIDE DEF E
<1>12. f[0] = z /\ \A n \in 1 .. N : f[n] = f[n - 1] \o x
  BY <1>10, <1>11
<1> DEFINE T == {n \in 0 .. N : f[n] \in V}
<1>13. 0 .. N \subseteq T
  <2>1. 0 \in T
    BY <1>1, <1>11, <1>12
  <2>2. ASSUME NEW n \in 0 .. N, n \in T, n # N PROVE n + 1 \in T
    <3>1. n + 1 \in 1 .. N /\ n + 1 \in 0 .. N /\ (n + 1) - 1 = n /\ f[n] \in V
      BY <2>2
    <3>2. f[n + 1] \in V
      <4> HIDE DEF T
      <4> QED BY <1>3, <1>12, <3>1
    <3> QED BY <3>1, <3>2
  <2> HIDE DEF T
  <2> QED BY <2>1, <2>2, BoundedInduction
<1>14. f \in [0 .. N -> V]
  <2>1. \A n \in 0 .. N : f[n] \in V
    BY <1>13
  <2> QED BY <1>9, <2>1 DEF E
<1> QED
  BY <1>2, <1>12, <1>14 DEF Ups, V, x, z

(* u shows what t did, but for blank rows between its cursor and t's. *)
Cleared(t, u, k) ==
  /\ u \in Terms /\ u.row = Most(t.row - k, 0)
  /\ \A q \in 0 .. Rows - 1 : /\ q < u.row \/ q > t.row => u.cell[q] = t.cell[q]
                              /\ q > u.row /\ q <= t.row => u.cell[q] = BlankRow

LEMMA WriteUps ==
  ASSUME NEW t \in Terms, NEW N \in Nat
  PROVE  ClearUp(N) \in Seq(Ops) /\ Cleared(t, Write(t, ClearUp(N)), N)
<1>1. PICK f : Ups(N, f) /\ ClearUp(N) = f[N]
  BY ClearUpFcn
<1> DEFINE x == <<CR, EraseRight, Up(1)>>
           T == {k \in 0 .. N : Cleared(t, Write(t, f[k]), k)}
<1>2. f \in [0 .. N -> Seq(Ops)] /\ f[0] = <<>> /\ \A k \in 1 .. N : f[k] = f[k - 1] \o x
  BY <1>1 DEF Ups
<1>3. t.row \in Nat /\ t.cell \in Sheets
  BY TermIs
<1>4. 0 \in T
  <2>1. Write(t, f[0]) = t
    BY <1>2, WriteNothing
  <2>2. Most(t.row - 0, 0) = t.row
    BY <1>3 DEF Most
  <2>3. Cleared(t, t, 0)
    BY <1>3, <2>2, Widths DEF Cleared
  <2> QED BY <2>1, <2>3
<1>5. ASSUME NEW k \in 0 .. N, k \in T, k # N PROVE k + 1 \in T
  <2> DEFINE u == Write(t, f[k])
             v == Still(Erased(u.cell, u.row, 0), u.row, 0)
             w == Still(Erased(u.cell, u.row, 0), Most(u.row - 1, 0), 0)
  <2>1. k + 1 \in 1 .. N /\ k + 1 \in 0 .. N /\ (k + 1) - 1 = k /\ k \in Nat
    BY <1>5
  <2>2. f[k] \in Seq(Ops) /\ f[k + 1] = f[k] \o x
    BY <1>2, <2>1
  <2>3. Cleared(t, u, k)
    BY <1>5
  <2> HIDE DEF u
  <2>4. u \in Terms /\ u.row \in Nat /\ u.cell \in Sheets
    BY <2>3, TermIs DEF Cleared
  <2>5. x \in Seq(Ops) /\ x = <<CR, EraseRight>> \o <<Up(1)>> /\ <<CR, EraseRight>> \in Seq(Ops)
        /\ <<Up(1)>> \in Seq(Ops)
    BY OpsAre
  <2>6. /\ Erased(u.cell, u.row, 0) \in Sheets
        /\ \A q \in 0 .. Rows - 1 : Erased(u.cell, u.row, 0)[q] = IF q = u.row THEN BlankRow ELSE u.cell[q]
    BY <2>4, ErasedRow
  <2>7. Write(u, <<CR, EraseRight>>) = v /\ v \in Terms
    BY <2>4, <2>6, EraseRow, StillType, ZeroIs
  <2>8. v.cell = Erased(u.cell, u.row, 0) /\ v.row = u.row /\ v.col = 0
    BY StillIs
  <2>9. Write(v, <<Up(1)>>) = w
    <3> HIDE DEF v
    <3>1. Write(v, <<Up(1)>>) = Apply(v, Up(1))
      BY <2>7, WriteOne, OpsAre
    <3>2. 1 \in Nat /\ 1 > 0
      OBVIOUS
    <3>3. Apply(v, Up(1)) = Still(v.cell, Most(v.row - 1, 0), v.col)
      BY <3>2, ApplyUp
    <3> QED BY <2>8, <3>1, <3>3
  <2>10. Write(t, f[k + 1]) = w
    <3> HIDE DEF v, w, x
    <3>1. Write(t, f[k] \o x) = Write(u, x)
      BY <2>2, <2>5, WriteTwo DEF u
    <3>2. Write(u, x) = Write(v, <<Up(1)>>)
      BY <2>4, <2>5, <2>7, WriteTwo
    <3> QED BY <2>2, <2>9, <3>1, <3>2
  <2>11. Most(u.row - 1, 0) \in Nat
    BY <2>4 DEF Most
  <2>12. w \in Terms /\ w.cell = Erased(u.cell, u.row, 0) /\ w.row = Most(u.row - 1, 0)
    BY <2>6, <2>11, StillType, StillIs, ZeroIs
  <2>13. w.row = Most(t.row - (k + 1), 0) /\ w.row <= u.row /\ (w.row < u.row => w.row + 1 = u.row)
    <3>1. u.row = Most(t.row - k, 0)
      BY <2>3 DEF Cleared
    <3>2. CASE t.row > k
      BY <1>3, <2>1, <2>12, <3>1, <3>2 DEF Most
    <3>3. CASE ~(t.row > k)
      BY <1>3, <2>1, <2>12, <3>1, <3>3 DEF Most
    <3> QED BY <3>2, <3>3
  <2> HIDE DEF w
  <2>14. ASSUME NEW q \in 0 .. Rows - 1
         PROVE  /\ q < w.row \/ q > t.row => w.cell[q] = t.cell[q]
                /\ q > w.row /\ q <= t.row => w.cell[q] = BlankRow
    <3>1. w.cell[q] = IF q = u.row THEN BlankRow ELSE u.cell[q]
      BY <2>6, <2>12
    <3>2. /\ q < u.row \/ q > t.row => u.cell[q] = t.cell[q]
          /\ q > u.row /\ q <= t.row => u.cell[q] = BlankRow
      BY <2>3 DEF Cleared
    <3>3. w.row \in Nat /\ q \in Nat /\ u.row <= t.row
      BY <1>3, <2>1, <2>3, <2>11, <2>12, Widths DEF Cleared, Most
    <3> QED BY <1>3, <2>4, <2>13, <3>1, <3>2, <3>3
  <2>15. Cleared(t, w, k + 1)
    BY <2>12, <2>13, <2>14 DEF Cleared
  <2> QED BY <2>1, <2>10, <2>15
<1>6. 0 .. N \subseteq T
  <2> HIDE DEF T
  <2> QED BY <1>4, <1>5, BoundedInduction
<1>7. N \in 0 .. N
  OBVIOUS
<1> QED BY <1>1, <1>2, <1>6, <1>7

-----------------------------------------------------------------------------
(* The rows of the old line are cleared: the cursor goes down to the last of *)
(* them, and up again row by row.                                           *)

LEMMA WhenIs ==
  ASSUME NEW b \in BOOLEAN, NEW ops \in Seq(Ops)
  PROVE  When(b, ops) \in Seq(Ops) /\ (b => When(b, ops) = ops) /\ (~b => When(b, ops) = <<>>)
BY EmptySeq DEF When

LEMMA WriteWhen ==
  ASSUME NEW t \in Terms, NEW b \in BOOLEAN, NEW ops \in Seq(Ops)
  PROVE  (b => Write(t, When(b, ops)) = Write(t, ops)) /\ (~b => Write(t, When(b, ops)) = t)
BY WhenIs, WriteNothing

(* Row q is blank from row a to row b, and the other rows are as in cell. *)
Wiped(old, cell, a, b) ==
  /\ cell \in Sheets
  /\ \A q \in 0 .. Rows - 1 : cell[q] = IF a <= q /\ q <= b THEN BlankRow ELSE old[q]

Lowest(row, below) == IF below > 0 THEN Least(row + below, Rows - 1) ELSE row

CleanUp(below, n) == When(below > 0, <<Down(below)>>) \o ClearUp(n)

LEMMA WentDown ==
  ASSUME NEW t \in Terms, t.row < Rows, NEW below \in Int
  PROVE  /\ When(below > 0, <<Down(below)>>) \in Seq(Ops)
         /\ Lowest(t.row, below) \in 0 .. Rows - 1
         /\ Write(t, When(below > 0, <<Down(below)>>)).cell = t.cell
         /\ Write(t, When(below > 0, <<Down(below)>>)).row = Lowest(t.row, below)
<1>1. t.row \in Nat
  BY TermIs
<1>2. Lowest(t.row, below) \in 0 .. Rows - 1
  BY <1>1, Widths DEF Lowest, Least
<1>3. CASE below > 0
  <2>1. below \in Nat /\ Down(below) \in Ops /\ <<Down(below)>> \in Seq(Ops)
    BY <1>3, OpsAre
  <2>2. When(below > 0, <<Down(below)>>) = <<Down(below)>>
    BY <1>3 DEF When
  <2>3. Write(t, <<Down(below)>>) = Still(t.cell, Least(t.row + below, Rows - 1), t.col)
    BY <1>3, <2>1, WriteOne, ApplyDown
  <2>4. Lowest(t.row, below) = Least(t.row + below, Rows - 1)
    BY <1>3 DEF Lowest
  <2>5. /\ Write(t, <<Down(below)>>).cell = t.cell
        /\ Write(t, <<Down(below)>>).row = Least(t.row + below, Rows - 1)
    BY <2>3, StillIs
  <2> QED BY <1>2, <2>1, <2>2, <2>4, <2>5
<1>4. CASE ~(below > 0)
  <2>1. When(below > 0, <<Down(below)>>) = <<>>
    BY <1>4 DEF When
  <2> QED BY <1>2, <1>4, <2>1, WriteNothing, EmptySeq DEF Lowest
<1> QED BY <1>3, <1>4

LEMMA Cleaned ==
  ASSUME NEW t \in Terms, t.row < Rows, NEW below \in Int, NEW n \in Nat
  PROVE  LET r == Lowest(t.row, below)
             a == Most(r - n, 0)
         IN  /\ CleanUp(below, n) \o <<CR, EraseRight>> \in Seq(Ops)
             /\ \E cell : /\ Wiped(t.cell, cell, a, r)
                          /\ Write(t, CleanUp(below, n) \o <<CR, EraseRight>>) = Still(cell, a, 0)
<1> DEFINE r == Lowest(t.row, below)
           a == Most(r - n, 0)
           d == When(below > 0, <<Down(below)>>)
           e == <<CR, EraseRight>>
           u == Write(t, d)
           v == Write(u, ClearUp(n))
           w == Erased(v.cell, v.row, 0)
<1>1. d \in Seq(Ops) /\ r \in 0 .. Rows - 1 /\ u.cell = t.cell /\ u.row = r
  BY WentDown
<1>2. r \in Nat /\ a \in Nat /\ a <= r
  BY <1>1, Widths DEF Most
<1>3. u \in Terms
  BY <1>1, WriteType
<1> HIDE DEF d, u
<1>4. ClearUp(n) \in Seq(Ops) /\ Cleared(u, v, n)
  BY <1>3, WriteUps
<1>5. e \in Seq(Ops)
  BY OpsAre
<1>6. CleanUp(below, n) = d \o ClearUp(n) /\ d \o ClearUp(n) \in Seq(Ops) /\ (d \o ClearUp(n)) \o e \in Seq(Ops)
  BY <1>1, <1>4, <1>5, ConcatProperties DEF CleanUp, d
<1>7. v \in Terms /\ v.row = a /\ v.cell \in Sheets
  BY <1>1, <1>4, TermIs DEF Cleared
<1>8. Write(t, d \o ClearUp(n)) = v
  BY <1>1, <1>4, WriteTwo DEF u
<1>9. Write(t, (d \o ClearUp(n)) \o e) = Write(v, e)
  <2> DEFINE z == d \o ClearUp(n)
  <2>1. z \in Seq(Ops) /\ Write(t, z) = v
    BY <1>6, <1>8
  <2> HIDE DEF z, v, e
  <2>2. Write(t, z \o e) = Write(v, e)
    BY <1>5, <2>1, WriteTwo
  <2> QED BY <2>2 DEF z
<1> HIDE DEF v
<1>10. Write(v, e) = Still(w, a, 0)
  BY <1>7, EraseRow
<1>11. Wiped(t.cell, w, a, r)
  <2>1. w \in Sheets /\ \A q \in 0 .. Rows - 1 : w[q] = IF q = a THEN BlankRow ELSE v.cell[q]
    <3>1. v.cell \in Sheets /\ a \in Nat /\ w = Erased(v.cell, a, 0)
      BY <1>2, <1>7
    <3> HIDE DEF w, a, r
    <3> QED BY <3>1, ErasedRow
  <2> HIDE DEF w, a, r
  <2>2. \A q \in 0 .. Rows - 1 : /\ q < a \/ q > r => v.cell[q] = t.cell[q]
                                 /\ q > a /\ q <= r => v.cell[q] = BlankRow
    BY <1>1, <1>4, <1>7 DEF Cleared
  <2>3. ASSUME NEW q \in 0 .. Rows - 1 PROVE w[q] = IF a <= q /\ q <= r THEN BlankRow ELSE t.cell[q]
    <3>1. q \in Nat
      BY Widths
    <3> QED BY <1>2, <2>1, <2>2, <3>1
  <2> QED BY <2>1, <2>3 DEF Wiped
<1> HIDE DEF w
<1> QED BY <1>6, <1>9, <1>10, <1>11

(* From row tp on the sheet is blank. *)
BlankFrom(cell, tp) == \A q \in 0 .. Rows - 1 : q >= tp => cell[q] = BlankRow
SameAbove(old, cell, tp) == \A q \in 0 .. Rows - 1 : q < tp => cell[q] = old[q]

LEMMA WipedBlank ==
  ASSUME NEW old \in Sheets, NEW cell, NEW a \in Nat, NEW b \in Nat, Wiped(old, cell, a, b), BlankFrom(old, b + 1)
  PROVE  BlankFrom(cell, a) /\ SameAbove(old, cell, a)
<1>1. \A q \in 0 .. Rows - 1 : q \in Nat
  BY Widths
<1> QED BY <1>1 DEF Wiped, BlankFrom, SameAbove

-----------------------------------------------------------------------------
(* What the cells from row tp on show.                                      *)

Shows(cell, tp, s) ==
  \A q \in 0 .. Rows - 1, c \in 0 .. Cols - 1 :
    q >= tp => cell[q][c] = IF Idx(tp, q, c) < Len(s) THEN s[Idx(tp, q, c) + 1] ELSE BlankCell

LEMMA BlankCells ==
  ASSUME NEW cell \in Sheets, NEW tp \in Nat, BlankFrom(cell, tp)
  PROVE  \A q \in 0 .. Rows - 1, c \in 0 .. Cols - 1 : q >= tp => cell[q][c] = BlankCell
BY BlankRowIs DEF BlankFrom

LEMMA PaintShows ==
  ASSUME NEW cell \in Sheets, NEW tp \in Nat, NEW s \in Seq(Glyphs), BlankFrom(cell, tp)
  PROVE  /\ Paint(cell, tp, s, Len(s)) \in Sheets
         /\ Shows(Paint(cell, tp, s, Len(s)), tp, s)
         /\ SameAbove(cell, Paint(cell, tp, s, Len(s)), tp)
<1> DEFINE n == Len(s)
           p == Paint(cell, tp, s, n)
<1>1. n \in 0 .. Len(s)
  BY LenProperties
<1>2. /\ p \in Sheets
      /\ \A r \in 0 .. Rows - 1, c \in 0 .. Cols - 1 :
           p[r][c] = IF r >= tp /\ Idx(tp, r, c) < n THEN s[Idx(tp, r, c) + 1] ELSE cell[r][c]
  BY <1>1, PaintIs
<1> HIDE DEF p
<1>3. Shows(p, tp, s)
  BY <1>2, BlankCells DEF Shows
<1>4. SameAbove(cell, p, tp)
  <2> SUFFICES ASSUME NEW q \in 0 .. Rows - 1, q < tp PROVE p[q] = cell[q]
    BY DEF SameAbove
  <2>1. q \in Nat /\ ~(q >= tp)
    BY Widths
  <2>2. \A c \in 0 .. Cols - 1 : p[q][c] = cell[q][c]
    BY <1>2, <2>1
  <2> QED BY <1>2, <2>2, RowIs
<1> QED BY <1>2, <1>3, <1>4 DEF p

(* Nothing is a picture of nothing. *)
LEMMA ShowsNothing ==
  ASSUME NEW cell \in Sheets, NEW tp \in Nat, BlankFrom(cell, tp)
  PROVE  Shows(cell, tp, <<>>)
<1>1. ASSUME NEW q \in 0 .. Rows - 1, NEW c \in 0 .. Cols - 1, q >= tp
      PROVE  cell[q][c] = BlankCell /\ ~(Idx(tp, q, c) < Len(<<>>))
  <2>1. q \in Nat
    BY Widths
  <2>2. Idx(tp, q, c) \in Nat /\ Len(<<>>) = 0
    BY <1>1, <2>1, IdxIs, EmptySeq
  <2> QED BY <1>1, <2>2, BlankCells
<1> QED BY <1>1 DEF Shows

(* The rows below the last byte are blank. *)
LEMMA ShowsBelow ==
  ASSUME NEW cell \in Sheets, NEW tp \in Nat, NEW s \in Seq(Glyphs), Shows(cell, tp, s),
         NEW r \in Nat, r >= tp, Len(s) = 0 \/ (Len(s) - 1) \div Cols <= r - tp
  PROVE  BlankFrom(cell, r + 1)
<1> SUFFICES ASSUME NEW q \in 0 .. Rows - 1, q >= r + 1 PROVE cell[q] = BlankRow
  BY DEF BlankFrom
<1>1. q \in Nat /\ q >= tp /\ q - tp > r - tp /\ q - tp \in Nat /\ r - tp \in Nat
  BY Widths
<1>2. ASSUME NEW c \in 0 .. Cols - 1 PROVE cell[q][c] = BlankCell
  <2> DEFINE i == Idx(tp, q, c)
  <2>1. i \in Nat /\ i \div Cols = q - tp
    BY <1>1, IdxIs
  <2>2. cell[q][c] = IF i < Len(s) THEN s[i + 1] ELSE BlankCell
    BY <1>1 DEF Shows
  <2> HIDE DEF i
  <2>3. ASSUME i < Len(s) PROVE FALSE
    <3>1. Len(s) - 1 \in Nat /\ i <= Len(s) - 1 /\ Len(s) # 0
      BY <2>1, <2>3, LenProperties
    <3>2. i \div Cols <= (Len(s) - 1) \div Cols /\ (Len(s) - 1) \div Cols \in Nat
      BY <2>1, <3>1, DivMonotone, DivMod
    <3>3. (Len(s) - 1) \div Cols <= r - tp
      BY <3>1
    <3> QED BY <1>1, <2>1, <3>2, <3>3
  <2> QED BY <2>2, <2>3
<1>3. cell[q] = [c \in 0 .. Cols - 1 |-> cell[q][c]]
  BY DEF Sheets
<1> QED BY <1>2, <1>3 DEF BlankRow

(* The property of the model says the same of the cells counted through. *)
LEMMA ShowsIsWhole ==
  ASSUME NEW s, top \in Nat, top <= Rows, Shows(screen.term.cell, top, s)
  PROVE  ShowsWhole(s)
<1> SUFFICES ASSUME NEW i \in 0 .. (Rows - top) * Cols - 1
             PROVE  Cell(i) = IF i < Len(s) THEN s[i + 1] ELSE BlankCell
  BY DEF ShowsWhole
<1> DEFINE q == top + i \div Cols
           c == i % Cols
<1>1. i \in Nat
  BY Widths
<1>2. q \in Nat /\ q >= top /\ c \in 0 .. Cols - 1 /\ Idx(top, q, c) = i
  BY <1>1, IdxOf
<1>3. q \in 0 .. Rows - 1
  <2> DEFINE k == i \div Cols
             h == Rows - top
  <2>1. k \in Nat /\ i = k * Cols + c /\ c \in Nat
    BY <1>1, DivMod
  <2>2. h \in Nat /\ i < h * Cols
    BY Widths
  <2>3. q = top + k /\ Rows = top + h
    BY Widths
  <2> HIDE DEF k, h, c, q
  <2>4. k < h
    <3> SUFFICES ASSUME k >= h PROVE FALSE
      BY <2>1, <2>2
    <3>1. k * Cols >= h * Cols
      BY <2>1, <2>2, Widths
    <3>2. k * Cols \in Nat /\ h * Cols \in Nat
      BY <2>1, <2>2, Widths
    <3> DEFINE x == k * Cols
               y == h * Cols
    <3>3. x >= y /\ x \in Nat /\ y \in Nat /\ i = x + c /\ i < y
      BY <2>1, <2>2, <3>1, <3>2
    <3> HIDE DEF x, y
    <3> QED BY <2>1, <3>3
  <2> QED BY <2>1, <2>2, <2>3, <2>4, Widths
<1>4. Cell(i) = screen.term.cell[q][c]
  BY DEF Cell
<1> HIDE DEF q, c
<1>5. screen.term.cell[q][c] = IF Idx(top, q, c) < Len(s) THEN s[Idx(top, q, c) + 1] ELSE BlankCell
  BY <1>2, <1>3 DEF Shows
<1> QED BY <1>2, <1>4, <1>5

-----------------------------------------------------------------------------
(* What is written for the line t with the cursor after p bytes and hint h, *)
(* and what is to be seen of it.                                            *)

MaskOf(m, s) == IF m.mask THEN [i \in DOMAIN s |-> "*"] ELSE s

Whole(m, t, h) == Prompt \o MaskOf(m, t) \o refreshShowHints(t, h)
Written(m, t, p, h) == Prompt \o MaskOf(m, Window(t, p)) \o refreshShowHints(t, h)
Uncut(m, t, p, h) == Prompt \o MaskOf(m, SubSeq(t, Scrolled(p) + 1, Len(t))) \o refreshShowHints(t, h)

Shown(m, t, p, h) ==
  IF m.multi THEN Whole(m, t, h)
  ELSE LET f == Uncut(m, t, p, h) IN SubSeq(f, 1, IF Len(f) >= Cols THEN Cols - 1 ELSE Len(f))

LEMMA PromptIs == Prompt \in Seq(Glyphs) /\ Len(Prompt) = PLen
BY GlyphsAssumption DEF PLen

LEMMA MaskIs ==
  ASSUME NEW m \in Modes, NEW s \in Seq(Glyphs)
  PROVE  /\ MaskOf(m, s) \in Seq(Glyphs) /\ Len(MaskOf(m, s)) = Len(s)
         /\ \A i \in 1 .. Len(s) : MaskOf(m, s)[i] = IF m.mask THEN "*" ELSE s[i]
<1>1. DOMAIN s = 1 .. Len(s) /\ Len(s) \in Nat /\ "*" \in Glyphs
  BY LenProperties, GlyphsAssumption
<1>2. CASE m.mask
  <2>1. MaskOf(m, s) = [i \in 1 .. Len(s) |-> "*"]
    BY <1>1, <1>2 DEF MaskOf
  <2> QED BY <1>1, <1>2, <2>1
<1>3. CASE ~m.mask
  BY <1>3 DEF MaskOf
<1> QED BY <1>2, <1>3

LEMMA HintsAre ==
  ASSUME NEW t \in Seq(Glyphs), NEW h \in Seq(Glyphs)
  PROVE  /\ refreshShowHints(t, h) \in Seq(Glyphs) /\ Len(refreshShowHints(t, h)) \in Nat
         /\ PLen + Len(t) >= Cols => refreshShowHints(t, h) = <<>> /\ Len(refreshShowHints(t, h)) = 0
         /\ PLen + Len(t) < Cols => PLen + Len(t) + Len(refreshShowHints(t, h)) <= Cols
         /\ h = <<>> => refreshShowHints(t, h) = <<>> /\ Len(refreshShowHints(t, h)) = 0
<1>1. Len(t) \in Nat /\ Len(h) \in Nat /\ \A i \in 1 .. Len(h) : h[i] \in Glyphs
  BY LenProperties, ElementOfSeq
<1>2. <<>> \in Seq(Glyphs) /\ Len(<<>>) = 0
  BY EmptySeq
<1>3. CASE PLen + Len(t) < Cols
  <2> DEFINE k == Least(Len(h), Cols - (PLen + Len(t)))
  <2>1. refreshShowHints(t, h) = SubSeq(h, 1, k)
    BY <1>3 DEF refreshShowHints
  <2>2. k \in Nat /\ k <= Len(h) /\ k <= Cols - (PLen + Len(t))
    BY <1>1, <1>3, Widths DEF Least
  <2> HIDE DEF k
  <2>3. \A i \in 1 .. k : h[i] \in Glyphs
    BY <1>1, <2>2
  <2>4. 1 \in Int /\ k \in Int
    BY <2>2
  <2>5. SubSeq(h, 1, k) \in Seq(Glyphs) /\ Len(SubSeq(h, 1, k)) = IF 1 <= k THEN k - 1 + 1 ELSE 0
    BY <2>3, <2>4, SubSeqProperties
  <2>6. Len(SubSeq(h, 1, k)) = k
    BY <2>2, <2>5
  <2>7. h = <<>> => k = 0
    BY <1>1, <1>2, <2>2
  <2>8. h = <<>> => SubSeq(h, 1, k) = <<>>
    BY <2>2, <2>4, <2>7, SubSeqEmpty
  <2>9. PLen + Len(t) + k <= Cols
    BY <1>1, <2>2, Widths
  <2>10. ~(PLen + Len(t) >= Cols)
    BY <1>1, <1>3, Widths
  <2> QED BY <1>2, <2>1, <2>2, <2>5, <2>6, <2>8, <2>9, <2>10
<1>4. CASE ~(PLen + Len(t) < Cols)
  <2>1. refreshShowHints(t, h) = <<>>
    BY <1>4 DEF refreshShowHints
  <2> QED BY <1>2, <1>4, <2>1
<1> QED BY <1>3, <1>4

(* Three pieces in a row. *)
LEMMA ThreeIs ==
  ASSUME NEW a \in Seq(Glyphs), NEW b \in Seq(Glyphs), NEW c \in Seq(Glyphs)
  PROVE  /\ a \o b \o c \in Seq(Glyphs)
         /\ Len(a) \in Nat /\ Len(b) \in Nat /\ Len(c) \in Nat
         /\ Len(a \o b \o c) = Len(a) + Len(b) + Len(c)
         /\ \A i \in 1 .. Len(a) + Len(b) : (a \o b \o c)[i] = IF i <= Len(a) THEN a[i] ELSE b[i - Len(a)]
<1> DEFINE d == a \o b
<1>1. /\ d \in Seq(Glyphs) /\ Len(d) = Len(a) + Len(b) /\ Len(a) \in Nat /\ Len(b) \in Nat /\ Len(c) \in Nat
      /\ \A i \in 1 .. Len(a) + Len(b) : d[i] = IF i <= Len(a) THEN a[i] ELSE b[i - Len(a)]
  BY ConcatProperties, LenProperties
<1> HIDE DEF d
<1>a. d \in Seq(Glyphs)
  BY <1>1
<1>2. /\ d \o c \in Seq(Glyphs) /\ Len(d \o c) = Len(d) + Len(c)
      /\ \A i \in 1 .. Len(d) + Len(c) : (d \o c)[i] = IF i <= Len(d) THEN d[i] ELSE c[i - Len(d)]
  BY <1>a, ConcatProperties
<1>3. \A i \in 1 .. Len(a) + Len(b) : (d \o c)[i] = d[i]
  BY <1>1, <1>2
<1> QED BY <1>1, <1>2, <1>3 DEF d

LEMMA WholeIs ==
  ASSUME NEW m \in Modes, NEW t \in Seq(Glyphs), NEW h \in Seq(Glyphs)
  PROVE  /\ Whole(m, t, h) \in Seq(Glyphs)
         /\ Len(Whole(m, t, h)) = PLen + Len(t) + Len(refreshShowHints(t, h))
BY PromptIs, MaskIs, HintsAre, ThreeIs DEF Whole

LEMMA ScrolledIs ==
  ASSUME NEW n \in Nat, NEW p \in 0 .. n
  PROVE  /\ Scrolled(p) \in 0 .. p /\ Scrolled(p) \in Nat
         /\ PLen + p < Cols => Scrolled(p) = 0 /\ p - Scrolled(p) + PLen = PLen + p
         /\ PLen + p >= Cols => p - Scrolled(p) + PLen = Cols - 1
         /\ Least(p - Scrolled(p) + PLen, Cols - 1) = Least(PLen + p, Cols - 1)
         /\ p - Scrolled(p) + PLen \in Nat /\ p - Scrolled(p) + PLen > 0
BY Widths DEF Scrolled, Most, Least

(* Part of a line. *)
LEMMA PartIs ==
  ASSUME NEW t \in Seq(Glyphs), NEW a \in 0 .. Len(t), NEW b \in a .. Len(t)
  PROVE  /\ SubSeq(t, a + 1, b) \in Seq(Glyphs) /\ Len(SubSeq(t, a + 1, b)) = b - a
         /\ \A i \in 1 .. b - a : SubSeq(t, a + 1, b)[i] = t[a + i]
<1>1. Len(t) \in Nat /\ \A i \in 1 .. Len(t) : t[i] \in Glyphs
  BY LenProperties, ElementOfSeq
<1>2. a + 1 \in Int /\ b \in Int /\ \A i \in a + 1 .. b : t[i] \in Glyphs
  BY <1>1
<1> DEFINE k == a + 1
<1> HIDE DEF k
<1>3. k \in Int /\ \A i \in k .. b : t[i] \in Glyphs
  BY <1>2 DEF k
<1>4. /\ SubSeq(t, k, b) \in Seq(Glyphs) /\ Len(SubSeq(t, k, b)) = IF k <= b THEN b - k + 1 ELSE 0
      /\ \A i \in 1 .. b - k + 1 : SubSeq(t, k, b)[i] = t[k + i - 1]
  BY <1>2, <1>3, SubSeqProperties
<1>5. Len(SubSeq(t, k, b)) = b - a
  BY <1>1, <1>2, <1>4 DEF k
<1>6. ASSUME NEW i \in 1 .. b - a PROVE SubSeq(t, k, b)[i] = t[a + i]
  <2>1. i \in 1 .. b - k + 1 /\ k + i - 1 = a + i
    BY <1>1 DEF k
  <2> QED BY <1>4, <2>1
<1> QED BY <1>4, <1>5, <1>6 DEF k

(* What is written in one row is what is to be seen, cut off at the margin. *)
LEMMA WrittenIs ==
  ASSUME NEW m \in Modes, NEW t \in Seq(Glyphs), NEW h \in Seq(Glyphs), NEW p \in 0 .. Len(t)
  PROVE  /\ Written(m, t, p, h) \in Seq(Glyphs) /\ Uncut(m, t, p, h) \in Seq(Glyphs)
         /\ Len(Written(m, t, p, h)) \in 1 .. Cols
         /\ Len(Written(m, t, p, h)) = Least(Len(Uncut(m, t, p, h)), Cols)
         /\ \A i \in 1 .. Len(Written(m, t, p, h)) : Written(m, t, p, h)[i] = Uncut(m, t, p, h)[i]
<1> DEFINE N == Len(t)
           a == Scrolled(p)
           b == Least(N, a + Cols - PLen)
           v == refreshShowHints(t, h)
           x == MaskOf(m, SubSeq(t, a + 1, b))
           y == MaskOf(m, SubSeq(t, a + 1, N))
<1>1. N \in Nat
  BY LenProperties
<1>2. a \in 0 .. p /\ a \in Nat /\ (PLen + p < Cols => a = 0) /\ a \in 0 .. N
  BY <1>1, ScrolledIs
<1>3. b \in a .. N /\ N \in a .. N /\ (N <= a + Cols - PLen => b = N) /\ (N > a + Cols - PLen => b = a + Cols - PLen)
  BY <1>1, <1>2, Widths DEF Least
<1>4. /\ v \in Seq(Glyphs) /\ Len(v) \in Nat /\ (PLen + N >= Cols => v = <<>> /\ Len(v) = 0)
      /\ PLen + N < Cols => PLen + N + Len(v) <= Cols
  BY HintsAre
<1>5. Written(m, t, p, h) = Prompt \o x \o v /\ Uncut(m, t, p, h) = Prompt \o y \o v
  BY DEF Written, Uncut, Window
<1> HIDE DEF a, b, v
<1>6. /\ SubSeq(t, a + 1, b) \in Seq(Glyphs) /\ Len(SubSeq(t, a + 1, b)) = b - a
      /\ \A i \in 1 .. b - a : SubSeq(t, a + 1, b)[i] = t[a + i]
  BY <1>2, <1>3, PartIs
<1>7. /\ SubSeq(t, a + 1, N) \in Seq(Glyphs) /\ Len(SubSeq(t, a + 1, N)) = N - a
      /\ \A i \in 1 .. N - a : SubSeq(t, a + 1, N)[i] = t[a + i]
  BY <1>2, <1>3, PartIs
<1>8. /\ x \in Seq(Glyphs) /\ Len(x) = b - a
      /\ \A i \in 1 .. b - a : x[i] = IF m.mask THEN "*" ELSE SubSeq(t, a + 1, b)[i]
  BY <1>6, MaskIs
<1>9. /\ y \in Seq(Glyphs) /\ Len(y) = N - a
      /\ \A i \in 1 .. N - a : y[i] = IF m.mask THEN "*" ELSE SubSeq(t, a + 1, N)[i]
  BY <1>7, MaskIs
<1>10. \A i \in 1 .. b - a : i \in 1 .. N - a
  BY <1>1, <1>2, <1>3
<1>11. \A i \in 1 .. b - a : x[i] = y[i]
  BY <1>6, <1>7, <1>8, <1>9, <1>10
<1> HIDE DEF x, y
<1>12. /\ Prompt \o x \o v \in Seq(Glyphs) /\ Len(Prompt \o x \o v) = PLen + (b - a) + Len(v)
       /\ \A i \in 1 .. PLen + (b - a) : (Prompt \o x \o v)[i] = IF i <= PLen THEN Prompt[i] ELSE x[i - PLen]
  <2>1. x \in Seq(Glyphs) /\ Len(x) = b - a /\ v \in Seq(Glyphs)
    BY <1>4, <1>8
  <2>2. /\ Prompt \o x \o v \in Seq(Glyphs) /\ Len(Prompt \o x \o v) = Len(Prompt) + Len(x) + Len(v)
        /\ \A i \in 1 .. Len(Prompt) + Len(x) :
             (Prompt \o x \o v)[i] = IF i <= Len(Prompt) THEN Prompt[i] ELSE x[i - Len(Prompt)]
    BY <2>1, PromptIs, ThreeIs
  <2> QED BY <2>1, <2>2, PromptIs
<1>13. /\ Prompt \o y \o v \in Seq(Glyphs) /\ Len(Prompt \o y \o v) = PLen + (N - a) + Len(v)
       /\ \A i \in 1 .. PLen + (N - a) : (Prompt \o y \o v)[i] = IF i <= PLen THEN Prompt[i] ELSE y[i - PLen]
  <2>1. y \in Seq(Glyphs) /\ Len(y) = N - a /\ v \in Seq(Glyphs)
    BY <1>4, <1>9
  <2>2. /\ Prompt \o y \o v \in Seq(Glyphs) /\ Len(Prompt \o y \o v) = Len(Prompt) + Len(y) + Len(v)
        /\ \A i \in 1 .. Len(Prompt) + Len(y) :
             (Prompt \o y \o v)[i] = IF i <= Len(Prompt) THEN Prompt[i] ELSE y[i - Len(Prompt)]
    BY <2>1, PromptIs, ThreeIs
  <2> QED BY <2>1, <2>2, PromptIs
<1> DEFINE w == Prompt \o x \o v
           f == Prompt \o y \o v
<1>14. CASE N <= a + Cols - PLen
  <2>1. w = f
    BY <1>3, <1>14 DEF x, y
  <2>2. Len(f) \in 1 .. Cols
    <3>1. CASE PLen + N < Cols
      <4>1. a = 0
        BY <1>1, <1>2, <3>1, Widths
      <4> QED BY <1>1, <1>4, <1>13, <3>1, <4>1, Widths
    <3>2. CASE PLen + N >= Cols
      BY <1>1, <1>2, <1>4, <1>13, <1>14, <3>2, Widths
    <3> QED BY <1>1, <3>1, <3>2, Widths
  <2>3. Least(Len(f), Cols) = Len(f)
    BY <2>2, Widths DEF Least
  <2> HIDE DEF w, f
  <2> QED BY <1>5, <1>12, <1>13, <2>1, <2>2, <2>3 DEF w, f
<1>15. CASE N > a + Cols - PLen
  <2>1. PLen + N >= Cols /\ Len(v) = 0 /\ b - a = Cols - PLen
    BY <1>1, <1>2, <1>3, <1>4, <1>15, Widths
  <2>2. Len(w) = Cols /\ Len(f) = PLen + (N - a) /\ Len(f) > Cols
    BY <1>1, <1>2, <1>12, <1>13, <1>15, <2>1, Widths
  <2>3. Least(Len(f), Cols) = Cols
    BY <1>1, <1>2, <2>2, Widths DEF Least
  <2>4. ASSUME NEW i \in 1 .. Len(w) PROVE w[i] = f[i]
    <3>1. i \in 1 .. PLen + (b - a) /\ i \in 1 .. PLen + (N - a)
      BY <1>1, <1>2, <2>1, <2>2, <2>4, Widths
    <3>2. ~(i <= PLen) => i - PLen \in 1 .. b - a
      BY <1>2, <1>3, <3>1, Widths
    <3>3. w[i] = IF i <= PLen THEN Prompt[i] ELSE x[i - PLen]
      BY <1>12, <3>1
    <3>4. f[i] = IF i <= PLen THEN Prompt[i] ELSE y[i - PLen]
      BY <1>13, <3>1
    <3> HIDE DEF w, f
    <3> QED BY <1>11, <3>2, <3>3, <3>4
  <2>5. Len(w) \in 1 .. Cols
    BY <2>2, Widths
  <2> HIDE DEF w, f
  <2> QED BY <1>5, <1>12, <1>13, <2>2, <2>3, <2>4, <2>5 DEF w, f
<1>16. N <= a + Cols - PLen \/ N > a + Cols - PLen
  BY <1>1, <1>2, Widths
<1> QED BY <1>14, <1>15, <1>16

LEMMA ShownIs ==
  ASSUME NEW m \in Modes, NEW t \in Seq(Glyphs), NEW h \in Seq(Glyphs), NEW p \in 0 .. Len(t), ~m.multi
  PROVE  LET s == Shown(m, t, p, h)
             w == Written(m, t, p, h)
         IN  s \in Seq(Glyphs) /\ Len(s) = Least(Len(w), Cols - 1) /\ \A i \in 1 .. Len(s) : s[i] = w[i]
<1> DEFINE w == Written(m, t, p, h)
           f == Uncut(m, t, p, h)
           k == IF Len(f) >= Cols THEN Cols - 1 ELSE Len(f)
<1>1. /\ w \in Seq(Glyphs) /\ f \in Seq(Glyphs) /\ Len(w) \in 1 .. Cols
      /\ Len(w) = Least(Len(f), Cols) /\ \A i \in 1 .. Len(w) : w[i] = f[i]
  BY WrittenIs
<1>2. Shown(m, t, p, h) = SubSeq(f, 1, k)
  BY DEF Shown
<1> HIDE DEF w, f
<1>3. Len(f) \in Nat /\ 0 \in 0 .. Len(f)
  BY <1>1, LenProperties
<1>4. k \in 0 .. Len(f) /\ k = Least(Len(w), Cols - 1) /\ k <= Len(w) /\ k - 0 = k
  BY <1>1, <1>3, Widths DEF Least
<1> HIDE DEF k
<1>5. /\ SubSeq(f, 0 + 1, k) \in Seq(Glyphs) /\ Len(SubSeq(f, 0 + 1, k)) = k - 0
      /\ \A i \in 1 .. k - 0 : SubSeq(f, 0 + 1, k)[i] = f[0 + i]
  BY <1>1, <1>3, <1>4, PartIs
<1>6. SubSeq(f, 1, k) \in Seq(Glyphs) /\ Len(SubSeq(f, 1, k)) = k
  BY <1>4, <1>5
<1>7. ASSUME NEW i \in 1 .. k PROVE SubSeq(f, 1, k)[i] = w[i]
  <2>1. i \in 1 .. Len(w) /\ 0 + i = i /\ i \in 1 .. k - 0
    BY <1>1, <1>3, <1>4
  <2> QED BY <1>1, <1>5, <2>1
<1> QED BY <1>2, <1>4, <1>6, <1>7 DEF w

-----------------------------------------------------------------------------
(* The moves that follow the bytes.                                         *)

LEMMA PairIs ==
  ASSUME NEW a \in Ops, NEW b \in Ops
  PROVE  <<a>> \in Seq(Ops) /\ <<b>> \in Seq(Ops) /\ <<a, b>> \in Seq(Ops) /\ <<a>> \o <<b>> = <<a, b>>
<1>1. <<a>> \in Seq(Ops) /\ <<b>> \in Seq(Ops) /\ <<a, b>> \in Seq(Ops)
  OBVIOUS
<1>2. Len(<<a>>) = 1 /\ Len(<<b>>) = 1 /\ Len(<<a, b>>) = 2 /\ <<a, b>>[1] = a /\ <<a, b>>[2] = b
  OBVIOUS
<1>3. <<a>>[1] = a /\ <<b>>[1] = b
  OBVIOUS
<1>4. <<a>> \o <<b>> \in Seq(Ops) /\ Len(<<a>> \o <<b>>) = 2
  BY <1>1, <1>2, ConcatProperties
<1>5. (<<a>> \o <<b>>)[1] = a /\ (<<a>> \o <<b>>)[2] = b
  BY <1>1, <1>2, <1>3, ConcatProperties
<1>6. \A i \in 1 .. 2 : i = 1 \/ i = 2
  OBVIOUS
<1>7. \A i \in 1 .. 2 : (<<a>> \o <<b>>)[i] = <<a, b>>[i]
  BY <1>2, <1>5, <1>6
<1> QED BY <1>1, <1>2, <1>4, <1>7, SeqEqual

LEMMA WritePair ==
  ASSUME NEW t \in Terms, NEW a \in Ops, NEW b \in Ops
  PROVE  <<a, b>> \in Seq(Ops) /\ Write(t, <<a, b>>) = Apply(Apply(t, a), b)
<1>1. <<a>> \in Seq(Ops) /\ <<b>> \in Seq(Ops) /\ <<a, b>> \in Seq(Ops) /\ <<a>> \o <<b>> = <<a, b>>
  BY PairIs
<1>2. Write(t, <<a>>) = Apply(t, a) /\ Apply(t, a) \in Terms
  BY WriteOne, ApplyType
<1>3. Write(Apply(t, a), <<b>>) = Apply(Apply(t, a), b)
  BY <1>2, WriteOne
<1>4. Write(t, <<a>> \o <<b>>) = Write(Write(t, <<a>>), <<b>>)
  BY <1>1, WriteTwo
<1> QED BY <1>1, <1>2, <1>3, <1>4

LEMMA NextRow ==
  ASSUME NEW t \in Terms, t.row + 1 < Rows
  PROVE  /\ Write(t, <<LF, CR>>) = Still(t.cell, t.row + 1, 0)
         /\ Write(t, <<CR, LF>>) = Still(t.cell, t.row + 1, 0)
<1>1. t.row \in Nat /\ Least(t.row + 1, Rows - 1) = t.row + 1
  BY TermIs, Widths DEF Least
<1> DEFINE u == Still(t.cell, t.row + 1, t.col)
           v == Still(t.cell, t.row, 0)
<1>2. Apply(t, LF) = u /\ Apply(t, CR) = v
  BY <1>1, ApplyLF, ApplyCR
<1>3. u.cell = t.cell /\ u.row = t.row + 1 /\ v.cell = t.cell /\ v.row = t.row /\ v.col = 0
  BY StillIs
<1> HIDE DEF u, v
<1>4. Apply(u, CR) = Still(t.cell, t.row + 1, 0)
  BY <1>3, ApplyCR
<1>5. Apply(v, LF) = Still(t.cell, t.row + 1, 0)
  BY <1>1, <1>3, ApplyLF
<1> QED BY <1>2, <1>4, <1>5, WritePair, OpsAre

LEMMA WentUp ==
  ASSUME NEW t \in Terms, NEW n \in 0 .. t.row
  PROVE  /\ When(n > 0, <<Up(n)>>) \in Seq(Ops)
         /\ Write(t, When(n > 0, <<Up(n)>>)).cell = t.cell
         /\ Write(t, When(n > 0, <<Up(n)>>)).row = t.row - n
<1>1. t.row \in Nat
  BY TermIs
<1>2. CASE n > 0
  <2>1. n \in Nat /\ Up(n) \in Ops /\ <<Up(n)>> \in Seq(Ops)
    BY <1>1, OpsAre
  <2>2. When(n > 0, <<Up(n)>>) = <<Up(n)>>
    BY <1>2 DEF When
  <2>3. Write(t, <<Up(n)>>) = Still(t.cell, Most(t.row - n, 0), t.col)
    BY <1>2, <2>1, WriteOne, ApplyUp
  <2>4. Most(t.row - n, 0) = t.row - n
    BY <1>1 DEF Most
  <2>5. Write(t, <<Up(n)>>).cell = t.cell /\ Write(t, <<Up(n)>>).row = t.row - n
    BY <2>3, <2>4, StillIs
  <2> QED BY <2>1, <2>2, <2>5
<1>3. CASE ~(n > 0)
  <2>1. When(n > 0, <<Up(n)>>) = <<>>
    BY <1>3 DEF When
  <2>2. t.row = t.row - n
    BY <1>1, <1>3
  <2> QED BY <2>1, <2>2, WriteNothing, EmptySeq
<1> QED BY <1>2, <1>3

LEMMA WentRight ==
  ASSUME NEW cell \in Sheets, NEW r \in Nat, NEW k \in 0 .. Cols - 1
  PROVE  /\ When(k > 0, <<Right(k)>>) \in Seq(Ops)
         /\ Write(Still(cell, r, 0), When(k > 0, <<Right(k)>>)) = Still(cell, r, k)
<1> DEFINE t == Still(cell, r, 0)
<1>1. t \in Terms /\ t.cell = cell /\ t.row = r /\ t.col = 0
  BY StillIs, StillType, ZeroIs
<1> HIDE DEF t
<1>2. CASE k > 0
  <2>1. k \in Nat /\ Right(k) \in Ops /\ <<Right(k)>> \in Seq(Ops)
    BY Widths, OpsAre
  <2>2. When(k > 0, <<Right(k)>>) = <<Right(k)>>
    BY <1>2 DEF When
  <2>3. Write(t, <<Right(k)>>) = Still(t.cell, t.row, Least(t.col + k, Cols - 1))
    BY <1>1, <1>2, <2>1, WriteOne, ApplyRight
  <2>4. Least(t.col + k, Cols - 1) = k
    BY <1>1, <2>1, Widths DEF Least
  <2> QED BY <1>1, <2>1, <2>2, <2>3, <2>4 DEF t
<1>3. CASE ~(k > 0)
  <2>1. When(k > 0, <<Right(k)>>) = <<>> /\ k = 0
    BY <1>3, Widths DEF When
  <2>2. Write(t, <<>>) = t
    BY <1>1, WriteNothing
  <2> QED BY <2>1, <2>2, EmptySeq DEF t
<1> QED BY <1>2, <1>3

(* The bytes of s in the blank rows from tp on. *)
LEMMA BytesShow ==
  ASSUME NEW cell \in Sheets, NEW tp \in Nat, NEW s \in Seq(Glyphs), Len(s) > 0, BlankFrom(cell, tp),
         tp + (Len(s) - 1) \div Cols < Rows
  PROVE  LET u == Write(Still(cell, tp, 0), Puts(s))
         IN  /\ u \in Terms /\ u.cell \in Sheets /\ Shows(u.cell, tp, s) /\ SameAbove(cell, u.cell, tp)
             /\ u.row = tp + (Len(s) - 1) \div Cols
             /\ u.col = Least(((Len(s) - 1) % Cols) + 1, Cols - 1)
             /\ u.wrap <=> (Len(s) - 1) % Cols = Cols - 1
<1> DEFINE t == Still(cell, tp, 0)
           u == Write(t, Puts(s))
<1>1. t \in Terms /\ t.cell = cell /\ t.row = tp /\ t.col = 0 /\ ~t.wrap
  BY StillIs, StillType, ZeroIs
<1> HIDE DEF t
<1>2. u = After(cell, tp, s, Len(s))
  <2>1. t.row + (Len(s) - 1) \div Cols < Rows
    BY <1>1
  <2> QED BY <1>1, <2>1, WriteBytes
<1>3. u \in Terms
  BY <1>1, PutsType, WriteType
<1> HIDE DEF u
<1>4. /\ u.cell = Paint(cell, tp, s, Len(s)) /\ u.row = tp + (Len(s) - 1) \div Cols
      /\ u.col = Least(((Len(s) - 1) % Cols) + 1, Cols - 1)
      /\ u.wrap <=> (Len(s) - 1) % Cols = Cols - 1
  BY <1>2 DEF After, Display
<1>5. u.cell \in Sheets /\ Shows(u.cell, tp, s) /\ SameAbove(cell, u.cell, tp)
  BY <1>4, PaintShows
<1> QED BY <1>3, <1>4, <1>5 DEF u, t

-----------------------------------------------------------------------------
(* The rows a line takes.                                                   *)

Lines == {s \in Seq(Glyphs) : Len(s) <= MaxText}

LEMMA LineIs ==
  ASSUME NEW t \in Lines
  PROVE  t \in Seq(Glyphs) /\ Len(t) \in Nat /\ Len(t) <= MaxText
BY LenProperties DEF Lines

(* oldrows after the line t was drawn with the cursor after p bytes. *)
RowsFor(t, p) == RowsOf(Len(t)) + (IF AtMargin(t, p) THEN 1 ELSE 0)

LEMMA RowsForIs ==
  ASSUME NEW t \in Lines, NEW p \in 0 .. Len(t)
  PROVE  /\ RowsOf(Len(t)) \in Nat /\ RowsOf(Len(t)) >= 1 /\ RowsFor(t, p) \in Nat
         /\ RowAt(p) \in 1 .. RowsFor(t, p)
         /\ RowsFor(t, p) - 1 <= (PLen + Len(t)) \div Cols
<1> DEFINE n == Len(t)
           A == (PLen + n - 1) \div Cols
           B == (PLen + n) \div Cols
           P == (PLen + p) \div Cols
<1>1. n \in Nat /\ p \in Nat /\ PLen + n - 1 \in Nat /\ PLen + n \in Nat /\ PLen + p \in Nat
  BY LineIs, Widths
<1>2. RowsOf(n) = A + 1 /\ A \in Nat /\ ((PLen + n) % Cols = 0 => B = A + 1) /\ ((PLen + n) % Cols # 0 => B = A)
  BY <1>1, RowsOfIs
<1>3. RowAt(p) = P + 1 /\ P \in Nat
  BY <1>1, RowAtIs
<1>4. RowsFor(t, p) = IF AtMargin(t, p) THEN A + 2 ELSE A + 1
  BY <1>2 DEF RowsFor
<1>5. CASE AtMargin(t, p)
  <2>1. p = n /\ p + PLen = PLen + n
    BY <1>1, <1>5, Widths DEF AtMargin
  <2>2. (PLen + n) % Cols = 0
    BY <1>5, <2>1 DEF AtMargin
  <2>3. P = B /\ B = A + 1
    BY <1>2, <2>1, <2>2
  <2> HIDE DEF A, B, P
  <2>8. A + 1 >= 1 /\ RowsFor(t, p) \in Nat /\ P + 1 \in 1 .. RowsFor(t, p) /\ RowsFor(t, p) - 1 <= B
    BY <1>2, <1>3, <1>4, <1>5, <2>3
  <2> QED BY <1>2, <1>3, <2>8 DEF B
<1>6. CASE ~AtMargin(t, p) /\ p = n
  <2>1. (PLen + n) % Cols # 0
    <3>1. CASE p > 0
      <4>1. p + PLen = PLen + n
        BY <1>1, <1>6, Widths
      <4> QED BY <1>6, <3>1, <4>1 DEF AtMargin
    <3>2. CASE ~(p > 0)
      <4>1. PLen + n = PLen /\ PLen \in Nat /\ PLen < Cols /\ PLen # 0
        BY <1>1, <1>6, <3>2, Widths
      <4>2. PLen % Cols = PLen
        BY <4>1, DivSmall
      <4> QED BY <4>1, <4>2
    <3> QED BY <3>1, <3>2
  <2>2. P = B /\ B = A
    BY <1>2, <1>6, <2>1
  <2> HIDE DEF A, B, P
  <2>8. A + 1 >= 1 /\ RowsFor(t, p) \in Nat /\ P + 1 \in 1 .. RowsFor(t, p) /\ RowsFor(t, p) - 1 <= B
    BY <1>2, <1>3, <1>4, <1>6, <2>2
  <2> QED BY <1>2, <1>3, <2>8 DEF B
<1>7. CASE ~AtMargin(t, p) /\ p # n
  <2>1. PLen + p <= PLen + n - 1 /\ PLen + n - 1 <= PLen + n
    BY <1>1, <1>7, Widths
  <2>2. P <= A /\ A <= B
    BY <1>1, <2>1, DivMonotone
  <2>3. B \in Nat
    BY <1>1, DivMod
  <2> HIDE DEF A, B, P
  <2>8. A + 1 >= 1 /\ RowsFor(t, p) \in Nat /\ P + 1 \in 1 .. RowsFor(t, p) /\ RowsFor(t, p) - 1 <= B
    BY <1>2, <1>3, <1>4, <1>7, <2>2, <2>3
  <2> QED BY <1>2, <1>3, <2>8 DEF B
<1> QED BY <1>5, <1>6, <1>7

LEMMA RowsFit ==
  ASSUME NEW t \in Lines, NEW p \in 0 .. Len(t), NEW tp \in 0 .. MaxTop
  PROVE  /\ tp \in Nat /\ (PLen + Len(t)) \div Cols \in Nat /\ tp + (PLen + Len(t)) \div Cols + 1 < Rows
         /\ tp + RowsFor(t, p) < Rows
<1> DEFINE n == Len(t)
           B == (PLen + n) \div Cols
           M == (PLen + MaxText) \div Cols
<1>1. /\ n \in Nat /\ MaxText \in Nat /\ MaxTop \in Nat /\ PLen + n <= PLen + MaxText /\ PLen + n \in Nat
      /\ PLen + MaxText \in Nat /\ tp \in Nat /\ tp <= MaxTop
  BY LineIs, Widths, SheetIsEnough
<1>2. B <= M /\ B \in Nat /\ M \in Nat
  BY <1>1, DivMonotone, DivMod
<1>3. Rows > MaxTop + M + 1
  BY SheetIsEnough
<1>4. RowsFor(t, p) \in Nat /\ RowsFor(t, p) - 1 <= B
  BY RowsForIs
<1> HIDE DEF B, M
<1>5. tp + B + 1 < Rows /\ tp + RowsFor(t, p) < Rows
  BY <1>1, <1>2, <1>3, <1>4, Widths
<1> QED BY <1>1, <1>2, <1>5 DEF B

LEMMA WholeRows ==
  ASSUME NEW m \in Modes, NEW t \in Lines, NEW h \in Seq(Glyphs)
  PROVE  /\ Len(Whole(m, t, h)) > 0 /\ Len(Whole(m, t, h)) - 1 \in Nat
         /\ (Len(Whole(m, t, h)) - 1) \div Cols = RowsOf(Len(t)) - 1
<1> DEFINE n == Len(t)
           k == Len(refreshShowHints(t, h))
           N == Len(Whole(m, t, h))
<1>1. n \in Nat /\ k \in Nat /\ N = PLen + n + k
  BY LineIs, HintsAre, WholeIs
<1>2. (PLen + n >= Cols => k = 0) /\ (PLen + n < Cols => PLen + n + k <= Cols)
  BY LineIs, HintsAre
<1>3. RowsOf(n) = (PLen + n - 1) \div Cols + 1 /\ (PLen + n - 1) \div Cols \in Nat
  BY <1>1, RowsOfIs
<1> HIDE DEF k, N
<1>4. N > 0 /\ N - 1 \in Nat
  BY <1>1, Widths
<1>5. CASE PLen + n >= Cols
  <2>1. N - 1 = PLen + n - 1
    BY <1>1, <1>2, <1>5, Widths
  <2> QED BY <1>3, <1>4, <2>1 DEF N
<1>6. CASE ~(PLen + n >= Cols)
  <2>1. N - 1 < Cols /\ PLen + n - 1 < Cols /\ PLen + n - 1 \in Nat
    BY <1>1, <1>2, <1>6, Widths
  <2>2. (N - 1) \div Cols = 0 /\ (PLen + n - 1) \div Cols = 0
    BY <1>4, <2>1, DivSmall
  <2> QED BY <1>3, <1>4, <2>2 DEF N
<1> QED BY <1>5, <1>6

LEMMA MarginFeed ==
  ASSUME NEW t \in Terms, t.row + 1 < Rows, NEW l, NEW p
  PROVE  /\ When(AtMargin(l, p), <<LF, CR>>) \in Seq(Ops)
         /\ Write(t, When(AtMargin(l, p), <<LF, CR>>)) \in Terms
         /\ Write(t, When(AtMargin(l, p), <<LF, CR>>)).cell = t.cell
         /\ Write(t, When(AtMargin(l, p), <<LF, CR>>)).row = t.row + (IF AtMargin(l, p) THEN 1 ELSE 0)
<1>1. t.row \in Nat /\ <<LF, CR>> \in Seq(Ops)
  BY TermIs, OpsAre
<1>2. CASE AtMargin(l, p)
  <2>1. When(AtMargin(l, p), <<LF, CR>>) = <<LF, CR>>
    BY <1>2 DEF When
  <2>2. Write(t, <<LF, CR>>) = Still(t.cell, t.row + 1, 0)
    BY NextRow
  <2>3. Write(t, <<LF, CR>>).cell = t.cell /\ Write(t, <<LF, CR>>).row = t.row + 1
    BY <2>2, StillIs
  <2> QED BY <1>1, <1>2, <2>1, <2>3, WriteType
<1>3. CASE ~AtMargin(l, p)
  <2>1. When(AtMargin(l, p), <<LF, CR>>) = <<>>
    BY <1>3 DEF When
  <2>2. t.row = t.row + 0
    BY <1>1
  <2> QED BY <1>3, <2>1, <2>2, WriteNothing, EmptySeq
<1> QED BY <1>2, <1>3

-----------------------------------------------------------------------------
(* refreshMultiLine on the blank rows from tp on.                           *)

MultiOps(m, t, p, h) ==
  Puts(Whole(m, t, h))
  \o When(AtMargin(t, p), <<LF, CR>>)
  \o When(RowsFor(t, p) - RowAt(p) > 0, <<Up(RowsFor(t, p) - RowAt(p))>>)
  \o <<CR>> \o When((PLen + p) % Cols > 0, <<Right((PLen + p) % Cols)>>)

(* Five writes, one after the other. *)
LEMMA WriteFive ==
  ASSUME NEW t \in Terms, NEW a \in Seq(Ops), NEW b \in Seq(Ops), NEW c \in Seq(Ops), NEW d \in Seq(Ops),
         NEW e \in Seq(Ops)
  PROVE  /\ a \o b \o c \o d \o e \in Seq(Ops)
         /\ Write(t, a \o b \o c \o d \o e) = Write(Write(Write(Write(Write(t, a), b), c), d), e)
<1> DEFINE x == a \o b
           y == x \o c
           z == y \o d
<1>1. x \in Seq(Ops) /\ Write(t, x) = Write(Write(t, a), b)
  BY ConcatProperties, WriteTwo
<1> HIDE DEF x
<1>2. y \in Seq(Ops) /\ Write(t, y) = Write(Write(t, x), c)
  BY <1>1, ConcatProperties, WriteTwo
<1> HIDE DEF y
<1>3. z \in Seq(Ops) /\ Write(t, z) = Write(Write(t, y), d)
  BY <1>2, ConcatProperties, WriteTwo
<1> HIDE DEF z
<1>4. z \o e \in Seq(Ops) /\ Write(t, z \o e) = Write(Write(t, z), e)
  BY <1>3, ConcatProperties, WriteTwo
<1> QED BY <1>1, <1>2, <1>3, <1>4 DEF x, y, z

LEMMA MultiDrawn ==
  ASSUME NEW m \in Modes, NEW t \in Lines, NEW p \in 0 .. Len(t), NEW h \in Seq(Glyphs),
         NEW cell \in Sheets, NEW tp \in 0 .. MaxTop, BlankFrom(cell, tp)
  PROVE  /\ MultiOps(m, t, p, h) \in Seq(Ops)
         /\ \E c \in Sheets : /\ Shows(c, tp, Whole(m, t, h)) /\ SameAbove(cell, c, tp)
                              /\ Write(Still(cell, tp, 0), MultiOps(m, t, p, h))
                                   = Still(c, tp + (PLen + p) \div Cols, (PLen + p) % Cols)
<1> DEFINE s == Whole(m, t, h)
           R == RowsOf(Len(t))
           n == RowsFor(t, p)
           g == n - RowAt(p)
           k == (PLen + p) % Cols
           t0 == Still(cell, tp, 0)
           fe == When(AtMargin(t, p), <<LF, CR>>)
           go == When(g > 0, <<Up(g)>>)
           ri == When(k > 0, <<Right(k)>>)
           t1 == Write(t0, Puts(s))
           t2 == Write(t1, fe)
           t3 == Write(t2, go)
           t4 == Write(t3, <<CR>>)
<1>1. /\ R \in Nat /\ R >= 1 /\ n \in Nat /\ RowAt(p) \in 1 .. n /\ tp \in Nat /\ tp + n < Rows
      /\ n = R + (IF AtMargin(t, p) THEN 1 ELSE 0)
  BY RowsForIs, RowsFit DEF RowsFor
<1>2. PLen + p \in Nat /\ k \in 0 .. Cols - 1 /\ RowAt(p) = (PLen + p) \div Cols + 1 /\ (PLen + p) \div Cols \in Nat
  <2>1. PLen + p \in Nat /\ p \in Nat
    BY LineIs, Widths
  <2> QED BY <2>1, DivMod, RowAtIs
<1>3. s \in Seq(Glyphs) /\ Len(s) > 0 /\ (Len(s) - 1) \div Cols = R - 1
  BY LineIs, WholeIs, WholeRows
<1> HIDE DEF s, R, n, k, t0, ri
<1>4. t0 \in Terms
  BY <1>1, StillType, ZeroIs DEF t0
<1>5. /\ t1 \in Terms /\ t1.cell \in Sheets /\ Shows(t1.cell, tp, s) /\ SameAbove(cell, t1.cell, tp)
      /\ t1.row = tp + (R - 1)
  <2>1. tp + (Len(s) - 1) \div Cols < Rows
    BY <1>1, <1>3, Widths
  <2> QED BY <1>1, <1>3, <2>1, BytesShow DEF t0
<1> HIDE DEF t1
<1>6. fe \in Seq(Ops) /\ t2 \in Terms /\ t2.cell = t1.cell /\ t2.row = tp + (n - 1)
  <2>1. t1.row + 1 < Rows
    BY <1>1, <1>5, Widths
  <2>2. /\ fe \in Seq(Ops) /\ t2 \in Terms /\ t2.cell = t1.cell
        /\ t2.row = t1.row + (IF AtMargin(t, p) THEN 1 ELSE 0)
    BY <1>5, <2>1, MarginFeed
  <2> HIDE DEF t2
  <2>3. t2.row = tp + (n - 1)
    BY <1>1, <1>5, <2>2
  <2> QED BY <2>2, <2>3
<1> HIDE DEF t2, fe
<1>7. go \in Seq(Ops) /\ t3 \in Terms /\ t3.cell = t1.cell /\ t3.row = tp + (PLen + p) \div Cols
  <2>1. g \in 0 .. t2.row
    BY <1>1, <1>6
  <2>2. t2.row - g = tp + (RowAt(p) - 1)
    BY <1>1, <1>6
  <2>3. RowAt(p) - 1 = (PLen + p) \div Cols
    BY <1>2
  <2> HIDE DEF g
  <2>4. go \in Seq(Ops) /\ t3.cell = t2.cell /\ t3.row = t2.row - g
    BY <1>6, <2>1, WentUp
  <2> QED BY <1>6, <2>2, <2>3, <2>4, WriteType
<1> HIDE DEF t3, go
<1>8. t4 = Still(t1.cell, tp + (PLen + p) \div Cols, 0)
  <2>1. t4 = Apply(t3, CR)
    BY <1>7, WriteOne, OpsAre
  <2> QED BY <1>7, <2>1, ApplyCR
<1> HIDE DEF t4
<1>9. tp + (PLen + p) \div Cols \in Nat
  BY <1>1, <1>2
<1>10. ri \in Seq(Ops) /\ Write(t4, ri) = Still(t1.cell, tp + (PLen + p) \div Cols, k)
  BY <1>2, <1>5, <1>8, <1>9, WentRight DEF ri
<1>11. MultiOps(m, t, p, h) = Puts(s) \o fe \o go \o <<CR>> \o ri
  BY DEF MultiOps, s, fe, go, ri, n, k
<1>12. Puts(s) \in Seq(Ops) /\ <<CR>> \in Seq(Ops)
  BY <1>3, PutsType, OpsAre
<1>13. /\ Puts(s) \o fe \o go \o <<CR>> \o ri \in Seq(Ops)
       /\ Write(t0, Puts(s) \o fe \o go \o <<CR>> \o ri) = Write(Write(Write(Write(Write(t0, Puts(s)), fe), go), <<CR>>), ri)
  <2> DEFINE pu == Puts(s)
             cr == <<CR>>
  <2>1. pu \in Seq(Ops) /\ cr \in Seq(Ops) /\ fe \in Seq(Ops) /\ go \in Seq(Ops) /\ ri \in Seq(Ops)
    BY <1>6, <1>7, <1>10, <1>12
  <2> HIDE DEF pu, cr
  <2>2. /\ pu \o fe \o go \o cr \o ri \in Seq(Ops)
        /\ Write(t0, pu \o fe \o go \o cr \o ri) = Write(Write(Write(Write(Write(t0, pu), fe), go), cr), ri)
    BY <1>4, <2>1, WriteFive
  <2> QED BY <2>2 DEF pu, cr
<1>14. Write(t0, MultiOps(m, t, p, h)) = Still(t1.cell, tp + (PLen + p) \div Cols, k)
  BY <1>10, <1>11, <1>13 DEF t1, t2, t3, t4
<1> QED BY <1>5, <1>11, <1>13, <1>14 DEF t0, k, s

-----------------------------------------------------------------------------
(* refreshSingleLine: the row is written over, and the rest of it erased.    *)

SingleOps(m, t, p, h) ==
  <<CR>> \o Puts(Written(m, t, p, h)) \o <<EraseRight>> \o <<CR, Right(p - Scrolled(p) + PLen)>>

LEMMA WriteFour ==
  ASSUME NEW t \in Terms, NEW a \in Seq(Ops), NEW b \in Seq(Ops), NEW c \in Seq(Ops), NEW d \in Seq(Ops)
  PROVE  /\ a \o b \o c \o d \in Seq(Ops)
         /\ Write(t, a \o b \o c \o d) = Write(Write(Write(Write(t, a), b), c), d)
<1> DEFINE x == a \o b
           y == x \o c
<1>1. x \in Seq(Ops) /\ Write(t, x) = Write(Write(t, a), b)
  BY ConcatProperties, WriteTwo
<1> HIDE DEF x
<1>2. y \in Seq(Ops) /\ Write(t, y) = Write(Write(t, x), c)
  BY <1>1, ConcatProperties, WriteTwo
<1> HIDE DEF y
<1>3. y \o d \in Seq(Ops) /\ Write(t, y \o d) = Write(Write(t, y), d)
  BY <1>2, ConcatProperties, WriteTwo
<1> QED BY <1>1, <1>2, <1>3 DEF x, y

(* At most a row of bytes, whatever the row showed before. *)
LEMMA RowWritten ==
  ASSUME NEW cell \in Sheets, NEW tp \in 0 .. Rows - 1, NEW w \in Seq(Glyphs), Len(w) \in 1 .. Cols
  PROVE  LET u == Write(Still(cell, tp, 0), Puts(w))
         IN  /\ u \in Terms /\ u.cell = Paint(cell, tp, w, Len(w))
             /\ u.row = tp /\ u.col = Least(Len(w), Cols - 1)
<1> DEFINE t == Still(cell, tp, 0)
           u == Write(t, Puts(w))
           n == Len(w)
<1>1. tp \in Nat /\ n - 1 \in Nat /\ n - 1 < Cols /\ n > 0 /\ (n - 1) + 1 = n /\ tp < Rows
  BY Widths
<1>2. t \in Terms /\ t.cell = cell /\ t.row = tp /\ t.col = 0 /\ ~t.wrap
  BY <1>1, StillIs, StillType, ZeroIs
<1>3. (n - 1) \div Cols = 0 /\ (n - 1) % Cols = n - 1
  BY <1>1, DivSmall
<1> HIDE DEF t
<1>4. u = After(cell, tp, w, n)
  <2>1. t.row + (n - 1) \div Cols < Rows
    BY <1>1, <1>2, <1>3
  <2> QED BY <1>1, <1>2, <2>1, WriteBytes
<1>5. u \in Terms
  BY <1>2, PutsType, WriteType
<1> HIDE DEF u
<1>6. /\ u.cell = Paint(cell, tp, w, n) /\ u.row = tp + (n - 1) \div Cols
      /\ u.col = Least(((n - 1) % Cols) + 1, Cols - 1)
  BY <1>4 DEF After, Display
<1>7. u.row = tp /\ u.col = Least(n, Cols - 1)
  BY <1>1, <1>3, <1>6
<1> QED BY <1>5, <1>6, <1>7 DEF u, t

(* The cells of the row that a line of at most a row takes. *)
LEMMA RowIdx ==
  ASSUME NEW tp \in Nat, NEW q \in Nat, q >= tp, NEW d \in 0 .. Cols - 1
  PROVE  /\ Idx(tp, q, d) \in Nat
         /\ q = tp => Idx(tp, q, d) = d
         /\ q # tp => Idx(tp, q, d) >= Cols
<1>1. Idx(tp, q, d) \in Nat /\ Idx(tp, q, d) \div Cols = q - tp
  BY IdxIs
<1>2. q = tp => Idx(tp, q, d) = d
  <2>1. q = tp => q - tp = 0
    OBVIOUS
  <2>2. 0 * Cols + d = d
    BY Widths
  <2> QED BY <2>1, <2>2 DEF Idx
<1>3. ASSUME q # tp, Idx(tp, q, d) < Cols PROVE FALSE
  <2>1. Idx(tp, q, d) \div Cols = 0
    BY <1>1, <1>3, DivSmall
  <2>2. q - tp = 0
    BY <1>1, <2>1
  <2> QED BY <1>3, <2>2
<1>4. ~(Idx(tp, q, d) < Cols) => Idx(tp, q, d) >= Cols
  BY <1>1, Widths
<1> QED BY <1>1, <1>2, <1>3, <1>4

LEMMA RowShows ==
  ASSUME NEW cell \in Sheets, NEW tp \in 0 .. Rows - 1, NEW w \in Seq(Glyphs), Len(w) \in 1 .. Cols,
         BlankFrom(cell, tp + 1), NEW s \in Seq(Glyphs), Len(s) = Least(Len(w), Cols - 1),
         \A i \in 1 .. Len(s) : s[i] = w[i]
  PROVE  LET c == Erased(Paint(cell, tp, w, Len(w)), tp, Least(Len(w), Cols - 1))
         IN  c \in Sheets /\ Shows(c, tp, s) /\ SameAbove(cell, c, tp)
<1> DEFINE n == Len(w)
           k == Least(n, Cols - 1)
           p == Paint(cell, tp, w, n)
           c == Erased(p, tp, k)
<1>1. tp \in Nat /\ tp + 1 \in Nat /\ n \in 0 .. Len(w) /\ k \in 0 .. Cols - 1 /\ k <= n /\ k \in Nat /\ n \in Nat /\ n <= Cols
  BY Widths DEF Least
<1>2. /\ p \in Sheets
      /\ \A q \in 0 .. Rows - 1, d \in 0 .. Cols - 1 :
           p[q][d] = IF q >= tp /\ Idx(tp, q, d) < n THEN w[Idx(tp, q, d) + 1] ELSE cell[q][d]
  BY <1>1, PaintIs
<1> HIDE DEF p, k, n
<1>3. /\ c \in Sheets
      /\ \A q \in 0 .. Rows - 1, d \in 0 .. Cols - 1 :
           c[q][d] = IF q = tp /\ d >= k THEN BlankCell ELSE p[q][d]
  BY <1>1, <1>2, ErasedIs
<1> HIDE DEF c
<1>4. Len(s) = k
  BY DEF k, n
<1>5. ASSUME NEW q \in 0 .. Rows - 1, NEW d \in 0 .. Cols - 1, q >= tp
      PROVE  c[q][d] = IF Idx(tp, q, d) < Len(s) THEN s[Idx(tp, q, d) + 1] ELSE BlankCell
  <2> DEFINE i == Idx(tp, q, d)
  <2>1. q \in Nat /\ d \in Nat
    BY Widths
  <2>2. i \in Nat /\ (q = tp => i = d) /\ (q # tp => i >= Cols)
    BY <1>1, <1>5, <2>1, RowIdx
  <2>3. c[q][d] = IF q = tp /\ d >= k THEN BlankCell ELSE p[q][d]
    BY <1>3
  <2>4. p[q][d] = IF q >= tp /\ i < n THEN w[i + 1] ELSE cell[q][d]
    BY <1>2
  <2> HIDE DEF i
  <2>5. CASE q = tp /\ d >= k
    <3>1. ~(i < Len(s))
      BY <1>1, <1>4, <2>1, <2>2, <2>5
    <3> QED BY <2>3, <2>5, <3>1 DEF i
  <2>6. CASE q = tp /\ ~(d >= k)
    <3>1. i < Len(s) /\ i < n /\ i + 1 \in 1 .. Len(s)
      BY <1>1, <1>4, <2>1, <2>2, <2>6
    <3>2. s[i + 1] = w[i + 1]
      BY <3>1
    <3> QED BY <1>5, <2>3, <2>4, <2>6, <3>1, <3>2 DEF i
  <2>7. CASE q # tp
    <3>1. ~(i < Len(s)) /\ ~(i < n) /\ q >= tp + 1
      BY <1>1, <1>4, <1>5, <2>1, <2>2, <2>7, Widths
    <3>2. cell[q][d] = BlankCell
      BY <1>1, <3>1, BlankCells
    <3> QED BY <2>3, <2>4, <2>7, <3>1, <3>2 DEF i
  <2> QED BY <2>5, <2>6, <2>7
<1>6. ASSUME NEW q \in 0 .. Rows - 1, q < tp PROVE c[q] = cell[q]
  <2>1. q \in Nat /\ ~(q >= tp) /\ q # tp
    BY <1>1, <1>6, Widths
  <2>2. \A d \in 0 .. Cols - 1 : c[q][d] = cell[q][d]
    BY <1>2, <1>3, <2>1
  <2> QED BY <1>3, <2>2, RowIs
<1> QED BY <1>3, <1>5, <1>6 DEF Shows, SameAbove, c, p, k, n

LEMMA SingleDrawn ==
  ASSUME NEW m \in Modes, ~m.multi, NEW t \in Lines, NEW p \in 0 .. Len(t), NEW h \in Seq(Glyphs),
         NEW u \in Terms, u.row < Rows, BlankFrom(u.cell, u.row + 1)
  PROVE  /\ SingleOps(m, t, p, h) \in Seq(Ops)
         /\ \E c \in Sheets : /\ Shows(c, u.row, Shown(m, t, p, h)) /\ SameAbove(u.cell, c, u.row)
                              /\ Write(u, SingleOps(m, t, p, h)) = Still(c, u.row, Least(PLen + p, Cols - 1))
<1> DEFINE w == Written(m, t, p, h)
           s == Shown(m, t, p, h)
           k == Least(Len(w), Cols - 1)
           g == p - Scrolled(p) + PLen
           u1 == Write(u, <<CR>>)
           u2 == Write(u1, Puts(w))
           u3 == Write(u2, <<EraseRight>>)
           u4 == Write(u3, <<CR, Right(g)>>)
           c == Erased(Paint(u.cell, u.row, w, Len(w)), u.row, k)
<1>1. /\ t \in Seq(Glyphs) /\ Len(t) \in Nat /\ u.row \in Nat /\ u.cell \in Sheets /\ u.row \in 0 .. Rows - 1
  BY LineIs, TermIs, Widths
<1>2. w \in Seq(Glyphs) /\ Len(w) \in 1 .. Cols
  BY <1>1, WrittenIs
<1>3. s \in Seq(Glyphs) /\ Len(s) = Least(Len(w), Cols - 1) /\ \A i \in 1 .. Len(s) : s[i] = w[i]
  BY <1>1, ShownIs
<1>4. g \in Nat /\ g > 0 /\ Least(g, Cols - 1) = Least(PLen + p, Cols - 1)
  BY <1>1, ScrolledIs
<1> HIDE DEF w, s, g
<1>5. u1 = Still(u.cell, u.row, 0) /\ <<CR>> \in Seq(Ops)
  BY WriteOne, OpsAre, ApplyCR
<1>6. u2 \in Terms /\ u2.cell = Paint(u.cell, u.row, w, Len(w)) /\ u2.row = u.row /\ u2.col = k /\ Puts(w) \in Seq(Ops)
  BY <1>1, <1>2, <1>5, RowWritten, PutsType
<1> HIDE DEF u1, u2
<1>7. u3 = Still(c, u.row, k) /\ <<EraseRight>> \in Seq(Ops)
  <2>1. u3 = Apply(u2, EraseRight) /\ <<EraseRight>> \in Seq(Ops)
    BY <1>6, WriteOne, OpsAre
  <2> QED BY <1>6, <2>1, ApplyErase
<1>8. c \in Sheets /\ Shows(c, u.row, s) /\ SameAbove(u.cell, c, u.row)
  BY <1>1, <1>2, <1>3, RowShows
<1>9. k \in 0 .. Cols - 1
  BY <1>2, Widths DEF Least
<1> HIDE DEF c, k, u3
<1>10. u3 \in Terms /\ u3.cell = c /\ u3.row = u.row
  BY <1>1, <1>7, <1>8, <1>9, StillIs, StillType
<1>11. u4 = Still(c, u.row, Least(PLen + p, Cols - 1)) /\ <<CR, Right(g)>> \in Seq(Ops)
  <2> DEFINE v == Still(c, u.row, 0)
  <2>1. Right(g) \in Ops /\ CR \in Ops
    BY <1>4, OpsAre
  <2>2. u4 = Apply(Apply(u3, CR), Right(g)) /\ <<CR, Right(g)>> \in Seq(Ops)
    BY <1>10, <2>1, WritePair
  <2>3. Apply(u3, CR) = v
    BY <1>10, ApplyCR
  <2>4. v.cell = c /\ v.row = u.row /\ v.col = 0
    BY StillIs
  <2> HIDE DEF v
  <2>5. Apply(v, Right(g)) = Still(v.cell, v.row, Least(v.col + g, Cols - 1))
    BY <1>4, ApplyRight
  <2>6. v.col + g = g
    BY <1>4, <2>4
  <2> QED BY <1>4, <2>2, <2>3, <2>4, <2>5, <2>6
<1> HIDE DEF u4
<1>12. SingleOps(m, t, p, h) = <<CR>> \o Puts(w) \o <<EraseRight>> \o <<CR, Right(g)>>
  BY DEF SingleOps, w, g
<1>13. /\ SingleOps(m, t, p, h) \in Seq(Ops)
       /\ Write(u, SingleOps(m, t, p, h)) = Write(Write(Write(Write(u, <<CR>>), Puts(w)), <<EraseRight>>), <<CR, Right(g)>>)
  <2> DEFINE o1 == <<CR>>
             o2 == Puts(w)
             o3 == <<EraseRight>>
             o4 == <<CR, Right(g)>>
  <2>1. o1 \in Seq(Ops) /\ o2 \in Seq(Ops) /\ o3 \in Seq(Ops) /\ o4 \in Seq(Ops)
    BY <1>5, <1>6, <1>7, <1>11
  <2>2. SingleOps(m, t, p, h) = o1 \o o2 \o o3 \o o4
    BY <1>12
  <2> HIDE DEF o1, o2, o3, o4
  <2>3. /\ o1 \o o2 \o o3 \o o4 \in Seq(Ops)
        /\ Write(u, o1 \o o2 \o o3 \o o4) = Write(Write(Write(Write(u, o1), o2), o3), o4)
    BY <2>1, WriteFour
  <2>4. Write(u, SingleOps(m, t, p, h)) = Write(Write(Write(Write(u, o1), o2), o3), o4)
    BY <2>2, <2>3
  <2> QED BY <2>2, <2>3, <2>4 DEF o1, o2, o3, o4
<1>14. Write(u, SingleOps(m, t, p, h)) = Still(c, u.row, Least(PLen + p, Cols - 1))
  BY <1>11, <1>13 DEF u1, u2, u3, u4
<1> QED BY <1>8, <1>13, <1>14 DEF s

-----------------------------------------------------------------------------
(* The screen with the line t, and without it.                              *)

Screens == [term : Terms, oldpos : Nat, oldrows : Nat]

CursorAt(m, u, tp, p) ==
  IF m.multi THEN u.row = tp + (PLen + p) \div Cols /\ u.col = (PLen + p) % Cols
  ELSE u.row = tp /\ u.col = Least(PLen + p, Cols - 1)

(* oldpos and oldrows are those of the line that is shown, or still those of *)
(* a prompt that nothing was drawn after.                                   *)
Marks(m, s, t, p) ==
  m.multi => \/ s.oldpos = p /\ s.oldrows = RowsFor(t, p)
             \/ s.oldpos = 0 /\ s.oldrows = 0 /\ t = <<>> /\ p = 0

Drawing(m, s, tp, t, p, h) ==
  /\ s \in Screens /\ Shows(s.term.cell, tp, Shown(m, t, p, h)) /\ CursorAt(m, s.term, tp, p)
  /\ ~s.term.wrap /\ Marks(m, s, t, p)

Bare(s, tp) ==
  /\ s \in Screens /\ BlankFrom(s.term.cell, tp) /\ s.term.row = tp /\ s.term.col = 0 /\ ~s.term.wrap

LEMMA ScreenIs ==
  ASSUME NEW s \in Screens
  PROVE  s.term \in Terms /\ s.oldpos \in Nat /\ s.oldrows \in Nat
BY DEF Screens

Below(s) == s.oldrows - RowAt(s.oldpos)

LEMMA OldRows ==
  ASSUME NEW m \in Modes, m.multi, NEW t \in Lines, NEW p \in 0 .. Len(t), NEW h \in Seq(Glyphs),
         NEW tp \in 0 .. MaxTop, NEW s, Drawing(m, s, tp, t, p, h)
  PROVE  /\ tp \in Nat /\ s.term.row < Rows /\ Below(s) \in Int /\ Most(s.oldrows - 1, 0) \in Nat
         /\ Lowest(s.term.row, Below(s)) = tp + Most(s.oldrows - 1, 0)
         /\ BlankFrom(s.term.cell, tp + Most(s.oldrows - 1, 0) + 1)
<1> DEFINE R == s.oldrows
           A == RowAt(p)
           w == Whole(m, t, h)
           n == Most(R - 1, 0)
<1>1. s.term \in Terms /\ s.term.cell \in Sheets /\ s.oldpos \in Nat /\ R \in Nat
  BY ScreenIs, TermIs DEF Drawing
<1>2. /\ RowsOf(Len(t)) \in Nat /\ RowsOf(Len(t)) >= 1 /\ RowsFor(t, p) \in Nat /\ A \in 1 .. RowsFor(t, p)
      /\ RowsFor(t, p) >= RowsOf(Len(t))
  BY RowsForIs DEF RowsFor
<1>3. tp \in Nat /\ tp + RowsFor(t, p) < Rows
  BY RowsFit
<1>4. p \in Nat /\ A = (PLen + p) \div Cols + 1 /\ (PLen + p) \div Cols \in Nat
  <2>1. p \in Nat
    BY LineIs
  <2> QED BY <2>1, RowAtIs
<1>5. s.term.row = tp + (A - 1)
  <2>1. A - 1 = (PLen + p) \div Cols
    BY <1>4
  <2> QED BY <2>1 DEF Drawing, CursorAt
<1>6. w \in Seq(Glyphs) /\ (Len(w) - 1) \div Cols = RowsOf(Len(t)) - 1 /\ Shows(s.term.cell, tp, w)
  BY LineIs, WholeIs, WholeRows DEF Drawing, Shown
<1> HIDE DEF A, w
<1>7. n \in Nat /\ n = IF R = 0 THEN 0 ELSE R - 1
  BY <1>1 DEF Most
<1>8. CASE s.oldpos = p /\ R = RowsFor(t, p)
  <2>1. Below(s) = R - A /\ R >= 1 /\ n = R - 1
    BY <1>2, <1>7, <1>8 DEF Below, A
  <2>2. Lowest(s.term.row, Below(s)) = tp + n
    <3>1. CASE R - A > 0
      <4>1. s.term.row + (R - A) = tp + n /\ tp + n \in Nat /\ tp + n < Rows - 1
        BY <1>2, <1>3, <1>5, <1>8, <2>1, Widths
      <4>2. Least(tp + n, Rows - 1) = tp + n
        BY <4>1, Widths DEF Least
      <4> QED BY <2>1, <3>1, <4>1, <4>2 DEF Lowest
    <3>2. CASE ~(R - A > 0)
      <4>1. s.term.row = tp + n
        BY <1>2, <1>3, <1>5, <1>8, <2>1, <3>2
      <4> QED BY <2>1, <3>2, <4>1 DEF Lowest
    <3> QED BY <3>1, <3>2
  <2>3. tp + n \in Nat /\ tp + n >= tp /\ (Len(w) - 1) \div Cols <= (tp + n) - tp
    BY <1>2, <1>3, <1>6, <1>8, <2>1
  <2>4. BlankFrom(s.term.cell, (tp + n) + 1)
    <3> DEFINE r == tp + n
    <3> HIDE DEF r
    <3>1. r \in Nat /\ r >= tp /\ (Len(w) - 1) \div Cols <= r - tp
      BY <2>3 DEF r
    <3>2. BlankFrom(s.term.cell, r + 1)
      BY <1>1, <1>3, <1>6, <3>1, ShowsBelow
    <3> QED BY <3>2 DEF r
  <2>5. s.term.row < Rows /\ Below(s) \in Int
    BY <1>1, <1>2, <1>3, <1>5, <2>1, Widths
  <2> QED BY <1>3, <1>7, <2>2, <2>4, <2>5
<1>9. CASE s.oldpos = 0 /\ R = 0 /\ t = <<>> /\ p = 0
  <2>1. Len(t) = 0
    BY <1>9, EmptySeq
  <2>2. A = 1 /\ RowsOf(0) = 1
    <3>1. PLen + 0 = PLen /\ PLen \in Nat /\ PLen < Cols /\ PLen - 1 \in Nat /\ PLen - 1 < Cols /\ PLen + 0 - 1 = PLen - 1
      BY Widths
    <3>2. PLen \div Cols = 0 /\ (PLen - 1) \div Cols = 0
      BY <3>1, DivSmall
    <3>3. 0 \in Nat
      OBVIOUS
    <3>4. RowsOf(0) = (PLen + 0 - 1) \div Cols + 1
      BY <3>3, RowsOfIs
    <3>5. RowsOf(0) = 1
      BY <3>1, <3>2, <3>4
    <3>6. A = (PLen + 0) \div Cols + 1
      BY <1>4, <1>9
    <3> QED BY <3>1, <3>2, <3>5, <3>6
  <2>3. Below(s) = 0 - 1 /\ n = 0 /\ s.term.row = tp
    BY <1>3, <1>5, <1>7, <1>9, <2>2 DEF Below, A
  <2>4. Lowest(s.term.row, Below(s)) = tp + n
    BY <1>3, <2>3 DEF Lowest
  <2>5. (Len(w) - 1) \div Cols <= tp - tp
    BY <1>3, <1>6, <2>1, <2>2
  <2>6. BlankFrom(s.term.cell, tp + 1)
    <3>1. tp >= tp
      BY <1>3
    <3> QED BY <1>1, <1>3, <1>6, <2>5, <3>1, ShowsBelow
  <2>7. tp + n + 1 = tp + 1 /\ s.term.row < Rows /\ Below(s) \in Int
    BY <1>2, <1>3, <2>3, Widths
  <2> QED BY <1>3, <1>7, <2>4, <2>6, <2>7
<1>10. Marks(m, s, t, p)
  BY DEF Drawing
<1> QED BY <1>8, <1>9, <1>10 DEF Marks

(* What refreshMultiLine first does to a line that is shown. *)
CleanOps(s) == CleanUp(Below(s), Most(s.oldrows - 1, 0)) \o <<CR, EraseRight>>

LEMMA MultiCleaned ==
  ASSUME NEW m \in Modes, m.multi, NEW t \in Lines, NEW p \in 0 .. Len(t), NEW h \in Seq(Glyphs),
         NEW tp \in 0 .. MaxTop, NEW s, Drawing(m, s, tp, t, p, h)
  PROVE  /\ CleanOps(s) \in Seq(Ops)
         /\ \E c \in Sheets : /\ BlankFrom(c, tp) /\ SameAbove(s.term.cell, c, tp)
                              /\ Write(s.term, CleanOps(s)) = Still(c, tp, 0)
<1> DEFINE n == Most(s.oldrows - 1, 0)
           b == Below(s)
           r == Lowest(s.term.row, b)
<1>1. s.term \in Terms /\ s.term.cell \in Sheets
  BY ScreenIs, TermIs DEF Drawing
<1>2. tp \in Nat /\ s.term.row < Rows /\ b \in Int /\ n \in Nat /\ r = tp + n /\ BlankFrom(s.term.cell, tp + n + 1)
  BY OldRows
<1>3. CleanOps(s) = CleanUp(b, n) \o <<CR, EraseRight>>
  BY DEF CleanOps
<1> HIDE DEF n, b
<1>4. /\ CleanUp(b, n) \o <<CR, EraseRight>> \in Seq(Ops)
      /\ \E cell : /\ Wiped(s.term.cell, cell, Most(r - n, 0), r)
                   /\ Write(s.term, CleanUp(b, n) \o <<CR, EraseRight>>) = Still(cell, Most(r - n, 0), 0)
  BY <1>1, <1>2, Cleaned
<1> HIDE DEF r
<1>5. Most(r - n, 0) = tp /\ r \in Nat
  BY <1>2 DEF Most
<1>6. PICK c : Wiped(s.term.cell, c, tp, r) /\ Write(s.term, CleanUp(b, n) \o <<CR, EraseRight>>) = Still(c, tp, 0)
  BY <1>4, <1>5
<1>7. BlankFrom(s.term.cell, r + 1)
  BY <1>2
<1>8. BlankFrom(c, tp) /\ SameAbove(s.term.cell, c, tp) /\ c \in Sheets
  BY <1>1, <1>2, <1>5, <1>6, <1>7, WipedBlank DEF Wiped
<1> QED BY <1>3, <1>4, <1>6, <1>8

(* The same on a sheet that was cleared, where oldpos and oldrows are stale. *)
LEMMA BlankCleaned ==
  ASSUME NEW s \in Screens, s.term.row = 0, BlankFrom(s.term.cell, 0)
  PROVE  /\ CleanOps(s) \in Seq(Ops)
         /\ \E c \in Sheets : BlankFrom(c, 0) /\ Write(s.term, CleanOps(s)) = Still(c, 0, 0)
<1> DEFINE n == Most(s.oldrows - 1, 0)
           b == Below(s)
           r == Lowest(s.term.row, b)
<1>1. s.term \in Terms /\ s.term.cell \in Sheets /\ s.oldrows \in Nat /\ s.oldpos \in Nat /\ s.term.row < Rows
  BY ScreenIs, TermIs, Widths
<1>2. RowAt(s.oldpos) \in Nat /\ RowAt(s.oldpos) >= 1
  BY <1>1, RowAtIs
<1>3. n \in Nat /\ b \in Int /\ (b > 0 => b <= n)
  BY <1>1, <1>2 DEF Most, Below
<1>4. CleanOps(s) = CleanUp(b, n) \o <<CR, EraseRight>>
  BY DEF CleanOps
<1> HIDE DEF n, b
<1>5. /\ CleanUp(b, n) \o <<CR, EraseRight>> \in Seq(Ops)
      /\ \E cell : /\ Wiped(s.term.cell, cell, Most(r - n, 0), r)
                   /\ Write(s.term, CleanUp(b, n) \o <<CR, EraseRight>>) = Still(cell, Most(r - n, 0), 0)
  BY <1>1, <1>3, Cleaned
<1>6. r \in Nat /\ Most(r - n, 0) = 0
  <2>1. CASE b > 0
    BY <1>3, <2>1, Widths DEF Lowest, Least, Most
  <2>2. CASE ~(b > 0)
    BY <1>3, <2>2 DEF Lowest, Most
  <2> QED BY <2>1, <2>2
<1> HIDE DEF r
<1>7. PICK c : Wiped(s.term.cell, c, 0, r) /\ Write(s.term, CleanUp(b, n) \o <<CR, EraseRight>>) = Still(c, 0, 0)
  BY <1>5, <1>6
<1>8. BlankFrom(s.term.cell, r + 1)
  BY <1>6, Widths DEF BlankFrom
<1>9. BlankFrom(c, 0) /\ c \in Sheets
  BY <1>1, <1>6, <1>7, <1>8, WipedBlank, ZeroIs DEF Wiped
<1> QED BY <1>4, <1>5, <1>7, <1>9

-----------------------------------------------------------------------------
(* What each refresh writes.                                                *)

LEMMA MultiAll ==
  ASSUME NEW s, NEW t, NEW p, NEW h
  PROVE  refreshMultiLine(s, t, p, "all", h) =
           [term |-> Write(s.term, CleanOps(s) \o MultiOps(mode, t, p, h)), oldrows |-> RowsFor(t, p), oldpos |-> p]
<1>1. Writes("all") /\ Cleans("all")
  BY DEF Writes, Cleans
<1>2. Whole(mode, t, h) = Prompt \o Masked(t) \o refreshShowHints(t, h)
  BY DEF Whole, Masked, MaskMode, MaskOf
<1> QED BY <1>1, <1>2 DEF refreshMultiLine, When, CleanOps, CleanUp, Below, RowsAbove, MultiOps, RowsFor

LEMMA MultiWrite ==
  ASSUME NEW s, NEW t, NEW p, NEW h
  PROVE  refreshMultiLine(s, t, p, "write", h) =
           [term |-> Write(s.term, <<>> \o <<CR, EraseRight>> \o MultiOps(mode, t, p, h)),
            oldrows |-> RowsFor(t, p), oldpos |-> p]
<1>1. Writes("write") /\ ~Cleans("write")
  BY DEF Writes, Cleans
<1>2. Whole(mode, t, h) = Prompt \o Masked(t) \o refreshShowHints(t, h)
  BY DEF Whole, Masked, MaskMode, MaskOf
<1> QED BY <1>1, <1>2 DEF refreshMultiLine, When, MultiOps, RowsFor

LEMMA MultiClean ==
  ASSUME NEW s, NEW t, NEW p, NEW h, RowsOf(Len(t)) \in Nat
  PROVE  refreshMultiLine(s, t, p, "clean", h) =
           [term |-> Write(s.term, CleanOps(s) \o <<>>), oldrows |-> RowsOf(Len(t)), oldpos |-> p]
<1>1. ~Writes("clean") /\ Cleans("clean")
  BY DEF Writes, Cleans
<1>2. RowsOf(Len(t)) + 0 = RowsOf(Len(t))
  OBVIOUS
<1> QED BY <1>1, <1>2 DEF refreshMultiLine, When, CleanOps, CleanUp, Below, RowsAbove

LEMMA SingleWrite ==
  ASSUME NEW s, NEW t, NEW p, NEW h, NEW f, Writes(f)
  PROVE  refreshSingleLine(s, t, p, f, h) = [s EXCEPT !.term = Write(s.term, SingleOps(mode, t, p, h))]
<1>1. Written(mode, t, p, h) = Prompt \o Masked(Window(t, p)) \o refreshShowHints(t, h)
  BY DEF Written, Masked, MaskMode, MaskOf
<1> QED BY <1>1 DEF refreshSingleLine, When, SingleOps

LEMMA SingleClean ==
  ASSUME NEW s, NEW t, NEW p, NEW h
  PROVE  refreshSingleLine(s, t, p, "clean", h) =
           [s EXCEPT !.term = Write(s.term, <<CR>> \o <<>> \o <<EraseRight>> \o <<>>)]
<1>1. ~Writes("clean")
  BY DEF Writes
<1> QED BY <1>1 DEF refreshSingleLine, When

-----------------------------------------------------------------------------
(* A refresh replaces the line that is shown by the one that was asked for. *)

LEMMA MakeScreen ==
  ASSUME NEW u \in Terms, NEW n \in Nat, NEW p \in Nat
  PROVE  [term |-> u, oldrows |-> n, oldpos |-> p] \in Screens
BY DEF Screens

LEMMA PutTerm ==
  ASSUME NEW s \in Screens, NEW u \in Terms
  PROVE  /\ [s EXCEPT !.term = u] \in Screens /\ [s EXCEPT !.term = u].term = u
         /\ [s EXCEPT !.term = u].oldpos = s.oldpos /\ [s EXCEPT !.term = u].oldrows = s.oldrows
BY DEF Screens

(* refreshMultiLine, once the rows are blank. *)
LEMMA MultiGood ==
  ASSUME NEW m \in Modes, m.multi, NEW t \in Lines, NEW p \in 0 .. Len(t), NEW h \in Seq(Glyphs),
         NEW tp \in 0 .. MaxTop, NEW c \in Sheets, BlankFrom(c, tp)
  PROVE  LET u == Write(Still(c, tp, 0), MultiOps(m, t, p, h))
             s == [term |-> u, oldrows |-> RowsFor(t, p), oldpos |-> p]
         IN  Drawing(m, s, tp, t, p, h) /\ SameAbove(c, s.term.cell, tp)
<1> DEFINE u == Write(Still(c, tp, 0), MultiOps(m, t, p, h))
           s == [term |-> u, oldrows |-> RowsFor(t, p), oldpos |-> p]
           r == tp + (PLen + p) \div Cols
           k == (PLen + p) % Cols
<1>1. PICK d \in Sheets : Shows(d, tp, Whole(m, t, h)) /\ SameAbove(c, d, tp) /\ u = Still(d, r, k)
  BY MultiDrawn
<1>2. p \in Nat /\ PLen + p \in Nat /\ tp \in Nat /\ RowsFor(t, p) \in Nat
  BY LineIs, Widths, SheetIsEnough, RowsForIs
<1>3. r \in Nat /\ k \in 0 .. Cols - 1
  <2>1. (PLen + p) \div Cols \in Nat /\ k \in 0 .. Cols - 1
    BY <1>2, DivMod
  <2> QED BY <1>2, <2>1
<1> HIDE DEF u
<1>4. u \in Terms /\ u.cell = d /\ u.row = r /\ u.col = k /\ ~u.wrap
  <2> HIDE DEF r, k
  <2> QED BY <1>1, <1>3, StillIs, StillType
<1>5. s \in Screens
  BY <1>2, <1>4, MakeScreen
<1>6. s.term = u /\ s.oldrows = RowsFor(t, p) /\ s.oldpos = p
  OBVIOUS
<1> HIDE DEF s
<1>7. CursorAt(m, s.term, tp, p)
  BY <1>4, <1>6 DEF CursorAt
<1>8. Shows(s.term.cell, tp, Shown(m, t, p, h))
  BY <1>1, <1>4, <1>6 DEF Shown
<1>9. Marks(m, s, t, p)
  BY <1>6 DEF Marks
<1>10. Drawing(m, s, tp, t, p, h)
  BY <1>4, <1>5, <1>6, <1>7, <1>8, <1>9 DEF Drawing
<1>11. SameAbove(c, s.term.cell, tp)
  BY <1>1, <1>4, <1>6
<1> QED BY <1>10, <1>11 DEF s, u

LEMMA SingleGood ==
  ASSUME NEW m \in Modes, ~m.multi, NEW t \in Lines, NEW p \in 0 .. Len(t), NEW h \in Seq(Glyphs),
         NEW s \in Screens, NEW tp \in 0 .. MaxTop, s.term.row = tp, BlankFrom(s.term.cell, tp + 1)
  PROVE  LET n == [s EXCEPT !.term = Write(s.term, SingleOps(m, t, p, h))]
         IN  Drawing(m, n, tp, t, p, h) /\ SameAbove(s.term.cell, n.term.cell, tp)
<1> DEFINE u == Write(s.term, SingleOps(m, t, p, h))
           n == [s EXCEPT !.term = u]
           k == Least(PLen + p, Cols - 1)
<1>1. s.term \in Terms /\ s.term.row < Rows /\ tp \in Nat
  <2>1. tp \in Nat /\ tp < Rows
    BY RowsFit, RowsForIs, Widths
  <2> QED BY <2>1, ScreenIs
<1>2. BlankFrom(s.term.cell, s.term.row + 1)
  OBVIOUS
<1>3. PICK d \in Sheets : /\ Shows(d, s.term.row, Shown(m, t, p, h)) /\ SameAbove(s.term.cell, d, s.term.row)
                          /\ u = Still(d, s.term.row, k)
  BY <1>1, <1>2, SingleDrawn
<1>4. k \in 0 .. Cols - 1
  BY LineIs, Widths DEF Least
<1> HIDE DEF u, k
<1>5. u \in Terms /\ u.cell = d /\ u.row = tp /\ u.col = k /\ ~u.wrap
  BY <1>1, <1>3, <1>4, StillIs, StillType
<1>6. n \in Screens /\ n.term = u
  BY <1>5, PutTerm
<1> HIDE DEF n
<1>7. CursorAt(m, n.term, tp, p) /\ Marks(m, n, t, p)
  BY <1>5, <1>6 DEF CursorAt, Marks, k
<1>8. Shows(n.term.cell, tp, Shown(m, t, p, h)) /\ SameAbove(s.term.cell, n.term.cell, tp)
  BY <1>3, <1>5, <1>6
<1>9. Drawing(m, n, tp, t, p, h)
  BY <1>5, <1>6, <1>7, <1>8 DEF Drawing
<1> QED BY <1>8, <1>9 DEF n, u

LEMMA SameAboveTwice ==
  ASSUME NEW a, NEW b, NEW c, NEW tp, SameAbove(a, b, tp), SameAbove(b, c, tp)
  PROVE  SameAbove(a, c, tp)
BY DEF SameAbove

(* In single-line mode nothing is shown below the row of the prompt. *)
LEMMA SingleBelow ==
  ASSUME NEW m \in Modes, ~m.multi, NEW t \in Lines, NEW p \in 0 .. Len(t), NEW h \in Seq(Glyphs),
         NEW tp \in 0 .. MaxTop, NEW s, Drawing(m, s, tp, t, p, h)
  PROVE  s.term.row = tp /\ BlankFrom(s.term.cell, tp + 1)
<1> DEFINE w == Shown(m, t, p, h)
<1>1. s.term.row = tp /\ Shows(s.term.cell, tp, w) /\ s.term.cell \in Sheets
  BY ScreenIs, TermIs DEF Drawing, CursorAt
<1>2. t \in Seq(Glyphs)
  BY LineIs
<1>3. w \in Seq(Glyphs) /\ Len(w) = Least(Len(Written(m, t, p, h)), Cols - 1)
  BY <1>2, ShownIs
<1>4. Len(Written(m, t, p, h)) \in 1 .. Cols
  BY <1>2, WrittenIs
<1> HIDE DEF w
<1>5. Len(w) - 1 \in Nat /\ Len(w) - 1 < Cols
  BY <1>3, <1>4, Widths DEF Least
<1>6. (Len(w) - 1) \div Cols = 0
  BY <1>5, DivSmall
<1>7. tp \in Nat /\ tp >= tp /\ tp - tp = 0
  BY RowsFit
<1>8. (Len(w) - 1) \div Cols <= tp - tp
  BY <1>6, <1>7
<1>9. BlankFrom(s.term.cell, tp + 1)
  BY <1>1, <1>3, <1>7, <1>8, ShowsBelow
<1> QED BY <1>1, <1>9

LEMMA Redrawn ==
  ASSUME mode \in Modes, NEW t0 \in Lines, NEW p0 \in 0 .. Len(t0), NEW h0 \in Seq(Glyphs),
         NEW t \in Lines, NEW p \in 0 .. Len(t), NEW h \in Seq(Glyphs),
         NEW tp \in 0 .. MaxTop, NEW s, Drawing(mode, s, tp, t0, p0, h0)
  PROVE  LET n == refreshLineWithFlags(s, t, p, "all", h)
         IN  Drawing(mode, n, tp, t, p, h) /\ SameAbove(s.term.cell, n.term.cell, tp)
<1> DEFINE n == refreshLineWithFlags(s, t, p, "all", h)
<1>1. s \in Screens /\ s.term \in Terms
  BY ScreenIs DEF Drawing
<1>2. CASE mode.multi
  <2> DEFINE co == CleanOps(s)
             mo == MultiOps(mode, t, p, h)
  <2>1. co \in Seq(Ops)
    BY <1>2, MultiCleaned
  <2>2. PICK c \in Sheets : /\ BlankFrom(c, tp) /\ SameAbove(s.term.cell, c, tp)
                            /\ Write(s.term, co) = Still(c, tp, 0)
    BY <1>2, MultiCleaned
  <2>3. mo \in Seq(Ops)
    BY <2>2, MultiDrawn
  <2>4. n = [term |-> Write(s.term, co \o mo), oldrows |-> RowsFor(t, p), oldpos |-> p]
    BY <1>2, MultiAll DEF refreshLineWithFlags, MultiLine
  <2> HIDE DEF co, n
  <2>5. Write(s.term, co \o mo) = Write(Still(c, tp, 0), mo)
    <3> HIDE DEF mo
    <3> QED BY <1>1, <2>1, <2>2, <2>3, WriteTwo
  <2> DEFINE v == [term |-> Write(Still(c, tp, 0), mo), oldrows |-> RowsFor(t, p), oldpos |-> p]
  <2>6. n = v
    BY <2>4, <2>5
  <2>7. Drawing(mode, v, tp, t, p, h) /\ SameAbove(c, v.term.cell, tp)
    BY <1>2, <2>2, MultiGood
  <2> HIDE DEF v
  <2>8. SameAbove(s.term.cell, n.term.cell, tp)
    BY <2>2, <2>6, <2>7, SameAboveTwice
  <2> QED BY <2>6, <2>7, <2>8 DEF n
<1>3. CASE ~mode.multi
  <2>1. n = [s EXCEPT !.term = Write(s.term, SingleOps(mode, t, p, h))]
    <3>1. Writes("all")
      BY DEF Writes
    <3> QED BY <1>3, <3>1, SingleWrite DEF refreshLineWithFlags, MultiLine
  <2>2. s.term.row = tp /\ BlankFrom(s.term.cell, tp + 1)
    BY <1>3, SingleBelow
  <2> HIDE DEF n
  <2>3. Drawing(mode, n, tp, t, p, h) /\ SameAbove(s.term.cell, n.term.cell, tp)
    BY <1>1, <1>3, <2>1, <2>2, SingleGood
  <2> QED BY <2>3 DEF n
<1> QED BY <1>2, <1>3

(* "\r" and an erase at the start of a blank row change nothing there. *)
LEMMA ErasedBlank ==
  ASSUME NEW u \in Terms, NEW tp \in 0 .. Rows - 1, u.row = tp, BlankFrom(u.cell, tp + 1)
  PROVE  \E c \in Sheets : /\ BlankFrom(c, tp) /\ SameAbove(u.cell, c, tp)
                           /\ Write(u, <<CR, EraseRight>>) = Still(c, tp, 0)
<1> DEFINE c == Erased(u.cell, tp, 0)
<1>1. u.cell \in Sheets /\ tp \in Nat
  BY TermIs, Widths
<1>2. c \in Sheets /\ \A q \in 0 .. Rows - 1 : c[q] = IF q = tp THEN BlankRow ELSE u.cell[q]
  BY <1>1, ErasedRow
<1>3. Write(u, <<CR, EraseRight>>) = Still(c, tp, 0)
  BY EraseRow
<1> HIDE DEF c
<1>4. \A q \in 0 .. Rows - 1 : q \in Nat
  BY Widths
<1>5. BlankFrom(c, tp) /\ SameAbove(u.cell, c, tp)
  BY <1>1, <1>2, <1>4 DEF BlankFrom, SameAbove
<1> QED BY <1>2, <1>3, <1>5

LEMMA TopFits ==
  ASSUME NEW tp \in 0 .. MaxTop
  PROVE  tp \in Nat /\ tp \in 0 .. Rows - 1 /\ tp + 1 < Rows
<1>1. <<>> \in Seq(Glyphs) /\ Len(<<>>) = 0
  BY EmptySeq
<1>2. <<>> \in Lines /\ 0 \in 0 .. Len(<<>>)
  BY <1>1, SheetIsEnough DEF Lines
<1>3. tp \in Nat /\ tp + RowsFor(<<>>, 0) < Rows /\ RowsFor(<<>>, 0) \in Nat /\ RowAt(0) \in 1 .. RowsFor(<<>>, 0)
  BY <1>2, RowsFit, RowsForIs
<1> QED BY <1>3, Widths

LEMMA Reshown ==
  ASSUME mode \in Modes, NEW t \in Lines, NEW p \in 0 .. Len(t), NEW h \in Seq(Glyphs),
         NEW tp \in 0 .. MaxTop, NEW s, Bare(s, tp)
  PROVE  LET n == refreshLineWithFlags(s, t, p, "write", h)
         IN  Drawing(mode, n, tp, t, p, h) /\ SameAbove(s.term.cell, n.term.cell, tp)
<1> DEFINE n == refreshLineWithFlags(s, t, p, "write", h)
<1>1. s \in Screens /\ s.term \in Terms /\ s.term.row = tp /\ BlankFrom(s.term.cell, tp + 1)
  <2>1. \A q \in 0 .. Rows - 1 : q \in Nat /\ tp \in Nat
    BY Widths, TopFits
  <2> QED BY <2>1, ScreenIs DEF Bare, BlankFrom
<1>2. CASE mode.multi
  <2> DEFINE eo == <<CR, EraseRight>>
             mo == MultiOps(mode, t, p, h)
  <2>1. eo \in Seq(Ops) /\ <<>> \o eo = eo
    BY OpsAre, ConcatEmptySeq
  <2>2. PICK c \in Sheets : /\ BlankFrom(c, tp) /\ SameAbove(s.term.cell, c, tp)
                            /\ Write(s.term, eo) = Still(c, tp, 0)
    BY <1>1, TopFits, ErasedBlank
  <2>3. mo \in Seq(Ops)
    BY <2>2, MultiDrawn
  <2>4. n = [term |-> Write(s.term, <<>> \o eo \o mo), oldrows |-> RowsFor(t, p), oldpos |-> p]
    BY <1>2, MultiWrite DEF refreshLineWithFlags, MultiLine
  <2> HIDE DEF eo, n
  <2>5. Write(s.term, <<>> \o eo \o mo) = Write(Still(c, tp, 0), mo)
    <3> HIDE DEF mo
    <3>1. Write(s.term, eo \o mo) = Write(Still(c, tp, 0), mo)
      BY <1>1, <2>1, <2>2, <2>3, WriteTwo
    <3> QED BY <2>1, <3>1
  <2> DEFINE v == [term |-> Write(Still(c, tp, 0), mo), oldrows |-> RowsFor(t, p), oldpos |-> p]
  <2>6. n = v
    BY <2>4, <2>5
  <2>7. Drawing(mode, v, tp, t, p, h) /\ SameAbove(c, v.term.cell, tp)
    BY <1>2, <2>2, MultiGood
  <2> HIDE DEF v
  <2>8. SameAbove(s.term.cell, n.term.cell, tp)
    BY <2>2, <2>6, <2>7, SameAboveTwice
  <2> QED BY <2>6, <2>7, <2>8 DEF n
<1>3. CASE ~mode.multi
  <2>1. n = [s EXCEPT !.term = Write(s.term, SingleOps(mode, t, p, h))]
    <3>1. Writes("write")
      BY DEF Writes
    <3> QED BY <1>3, <3>1, SingleWrite DEF refreshLineWithFlags, MultiLine
  <2> HIDE DEF n
  <2>2. Drawing(mode, n, tp, t, p, h) /\ SameAbove(s.term.cell, n.term.cell, tp)
    BY <1>1, <1>3, <2>1, SingleGood
  <2> QED BY <2>2 DEF n
<1> QED BY <1>2, <1>3

LEMMA MadeBare ==
  ASSUME NEW s, s \in Screens, NEW c \in Sheets, NEW tp \in Nat, s.term = Still(c, tp, 0), BlankFrom(c, tp)
  PROVE  Bare(s, tp) /\ s.term.cell = c
BY StillIs DEF Bare

LEMMA Undrawn ==
  ASSUME mode \in Modes, NEW t0 \in Lines, NEW p0 \in 0 .. Len(t0), NEW h0 \in Seq(Glyphs),
         NEW t \in Lines, NEW p \in 0 .. Len(t), NEW h,
         NEW tp \in 0 .. MaxTop, NEW s, Drawing(mode, s, tp, t0, p0, h0)
  PROVE  LET n == refreshLineWithFlags(s, t, p, "clean", h)
         IN  Bare(n, tp) /\ SameAbove(s.term.cell, n.term.cell, tp)
<1> DEFINE n == refreshLineWithFlags(s, t, p, "clean", h)
<1>1. s \in Screens /\ s.term \in Terms /\ tp \in Nat /\ tp \in 0 .. Rows - 1
  BY ScreenIs, TopFits DEF Drawing
<1>2. CASE mode.multi
  <2> DEFINE co == CleanOps(s)
  <2>1. co \in Seq(Ops) /\ co \o <<>> = co
    <3>1. co \in Seq(Ops)
      BY <1>2, MultiCleaned
    <3> HIDE DEF co
    <3> QED BY <3>1, ConcatEmptySeq
  <2>2. PICK c \in Sheets : /\ BlankFrom(c, tp) /\ SameAbove(s.term.cell, c, tp)
                            /\ Write(s.term, co) = Still(c, tp, 0)
    BY <1>2, MultiCleaned
  <2>3. RowsOf(Len(t)) \in Nat /\ p \in Nat
    BY RowsForIs, LineIs
  <2>4. n = [term |-> Write(s.term, co \o <<>>), oldrows |-> RowsOf(Len(t)), oldpos |-> p]
    BY <1>2, <2>3, MultiClean DEF refreshLineWithFlags, MultiLine
  <2> HIDE DEF co, n
  <2>5. n = [term |-> Still(c, tp, 0), oldrows |-> RowsOf(Len(t)), oldpos |-> p]
    BY <2>1, <2>2, <2>4
  <2>6. n \in Screens /\ n.term = Still(c, tp, 0)
    BY <1>1, <2>3, <2>5, MakeScreen, StillType, ZeroIs
  <2>7. Bare(n, tp) /\ n.term.cell = c
    BY <1>1, <2>2, <2>6, MadeBare
  <2> QED BY <2>2, <2>7 DEF n
<1>3. CASE ~mode.multi
  <2> DEFINE o == <<CR>> \o <<>> \o <<EraseRight>> \o <<>>
  <2>1. n = [s EXCEPT !.term = Write(s.term, o)]
    BY <1>3, SingleClean DEF refreshLineWithFlags, MultiLine
  <2>2. o = <<CR, EraseRight>>
    <3>1. <<CR>> \in Seq(Ops) /\ <<CR, EraseRight>> \in Seq(Ops) /\ <<CR>> \o <<EraseRight>> = <<CR, EraseRight>>
      BY OpsAre, PairIs
    <3>2. <<CR>> \o <<>> = <<CR>>
      BY <3>1, ConcatEmptySeq
    <3>3. <<CR, EraseRight>> \o <<>> = <<CR, EraseRight>>
      BY <3>1, ConcatEmptySeq
    <3> QED BY <3>1, <3>2, <3>3
  <2>3. s.term.row = tp /\ BlankFrom(s.term.cell, tp + 1)
    BY <1>3, SingleBelow
  <2>4. PICK c \in Sheets : /\ BlankFrom(c, tp) /\ SameAbove(s.term.cell, c, tp)
                            /\ Write(s.term, <<CR, EraseRight>>) = Still(c, tp, 0)
    BY <1>1, <2>3, ErasedBlank
  <2> HIDE DEF o, n
  <2>5. n = [s EXCEPT !.term = Still(c, tp, 0)]
    BY <2>1, <2>2, <2>4
  <2>6. n \in Screens /\ n.term = Still(c, tp, 0)
    BY <1>1, <2>5, PutTerm, StillType, ZeroIs
  <2>7. Bare(n, tp) /\ n.term.cell = c
    BY <1>1, <2>4, <2>6, MadeBare
  <2> QED BY <2>4, <2>7 DEF n
<1> QED BY <1>2, <1>3

-----------------------------------------------------------------------------
(* The inductive invariant.  What a refresh has to erase it knows only from *)
(* oldpos and oldrows, and what it does not erase has to be blank already:   *)
(* the invariant ties both to the line that is shown.                       *)

(* The rows above the prompt hold what was written there. *)
Kept(cell, ab, tp) ==
  /\ ab \in Seq([0 .. Cols - 1 -> Glyphs]) /\ Len(ab) = tp
  /\ \A r \in 0 .. tp - 1 : cell[r] = ab[r + 1]

(* After enter the cursor is at the start of an empty row below the line. *)
Ended(m, u, tp, t) ==
  /\ u.col = 0 /\ u.cell[u.row] = BlankRow
  /\ u.row >= tp + RowsOf(IF m.multi THEN Len(t) ELSE 0)

Typed ==
  /\ text \in Lines /\ pos \in 0 .. Len(text)
  /\ drawn.line \in Lines /\ drawn.cur \in 0 .. Len(drawn.line) /\ drawn.hint \in {<<>>, mode.hint}
  /\ screen \in Screens /\ top \in 0 .. MaxTop /\ mode \in Modes
  /\ phase \in {"shown", "preview", "hidden", "preview hidden", "done"}

Inv ==
  /\ Typed
  /\ phase \in {"shown", "hidden"} => drawn.line = text /\ drawn.cur = pos
  /\ Visible => Drawing(mode, screen, top, drawn.line, drawn.cur, drawn.hint)
  /\ Hidden => Bare(screen, top)
  /\ phase = "done" => Ended(mode, screen.term, top, text)
  /\ Kept(screen.term.cell, above, top)

LEMMA KeptAbove ==
  ASSUME NEW old, NEW cell, NEW tp \in 0 .. MaxTop, NEW ab, Kept(old, ab, tp), SameAbove(old, cell, tp)
  PROVE  Kept(cell, ab, tp)
<1>1. \A r \in 0 .. tp - 1 : r \in 0 .. Rows - 1 /\ r < tp
  <2>1. tp \in Nat /\ tp \in 0 .. Rows - 1
    BY TopFits
  <2> QED BY <2>1, Widths
<1> QED BY <1>1 DEF Kept, SameAbove

LEMMA HintIs == ASSUME mode \in Modes PROVE mode.hint \in Seq(Glyphs) /\ Hint = mode.hint /\ MultiLine = mode.multi
BY ModeAssumption DEF Hint, MultiLine

(* What Inv says of a line that is shown. *)
LEMMA InvShows ==
  ASSUME Inv, Visible
  PROVE  /\ mode \in Modes /\ top \in 0 .. MaxTop /\ drawn.line \in Lines /\ drawn.cur \in 0 .. Len(drawn.line)
         /\ drawn.hint \in Seq(Glyphs)
         /\ Drawing(mode, screen, top, drawn.line, drawn.cur, drawn.hint) /\ Kept(screen.term.cell, above, top)
BY HintIs, EmptySeq DEF Inv, Typed

LEMMA Settled ==
  ASSUME mode \in Modes, mode' = mode, text' \in Lines, pos' \in 0 .. Len(text'),
         NEW t \in Lines, NEW p \in 0 .. Len(t), drawn' = [line |-> t, cur |-> p, hint |-> mode.hint],
         phase' \in {"shown", "preview"}, phase' = "shown" => t = text' /\ p = pos',
         top' \in 0 .. MaxTop, Drawing(mode, screen', top', t, p, mode.hint), Kept(screen'.term.cell, above', top')
  PROVE  Inv'
<1>1. drawn'.line = t /\ drawn'.cur = p /\ drawn'.hint = mode.hint
  OBVIOUS
<1>2. screen' \in Screens
  BY DEF Drawing
<1>3. Typed'
  BY <1>1, <1>2 DEF Typed
<1>4. Visible' /\ ~Hidden' /\ phase' # "done" /\ phase' # "hidden"
  BY DEF Visible, Hidden
<1>5. Drawing(mode', screen', top', drawn'.line, drawn'.cur, drawn'.hint)
  BY <1>1
<1> QED BY <1>1, <1>3, <1>4, <1>5 DEF Inv

(* An action that ends with refreshLine. *)
LEMMA RefreshedLine ==
  ASSUME Inv, Visible, mode' = mode, NEW t \in Lines, NEW p \in 0 .. Len(t), text' = t, pos' = p, refreshLine(t, p)
  PROVE  Inv'
<1>1. /\ mode \in Modes /\ top \in 0 .. MaxTop /\ drawn.line \in Lines /\ drawn.cur \in 0 .. Len(drawn.line)
      /\ drawn.hint \in Seq(Glyphs)
      /\ Drawing(mode, screen, top, drawn.line, drawn.cur, drawn.hint) /\ Kept(screen.term.cell, above, top)
  BY InvShows
<1>2. mode.hint \in Seq(Glyphs) /\ Hint = mode.hint
  BY <1>1, HintIs
<1>3. /\ screen' = refreshLineWithFlags(screen, t, p, "all", mode.hint) /\ phase' = "shown" /\ top' = top /\ above' = above
      /\ drawn' = [line |-> t, cur |-> p, hint |-> mode.hint]
  BY <1>2 DEF refreshLine, Drawn, sheetVars
<1>4. Drawing(mode, screen', top, t, p, mode.hint) /\ SameAbove(screen.term.cell, screen'.term.cell, top)
  BY <1>1, <1>2, <1>3, Redrawn
<1>5. Kept(screen'.term.cell, above, top)
  BY <1>1, <1>4, KeptAbove
<1> QED BY <1>1, <1>3, <1>4, <1>5, Settled

LEMMA EmptyLine == <<>> \in Lines /\ Len(<<>>) = 0 /\ <<>> \in Seq(Glyphs)
BY EmptySeq, SheetIsEnough DEF Lines

LEMMA MoveKeeps ==
  ASSUME Inv, mode' = mode, NEW p \in 0 .. Len(text), Move(p)
  PROVE  Inv'
<1>1. Visible /\ text \in Lines /\ text' = text /\ pos' = p /\ refreshLine(text, p)
  BY DEF Move, Becomes, Visible, Inv, Typed
<1> QED BY <1>1, RefreshedLine

LEMMA DeleteKeeps ==
  ASSUME Inv, mode' = mode, NEW i \in 1 .. Len(text), NEW j \in 1 .. Len(text), i <= j, Delete(i, j)
  PROVE  Inv'
<1> DEFINE a == SubSeq(text, 1, i - 1)
           b == SubSeq(text, j + 1, Len(text))
           t == a \o b
<1>1. text \in Seq(Glyphs) /\ Len(text) \in Nat /\ Len(text) <= MaxText
  BY LineIs DEF Inv, Typed
<1>2. Visible /\ text' = t /\ pos' = i - 1 /\ refreshLine(t, i - 1)
  BY DEF Delete, Becomes, Visible
<1>3. a \in Seq(Glyphs) /\ Len(a) = i - 1
  <2>1. 0 \in 0 .. Len(text) /\ i - 1 \in 0 .. Len(text) /\ (i - 1) - 0 = i - 1
    BY <1>1
  <2>2. SubSeq(text, 0 + 1, i - 1) \in Seq(Glyphs) /\ Len(SubSeq(text, 0 + 1, i - 1)) = (i - 1) - 0
    BY <1>1, <2>1, PartIs
  <2> QED BY <2>1, <2>2
<1>4. b \in Seq(Glyphs) /\ Len(b) = Len(text) - j
  <2>1. j \in 0 .. Len(text) /\ Len(text) \in j .. Len(text)
    BY <1>1
  <2> QED BY <1>1, <2>1, PartIs
<1> HIDE DEF a, b
<1>5. t \in Seq(Glyphs) /\ Len(t) = (i - 1) + (Len(text) - j)
  <2>1. a \in Seq(Glyphs) /\ b \in Seq(Glyphs)
    BY <1>3, <1>4
  <2>2. t \in Seq(Glyphs) /\ Len(t) = Len(a) + Len(b)
    BY <2>1, ConcatProperties
  <2> QED BY <1>3, <1>4, <2>2
<1> HIDE DEF t
<1>6. t \in Lines /\ i - 1 \in 0 .. Len(t)
  BY <1>1, <1>5, SheetIsEnough DEF Lines
<1> QED BY <1>2, <1>6, RefreshedLine

LEMMA RecallKeeps ==
  ASSUME Inv, mode' = mode, NEW t \in Recalls, Recall(t)
  PROVE  Inv'
<1>1. t \in Lines
  BY LinesFit DEF Lines
<1>2. Len(t) \in 0 .. Len(t)
  BY <1>1, LineIs
<1>3. Visible /\ text' = t /\ pos' = Len(t) /\ refreshLine(t, Len(t))
  BY DEF Recall, Becomes
<1> QED BY <1>1, <1>2, <1>3, RefreshedLine

LEMMA CancelKeeps ==
  ASSUME Inv, mode' = mode, Cancel
  PROVE  Inv'
<1>1. Visible /\ text \in Lines /\ pos \in 0 .. Len(text) /\ text' = text /\ pos' = pos /\ refreshLine(text, pos)
  BY DEF Cancel, Visible, Inv, Typed
<1> QED BY <1>1, RefreshedLine

LEMMA PreviewKeeps ==
  ASSUME Inv, mode' = mode, NEW w \in Words, Preview(w)
  PROVE  Inv'
<1>1. /\ mode \in Modes /\ top \in 0 .. MaxTop /\ drawn.line \in Lines /\ drawn.cur \in 0 .. Len(drawn.line)
      /\ drawn.hint \in Seq(Glyphs)
      /\ Drawing(mode, screen, top, drawn.line, drawn.cur, drawn.hint) /\ Kept(screen.term.cell, above, top)
  BY InvShows DEF Preview
<1>2. mode.hint \in Seq(Glyphs) /\ Hint = mode.hint
  BY <1>1, HintIs
<1>3. w \in Lines
  BY LinesFit DEF Lines
<1>4. Len(w) \in 0 .. Len(w)
  BY <1>3, LineIs
<1>5. /\ screen' = refreshLineWithFlags(screen, w, Len(w), "all", mode.hint) /\ phase' = "preview" /\ top' = top /\ above' = above
      /\ drawn' = [line |-> w, cur |-> Len(w), hint |-> mode.hint] /\ text' = text /\ pos' = pos
  BY <1>2 DEF Preview, Drawn, sheetVars
<1>6. Drawing(mode, screen', top, w, Len(w), mode.hint) /\ SameAbove(screen.term.cell, screen'.term.cell, top)
  BY <1>1, <1>2, <1>3, <1>4, <1>5, Redrawn
<1>7. Kept(screen'.term.cell, above, top)
  BY <1>1, <1>6, KeptAbove
<1>8. text' \in Lines /\ pos' \in 0 .. Len(text')
  BY <1>5 DEF Inv, Typed
<1>9. phase' # "shown" /\ phase' \in {"shown", "preview"}
  BY <1>5
<1> QED BY <1>1, <1>3, <1>4, <1>5, <1>6, <1>7, <1>8, <1>9, Settled

LEMMA ShowKeeps ==
  ASSUME Inv, mode' = mode, Show
  PROVE  Inv'
<1>1. /\ mode \in Modes /\ top \in 0 .. MaxTop /\ drawn.line \in Lines /\ drawn.cur \in 0 .. Len(drawn.line)
      /\ Bare(screen, top) /\ Kept(screen.term.cell, above, top) /\ text \in Lines /\ pos \in 0 .. Len(text)
      /\ phase \in {"hidden", "preview hidden"} /\ (phase = "hidden" => drawn.line = text /\ drawn.cur = pos)
  BY DEF Inv, Typed, Show, Hidden
<1>2. mode.hint \in Seq(Glyphs) /\ Hint = mode.hint
  BY <1>1, HintIs
<1>3. /\ screen' = refreshLineWithFlags(screen, drawn.line, drawn.cur, "write", mode.hint) /\ top' = top /\ above' = above
      /\ phase' = (IF phase = "hidden" THEN "shown" ELSE "preview")
      /\ drawn' = [line |-> drawn.line, cur |-> drawn.cur, hint |-> mode.hint] /\ text' = text /\ pos' = pos
  BY <1>2 DEF Show, Drawn, sheetVars
<1>4. /\ Drawing(mode, screen', top, drawn.line, drawn.cur, mode.hint)
      /\ SameAbove(screen.term.cell, screen'.term.cell, top)
  BY <1>1, <1>2, <1>3, Reshown
<1>5. Kept(screen'.term.cell, above, top)
  BY <1>1, <1>4, KeptAbove
<1>6. phase' \in {"shown", "preview"} /\ (phase' = "shown" => drawn.line = text' /\ drawn.cur = pos')
  BY <1>1, <1>3
<1>7. text' \in Lines /\ pos' \in 0 .. Len(text') /\ top' \in 0 .. MaxTop
  BY <1>1, <1>3
<1> QED BY <1>1, <1>3, <1>4, <1>5, <1>6, <1>7, Settled

-----------------------------------------------------------------------------
(* The other actions.                                                       *)

LEMMA OutputIs ==
  ASSUME NEW s \in Screens, NEW ops \in Seq(Ops)
  PROVE  /\ Output(s, ops) \in Screens /\ Output(s, ops).term = Write(s.term, ops) /\ Output(s, ops).term \in Terms
         /\ Output(s, ops).oldpos = s.oldpos /\ Output(s, ops).oldrows = s.oldrows
<1>1. s.term \in Terms
  BY ScreenIs
<1>2. Write(s.term, ops) \in Terms
  BY <1>1, WriteType
<1>3. Output(s, ops) = [s EXCEPT !.term = Write(s.term, ops)]
  BY DEF Output
<1> QED BY <1>2, <1>3, PutTerm

LEMMA KeptNone == ASSUME NEW cell PROVE Kept(cell, <<>>, 0)
BY DEF Kept

(* Ctrl-L: oldpos and oldrows still say where the line was. *)
LEMMA ClearDrawn ==
  ASSUME mode \in Modes, NEW t \in Lines, NEW p \in 0 .. Len(t), NEW h \in Seq(Glyphs), NEW s \in Screens
  PROVE  Drawing(mode, refreshLineWithFlags(Output(s, <<ClearAll>>), t, p, "all", h), 0, t, p, h)
<1> DEFINE o == Output(s, <<ClearAll>>)
           n == refreshLineWithFlags(o, t, p, "all", h)
           blank == [r \in 0 .. Rows - 1 |-> BlankRow]
<1>1. <<ClearAll>> \in Seq(Ops) /\ ClearAll \in Ops
  BY OpsAre
<1>2. o \in Screens /\ o.term \in Terms /\ o.term = Write(s.term, <<ClearAll>>)
  BY <1>1, OutputIs
<1>3. Write(s.term, <<ClearAll>>) = Still(blank, 0, 0)
  BY <1>1, ScreenIs, WriteOne, ApplyClear
<1>4. blank \in Sheets /\ BlankFrom(blank, 0)
  BY BlankSheet DEF BlankFrom
<1> HIDE DEF blank, o
<1>5. o.term.row = 0 /\ o.term.cell = blank /\ BlankFrom(o.term.cell, 0)
  BY <1>2, <1>3, <1>4, StillIs
<1>6. 0 \in 0 .. MaxTop
  BY SheetIsEnough
<1>7. CASE mode.multi
  <2> DEFINE co == CleanOps(o)
             mo == MultiOps(mode, t, p, h)
  <2>1. co \in Seq(Ops)
    BY <1>2, <1>5, BlankCleaned
  <2>2. PICK c \in Sheets : BlankFrom(c, 0) /\ Write(o.term, co) = Still(c, 0, 0)
    BY <1>2, <1>5, BlankCleaned
  <2>3. mo \in Seq(Ops)
    BY <1>6, <2>2, MultiDrawn
  <2>4. n = [term |-> Write(o.term, co \o mo), oldrows |-> RowsFor(t, p), oldpos |-> p]
    BY <1>7, MultiAll DEF refreshLineWithFlags, MultiLine
  <2> HIDE DEF co, n
  <2>5. Write(o.term, co \o mo) = Write(Still(c, 0, 0), mo)
    <3> HIDE DEF mo
    <3> QED BY <1>2, <2>1, <2>2, <2>3, WriteTwo
  <2> DEFINE v == [term |-> Write(Still(c, 0, 0), mo), oldrows |-> RowsFor(t, p), oldpos |-> p]
  <2>6. n = v
    BY <2>4, <2>5
  <2>7. Drawing(mode, v, 0, t, p, h)
    BY <1>6, <1>7, <2>2, MultiGood
  <2> HIDE DEF v
  <2> QED BY <2>6, <2>7 DEF n, o
<1>8. CASE ~mode.multi
  <2>1. n = [o EXCEPT !.term = Write(o.term, SingleOps(mode, t, p, h))]
    <3>1. Writes("all")
      BY DEF Writes
    <3> QED BY <1>8, <3>1, SingleWrite DEF refreshLineWithFlags, MultiLine
  <2>2. BlankFrom(o.term.cell, 0 + 1)
    <3>1. \A q \in 0 .. Rows - 1 : q >= 0
      BY Widths
    <3> QED BY <1>5, <3>1 DEF BlankFrom
  <2> HIDE DEF n
  <2>3. Drawing(mode, n, 0, t, p, h)
    BY <1>2, <1>5, <1>6, <1>8, <2>1, <2>2, SingleGood
  <2> QED BY <2>3 DEF n, o
<1> QED BY <1>7, <1>8

LEMMA ClearScreenKeeps ==
  ASSUME Inv, mode' = mode, ClearScreen
  PROVE  Inv'
<1>1. mode \in Modes /\ screen \in Screens /\ text \in Lines /\ pos \in 0 .. Len(text) /\ phase = "shown"
  BY DEF Inv, Typed, ClearScreen
<1>2. mode.hint \in Seq(Glyphs) /\ Hint = mode.hint
  BY <1>1, HintIs
<1>3. /\ screen' = refreshLineWithFlags(Output(screen, <<ClearAll>>), text, pos, "all", mode.hint) /\ top' = 0 /\ above' = <<>>
      /\ drawn' = [line |-> text, cur |-> pos, hint |-> mode.hint] /\ text' = text /\ pos' = pos /\ phase' = phase
  BY <1>2 DEF ClearScreen, Drawn
<1>4. Drawing(mode, screen', 0, text, pos, mode.hint)
  BY <1>1, <1>2, <1>3, ClearDrawn
<1>5. top' \in 0 .. MaxTop
  BY <1>3, SheetIsEnough
<1>6. Kept(screen'.term.cell, above', top')
  BY <1>3, KeptNone
<1>7. phase' \in {"shown", "preview"} /\ text' \in Lines /\ pos' \in 0 .. Len(text')
  BY <1>1, <1>3
<1> QED BY <1>1, <1>3, <1>4, <1>5, <1>6, <1>7, Settled

(* While the line is hidden. *)
LEMMA Concealed ==
  ASSUME Typed, mode' = mode, text' = text, pos' = pos, drawn' = drawn, top' \in 0 .. MaxTop,
         phase' \in {"hidden", "preview hidden"}, phase' = "hidden" => drawn.line = text /\ drawn.cur = pos,
         Bare(screen', top'), Kept(screen'.term.cell, above', top')
  PROVE  Inv'
<1>1. screen' \in Screens
  BY DEF Bare
<1>2. Typed'
  BY <1>1 DEF Typed
<1>3. ~Visible' /\ Hidden' /\ phase' # "done" /\ phase' # "shown"
  BY DEF Visible, Hidden
<1> QED BY <1>2, <1>3 DEF Inv

LEMMA HideKeeps ==
  ASSUME Inv, mode' = mode, Hide
  PROVE  Inv'
<1>1. /\ mode \in Modes /\ top \in 0 .. MaxTop /\ drawn.line \in Lines /\ drawn.cur \in 0 .. Len(drawn.line)
      /\ drawn.hint \in Seq(Glyphs)
      /\ Drawing(mode, screen, top, drawn.line, drawn.cur, drawn.hint) /\ Kept(screen.term.cell, above, top)
  BY InvShows DEF Hide
<1>2. /\ Typed /\ text \in Lines /\ pos \in 0 .. Len(text) /\ phase \in {"shown", "preview"}
      /\ (phase = "shown" => drawn.line = text /\ drawn.cur = pos)
  BY DEF Inv, Typed, Hide, Visible
<1>3. /\ screen' = refreshLineWithFlags(screen, text, pos, "clean", Hint) /\ top' = top /\ above' = above
      /\ phase' = (IF phase = "shown" THEN "hidden" ELSE "preview hidden")
      /\ drawn' = drawn /\ text' = text /\ pos' = pos
  BY DEF Hide, sheetVars
<1>4. Bare(screen', top) /\ SameAbove(screen.term.cell, screen'.term.cell, top)
  BY <1>1, <1>2, <1>3, Undrawn
<1>5. Kept(screen'.term.cell, above, top)
  BY <1>1, <1>4, KeptAbove
<1>6. phase' \in {"hidden", "preview hidden"} /\ (phase' = "hidden" => drawn.line = text /\ drawn.cur = pos)
  BY <1>2, <1>3
<1> QED BY <1>1, <1>2, <1>3, <1>4, <1>5, <1>6, Concealed

(* The program's own row. *)
LEMMA RowPrinted ==
  ASSUME NEW s, NEW tp \in 0 .. MaxTop, NEW ab, Bare(s, tp), Kept(s.term.cell, ab, tp)
  PROVE  LET n == Output(s, <<Put("x"), CR, LF>>) IN Bare(n, tp + 1) /\ Kept(n.term.cell, Append(ab, OutputRow), tp + 1)
<1> DEFINE n == Output(s, <<Put("x"), CR, LF>>)
           t == s.term
           c == PutCell(t.cell, tp, 0, "x")
           u == Apply(t, Put("x"))
<1>1. /\ s \in Screens /\ t \in Terms /\ t.cell \in Sheets /\ BlankFrom(t.cell, tp) /\ t.row = tp /\ t.col = 0 /\ ~t.wrap
  BY ScreenIs, TermIs DEF Bare
<1>2. tp \in Nat /\ tp \in 0 .. Rows - 1 /\ tp + 1 < Rows /\ tp + 1 \in Nat
  BY TopFits
<1>3. "x" \in Glyphs /\ BlankCell # "x" /\ Put("x") \in Ops
  BY GlyphsAssumption, OpsAre
<1>4. /\ c \in Sheets
      /\ \A q \in 0 .. Rows - 1, d \in 0 .. Cols - 1 : c[q][d] = IF q = tp /\ d = 0 THEN "x" ELSE t.cell[q][d]
  BY <1>1, <1>2, <1>3, PutCellIs, ZeroIs
<1>5. u \in Terms /\ u.cell = c /\ u.row = tp
  <2>1. u = Display(c, tp, Least(0 + 1, Cols - 1), 0 = Cols - 1)
    BY <1>1, ApplyPut
  <2> HIDE DEF c
  <2>2. u.cell = c /\ u.row = tp
    BY <2>1 DEF Display
  <2> QED BY <1>1, <1>3, <2>2, ApplyType
<1> HIDE DEF c, u, t
<1> DEFINE a == <<Put("x")>>
           b == <<CR, LF>>
<1>6. a \in Seq(Ops) /\ b \in Seq(Ops) /\ <<Put("x"), CR, LF>> = a \o b /\ a \o b \in Seq(Ops)
  BY <1>3, OpsAre
<1>7. Write(t, a) = u
  BY <1>1, <1>3, WriteOne DEF u
<1>8. Write(u, b) = Still(c, tp + 1, 0)
  BY <1>2, <1>5, NextRow
<1>9. Write(t, a \o b) = Still(c, tp + 1, 0)
  <2> HIDE DEF a, b
  <2> QED BY <1>1, <1>6, <1>7, <1>8, WriteTwo
<1>10. n \in Screens /\ n.term = Still(c, tp + 1, 0)
  <2>1. n = Output(s, a \o b)
    BY <1>6
  <2> HIDE DEF a, b, n
  <2> QED BY <1>1, <1>6, <1>9, <2>1, OutputIs DEF t
<1> HIDE DEF n
<1>11. ASSUME NEW q \in 0 .. Rows - 1, q # tp PROVE c[q] = t.cell[q]
  <2>1. \A d \in 0 .. Cols - 1 : c[q][d] = t.cell[q][d]
    BY <1>4, <1>11
  <2> QED BY <1>1, <1>4, <2>1, RowIs
<1>12. \A q \in 0 .. Rows - 1 : q \in Nat
  BY Widths
<1>13. BlankFrom(c, tp + 1)
  BY <1>1, <1>2, <1>11, <1>12 DEF BlankFrom
<1>14. Bare(n, tp + 1) /\ n.term.cell = c
  BY <1>2, <1>4, <1>10, <1>13, MadeBare
<1>15. OutputRow \in [0 .. Cols - 1 -> Glyphs] /\ c[tp] = OutputRow
  <2>1. OutputRow \in [0 .. Cols - 1 -> Glyphs]
        /\ \A d \in 0 .. Cols - 1 : OutputRow[d] = IF d = 0 THEN "x" ELSE BlankCell
    BY <1>3, GlyphsAssumption DEF OutputRow
  <2>2. t.cell[tp] = BlankRow
    BY <1>1, <1>2 DEF BlankFrom
  <2>3. \A d \in 0 .. Cols - 1 : c[tp][d] = IF d = 0 THEN "x" ELSE BlankCell
    BY <1>2, <1>4, <2>2, BlankRowIs
  <2>4. c[tp] \in [0 .. Cols - 1 -> Glyphs]
    BY <1>2, <1>4 DEF Sheets
  <2>5. \A d \in 0 .. Cols - 1 : c[tp][d] = OutputRow[d]
    BY <2>1, <2>3
  <2>6. c[tp] = [d \in 0 .. Cols - 1 |-> c[tp][d]]
    BY <2>4
  <2>7. OutputRow = [d \in 0 .. Cols - 1 |-> OutputRow[d]]
    BY <2>1
  <2> QED BY <2>1, <2>5, <2>6, <2>7
<1> DEFINE ab1 == Append(ab, OutputRow)
<1>16. Kept(c, ab1, tp + 1)
  <2>1. ab \in Seq([0 .. Cols - 1 -> Glyphs]) /\ Len(ab) = tp /\ \A r \in 0 .. tp - 1 : t.cell[r] = ab[r + 1]
    BY DEF Kept, t
  <2>2. /\ ab1 \in Seq([0 .. Cols - 1 -> Glyphs]) /\ Len(ab1) = tp + 1 /\ ab1[tp + 1] = OutputRow
        /\ \A i \in 1 .. tp : ab1[i] = ab[i]
    BY <1>15, <2>1, AppendProperties
  <2> HIDE DEF ab1
  <2> SUFFICES ASSUME NEW r \in 0 .. (tp + 1) - 1 PROVE c[r] = ab1[r + 1]
    BY <2>2 DEF Kept
  <2>3. CASE r = tp
    BY <1>15, <2>2, <2>3
  <2>4. CASE r # tp
    <3>1. r \in 0 .. Rows - 1 /\ r \in 0 .. tp - 1 /\ r + 1 \in 1 .. tp
      BY <1>2, <2>4, Widths
    <3> QED BY <1>11, <2>1, <2>2, <2>4, <3>1
  <2> QED BY <2>3, <2>4
<1> QED BY <1>14, <1>16 DEF n

LEMMA ProgramOutputKeeps ==
  ASSUME Inv, mode' = mode, ProgramOutput
  PROVE  Inv'
<1>1. /\ Typed /\ top \in 0 .. MaxTop /\ Bare(screen, top) /\ Kept(screen.term.cell, above, top)
      /\ phase \in {"hidden", "preview hidden"} /\ (phase = "hidden" => drawn.line = text /\ drawn.cur = pos)
  BY DEF Inv, Typed, ProgramOutput, Hidden
<1>2. /\ screen' = Output(screen, <<Put("x"), CR, LF>>) /\ top' = top + 1 /\ top < MaxTop
      /\ above' = Append(above, OutputRow)
      /\ phase' = phase /\ drawn' = drawn /\ text' = text /\ pos' = pos
  BY DEF ProgramOutput
<1>3. Bare(screen', top + 1) /\ Kept(screen'.term.cell, above', top + 1)
  BY <1>1, <1>2, RowPrinted
<1>4. top' \in 0 .. MaxTop
  <2>1. MaxTop \in Nat
    BY SheetIsEnough
  <2>2. top \in 0 .. MaxTop /\ top < MaxTop /\ top' = top + 1
    BY <1>1, <1>2
  <2> QED BY <2>1, <2>2
<1> QED BY <1>1, <1>2, <1>3, <1>4, Concealed

-----------------------------------------------------------------------------
(* A byte that is inserted.                                                 *)

LEMMA InsertIs ==
  ASSUME NEW t \in Seq(Glyphs), NEW p \in 0 .. Len(t), NEW c \in Glyphs
  PROVE  /\ InsertAt(t, p + 1, c) \in Seq(Glyphs) /\ Len(InsertAt(t, p + 1, c)) = Len(t) + 1
         /\ p = Len(t) => \A i \in 1 .. Len(t) + 1 : InsertAt(t, p + 1, c)[i] = IF i <= Len(t) THEN t[i] ELSE c
<1> DEFINE a == SubSeq(t, 1, p)
           b == <<c>>
           d == SubSeq(t, p + 1, Len(t))
<1>1. Len(t) \in Nat /\ p \in Nat /\ (p + 1) - 1 = p /\ p - 0 = p /\ 0 \in 0 .. Len(t) /\ Len(t) \in p .. Len(t) /\ 0 + 1 = 1
  BY LenProperties
<1>2. a \in Seq(Glyphs) /\ Len(a) = p /\ \A i \in 1 .. p : a[i] = t[i]
  <2>1. /\ SubSeq(t, 0 + 1, p) \in Seq(Glyphs) /\ Len(SubSeq(t, 0 + 1, p)) = p - 0
        /\ \A i \in 1 .. p - 0 : SubSeq(t, 0 + 1, p)[i] = t[0 + i]
    BY <1>1, PartIs
  <2> QED BY <1>1, <2>1
<1>3. b \in Seq(Glyphs) /\ Len(b) = 1 /\ b[1] = c
  OBVIOUS
<1>4. d \in Seq(Glyphs) /\ Len(d) = Len(t) - p
  BY <1>1, PartIs
<1>5. InsertAt(t, p + 1, c) = a \o b \o d
  BY <1>1 DEF InsertAt
<1> HIDE DEF a, b, d
<1>6. a \in Seq(Glyphs) /\ b \in Seq(Glyphs) /\ d \in Seq(Glyphs)
  BY <1>2, <1>3, <1>4
<1>7. /\ a \o b \o d \in Seq(Glyphs) /\ Len(a \o b \o d) = Len(a) + Len(b) + Len(d)
      /\ \A i \in 1 .. Len(a) + Len(b) : (a \o b \o d)[i] = IF i <= Len(a) THEN a[i] ELSE b[i - Len(a)]
  BY <1>6, ThreeIs
<1>8. Len(a \o b \o d) = Len(t) + 1
  BY <1>1, <1>2, <1>3, <1>4, <1>7
<1>9. ASSUME p = Len(t), NEW i \in 1 .. Len(t) + 1 PROVE (a \o b \o d)[i] = IF i <= Len(t) THEN t[i] ELSE c
  <2>1. (a \o b \o d)[i] = IF i <= p THEN a[i] ELSE b[i - p]
    BY <1>2, <1>3, <1>7, <1>9
  <2>2. CASE i <= p
    BY <1>1, <1>2, <1>9, <2>1, <2>2
  <2>3. CASE ~(i <= p)
    <3>1. i - p = 1
      BY <1>1, <1>9, <2>3
    <3> QED BY <1>3, <1>9, <2>1, <2>3, <3>1
  <2> QED BY <2>2, <2>3
<1> QED BY <1>5, <1>7, <1>8, <1>9

(* A line that leaves room in its row is shown from its first byte on. *)
LEMMA ShortIs ==
  ASSUME NEW m \in Modes, ~m.multi, NEW t \in Seq(Glyphs), NEW p \in 0 .. Len(t), PLen + Len(t) < Cols
  PROVE  /\ Shown(m, t, p, <<>>) \in Seq(Glyphs) /\ Len(Shown(m, t, p, <<>>)) = PLen + Len(t)
         /\ \A i \in 1 .. PLen + Len(t) :
              Shown(m, t, p, <<>>)[i] = IF i <= PLen THEN Prompt[i] ELSE IF m.mask THEN "*" ELSE t[i - PLen]
<1> DEFINE y == MaskOf(m, SubSeq(t, 1, Len(t)))
           e == refreshShowHints(t, <<>>)
           f == Prompt \o y \o e
<1>1. Len(t) \in Nat /\ <<>> \in Seq(Glyphs) /\ PLen + p < Cols
  BY LenProperties, EmptySeq, Widths
<1>2. Scrolled(p) = 0
  BY <1>1, ScrolledIs
<1>3. SubSeq(t, 1, Len(t)) = t
  BY SubSeqFull
<1>4. y \in Seq(Glyphs) /\ Len(y) = Len(t) /\ \A i \in 1 .. Len(t) : y[i] = IF m.mask THEN "*" ELSE t[i]
  BY <1>3, MaskIs
<1>5. e \in Seq(Glyphs) /\ Len(e) = 0
  BY <1>1, HintsAre
<1>6. Uncut(m, t, p, <<>>) = f
  BY <1>2 DEF Uncut
<1> HIDE DEF y, e
<1>7. /\ f \in Seq(Glyphs) /\ Len(f) = Len(Prompt) + Len(y) + Len(e)
      /\ \A i \in 1 .. Len(Prompt) + Len(y) : f[i] = IF i <= Len(Prompt) THEN Prompt[i] ELSE y[i - Len(Prompt)]
  <2>1. y \in Seq(Glyphs) /\ e \in Seq(Glyphs)
    BY <1>4, <1>5
  <2> QED BY <2>1, PromptIs, ThreeIs
<1>8. Len(f) = PLen + Len(t)
  BY <1>1, <1>4, <1>5, <1>7, PromptIs, Widths
<1> HIDE DEF f
<1>9. Shown(m, t, p, <<>>) = f
  <2>1. ~(Len(f) >= Cols)
    BY <1>1, <1>8, Widths
  <2>2. Shown(m, t, p, <<>>) = SubSeq(f, 1, Len(f))
    BY <1>6, <2>1 DEF Shown
  <2> QED BY <1>7, <2>2, SubSeqFull
<1>10. ASSUME NEW i \in 1 .. PLen + Len(t)
       PROVE  f[i] = IF i <= PLen THEN Prompt[i] ELSE IF m.mask THEN "*" ELSE t[i - PLen]
  <2>1. f[i] = IF i <= PLen THEN Prompt[i] ELSE y[i - PLen]
    BY <1>4, <1>7, PromptIs
  <2>2. ~(i <= PLen) => i - PLen \in 1 .. Len(t)
    BY <1>1, Widths
  <2> QED BY <1>4, <2>1, <2>2
<1> QED BY <1>7, <1>8, <1>9, <1>10

LEMMA PutInRow ==
  ASSUME NEW u \in Terms, ~u.wrap, u.col + 1 < Cols, NEW b \in Glyphs
  PROVE  LET w == Apply(u, Put(b))
         IN  /\ w.row = u.row /\ w.col = u.col + 1 /\ ~w.wrap /\ w.cell \in Sheets
             /\ \A q \in 0 .. Rows - 1, e \in 0 .. Cols - 1 :
                  w.cell[q][e] = IF q = u.row /\ e = u.col THEN b ELSE u.cell[q][e]
<1> DEFINE w == Apply(u, Put(b))
           d == PutCell(u.cell, u.row, u.col, b)
<1>1. u.cell \in Sheets /\ u.row \in Nat /\ u.col \in 0 .. Cols - 1
  BY TermIs
<1>2. /\ d \in Sheets
      /\ \A q \in 0 .. Rows - 1, e \in 0 .. Cols - 1 : d[q][e] = IF q = u.row /\ e = u.col THEN b ELSE u.cell[q][e]
  <2> DEFINE o == u.cell
             r == u.row
             k == u.col
  <2>1. o \in Sheets /\ r \in Nat /\ k \in 0 .. Cols - 1
    BY <1>1
  <2> HIDE DEF o, r, k
  <2>2. /\ PutCell(o, r, k, b) \in Sheets
        /\ \A q \in 0 .. Rows - 1, e \in 0 .. Cols - 1 :
             PutCell(o, r, k, b)[q][e] = IF q = r /\ e = k THEN b ELSE o[q][e]
    BY <2>1, PutCellIs
  <2> QED BY <2>2 DEF o, r, k
<1>3. w = Display(d, u.row, Least(u.col + 1, Cols - 1), u.col = Cols - 1)
  BY ApplyPut
<1>4. Least(u.col + 1, Cols - 1) = u.col + 1 /\ ~(u.col = Cols - 1)
  BY <1>1, Widths DEF Least
<1> HIDE DEF d, w
<1>5. w.cell = d /\ w.row = u.row /\ w.col = u.col + 1 /\ ~w.wrap
  BY <1>3, <1>4 DEF Display
<1> QED BY <1>2, <1>5 DEF w

(* The trivial case: the byte is written behind the line that is shown. *)
LEMMA ByteAdded ==
  ASSUME mode \in Modes, ~mode.multi, NEW t \in Lines, NEW c \in Glyphs, Len(t) + 1 <= MaxText,
         PLen + (Len(t) + 1) < Cols, NEW tp \in 0 .. MaxTop, NEW s, Drawing(mode, s, tp, t, Len(t), <<>>)
  PROVE  LET n == Output(s, Puts(Masked(<<c>>)))
         IN  /\ Drawing(mode, n, tp, InsertAt(t, Len(t) + 1, c), Len(t) + 1, <<>>)
             /\ SameAbove(s.term.cell, n.term.cell, tp)
<1> DEFINE L == Len(t)
           j == InsertAt(t, L + 1, c)
           b == IF mode.mask THEN "*" ELSE c
           n == Output(s, Puts(Masked(<<c>>)))
           k == PLen + L
           u == s.term
           w == Apply(u, Put(b))
           d == w.cell
           s0 == Shown(mode, t, L, <<>>)
           s1 == Shown(mode, j, L + 1, <<>>)
<1>1. t \in Seq(Glyphs) /\ L \in Nat /\ L \in 0 .. L /\ k \in Nat /\ k + 1 < Cols /\ PLen + L < Cols /\ k \in 0 .. Cols - 1
  BY LineIs, Widths
<1>2. j \in Seq(Glyphs) /\ Len(j) = L + 1 /\ \A i \in 1 .. L + 1 : j[i] = IF i <= L THEN t[i] ELSE c
  BY <1>1, InsertIs
<1>3. b \in Glyphs /\ Put(b) \in Ops
  BY GlyphsAssumption, OpsAre
<1>4. Puts(Masked(<<c>>)) = <<Put(b)>>
  <2>1. <<c>> \in Seq(Glyphs) /\ Len(<<c>>) = 1 /\ <<c>>[1] = c
    OBVIOUS
  <2>2. Masked(<<c>>) = MaskOf(mode, <<c>>)
    BY DEF Masked, MaskMode, MaskOf
  <2>3. MaskOf(mode, <<c>>) \in Seq(Glyphs) /\ Len(MaskOf(mode, <<c>>)) = 1 /\ MaskOf(mode, <<c>>)[1] = b
    <3> DEFINE z == <<c>>
    <3>1. z \in Seq(Glyphs) /\ Len(z) = 1 /\ z[1] = c /\ 1 \in 1 .. 1
      BY <2>1
    <3> HIDE DEF z
    <3>2. /\ MaskOf(mode, z) \in Seq(Glyphs) /\ Len(MaskOf(mode, z)) = Len(z)
          /\ \A i \in 1 .. Len(z) : MaskOf(mode, z)[i] = IF mode.mask THEN "*" ELSE z[i]
      BY <3>1, MaskIs
    <3>3. MaskOf(mode, z) \in Seq(Glyphs) /\ Len(MaskOf(mode, z)) = 1 /\ MaskOf(mode, z)[1] = b
      BY <3>1, <3>2
    <3> QED BY <3>3 DEF z
  <2> DEFINE x == MaskOf(mode, <<c>>)
  <2> HIDE DEF x, b
  <2>4. Puts(x) \in Seq(Ops) /\ Len(Puts(x)) = 1 /\ Puts(x)[1] = Put(b)
    <3>1. x \in Seq(Glyphs) /\ Len(x) = 1 /\ x[1] = b
      BY <2>3 DEF x
    <3> QED BY <3>1, PutsType
  <2>5. <<Put(b)>> \in Seq(Ops) /\ Len(<<Put(b)>>) = 1 /\ <<Put(b)>>[1] = Put(b)
    BY <1>3
  <2>6. \A i \in 1 .. 1 : Puts(x)[i] = <<Put(b)>>[i]
    BY <2>4, <2>5
  <2>7. Puts(x) = <<Put(b)>>
    BY <2>4, <2>5, <2>6, SeqEqual
  <2> QED BY <2>2, <2>7 DEF x
<1>5. /\ s \in Screens /\ u \in Terms /\ u.cell \in Sheets /\ u.row = tp /\ u.col = Least(PLen + L, Cols - 1) /\ ~u.wrap
      /\ Shows(u.cell, tp, s0)
  BY ScreenIs, TermIs DEF Drawing, CursorAt
<1>6. u.col = k
  BY <1>1, <1>5, Widths DEF Least
<1> HIDE DEF b, u, k
<1>7. n \in Screens /\ n.term = w
  <2>1. <<Put(b)>> \in Seq(Ops)
    BY <1>3
  <2>2. n.term = Write(u, <<Put(b)>>) /\ n \in Screens
    BY <1>4, <1>5, <2>1, OutputIs DEF u
  <2> QED BY <1>3, <1>5, <2>2, WriteOne
<1>8. w.row = tp /\ w.col = k + 1 /\ ~w.wrap
  BY <1>1, <1>3, <1>5, <1>6, PutInRow
<1>9. /\ d \in Sheets
      /\ \A q \in 0 .. Rows - 1, e \in 0 .. Cols - 1 : d[q][e] = IF q = tp /\ e = k THEN b ELSE u.cell[q][e]
  BY <1>1, <1>3, <1>5, <1>6, PutInRow
<1> HIDE DEF w, d, n, j
<1>10. /\ s0 \in Seq(Glyphs) /\ Len(s0) = k
       /\ \A i \in 1 .. k : s0[i] = IF i <= PLen THEN Prompt[i] ELSE IF mode.mask THEN "*" ELSE t[i - PLen]
  BY <1>1, ShortIs DEF k
<1>11. /\ s1 \in Seq(Glyphs) /\ Len(s1) = k + 1
       /\ \A i \in 1 .. k + 1 : s1[i] = IF i <= PLen THEN Prompt[i] ELSE IF mode.mask THEN "*" ELSE j[i - PLen]
  <2>1. PLen + Len(j) < Cols /\ L + 1 \in 0 .. Len(j) /\ PLen + Len(j) = k + 1
    BY <1>1, <1>2, Widths DEF k
  <2> QED BY <1>2, <2>1, ShortIs
<1> HIDE DEF s0, s1
<1>12. \A i \in 1 .. k : s1[i] = s0[i]
  <2> SUFFICES ASSUME NEW i \in 1 .. k PROVE s1[i] = s0[i]
    OBVIOUS
  <2>1. i \in 1 .. k + 1
    BY <1>1
  <2>2. ~(i <= PLen) => i - PLen \in 1 .. L + 1 /\ i - PLen <= L
    BY <1>1, Widths DEF k
  <2>3. ~(i <= PLen) => j[i - PLen] = t[i - PLen]
    BY <1>2, <2>2
  <2> QED BY <1>10, <1>11, <2>1, <2>3
<1>13. s1[k + 1] = b
  <2>1. k + 1 \in 1 .. k + 1 /\ ~(k + 1 <= PLen) /\ (k + 1) - PLen = L + 1 /\ L + 1 \in 1 .. L + 1 /\ ~(L + 1 <= L)
    BY <1>1, Widths DEF k
  <2>2. j[L + 1] = c
    BY <1>2, <2>1
  <2> QED BY <1>11, <2>1, <2>2 DEF b
<1>14. Shows(d, tp, s1)
  <2> SUFFICES ASSUME NEW q \in 0 .. Rows - 1, NEW e \in 0 .. Cols - 1, q >= tp
               PROVE  d[q][e] = IF Idx(tp, q, e) < Len(s1) THEN s1[Idx(tp, q, e) + 1] ELSE BlankCell
    BY DEF Shows
  <2> DEFINE i == Idx(tp, q, e)
  <2>1. q \in Nat /\ tp \in Nat /\ e \in Nat
    BY Widths, TopFits
  <2>2. i \in Nat /\ (q = tp => i = e) /\ (q # tp => i >= Cols)
    BY <2>1, RowIdx
  <2>3. u.cell[q][e] = IF i < k THEN s0[i + 1] ELSE BlankCell
    BY <1>5, <1>10 DEF Shows
  <2>4. d[q][e] = IF q = tp /\ e = k THEN b ELSE u.cell[q][e]
    BY <1>9
  <2> HIDE DEF i
  <2>5. CASE q = tp /\ e = k
    <3>1. i = k /\ i < k + 1
      BY <1>1, <2>2, <2>5
    <3> QED BY <1>11, <1>13, <2>4, <2>5, <3>1 DEF i
  <2>6. CASE ~(q = tp /\ e = k)
    <3>1. i # k
      BY <1>1, <2>2, <2>6, Widths
    <3>2. (i < k <=> i < k + 1) /\ (i < k => i + 1 \in 1 .. k)
      BY <1>1, <2>2, <3>1
    <3> QED BY <1>11, <1>12, <2>3, <2>4, <2>6, <3>2 DEF i
  <2> QED BY <2>5, <2>6
<1>15. SameAbove(u.cell, d, tp)
  <2> SUFFICES ASSUME NEW q \in 0 .. Rows - 1, q < tp PROVE d[q] = u.cell[q]
    BY DEF SameAbove
  <2>1. q # tp
    BY Widths, TopFits
  <2>2. \A e \in 0 .. Cols - 1 : d[q][e] = u.cell[q][e]
    BY <1>9, <2>1
  <2> QED BY <1>5, <1>9, <2>2, RowIs
<1>16. CursorAt(mode, n.term, tp, L + 1)
  <2>1. Least(PLen + (L + 1), Cols - 1) = k + 1
    BY <1>1, Widths DEF Least, k
  <2> QED BY <1>7, <1>8, <2>1 DEF CursorAt
<1>17. Drawing(mode, n, tp, j, L + 1, <<>>)
  BY <1>7, <1>8, <1>14, <1>16 DEF Drawing, Marks, s1, d
<1> QED BY <1>7, <1>15, <1>17 DEF n, j, u, d

LEMMA InsertKeeps ==
  ASSUME Inv, mode' = mode, NEW c \in Letters, Insert(c)
  PROVE  Inv'
<1> DEFINE t == InsertAt(text, pos + 1, c)
<1>1. /\ text \in Lines /\ text \in Seq(Glyphs) /\ Len(text) \in Nat /\ pos \in 0 .. Len(text) /\ c \in Glyphs
      /\ phase = "shown" /\ Visible /\ Len(text) < MaxText /\ text' = t /\ pos' = pos + 1
  BY LineIs, GlyphsAssumption DEF Inv, Typed, Insert, Visible, Becomes
<1>2. t \in Seq(Glyphs) /\ Len(t) = Len(text) + 1
  BY <1>1, InsertIs
<1>3. t \in Lines /\ pos + 1 \in 0 .. Len(t)
  BY <1>1, <1>2, SheetIsEnough DEF Lines
<1> HIDE DEF t
<1>4. CASE pos = Len(text) /\ ~MultiLine /\ PLen + Len(t) < Cols /\ Hint = <<>>
  <2>1. /\ screen' = Output(screen, Puts(Masked(<<c>>))) /\ drawn' = [line |-> t, cur |-> pos + 1, hint |-> Hint]
        /\ phase' = phase /\ top' = top /\ above' = above
    BY <1>4 DEF Insert, Drawn, sheetVars, t
  <2>2. /\ mode \in Modes /\ top \in 0 .. MaxTop /\ Drawing(mode, screen, top, drawn.line, drawn.cur, drawn.hint)
        /\ Kept(screen.term.cell, above, top)
    BY <1>1, InvShows
  <2>3. Hint = mode.hint /\ mode.hint = <<>> /\ ~mode.multi
    BY <1>4, <2>2, HintIs
  <2>4. drawn.line = text /\ drawn.cur = Len(text) /\ drawn.hint = <<>>
    BY <1>1, <1>4, <2>3 DEF Inv, Typed
  <2>5. Drawing(mode, screen, top, text, Len(text), <<>>)
    BY <2>2, <2>4
  <2>6. Len(text) + 1 <= MaxText /\ PLen + (Len(text) + 1) < Cols /\ t = InsertAt(text, Len(text) + 1, c)
    BY <1>1, <1>2, <1>4, SheetIsEnough DEF t
  <2>7. /\ Drawing(mode, screen', top, t, Len(text) + 1, <<>>)
        /\ SameAbove(screen.term.cell, screen'.term.cell, top)
    BY <1>1, <2>1, <2>2, <2>3, <2>5, <2>6, ByteAdded
  <2>8. Kept(screen'.term.cell, above, top)
    BY <2>2, <2>7, KeptAbove
  <2>9. Drawing(mode, screen', top', t, pos + 1, mode.hint)
    BY <1>4, <2>1, <2>3, <2>7
  <2> QED BY <1>1, <1>3, <2>1, <2>2, <2>3, <2>8, <2>9, Settled
<1>5. CASE ~(pos = Len(text) /\ ~MultiLine /\ PLen + Len(t) < Cols /\ Hint = <<>>)
  <2>1. refreshLine(t, pos + 1)
    BY <1>5 DEF Insert, t
  <2> QED BY <1>1, <1>3, <2>1, RefreshedLine
<1> QED BY <1>4, <1>5

-----------------------------------------------------------------------------
(* Enter.                                                                   *)

LEMMA LineEnded ==
  ASSUME NEW m \in Modes, NEW t \in Lines, NEW p \in 0 .. Len(t), m.multi => p = Len(t),
         NEW tp \in 0 .. MaxTop, NEW s, Drawing(m, s, tp, t, p, <<>>)
  PROVE  LET n == Output(s, <<CR, LF>>)
         IN  n \in Screens /\ Ended(m, n.term, tp, t) /\ n.term.cell = s.term.cell
<1> DEFINE n == Output(s, <<CR, LF>>)
           u == s.term
           L == Len(t)
           B == (PLen + L) \div Cols
           A == (PLen + L - 1) \div Cols
           w == Shown(m, t, p, <<>>)
<1>1. s \in Screens /\ u \in Terms /\ u.cell \in Sheets /\ Shows(u.cell, tp, w) /\ CursorAt(m, u, tp, p)
  BY ScreenIs, TermIs DEF Drawing
<1>2. /\ L \in Nat /\ t \in Seq(Glyphs) /\ <<>> \in Seq(Glyphs) /\ tp \in Nat /\ B \in Nat /\ tp + B + 1 < Rows
      /\ tp + 1 < Rows
  BY LineIs, EmptyLine, RowsFit, TopFits
<1>3. /\ u.row \in Nat /\ u.row + 1 < Rows /\ BlankFrom(u.cell, u.row + 1)
      /\ u.row + 1 >= tp + RowsOf(IF m.multi THEN L ELSE 0)
  <2>1. CASE m.multi
    <3>1. u.row = tp + B
      BY <1>1, <2>1 DEF CursorAt
    <3>2. RowsOf(L) = A + 1 /\ A \in Nat /\ A <= B
      <4>1. RowsOf(L) = A + 1 /\ A \in Nat
        BY <1>2, RowsOfIs
      <4>2. PLen + L - 1 \in Nat /\ PLen + L \in Nat /\ PLen + L - 1 <= PLen + L
        BY <1>2, Widths
      <4> QED BY <4>1, <4>2, DivMonotone
    <3>3. w = Whole(m, t, <<>>) /\ w \in Seq(Glyphs) /\ (Len(w) - 1) \div Cols = RowsOf(L) - 1
      BY <1>2, <2>1, WholeIs, WholeRows DEF Shown
    <3> DEFINE r == u.row
    <3> HIDE DEF A, B, w, r
    <3>4. r \in Nat /\ r >= tp /\ (Len(w) - 1) \div Cols <= r - tp
      BY <1>2, <3>1, <3>2, <3>3 DEF r
    <3>5. BlankFrom(u.cell, r + 1)
      BY <1>1, <1>2, <3>3, <3>4, ShowsBelow
    <3> QED BY <1>2, <2>1, <3>1, <3>2, <3>5 DEF r
  <2>2. CASE ~m.multi
    <3>1. u.row = tp /\ BlankFrom(u.cell, tp + 1)
      BY <1>2, <2>2, SingleBelow
    <3>2. RowsOf(0) = 1
      <4>1. PLen + 0 - 1 \in Nat /\ PLen + 0 - 1 < Cols /\ 0 \in Nat
        BY Widths
      <4>2. (PLen + 0 - 1) \div Cols = 0
        BY <4>1, DivSmall
      <4>3. RowsOf(0) = (PLen + 0 - 1) \div Cols + 1
        BY <4>1, RowsOfIs
      <4> QED BY <4>2, <4>3
    <3> QED BY <1>2, <2>2, <3>1, <3>2
  <2> QED BY <2>1, <2>2
<1>4. <<CR, LF>> \in Seq(Ops)
  BY OpsAre
<1>5. Write(u, <<CR, LF>>) = Still(u.cell, u.row + 1, 0)
  BY <1>1, <1>3, NextRow
<1>6. n \in Screens /\ n.term = Still(u.cell, u.row + 1, 0)
  BY <1>1, <1>4, <1>5, OutputIs
<1> HIDE DEF n
<1>7. n.term.cell = u.cell /\ n.term.row = u.row + 1 /\ n.term.col = 0
  BY <1>6, StillIs
<1>8. u.cell[u.row + 1] = BlankRow
  <2>1. u.row + 1 \in 0 .. Rows - 1 /\ u.row + 1 >= u.row + 1
    BY <1>3, Widths
  <2> QED BY <1>3, <2>1 DEF BlankFrom
<1>9. Ended(m, n.term, tp, t)
  BY <1>3, <1>7, <1>8 DEF Ended
<1> QED BY <1>6, <1>7, <1>9 DEF n

LEMMA EnterKeeps ==
  ASSUME Inv, mode' = mode, Enter
  PROVE  Inv'
<1> DEFINE p == IF MultiLine THEN Len(text) ELSE pos
           atEnd == IF p # pos THEN refreshLineWithFlags(screen, text, p, "all", Hint) ELSE screen
           unhinted == IF Hint # <<>> THEN refreshLineWithFlags(atEnd, text, p, "all", <<>>) ELSE atEnd
<1>1. /\ mode \in Modes /\ top \in 0 .. MaxTop /\ text \in Lines /\ pos \in 0 .. Len(text) /\ phase = "shown"
      /\ drawn.line = text /\ drawn.cur = pos /\ drawn.hint \in {<<>>, mode.hint} /\ Kept(screen.term.cell, above, top)
      /\ Drawing(mode, screen, top, text, pos, drawn.hint)
  BY DEF Inv, Typed, Enter, Visible
<1>2. mode.hint \in Seq(Glyphs) /\ Hint = mode.hint /\ <<>> \in Seq(Glyphs) /\ drawn.hint \in Seq(Glyphs)
  BY <1>1, HintIs, EmptySeq
<1>3. p \in 0 .. Len(text) /\ (mode.multi => p = Len(text))
  BY <1>1, LineIs DEF MultiLine
<1>4. /\ screen' = Output(unhinted, <<CR, LF>>) /\ text' = text /\ pos' = p /\ phase' = "done" /\ top' = top /\ above' = above
      /\ drawn' = [line |-> text, cur |-> p, hint |-> Hint]
  BY DEF Enter, Becomes, Drawn, sheetVars
<1> HIDE DEF p
<1>5. /\ SameAbove(screen.term.cell, atEnd.term.cell, top)
      /\ \E h \in {<<>>, mode.hint} : Drawing(mode, atEnd, top, text, p, h)
  <2>1. CASE p # pos
    <3>1. atEnd = refreshLineWithFlags(screen, text, p, "all", mode.hint)
      BY <1>2, <2>1
    <3> HIDE DEF atEnd
    <3>2. Drawing(mode, atEnd, top, text, p, mode.hint) /\ SameAbove(screen.term.cell, atEnd.term.cell, top)
      BY <1>1, <1>2, <1>3, <3>1, Redrawn
    <3> QED BY <3>2
  <2>2. CASE p = pos
    <3>1. atEnd = screen
      BY <2>2
    <3> QED BY <1>1, <2>2, <3>1 DEF SameAbove
  <2> QED BY <2>1, <2>2
<1> HIDE DEF atEnd
<1>6. SameAbove(screen.term.cell, unhinted.term.cell, top) /\ Drawing(mode, unhinted, top, text, p, <<>>)
  <2>1. PICK h \in {<<>>, mode.hint} : Drawing(mode, atEnd, top, text, p, h)
    BY <1>5
  <2>2. CASE Hint # <<>>
    <3>1. unhinted = refreshLineWithFlags(atEnd, text, p, "all", <<>>)
      BY <2>2
    <3>2. h \in Seq(Glyphs)
      BY <1>2, <2>1
    <3> HIDE DEF unhinted
    <3>3. Drawing(mode, unhinted, top, text, p, <<>>) /\ SameAbove(atEnd.term.cell, unhinted.term.cell, top)
      BY <1>1, <1>2, <1>3, <2>1, <3>1, <3>2, Redrawn
    <3> QED BY <1>5, <3>3, SameAboveTwice
  <2>3. CASE Hint = <<>>
    <3>1. unhinted = atEnd /\ h = <<>>
      BY <1>2, <2>1, <2>3
    <3> QED BY <1>5, <2>1, <3>1
  <2> QED BY <2>2, <2>3
<1> HIDE DEF unhinted
<1>7. screen' \in Screens /\ Ended(mode, screen'.term, top, text) /\ screen'.term.cell = unhinted.term.cell
  BY <1>1, <1>3, <1>4, <1>6, LineEnded
<1>8. Kept(screen'.term.cell, above, top)
  BY <1>1, <1>6, <1>7, KeptAbove
<1>9. Typed'
  BY <1>1, <1>2, <1>3, <1>4, <1>7 DEF Typed
<1>10. ~Visible' /\ ~Hidden' /\ phase' \notin {"shown", "hidden"}
  BY <1>4 DEF Visible, Hidden
<1> QED BY <1>4, <1>7, <1>8, <1>9, <1>10 DEF Inv

-----------------------------------------------------------------------------
(* The start.                                                               *)

LEMMA PromptShown ==
  ASSUME NEW m \in Modes
  PROVE  Shown(m, <<>>, 0, <<>>) = Prompt
<1>1. <<>> \in Seq(Glyphs) /\ Len(<<>>) = 0 /\ 0 \in 0 .. 0 /\ PLen + 0 = PLen /\ PLen < Cols /\ PLen \in Nat
  BY EmptySeq, Widths
<1>2. CASE m.multi
  <2>1. MaskOf(m, <<>>) \in Seq(Glyphs) /\ Len(MaskOf(m, <<>>)) = 0
    BY <1>1, MaskIs
  <2>2. MaskOf(m, <<>>) = <<>> /\ refreshShowHints(<<>>, <<>>) = <<>>
    BY <1>1, <2>1, EmptySeq, HintsAre
  <2>3. Prompt \o <<>> = Prompt
    BY PromptIs, ConcatEmptySeq
  <2> QED BY <1>2, <2>2, <2>3 DEF Shown, Whole
<1>3. CASE ~m.multi
  <2> DEFINE w == Shown(m, <<>>, 0, <<>>)
             z == <<>>
  <2>1. z \in Seq(Glyphs) /\ Len(z) = 0 /\ 0 \in 0 .. Len(z) /\ PLen + Len(z) < Cols /\ PLen + Len(z) = PLen
    BY <1>1
  <2> HIDE DEF z
  <2>2. /\ Shown(m, z, 0, <<>>) \in Seq(Glyphs) /\ Len(Shown(m, z, 0, <<>>)) = PLen + Len(z)
        /\ \A i \in 1 .. PLen + Len(z) :
             Shown(m, z, 0, <<>>)[i] = IF i <= PLen THEN Prompt[i] ELSE IF m.mask THEN "*" ELSE z[i - PLen]
    BY <1>3, <2>1, ShortIs
  <2>3. w \in Seq(Glyphs) /\ Len(w) = PLen /\ \A i \in 1 .. PLen : i <= PLen => w[i] = Prompt[i]
    BY <2>1, <2>2 DEF z
  <2> HIDE DEF w
  <2>4. \A i \in 1 .. PLen : i <= PLen
    BY <1>1
  <2>5. w = Prompt
    BY <2>3, <2>4, PromptIs, SeqEqual
  <2> QED BY <2>5 DEF w
<1> QED BY <1>2, <1>3

LEMMA InitInv == Init => Inv
<1> SUFFICES ASSUME Init PROVE Inv
  OBVIOUS
<1> DEFINE cell == [r \in 0 .. Rows - 1 |-> IF r = 0 THEN EarlierRow ELSE BlankRow]
           t == Still(cell, 1, 0)
           u == Write(t, Puts(Prompt))
<1>1. /\ text = <<>> /\ pos = 0 /\ screen = [oldpos |-> 0, oldrows |-> 0, term |-> u]
      /\ phase = "shown" /\ drawn = [line |-> <<>>, cur |-> 0, hint |-> <<>>] /\ top = 1 /\ mode \in Modes
  BY DEF Init, Still
<1>2. 1 \in 0 .. MaxTop /\ 1 \in Nat /\ 0 \in 0 .. Rows - 1
  BY SheetIsEnough, Widths
<1>3. 1 + 1 < Rows
  BY <1>2, TopFits
<1>4. cell \in Sheets
  BY GlyphsAssumption, BlankRowIs DEF EarlierRow, Sheets
<1>5. BlankFrom(cell, 1)
  BY Widths DEF BlankFrom
<1>6. cell[0] = EarlierRow /\ EarlierRow \in [0 .. Cols - 1 -> Glyphs] /\ above = <<EarlierRow>>
  BY <1>2, GlyphsAssumption DEF EarlierRow, Init
<1> HIDE DEF cell
<1>7. /\ Prompt \in Seq(Glyphs) /\ Len(Prompt) = PLen /\ PLen > 0 /\ PLen - 1 \in Nat /\ PLen - 1 < Cols - 1
      /\ PLen \in Nat /\ PLen < Cols
  BY PromptIs, Widths
<1>8. (PLen - 1) \div Cols = 0 /\ (PLen - 1) % Cols = PLen - 1 /\ PLen \div Cols = 0 /\ PLen % Cols = PLen
  BY <1>7, DivSmall, Widths
<1>9. /\ u \in Terms /\ u.cell \in Sheets /\ Shows(u.cell, 1, Prompt) /\ SameAbove(cell, u.cell, 1)
      /\ u.row = 1 + (PLen - 1) \div Cols /\ u.col = Least(((PLen - 1) % Cols) + 1, Cols - 1)
      /\ u.wrap <=> (PLen - 1) % Cols = Cols - 1
  <2>1. 1 + (Len(Prompt) - 1) \div Cols < Rows
    <3>1. (Len(Prompt) - 1) \div Cols = 0
      BY <1>7, <1>8
    <3>2. 1 + 0 < Rows
      BY <1>3, Widths
    <3> QED BY <3>1, <3>2
  <2>2. Len(Prompt) > 0
    BY <1>7
  <2>3. LET v == Write(Still(cell, 1, 0), Puts(Prompt))
        IN  /\ v \in Terms /\ v.cell \in Sheets /\ Shows(v.cell, 1, Prompt) /\ SameAbove(cell, v.cell, 1)
            /\ v.row = 1 + (Len(Prompt) - 1) \div Cols
            /\ v.col = Least(((Len(Prompt) - 1) % Cols) + 1, Cols - 1)
            /\ v.wrap <=> (Len(Prompt) - 1) % Cols = Cols - 1
    BY <1>2, <1>4, <1>5, <1>7, <2>1, <2>2, BytesShow
  <2> QED BY <1>7, <2>3
<1> HIDE DEF u
<1>10. u.row = 1 /\ u.col = PLen /\ ~u.wrap
  BY <1>7, <1>8, <1>9, Widths DEF Least
<1>11. screen.term = u /\ screen.oldpos = 0 /\ screen.oldrows = 0 /\ screen \in Screens
  BY <1>1, <1>9 DEF Screens
<1>12. CursorAt(mode, u, 1, 0)
  <2>1. PLen + 0 = PLen /\ Least(PLen, Cols - 1) = PLen /\ 1 + 0 = 1
    BY <1>7, Widths DEF Least
  <2> QED BY <1>8, <1>10, <2>1 DEF CursorAt
<1>13. Drawing(mode, screen, 1, <<>>, 0, <<>>)
  BY <1>1, <1>9, <1>10, <1>11, <1>12, PromptShown DEF Drawing, Marks
<1>14. Kept(u.cell, above, 1)
  <2>1. u.cell[0] = cell[0]
    BY <1>2, <1>9 DEF SameAbove
  <2>2. \A r \in 0 .. 1 - 1 : r = 0
    OBVIOUS
  <2>3. above \in Seq([0 .. Cols - 1 -> Glyphs]) /\ Len(above) = 1 /\ above[0 + 1] = EarlierRow
    BY <1>6
  <2> QED BY <1>6, <2>1, <2>2, <2>3 DEF Kept
<1>15. drawn.line = <<>> /\ drawn.cur = 0 /\ drawn.hint = <<>>
  BY <1>1
<1>16. Typed
  BY <1>1, <1>2, <1>11, <1>15, EmptyLine DEF Typed
<1>17. ~Hidden /\ phase # "done"
  BY <1>1 DEF Hidden
<1> QED BY <1>1, <1>11, <1>13, <1>14, <1>15, <1>16, <1>17 DEF Inv

-----------------------------------------------------------------------------
(* The invariant is kept, and what it says.                                 *)

LEMMA StepKeeps ==
  ASSUME Inv, Step, mode' = mode
  PROVE  Inv'
<1>1. ASSUME NEW c \in Letters, Insert(c) PROVE Inv'
  BY <1>1, InsertKeeps
<1>2. ASSUME NEW p \in 0 .. Len(text), Move(p) PROVE Inv'
  BY <1>2, MoveKeeps
<1>3. ASSUME NEW i \in 1 .. Len(text), NEW j \in 1 .. Len(text), i <= j, Delete(i, j) PROVE Inv'
  BY <1>3, DeleteKeeps
<1>4. ASSUME NEW t \in Recalls, Recall(t) PROVE Inv'
  BY <1>4, RecallKeeps
<1>5. CASE Cancel
  BY <1>5, CancelKeeps
<1>6. ASSUME NEW w \in Words, Preview(w) PROVE Inv'
  BY <1>6, PreviewKeeps
<1>7. CASE ClearScreen
  BY <1>7, ClearScreenKeeps
<1>8. CASE Hide
  BY <1>8, HideKeeps
<1>9. CASE ProgramOutput
  BY <1>9, ProgramOutputKeeps
<1>10. CASE Show
  BY <1>10, ShowKeeps
<1>11. CASE Enter
  BY <1>11, EnterKeeps
<1> QED
  BY <1>1, <1>2, <1>3, <1>4, <1>5, <1>6, <1>7, <1>8, <1>9, <1>10, <1>11 DEF Step

(* A step that changes nothing. *)
LEMMA StutterKeeps ==
  ASSUME Inv, UNCHANGED vars
  PROVE  Inv'
<1>1. /\ text' = text /\ pos' = pos /\ screen' = screen /\ phase' = phase /\ drawn' = drawn
      /\ top' = top /\ above' = above /\ mode' = mode
  BY DEF vars, sheetVars
<1>2. Typed' /\ (Visible' <=> Visible) /\ (Hidden' <=> Hidden)
  BY <1>1 DEF Inv, Typed, Visible, Hidden
<1> QED BY <1>1, <1>2 DEF Inv

LEMMA NextKeeps ==
  ASSUME Inv, [Next]_vars
  PROVE  Inv'
<1>1. CASE Next
  BY <1>1, StepKeeps DEF Next
<1>2. CASE UNCHANGED vars
  BY <1>2, StutterKeeps
<1> QED BY <1>1, <1>2

(* The screen, oldpos and oldrows always belong to the line that was last   *)
(* drawn: the rows a refresh will clear are the rows that line is in.        *)
THEOREM ScreenInvariant == Spec => []Inv
<1>1. Inv /\ [Next]_vars => Inv'
  BY NextKeeps
<1> QED
  BY InitInv, <1>1, PTL DEF Spec

(* What the property expects on the screen is what the lemmas call Shown.    *)
LEMMA FirstIs ==
  ASSUME NEW n \in Nat, NEW k \in 0 .. n
  PROVE  Scrolled(k) = CHOOSE f \in 0 .. k : /\ PLen + k - f < Cols
                                             /\ f > 0 => PLen + k - f = Cols - 1
<1> DEFINE Fits(f) == PLen + k - f < Cols /\ (f > 0 => PLen + k - f = Cols - 1)
<1>1. k \in Nat
  OBVIOUS
<1>2. Scrolled(k) \in 0 .. k /\ Fits(Scrolled(k))
  BY <1>1, Widths DEF Scrolled, Most
<1>3. ASSUME NEW f \in 0 .. k, Fits(f) PROVE f = Scrolled(k)
  BY <1>1, <1>3, Widths DEF Scrolled, Most
<1> HIDE DEF Fits
<1>4. Scrolled(k) = CHOOSE f \in 0 .. k : Fits(f)
  BY <1>2, <1>3
<1> QED BY <1>4 DEF Fits

LEMMA RoomIs ==
  ASSUME NEW n \in Nat, NEW i \in Nat
  PROVE  /\ PLen + n < Cols => Most(Cols - PLen - n, 0) = Cols - (PLen + n)
         /\ ~(PLen + n < Cols) => Least(i, Most(Cols - PLen - n, 0)) = 0
BY Widths DEF Least, Most

LEMMA ExpectedIs ==
  ASSUME Inv
  PROVE  Expected = Shown(mode, drawn.line, drawn.cur, drawn.hint)
<1> DEFINE t == drawn.line
           k == drawn.cur
           h == drawn.hint
           v == SubSeq(h, 1, Least(Len(h), Most(Cols - PLen - Len(t), 0)))
           first == CHOOSE f \in 0 .. k : /\ PLen + k - f < Cols
                                          /\ f > 0 => PLen + k - f = Cols - 1
           row == Prompt \o Masked(SubSeq(t, first + 1, Len(t))) \o v
<1>1. t \in Seq(Glyphs) /\ Len(t) \in Nat /\ k \in 0 .. Len(t) /\ mode \in Modes /\ h \in Seq(Glyphs) /\ Len(h) \in Nat
  <2>1. t \in Lines /\ k \in 0 .. Len(t) /\ mode \in Modes /\ h \in {<<>>, mode.hint}
    BY DEF Inv, Typed
  <2>2. h \in Seq(Glyphs)
    BY <2>1, HintIs, EmptySeq
  <2> QED BY <2>1, <2>2, LineIs, LenProperties
<1>2. v = refreshShowHints(t, h)
  <2>1. CASE PLen + Len(t) < Cols
    <3>1. Most(Cols - PLen - Len(t), 0) = Cols - (PLen + Len(t))
      BY <1>1, <2>1, RoomIs
    <3> QED BY <2>1, <3>1 DEF refreshShowHints
  <2>2. CASE ~(PLen + Len(t) < Cols)
    <3>1. Least(Len(h), Most(Cols - PLen - Len(t), 0)) = 0
      BY <1>1, <2>2, RoomIs
    <3>2. 1 \in Int /\ 0 \in Int /\ 0 < 1
      OBVIOUS
    <3>3. SubSeq(h, 1, 0) = <<>>
      BY <3>2, SubSeqEmpty
    <3> QED BY <2>2, <3>1, <3>3 DEF refreshShowHints
  <2> QED BY <2>1, <2>2
<1>3. first = Scrolled(k)
  BY <1>1, FirstIs
<1>4. \A s : Masked(s) = MaskOf(mode, s)
  BY DEF Masked, MaskMode, MaskOf
<1>5. Expected = IF mode.multi THEN Prompt \o Masked(t) \o v
                 ELSE SubSeq(row, 1, IF Len(row) >= Cols THEN Cols - 1 ELSE Len(row))
  BY DEF Expected, MultiLine
<1> HIDE DEF v, first
<1>6. row = Uncut(mode, t, k, h)
  BY <1>2, <1>3, <1>4 DEF Uncut
<1>7. Whole(mode, t, h) = Prompt \o Masked(t) \o v
  BY <1>2, <1>4 DEF Whole
<1> HIDE DEF row
<1> QED BY <1>5, <1>6, <1>7 DEF Shown

(* Whatever was shown before, and however many rows it took: the screen     *)
(* shows the line, or the completion, and nothing else; hidden, nothing.     *)
THEOREM ScreenIsRight == Spec => []ScreenShowsLine
<1>1. Inv => ScreenShowsLine
  <2> SUFFICES ASSUME Inv PROVE ScreenShowsLine
    OBVIOUS
  <2>1. top \in 0 .. MaxTop /\ screen \in Screens
    BY DEF Inv, Typed
  <2>2. top \in Nat /\ top <= Rows /\ screen.term.cell \in Sheets
    <3>1. top \in Nat /\ top + 1 < Rows
      BY <2>1, TopFits
    <3> QED BY <2>1, <3>1, ScreenIs, TermIs, Widths
  <2>3. ASSUME Visible PROVE ShowsWhole(Expected)
    <3>1. Shows(screen.term.cell, top, Expected)
      BY <2>3, ExpectedIs DEF Inv, Drawing
    <3> QED BY <2>2, <3>1, ShowsIsWhole
  <2>4. ASSUME Hidden PROVE ShowsWhole(<<>>)
    <3>1. Shows(screen.term.cell, top, <<>>)
      BY <2>2, <2>4, ShowsNothing DEF Inv, Bare
    <3> QED BY <2>2, <3>1, ShowsIsWhole
  <2> QED BY <2>3, <2>4 DEF ScreenShowsLine
<1> QED
  BY ScreenInvariant, <1>1, PTL

(* The cursor is on the byte that the next key acts on; hidden, where the    *)
(* program's output belongs; after enter, at the start of an empty row.      *)
THEOREM CursorIsRight == Spec => []CursorOnPos
<1>1. Inv => CursorOnPos
  <2> SUFFICES ASSUME Inv PROVE CursorOnPos
    OBVIOUS
  <2>1. Visible => CursorAt(mode, screen.term, top, drawn.cur)
    BY DEF Inv, Drawing
  <2>2. Hidden => screen.term.row = top /\ screen.term.col = 0 /\ ~screen.term.wrap
    BY DEF Inv, Bare
  <2>3. phase = "done" => Ended(mode, screen.term, top, text)
    BY DEF Inv
  <2> QED BY <2>1, <2>2, <2>3 DEF CursorOnPos, CursorAt, Ended, MultiLine
<1> QED
  BY ScreenInvariant, <1>1, PTL

(* Until Ctrl-L, every cell of the rows above the prompt is what it was      *)
(* before linenoise was called, or what the program printed there while the *)
(* line was hidden.                                                         *)
THEOREM AboveIsKept == Spec => []AboveUntouched
<1>1. Inv => AboveUntouched
  BY DEF Inv, Kept, AboveUntouched, Typed
<1> QED
  BY ScreenInvariant, <1>1, PTL
=============================================================================
