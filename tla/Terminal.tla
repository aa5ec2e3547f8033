------------------------------- MODULE Terminal -------------------------------
(***************************************************************************)
(* External: the terminal zigredis/src/include/linenoise.c writes to, as    *)
(* far as its escape sequences go.  A sheet of Rows rows and Cols columns   *)
(* (no scrolling: the rows are enough for what is written), a cursor, and   *)
(* the pending wrap of a VT100: after a byte in the last column the cursor  *)
(* stays there, and the next byte goes to the row below.                    *)
(***************************************************************************)
EXTENDS Integers, Sequences

CONSTANTS Rows, Cols, BlankCell

ASSUME SheetAssumption == Rows \in Nat \ {0} /\ Cols \in Nat \ {0}

BlankRow == [c \in 0 .. Cols - 1 |-> BlankCell]

\* The control sequences used: "\r", "\n" without post-processing, CUU, CUD,
\* CUF, EL 0, and ED 2 after CUP.  A parameter of 0 counts as 1.
CR == [op |-> "cr"]
LF == [op |-> "lf"]
Up(n) == [op |-> "up", n |-> n]
Down(n) == [op |-> "down", n |-> n]
Right(n) == [op |-> "right", n |-> n]
EraseRight == [op |-> "erase"]
ClearAll == [op |-> "clear"]
Put(b) == [op |-> "put", byte |-> b]
Puts(s) == [i \in DOMAIN s |-> Put(s[i])]

Least(a, b) == IF a < b THEN a ELSE b
Most(a, b) == IF a > b THEN a ELSE b
Count(n) == Most(n, 1)

\* The terminal: its cells by row and column, the cursor, and whether a wrap
\* is pending.
Display(cell, row, col, wrap) == [cell |-> cell, row |-> row, col |-> col, wrap |-> wrap]

At(t, r, c) == Display(t.cell, r, c, FALSE)

PutByte(t, b) ==
    LET r == IF t.wrap THEN t.row + 1 ELSE t.row
        c == IF t.wrap THEN 0 ELSE t.col
    IN  Display([t.cell EXCEPT ![r][c] = b], r, Least(c + 1, Cols - 1), c = Cols - 1)

EraseFrom(t) ==
    Display([t.cell EXCEPT ![t.row] = [c \in 0 .. Cols - 1 |-> IF c < t.col THEN @[c] ELSE BlankCell]],
            t.row, t.col, FALSE)

Apply(t, o) ==
    CASE o.op = "put" -> PutByte(t, o.byte)
      [] o.op = "cr" -> At(t, t.row, 0)
      [] o.op = "lf" -> At(t, Least(t.row + 1, Rows - 1), t.col)
      [] o.op = "up" -> At(t, Most(t.row - Count(o.n), 0), t.col)
      [] o.op = "down" -> At(t, Least(t.row + Count(o.n), Rows - 1), t.col)
      [] o.op = "right" -> At(t, t.row, Least(t.col + Count(o.n), Cols - 1))
      [] o.op = "erase" -> EraseFrom(t)
      [] o.op = "clear" -> Display([r \in 0 .. Rows - 1 |-> BlankRow], 0, 0, FALSE)

\* write(fd, ab.b, ab.len): one after the other.
Write(t, ops) ==
    LET after[n \in 0 .. Len(ops)] == IF n = 0 THEN t ELSE Apply(after[n - 1], ops[n])
    IN  after[Len(ops)]
=============================================================================
