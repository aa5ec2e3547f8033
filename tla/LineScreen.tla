------------------------------ MODULE LineScreen ------------------------------
(***************************************************************************)
(* What zigredis/src/include/linenoise.c draws: refreshSingleLine,          *)
(* refreshMultiLine and refreshShowHints, the byte linenoiseEditInsert      *)
(* writes by itself, linenoiseHide, linenoiseShow, the preview of a         *)
(* completion and Ctrl-L, on the terminal of module Terminal.               *)
(*                                                                         *)
(* text and pos stand for buf, len and pos of struct linenoiseState; which  *)
(* edits lead from one to the next is the subject of LinePrompt, here they  *)
(* are a byte inserted, a part removed, the cursor moved, or another line   *)
(* recalled.  One byte takes one column.                                    *)
(***************************************************************************)
EXTENDS Terminal, SequencesExt

CONSTANTS
    Glyphs,         \* what a cell can show
    Letters,        \* bytes that are typed
    MaxText,        \* bound: the longest line
    Recalls,        \* lines that come from the history
    Words,          \* completions that are previewed
    Prompt,         \* l->prompt
    Modes,          \* mlmode, maskmode and what hintsCallback returns
    MaxTop          \* bound: the last row a prompt is shown from

PLen == Len(Prompt)

\* The loops of refreshSingleLine run below zero when the prompt fills the
\* row, and the move "\x1b[0C" of an empty prompt is one column too far.
ASSUME PromptAssumption == PLen \in 1 .. Cols - 1
ASSUME ModeAssumption ==
    \A m \in Modes : m.multi \in BOOLEAN /\ m.mask \in BOOLEAN /\ m.hint \in Seq(Glyphs)
ASSUME GlyphsAssumption ==
    /\ Letters \cup {BlankCell, "*", "x"} \subseteq Glyphs /\ BlankCell # "x"
    /\ Prompt \in Seq(Glyphs)
\* A recalled line and a completion fit the buffer.
ASSUME LinesFit == \A s \in Recalls \cup Words : s \in Seq(Glyphs) /\ Len(s) <= MaxText
ASSUME SheetIsEnough == /\ MaxText \in Nat /\ MaxTop \in Nat \ {0}
                        /\ Rows > MaxTop + (PLen + MaxText) \div Cols + 1

VARIABLES
    text, pos,
    screen,         \* the terminal, and l->oldpos and l->oldrows
    phase,          \* what is shown: the line, a completion, or nothing
    drawn,          \* what was last asked to be drawn, and its cursor
    top,            \* the row the prompt was last written from
    above,          \* what was written to the rows above that one, by others
    mode            \* as the program set it before this line

sheetVars == <<top, above>>
vars == <<text, pos, screen, phase, drawn, sheetVars, mode>>

MultiLine == mode.multi
MaskMode == mode.mask
Hint == mode.hint       \* <<>> when there is none

-----------------------------------------------------------------------------
(* The bytes a refresh appends to its buffer for the line t with the cursor *)
(* after p bytes and the hint h.                                            *)

Masked(s) == IF MaskMode THEN [i \in DOMAIN s |-> "*"] ELSE s

refreshShowHints(t, h) ==
    IF PLen + Len(t) < Cols THEN SubSeq(h, 1, Least(Len(h), Cols - (PLen + Len(t)))) ELSE <<>>

\* buf++, len--, pos-- until the cursor fits, then len-- until the end does.
Scrolled(p) == Most(PLen + p - (Cols - 1), 0)
Window(t, p) == SubSeq(t, Scrolled(p) + 1, Least(Len(t), Scrolled(p) + Cols - PLen))

Writes(flags) == flags \in {"write", "all"}
Cleans(flags) == flags \in {"clean", "all"}
When(b, ops) == IF b THEN ops ELSE <<>>

refreshSingleLine(s, t, p, flags, h) ==
    [s EXCEPT !.term = Write(@,
        <<CR>>
        \o When(Writes(flags), Puts(Prompt \o Masked(Window(t, p)) \o refreshShowHints(t, h)))
        \o <<EraseRight>>
        \o When(Writes(flags), <<CR, Right(p - Scrolled(p) + PLen)>>))]

\* Mutants: no row for a cursor past the margin; one row too few cleared, and
\* one too many.
NotAtMargin(t, p) == FALSE
RowsAboveFew(s) == Most(s.oldrows - 2, 0)
RowsAboveToo(s) == s.oldrows

\* The rows a line of n bytes takes, the row of the cursor after k bytes, and
\* a cursor that has to be sent to a row of its own.
RowsOf(n) == (PLen + n + Cols - 1) \div Cols
RowAt(k) == (PLen + k + Cols) \div Cols
AtMargin(t, p) == p > 0 /\ p = Len(t) /\ (p + PLen) % Cols = 0

\* How often the clean-up goes one row up.
RowsAbove(s) == Most(s.oldrows - 1, 0)

\* The loop that clears a row and goes up, n times.
ClearUp(n) ==
    LET up[k \in 0 .. n] == IF k = 0 THEN <<>> ELSE up[k - 1] \o <<CR, EraseRight, Up(1)>>
    IN  up[n]

refreshMultiLine(s, t, p, flags, h) ==
    LET margin == Writes(flags) /\ AtMargin(t, p)
        rows   == RowsOf(Len(t)) + (IF margin THEN 1 ELSE 0)
        below  == s.oldrows - RowAt(s.oldpos)
        col    == (PLen + p) % Cols
    IN  [term |-> Write(s.term,
             When(Cleans(flags), When(below > 0, <<Down(below)>>)
                 \o ClearUp(RowsAbove(s)))
             \o <<CR, EraseRight>>
             \o When(Writes(flags), Puts(Prompt \o Masked(t) \o refreshShowHints(t, h))
                 \o When(margin, <<LF, CR>>)
                 \o When(rows - RowAt(p) > 0, <<Up(rows - RowAt(p))>>)
                 \o <<CR>> \o When(col > 0, <<Right(col)>>))),
         oldrows |-> rows,
         oldpos |-> p]

refreshLineWithFlags(s, t, p, flags, h) ==
    IF MultiLine THEN refreshMultiLine(s, t, p, flags, h) ELSE refreshSingleLine(s, t, p, flags, h)

Output(s, ops) == [s EXCEPT !.term = Write(@, ops)]

Drawn(t, p) == drawn' = [line |-> t, cur |-> p, hint |-> Hint]
refreshLine(t, p) == /\ screen' = refreshLineWithFlags(screen, t, p, "all", Hint)
                     /\ Drawn(t, p)
                     /\ phase' = "shown"
                     /\ UNCHANGED sheetVars

-----------------------------------------------------------------------------
(* linenoiseEditStart writes the prompt below whatever is on the screen.    *)

EarlierRow == [c \in 0 .. Cols - 1 |-> "x"]
OutputRow == [c \in 0 .. Cols - 1 |-> IF c = 0 THEN "x" ELSE BlankCell]

Init ==
    /\ text = <<>> /\ pos = 0
    /\ screen = [oldpos |-> 0, oldrows |-> 0,
                 term |-> Write(Display([r \in 0 .. Rows - 1 |->
                                            IF r = 0 THEN EarlierRow ELSE BlankRow],
                                        1, 0, FALSE), Puts(Prompt))]
    /\ phase = "shown" /\ drawn = [line |-> <<>>, cur |-> 0, hint |-> <<>>] /\ top = 1
    /\ above = <<EarlierRow>>
    /\ mode \in Modes

Becomes(t, p) == text' = t /\ pos' = p
Visible == phase \in {"shown", "preview"}
Hidden == phase \in {"hidden", "preview hidden"}

\* linenoiseEditInsert: in the trivial case only the byte is written.
Insert(c) ==
    /\ phase = "shown" /\ Len(text) < MaxText
    /\ LET t == InsertAt(text, pos + 1, c)
       IN  /\ Becomes(t, pos + 1)
           /\ IF pos = Len(text) /\ ~MultiLine /\ PLen + Len(t) < Cols /\ Hint = <<>>
              THEN /\ screen' = Output(screen, Puts(Masked(<<c>>)))
                   /\ Drawn(t, pos + 1)
                   /\ UNCHANGED <<phase, sheetVars>>
              ELSE refreshLine(t, pos + 1)

Move(p) ==
    /\ phase = "shown" /\ p # pos
    /\ Becomes(text, p)
    /\ refreshLine(text, p)

\* Every key that deletes removes the bytes i .. j, at the cursor or before it.
Delete(i, j) ==
    /\ phase = "shown" /\ (i = pos + 1 \/ j = pos)
    /\ LET t == SubSeq(text, 1, i - 1) \o SubSeq(text, j + 1, Len(text))
       IN  Becomes(t, i - 1) /\ refreshLine(t, i - 1)

\* A history key, or the completion that is accepted.
Recall(t) ==
    /\ Visible
    /\ Becomes(t, Len(t))
    /\ refreshLine(t, Len(t))

\* The completion is given up.
Cancel ==
    /\ phase = "preview"
    /\ UNCHANGED <<text, pos>>
    /\ refreshLine(text, pos)

\* refreshLineWithCompletion draws another line in place of this one.
Preview(w) ==
    /\ Visible
    /\ screen' = refreshLineWithFlags(screen, w, Len(w), "all", Hint)
    /\ Drawn(w, Len(w))
    /\ phase' = "preview"
    /\ UNCHANGED <<text, pos, sheetVars>>

\* Ctrl-L.
ClearScreen ==
    /\ phase = "shown"
    /\ screen' = refreshLineWithFlags(Output(screen, <<ClearAll>>), text, pos, "all", Hint)
    /\ Drawn(text, pos)
    /\ top' = 0 /\ above' = <<>>
    /\ UNCHANGED <<text, pos, phase>>

Hide ==
    /\ Visible
    /\ screen' = refreshLineWithFlags(screen, text, pos, "clean", Hint)
    /\ phase' = IF phase = "shown" THEN "hidden" ELSE "preview hidden"
    /\ UNCHANGED <<text, pos, drawn, sheetVars>>

\* The program prints a line of its own while the prompt is hidden.
ProgramOutput ==
    /\ Hidden /\ top < MaxTop
    /\ screen' = Output(screen, <<Put("x"), CR, LF>>)
    /\ top' = top + 1 /\ above' = Append(above, OutputRow)
    /\ UNCHANGED <<text, pos, phase, drawn>>

\* linenoiseShow: the line, or again the completion that was being shown.
Show ==
    /\ Hidden
    /\ screen' = refreshLineWithFlags(screen, drawn.line, drawn.cur, "write", Hint)
    /\ Drawn(drawn.line, drawn.cur)
    /\ phase' = IF phase = "hidden" THEN "shown" ELSE "preview"
    /\ UNCHANGED <<text, pos, sheetVars>>

\* Enter: in multi-line mode the cursor goes to the end first, and with hints
\* the line is drawn once more without one; linenoiseEditStop ends the row,
\* with output processing on again.
Enter ==
    /\ phase = "shown"
    /\ phase' = "done"
    /\ LET p       == IF MultiLine THEN Len(text) ELSE pos
           atEnd   == IF p # pos THEN refreshLineWithFlags(screen, text, p, "all", Hint) ELSE screen
           unhinted == IF Hint # <<>> THEN refreshLineWithFlags(atEnd, text, p, "all", <<>>) ELSE atEnd
       IN  /\ screen' = Output(unhinted, <<CR, LF>>)
           /\ Becomes(text, p)
           /\ Drawn(text, p)
    /\ UNCHANGED sheetVars

Step ==
    \/ \E c \in Letters : Insert(c)
    \/ \E p \in 0 .. Len(text) : Move(p)
    \/ \E i, j \in 1 .. Len(text) : i <= j /\ Delete(i, j)
    \/ \E t \in Recalls : Recall(t)
    \/ Cancel
    \/ \E w \in Words : Preview(w)
    \/ ClearScreen
    \/ Hide
    \/ ProgramOutput
    \/ Show
    \/ Enter

Next == Step /\ UNCHANGED mode

Spec == Init /\ [][Next]_vars

-----------------------------------------------------------------------------
(* Properties.                                                              *)

\* The cell that shows byte i of a line of which the bytes from first on are
\* visible, counted through the rows from the one the prompt is in.
Cell(i) == screen.term.cell[top + i \div Cols][i % Cols]

\* Everything the editor wrote for the prompt, the visible part of the line
\* and the hint is where it belongs.  A full row loses its last byte: the
\* erase that follows hits the column the cursor is parked on.
ShowsWhole(s) ==
    \A i \in 0 .. (Rows - top) * Cols - 1 :
        Cell(i) = IF i < Len(s) THEN s[i + 1] ELSE BlankCell

Expected ==
    LET line == drawn.line
        hint == SubSeq(drawn.hint, 1, Least(Len(drawn.hint), Most(Cols - PLen - Len(line), 0)))
        first == CHOOSE f \in 0 .. drawn.cur :
                    /\ PLen + drawn.cur - f < Cols
                    /\ f > 0 => PLen + drawn.cur - f = Cols - 1
    IN  IF MultiLine
        THEN Prompt \o Masked(line) \o hint
        ELSE LET row == Prompt \o Masked(SubSeq(line, first + 1, Len(line))) \o hint
             IN  SubSeq(row, 1, IF Len(row) >= Cols THEN Cols - 1 ELSE Len(row))

\* Whatever was shown before, the screen below top holds the prompt, the part
\* of the line (or completion) that is to be seen, and nothing else; while the
\* line is hidden it holds nothing at all.
ScreenShowsLine == /\ Visible => ShowsWhole(Expected)
                   /\ Hidden => ShowsWhole(<<>>)

\* The cursor is on the byte the next key will act on; while the line is
\* hidden it is where the program's own output belongs; and after enter it is
\* at the start of an empty row below the line.
CursorOnPos ==
    LET t == screen.term
        k == PLen + drawn.cur
    IN  /\ Visible => IF MultiLine THEN t.row = top + k \div Cols /\ t.col = k % Cols
                      ELSE t.row = top /\ t.col = Least(k, Cols - 1)
        /\ Hidden => t.row = top /\ t.col = 0 /\ ~t.wrap
        /\ phase = "done" => /\ t.col = 0 /\ t.cell[t.row] = BlankRow
                             /\ t.row >= top + RowsOf(IF MultiLine THEN Len(text) ELSE 0)

\* Nothing above the prompt is ever touched: until Ctrl-L clears the screen, a
\* row above holds, in every column, what was on it before linenoise was called
\* or what the program printed there while the line was hidden.
AboveUntouched == /\ Len(above) = top
                  /\ \A r \in 0 .. top - 1 : screen.term.cell[r] = above[r + 1]
=============================================================================
