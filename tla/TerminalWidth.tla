---------------------------- MODULE TerminalWidth -----------------------------
(***************************************************************************)
(* getColumns and getCursorPosition of zigredis/src/include/linenoise.c:    *)
(* when ioctl does not know the width, the terminal is asked for the cursor *)
(* position, sent to the right margin and asked again.  Its answers come    *)
(* through the same input as the keys of the user, and linenoiseEditStart   *)
(* calls getColumns before it enters raw mode, so the input may be the      *)
(* line discipline's, which hands over whole lines and echoes.              *)
(*                                                                         *)
(* An answer is the bytes ESC [ row; column R.  The row and its semicolon   *)
(* are one byte; a digit of the column carries the number that the column   *)
(* has come to with it, which is what sscanf makes of the digits up to it.  *)
(***************************************************************************)
EXTENDS Integers, Sequences, SequencesExt

CONSTANTS
    Width,      \* of the terminal
    Default,    \* what getColumns assumes: 80
    BufSize,    \* bytes of the answer getCursorPosition reads: 31
    MaxKeys,    \* bound: keys the user types meanwhile
    Typeable,   \* those keys
    Ttys        \* settings the terminal may be found in

VARIABLES
    pc, asking, \* where getColumns is, and which of its two questions it asks
    buf,        \* what getCursorPosition has read
    start,      \* getColumns' start
    result,     \* what getColumns returned, with where it got it from
    tty,        \* "cooked" or "raw"
    line, input,\* bytes the line discipline holds back, bytes read can have
    due,        \* whether the terminal has still to answer
    col, home,  \* the cursor's column, and where it was at the call
    keys,       \* keys typed so far
    failed,     \* whether a read or a write has failed
    cut         \* whether a read has failed within a column

asked == <<asking, buf, start>>
vars == <<pc, asked, result, tty, line, input, due, col, home, keys, failed, cut>>

Key(k) == [b |-> k, number |-> 0, of |-> "key"]
AnswerByte(b) == [b |-> b, number |-> 0, of |-> "answer"]
Digit(n) == [b |-> "digit", number |-> n, of |-> "answer"]

\* The numbers that the column c begins with, at its first digit and on.
Digits(c) ==
    IF c < 10 THEN <<c>> ELSE IF c < 100 THEN <<c \div 10, c>> ELSE <<c \div 100, c \div 10, c>>

Report(c) ==
    <<AnswerByte("esc"), AnswerByte("["), AnswerByte("row")>>
        \o [i \in 1 .. Len(Digits(c)) |-> Digit(Digits(c)[i])] \o <<AnswerByte("R")>>

Init ==
    /\ pc = "ioctl" /\ asking = 1 /\ buf = <<>> /\ start = 0
    /\ result = [from |-> "none", cols |-> 0]
    /\ tty \in Ttys /\ line = <<>> /\ input = <<>> /\ due = FALSE
    /\ col \in 1 .. Width /\ home = col /\ keys = 0 /\ failed = FALSE /\ cut = FALSE

-----------------------------------------------------------------------------
(* External: the terminal, its driver and the user.                         *)

\* Cooked, the line discipline hands a line over at its newline, and what it
\* has at end of file; it echoes, which leaves the cursor anywhere.
Arrive(bytes) ==
    LET last == bytes[Len(bytes)].b
        all  == line \o bytes
    IN  \/ tty = "raw" /\ input' = input \o bytes /\ UNCHANGED <<line, col>>
        \/ /\ tty = "cooked"
           /\ line' = IF last \in {"newline", "eof"} THEN <<>> ELSE all
           /\ input' = CASE last = "newline" -> input \o all
                         [] last = "eof" -> input \o (IF line = <<>> THEN bytes ELSE line)
                         [] OTHER -> input
           /\ col' \in 1 .. Width

Answer ==
    /\ due
    /\ due' = FALSE
    /\ Arrive(Report(col))
    /\ UNCHANGED <<pc, asked, result, tty, home, keys, failed, cut>>

UserTypes(k) ==
    /\ keys < MaxKeys
    /\ k = "eof" => tty = "cooked"
    /\ keys' = keys + 1
    /\ Arrive(<<Key(k)>>)
    /\ UNCHANGED <<pc, asked, result, tty, due, home, failed, cut>>

-----------------------------------------------------------------------------
(* getColumns.                                                              *)

Returns(from, cols) == pc' = "done" /\ result' = [from |-> from, cols |-> cols]

Ioctl ==
    /\ pc = "ioctl"
    /\ \/ Returns("ioctl", Width)
       \/ pc' = "ask" /\ UNCHANGED result
    /\ UNCHANGED <<asked, tty, line, input, due, col, home, keys, failed, cut>>

\* write(ofd, "\x1b[6n", 4)
Ask ==
    /\ pc = "ask"
    /\ buf' = <<>>
    /\ \/ pc' = "read" /\ due' = TRUE /\ UNCHANGED <<result, failed>>
       \/ Returns("default", Default) /\ failed' = TRUE /\ UNCHANGED due
    /\ UNCHANGED <<asking, start, tty, line, input, col, home, keys, cut>>

\* read(ifd, buf + i, 1): to the R, to the end of the buffer, or until it
\* gives no byte.
ReadByte ==
    /\ pc = "read" /\ input # <<>>
    /\ input' = Tail(input)
    /\ LET ends == Head(input).b \in {"R", "eof"}
       IN  /\ buf' = IF ends THEN buf ELSE Append(buf, Head(input))
           /\ pc' = IF ends \/ Len(buf') = BufSize THEN "parse" ELSE "read"
    /\ UNCHANGED <<asking, start, result, tty, line, due, col, home, keys, failed, cut>>

\* What parses: sscanf takes the digits that are there, all or not.
IsAnswer == /\ Len(buf) >= 4
            /\ <<buf[1].b, buf[2].b, buf[3].b, buf[4].b>> = <<"esc", "[", "row", "digit">>

ReadFails ==
    /\ pc = "read"
    /\ pc' = "parse" /\ failed' = TRUE
    /\ cut' = (cut \/ IsAnswer)
    /\ UNCHANGED <<asked, result, tty, line, input, due, col, home, keys>>

ColumnRead ==
    buf[Max({i \in 4 .. Len(buf) : \A j \in 4 .. i : buf[j].b = "digit"})].number

\* write(ofd, "\x1b[999C", 6)
Margin == Width

Parse ==
    /\ pc = "parse"
    /\ \/ ~IsAnswer /\ Returns("default", Default) /\ UNCHANGED <<asking, start, col, failed>>
       \/ /\ IsAnswer /\ asking = 1
          /\ start' = ColumnRead
          /\ \/ pc' = "ask" /\ asking' = 2 /\ col' = Margin /\ UNCHANGED <<result, failed>>
             \/ Returns("default", Default) /\ failed' = TRUE /\ UNCHANGED <<asking, col>>
       \/ /\ IsAnswer /\ asking = 2
          /\ pc' = "restore"
          /\ UNCHANGED <<asking, start, result, col, failed>>
    /\ UNCHANGED <<buf, tty, line, input, due, home, keys, cut>>

\* Mutant: one column short.
BackShort(cols) == cols - start - 1

Back(cols) == cols - start

\* "\x1b[%dD", whose failure is ignored.
Restore ==
    /\ pc = "restore"
    /\ LET cols == ColumnRead
       IN  /\ Returns("query", cols)
           /\ \/ /\ col' = IF cols > start THEN Max({1, col - Back(cols)}) ELSE col
                 /\ UNCHANGED failed
              \/ failed' = TRUE /\ UNCHANGED col
    /\ UNCHANGED <<asked, tty, line, input, due, home, keys, cut>>

Next == \/ Ioctl \/ Ask \/ ReadByte \/ ReadFails \/ Parse \/ Restore
        \/ Answer
        \/ \E k \in Typeable : UserTypes(k)

Spec == Init /\ [][Next]_vars

-----------------------------------------------------------------------------
(* Properties.                                                              *)

Left == input \o line

\* Whatever keys are typed into the answers, getColumns returns the width or
\* its default.  When the terminal has told the width, its answers are all
\* taken out of the input, no byte of them is left to be edited as a key, and
\* in raw mode the cursor is back where it was.  But a read that fails within
\* a column passes for its end: then the width can be what its first digits
\* say, and the rest of the column and the R are left in the input.
WidthIsRight ==
    pc = "done" =>
        /\ result.cols \in {Default, Width} \cup IF cut THEN Range(Digits(Width)) ELSE {}
        /\ result.from = "query" =>
              /\ ~due
              /\ \A i \in DOMAIN Left :
                    Left[i].of = "answer" => cut /\ Left[i].b \in {"digit", "R"}
              /\ tty = "raw" /\ ~failed => col = home
=============================================================================
