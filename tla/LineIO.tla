------------------------------- MODULE LineIO --------------------------------
(***************************************************************************)
(* What the line editor reads and writes besides keys, side by side: its    *)
(* history file, an input it cannot edit, and a terminal that is asked for  *)
(* its width.  The three do not touch each other.                           *)
(***************************************************************************)
EXTENDS HistoryFile

CONSTANTS Inputs, FirstSize, AllocMayFail,
          Width, Default, BufSize, MaxKeys, Typeable, Ttys

VARIABLES
    input, at, from, spc, mem, maxlen, out, lost,   \* of LineSource
    wpc, asking, buf, start, result, tty, held,     \* of TerminalWidth
    arrived, due, col, home, keys, failed, cut

sourceVars == <<input, at, from, spc, mem, maxlen, out, lost>>
widthVars == <<wpc, asking, buf, start, result, tty, held, arrived, due, col, home, keys, failed, cut>>

Source == INSTANCE LineSource WITH tty <- from, pc <- spc
Terminal == INSTANCE TerminalWidth WITH pc <- wpc, line <- held, input <- arrived

\* Inputs are bytes; the first allocation of linenoiseNoTTY is not empty.
ASSUME SourceAssumption == /\ \A s \in Inputs : s \in Seq(Char \cup {CR, LF})
                           /\ FirstSize \in Nat \ {0}
\* The margin is reached by ESC [ 999 C.  An answer of the terminal fits the
\* buffer, and nobody types one: "esc" stands for an ESC that an answer begins
\* with, a typed one is a key.
ASSUME WidthAssumption == /\ Width \in 1 .. 999 /\ BufSize \in Nat /\ BufSize >= 7
                          /\ "esc" \notin Typeable
                          /\ MaxKeys \in Nat

-----------------------------------------------------------------------------
(* The properties of LineSource and TerminalWidth, under their names.       *)

\* Every line of a pipe reaches the program, inside the memory allocated for
\* it, and every byte on an unsupported terminal (linenoiseNoTTY, linenoise).
InputArrives == Source!InputArrives

\* getColumns returns the width or its default, and a query that succeeds
\* leaves neither a byte of an answer in the input nor the cursor elsewhere,
\* unless a read has failed within a column.
WidthIsRight == Terminal!WidthIsRight
=============================================================================
