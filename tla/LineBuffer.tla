------------------------------ MODULE LineBuffer ------------------------------
(***************************************************************************)
(* The edit buffer of zigredis/src/include/linenoise.c: the fields buf,     *)
(* len and pos of struct linenoiseState, and the functions that edit them.  *)
(*                                                                         *)
(* buf is C memory, a function from offsets to bytes with a terminating     *)
(* NUL; strings (history entries, completions) are sequences of bytes.      *)
(* BufLen is l->buflen after linenoiseEditStart has set one byte aside for  *)
(* the terminator, so the offsets are 0..BufLen.  Every operator takes the  *)
(* record l and returns the record the function leaves behind; what the     *)
(* functions draw on the terminal is the subject of LineScreen.             *)
(***************************************************************************)
EXTENDS Integers, Sequences

CONSTANTS
    BufLen,     \* l->buflen
    Text,       \* the bytes a key may put into the line
    Space,      \* the byte ' '
    Tab,        \* the byte TAB, a key that may end up in the line
    NUL,        \* the byte '\0'
    Junk        \* what memory nobody has written holds

ASSUME BufLenAssumption == BufLen \in Nat \ {0}
ASSUME BytesAssumption == /\ {Space, Tab} \subseteq Text
                          /\ NUL # Junk
                          /\ NUL \notin Text
                          /\ Junk \notin Text

Byte == Text \cup {NUL, Junk}
Offset == 0 .. BufLen
LineState == [buf : [Offset -> Byte], len : Offset, pos : Offset]

\* The strings of at most n bytes.
LinesUpTo(n) == UNION {[1 .. k -> Text] : k \in 0 .. n}

-----------------------------------------------------------------------------
(* The memory functions of the C library that the editor calls.             *)

memmove(b, to, from, n) ==
    [i \in Offset |-> IF i \in to .. to + n - 1 THEN b[from + (i - to)] ELSE b[i]]

\* The offset of the first NUL, and the bytes before it.
strlen(b) == CHOOSE n \in Offset : b[n] = NUL /\ \A i \in 0 .. n - 1 : b[i] # NUL
CString(b) == [i \in 1 .. strlen(b) |-> b[i - 1]]

\* strncpy writes exactly n bytes: the string, then NULs.
strncpy(b, s, n) ==
    [i \in Offset |-> CASE i >= n -> b[i]
                        [] i < n /\ i < Len(s) -> s[i + 1]
                        [] OTHER -> NUL]

\* snprintf(b, n, "%s", s) writes at most n - 1 bytes of s and one NUL.
snprintf(b, n, s) ==
    [i \in Offset |-> CASE i < n - 1 /\ i < Len(s) -> s[i + 1]
                        [] i <= n - 1 /\ (i = Len(s) \/ (i = n - 1 /\ i < Len(s))) -> NUL
                        [] OTHER -> b[i]]

-----------------------------------------------------------------------------
(* Starting a line, and the line as a whole.                                *)

EmptyLine == [buf |-> [i \in Offset |-> IF i = 0 THEN NUL ELSE Junk],
              len |-> 0, pos |-> 0]

\* The bytes the editor counts as the line, whatever they are.
LineOf(l) == [i \in 1 .. l.len |-> l.buf[i - 1]]

\* The edited line is a C string of the length the editor believes in, and
\* the cursor is inside it.
LineIsString(l) ==
    /\ l.pos <= l.len
    /\ l.buf[l.len] = NUL
    /\ \A i \in 0 .. l.len - 1 : l.buf[i] \in Text

-----------------------------------------------------------------------------
(* The editing functions.                                                   *)

EditInsert(l, c) ==
    IF l.len < BufLen
    THEN [buf |-> [memmove(l.buf, l.pos + 1, l.pos, l.len - l.pos)
                      EXCEPT ![l.pos] = c, ![l.len + 1] = NUL],
          len |-> l.len + 1,
          pos |-> l.pos + 1]
    ELSE l

EditMoveLeft(l) == IF l.pos > 0 THEN [l EXCEPT !.pos = @ - 1] ELSE l
EditMoveRight(l) == IF l.pos # l.len THEN [l EXCEPT !.pos = @ + 1] ELSE l
EditMoveHome(l) == [l EXCEPT !.pos = 0]
EditMoveEnd(l) == [l EXCEPT !.pos = l.len]

\* Mutant: the terminator is not moved.
EditDeleteNoNul(l) ==
    IF l.len > 0 /\ l.pos < l.len
    THEN [buf |-> memmove(l.buf, l.pos, l.pos + 1, l.len - l.pos - 1),
          len |-> l.len - 1,
          pos |-> l.pos]
    ELSE l

EditDelete(l) ==
    IF l.len > 0 /\ l.pos < l.len
    THEN [buf |-> [memmove(l.buf, l.pos, l.pos + 1, l.len - l.pos - 1)
                      EXCEPT ![l.len - 1] = NUL],
          len |-> l.len - 1,
          pos |-> l.pos]
    ELSE l

EditBackspace(l) ==
    IF l.pos > 0 /\ l.len > 0
    THEN [buf |-> [memmove(l.buf, l.pos - 1, l.pos, l.len - l.pos)
                      EXCEPT ![l.len - 1] = NUL],
          len |-> l.len - 1,
          pos |-> l.pos - 1]
    ELSE l

\* Where a loop of linenoiseEditDeletePrevWord stops that starts at offset p
\* and runs back over the bytes in skip: the first loop runs over spaces, the
\* second over anything else.
BackOver(b, p, skip) ==
    CHOOSE q \in 0 .. p : /\ q = 0 \/ b[q - 1] \notin skip
                          /\ \A i \in q .. p - 1 : b[i] \in skip

Other == Byte \ {Space}

\* Mutant: at most one space before the cursor is skipped.
PrevWordOneSpace(l) ==
    LET skipped == IF l.pos > 0 /\ l.buf[l.pos - 1] = Space THEN l.pos - 1 ELSE l.pos
    IN  BackOver(l.buf, skipped, Other)

PrevWord(l) ==
    LET skipped == BackOver(l.buf, l.pos, {Space})
    IN  BackOver(l.buf, skipped, Other)

EditDeletePrevWord(l) ==
    LET start == PrevWord(l)
    IN  [buf |-> memmove(l.buf, start, l.pos, l.len - l.pos + 1),
         len |-> l.len - (l.pos - start),
         pos |-> start]

\* Ctrl-T: swap the byte before the cursor with the one under it.
EditTranspose(l) ==
    IF l.pos > 0 /\ l.pos < l.len
    THEN [l EXCEPT !.buf = [@ EXCEPT ![l.pos - 1] = l.buf[l.pos],
                                     ![l.pos] = l.buf[l.pos - 1]],
                   !.pos = IF l.pos # l.len - 1 THEN @ + 1 ELSE @]
    ELSE l

\* Ctrl-U and Ctrl-K.
EditKillLine(l) == [buf |-> [l.buf EXCEPT ![0] = NUL], len |-> 0, pos |-> 0]
EditKillToEnd(l) == [buf |-> [l.buf EXCEPT ![l.pos] = NUL], len |-> l.pos, pos |-> l.pos]

\* What a history key puts into the buffer: one byte less than it can hold.
EditReplace(l, s) ==
    LET b == [strncpy(l.buf, s, BufLen) EXCEPT ![BufLen - 1] = NUL]
    IN  [buf |-> b, len |-> strlen(b), pos |-> strlen(b)]

\* What accepting the completion s does.  nwritten is the length of s, which
\* is the length of the line only if s fitted.
EditComplete(l, s) ==
    [buf |-> snprintf(l.buf, BufLen, s), len |-> Len(s), pos |-> Len(s)]
=============================================================================
