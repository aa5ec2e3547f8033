------------------------------ MODULE LineSource ------------------------------
(***************************************************************************)
(* linenoise() of zigredis/src/include/linenoise.c when it cannot edit:     *)
(* linenoiseNoTTY for an input that is a file or a pipe, and fgets for the   *)
(* terminals of unsupported_term.  The loop of zigredis/src/main.zig calls   *)
(* it until it returns NULL.                                                *)
(***************************************************************************)
EXTENDS Integers, Sequences, SequencesExt

CONSTANTS
    Inputs,         \* the inputs there can be, sequences of bytes
    CR, LF,         \* '\r' and '\n'
    FirstSize,      \* half of what linenoiseNoTTY allocates first
    MaxLine,        \* LINENOISE_MAX_LINE
    AllocMayFail    \* whether realloc can fail

VARIABLES
    input,          \* everything there is to read
    at,             \* how much of it has been read
    tty,            \* "none", or "dumb" for an unsupported terminal
    pc,             \* "main", "read" inside linenoiseNoTTY, or "done"
    mem, maxlen,    \* the line being built, and the size of its allocation
    out,            \* the lines linenoise() has returned
    lost            \* an allocation has failed

vars == <<input, at, tty, pc, mem, maxlen, out, lost>>

Init ==
    /\ input \in Inputs /\ at = 0
    /\ tty \in {"none", "dumb"}
    /\ pc = "main" /\ mem = <<>> /\ maxlen = 0 /\ out = <<>> /\ lost = FALSE

AtEof == at = Len(input)
Byte == input[at + 1]

\* linenoise() with an input that is not a terminal: len = maxlen = 0.
CallNoTTY ==
    /\ pc = "main" /\ tty = "none"
    /\ pc' = "read" /\ mem' = <<>> /\ maxlen' = 0
    /\ UNCHANGED <<input, at, tty, out, lost>>

Finish == pc' = "done" /\ UNCHANGED out
Return(line) == pc' = "main" /\ out' = Append(out, line)

MustGrow == Len(mem) = maxlen
Grown == 2 * (IF maxlen = 0 THEN FirstSize ELSE maxlen)

\* Mutant: the end of the input drops a line without a newline.
NoTTYDropsLast ==
    /\ pc = "read"
    /\ maxlen' = IF MustGrow THEN Grown ELSE maxlen
    /\ \/ AtEof /\ Finish /\ UNCHANGED <<mem, at>>
       \/ ~AtEof /\ Byte = LF /\ Return(mem) /\ at' = at + 1 /\ UNCHANGED mem
       \/ /\ ~AtEof /\ Byte # LF
          /\ mem' = Append(mem, Byte) /\ at' = at + 1
          /\ UNCHANGED <<pc, out>>
    /\ UNCHANGED <<input, tty, lost>>

\* One turn of linenoiseNoTTY's loop: make room, then read a byte.
NoTTY ==
    /\ pc = "read"
    /\ maxlen' = IF MustGrow THEN Grown ELSE maxlen
    /\ \/ AtEof /\ mem = <<>> /\ Finish /\ UNCHANGED <<mem, at>>
       \/ AtEof /\ mem # <<>> /\ Return(mem) /\ UNCHANGED <<mem, at>>
       \/ ~AtEof /\ Byte = LF /\ Return(mem) /\ at' = at + 1 /\ UNCHANGED mem
       \/ /\ ~AtEof /\ Byte # LF
          /\ mem' = Append(mem, Byte) /\ at' = at + 1
          /\ UNCHANGED <<pc, out>>
    /\ UNCHANGED <<input, tty, lost>>

\* realloc fails: the line so far is freed, NULL is returned, and the program
\* takes it for the end of its input.
NoTTYFails ==
    /\ pc = "read" /\ AllocMayFail /\ MustGrow
    /\ Finish
    /\ lost' = TRUE
    /\ UNCHANGED <<input, at, tty, mem, maxlen>>

\* fgets stops after a newline or MaxLine - 1 bytes; the line ends are
\* trimmed, however many there are.
FgetsEnd ==
    CHOOSE n \in at + 1 .. Len(input) :
        /\ input[n] = LF \/ n = Len(input) \/ n = at + MaxLine - 1
        /\ \A i \in at + 1 .. n - 1 : input[i] # LF /\ i # at + MaxLine - 1

Trimmed(s) ==
    SubSeq(s, 1, CHOOSE n \in 0 .. Len(s) : /\ n > 0 => s[n] \notin {CR, LF}
                                            /\ \A i \in n + 1 .. Len(s) : s[i] \in {CR, LF})

Unsupported ==
    /\ pc = "main" /\ tty = "dumb"
    /\ IF AtEof
       THEN Finish /\ UNCHANGED at
       ELSE /\ Return(Trimmed(SubSeq(input, at + 1, FgetsEnd)))
            /\ at' = FgetsEnd
    /\ UNCHANGED <<input, tty, mem, maxlen, lost>>

Next == CallNoTTY \/ NoTTY \/ NoTTYFails \/ Unsupported

Spec == Init /\ [][Next]_vars

-----------------------------------------------------------------------------
(* Properties.                                                              *)

\* The lines ls, each with its newline.
Joined(ls) == FlattenSeq([i \in DOMAIN ls |-> Append(ls[i], LF)])

\* ls are the lines of s, the last of which may lack its newline.
AreLinesOf(ls, s) ==
    /\ \A i \in DOMAIN ls : \A j \in DOMAIN ls[i] : ls[i][j] # LF
    /\ Joined(ls) = IF s = <<>> \/ s[Len(s)] = LF THEN s ELSE Append(s, LF)

\* s without its line ends.
Printable(s) ==
    LET upTo[n \in 0 .. Len(s)] ==
            IF n = 0 THEN <<>>
            ELSE IF s[n] \in {CR, LF} THEN upTo[n - 1] ELSE Append(upTo[n - 1], s[n])
    IN  upTo[Len(s)]

\* From a pipe the program gets every line of its input, of any length, and
\* each once, before it sees the end, and no byte is stored outside the
\* allocation.  On an unsupported terminal a long line arrives in pieces, but
\* none of its bytes is lost.
InputArrives ==
    /\ pc = "done" /\ tty = "none" /\ ~lost => AreLinesOf(out, input)
    /\ Len(mem) <= maxlen /\ (pc = "main" /\ maxlen > 0 => Len(mem) < maxlen)
    /\ tty = "dumb" => Printable(FlattenSeq(out)) = Printable(SubSeq(input, 1, at))
=============================================================================
