------------------------------ MODULE LinePrompt ------------------------------
(***************************************************************************)
(* An editing session of zigredis/src/include/linenoise.c on a terminal:    *)
(* linenoiseEditStart, one linenoiseEditFeed per key, linenoiseEditStop,     *)
(* with the history and the completions they use, in a program that calls   *)
(* linenoise() again and again, may add what it returns to the history and  *)
(* may change the length of the history between two calls.                  *)
(*                                                                         *)
(* Keys are bytes; an escape sequence is the key "esc" and a tail the same  *)
(* call reads.  malloc and strdup do not fail here.  The variables refused, *)
(* own, kept, visited and typed only remember the past for the properties.  *)
(***************************************************************************)
EXTENDS LineBuffer, LineHistory

CONSTANTS
    High,               \* bytes of Text from 128 up, negative as a char
    CompletionsOf(_),   \* what completionCallback adds for a line
    MaxLens,            \* arguments of linenoiseHistorySetMaxLen
    DefaultMaxLen,      \* LINENOISE_DEFAULT_HISTORY_MAX_LEN
    TtyMayFail,         \* whether tcsetattr can fail
    NulKey              \* whether the key that sends byte 0 is used

VARIABLES
    l,                  \* buf, len and pos of struct linenoiseState
    history, history_max_len, history_index,
    in_completion, completion_idx,
    phase,              \* where the program is
    res,                \* what linenoiseEditFeed returned last
    rawmode,            \* the flag of the library
    tty, orig_termios,  \* the terminal's settings, and the saved ones
    refused,            \* tcsetattr has failed
    own,                \* linenoiseEditStart came as far as linenoiseHistoryAdd
    kept,               \* the history this session must give back
    visited,            \* the entries it has been browsing over
    typed               \* the line when browsing last left the newest entry

lineVars == <<l, history, history_index, in_completion, completion_idx,
              visited, typed>>
ttyVars == <<rawmode, tty, orig_termios, refused>>
vars == <<lineVars, ttyVars, history_max_len, phase, res, own, kept>>

Controls == {"enter", "ctrl_c", "backspace", "ctrl_h", "ctrl_d", "ctrl_t", "ctrl_b",
             "ctrl_f", "ctrl_p", "ctrl_n", "esc", "ctrl_u", "ctrl_k", "ctrl_a",
             "ctrl_e", "ctrl_l", "ctrl_w"}
EscTails == {"del", "up", "down", "right", "left", "home", "end", "other"}
Keys == Controls \cup Text \cup (IF NulKey THEN {NUL} ELSE {})

ASSUME KeysAssumption == /\ Controls \cap (Text \cup {NUL}) = {}
                         /\ High \subseteq Text \ {Tab}
                         /\ TtyMayFail \in BOOLEAN /\ NulKey \in BOOLEAN
ASSUME HistoryAssumption == /\ MaxLens \subseteq Int
                            /\ DefaultMaxLen \in Nat \ {0}
\* The completions of the program are command names, far shorter than the
\* 4095 bytes of the buffer.
ASSUME CompletionsFit ==
    \A s \in LinesUpTo(BufLen) : CompletionsOf(s) \in Seq(LinesUpTo(BufLen - 1))

None == [kind |-> "none"]
Line(s) == [kind |-> "line", line |-> s]
Null(errno) == [kind |-> "null", errno |-> errno]

Init ==
    /\ l = EmptyLine
    /\ history = <<>> /\ history_max_len = DefaultMaxLen /\ history_index = 0
    /\ in_completion = FALSE /\ completion_idx = 0
    /\ phase = "idle" /\ res = None
    /\ rawmode = FALSE /\ tty = "initial" /\ orig_termios = "unset"
    /\ refused = FALSE /\ own = FALSE /\ kept = <<>> /\ visited = {} /\ typed = <<>>

-----------------------------------------------------------------------------
(* The terminal.                                                            *)

enableRawMode == /\ orig_termios' = tty
                 /\ tty' = "raw"
                 /\ rawmode' = TRUE
                 /\ UNCHANGED refused

\* tcgetattr has already overwritten the saved settings when tcsetattr fails.
enableRawModeFails == /\ TtyMayFail
                      /\ orig_termios' = tty
                      /\ refused' = TRUE
                      /\ UNCHANGED <<tty, rawmode>>

disableRawMode ==
    \/ /\ rawmode
       /\ tty' = orig_termios
       /\ rawmode' = FALSE
       /\ UNCHANGED <<orig_termios, refused>>
    \/ ~rawmode /\ UNCHANGED ttyVars
    \/ rawmode /\ TtyMayFail /\ refused' = TRUE /\ UNCHANGED <<rawmode, tty, orig_termios>>

-----------------------------------------------------------------------------
(* linenoiseEditStart, whose result linenoiseBlockingEdit ignores.          *)

\* What a session that finds the history h must give back: all of h, less its
\* oldest entry when the array is full.  One program is owed less: if its
\* newest entry is the empty line already, linenoiseHistoryAdd pushes nothing,
\* and the session edits, and enter frees, that entry of the program.
Owed(h, max) ==
    IF h # <<>> /\ h[Len(h)] = <<>> THEN Before(h)
    ELSE IF Len(h) = max THEN Tail(h) ELSE h

EditStart ==
    /\ phase = "idle"
    /\ phase' = "editing"
    /\ l' = EmptyLine
    /\ in_completion' = FALSE
    /\ history_index' = 0
    /\ \/ /\ enableRawMode
          /\ history' = HistoryAdd(history, history_max_len, <<>>)
          /\ kept' = Owed(history, history_max_len) /\ own' = TRUE
       \/ /\ enableRawModeFails
          /\ kept' = <<>> /\ own' = FALSE
          /\ UNCHANGED history
    /\ visited' = {} /\ typed' = <<>> /\ res' = None
    /\ UNCHANGED <<history_max_len, completion_idx>>

-----------------------------------------------------------------------------
(* linenoiseEditFeed.  m is the line once a completion has been accepted.   *)

More == UNCHANGED <<phase, res>>
Return(r) == phase' = "stopping" /\ res' = r
Browsing == <<history, history_index, visited, typed>>

\* history_len--; free(history[history_len]);  On an empty array this reads
\* and frees what lies before it.
PopAndReturn(r) ==
    IF history = <<>>
    THEN phase' = "undefined" /\ UNCHANGED <<history, res>>
    ELSE history' = Before(history) /\ Return(r)

KeyEnter(m) ==
    /\ PopAndReturn(Line(CString(m.buf)))
    /\ l' = m
    /\ UNCHANGED <<history_index, visited, typed>>

KeyCtrlC(m) ==
    /\ Return(Null("EAGAIN"))
    /\ l' = m
    /\ UNCHANGED Browsing

KeyCtrlD(m) ==
    /\ IF m.len > 0
       THEN l' = EditDelete(m) /\ More /\ UNCHANGED history
       ELSE l' = m /\ PopAndReturn(Null("ENOENT"))
    /\ UNCHANGED <<history_index, visited, typed>>

\* The keys that only edit the buffer or move the cursor.
Edited(k, m) ==
    CASE k \in {"backspace", "ctrl_h"} -> EditBackspace(m)
      [] k = "del" -> EditDelete(m)
      [] k = "ctrl_t" -> EditTranspose(m)
      [] k \in {"ctrl_b", "left"} -> EditMoveLeft(m)
      [] k \in {"ctrl_f", "right"} -> EditMoveRight(m)
      [] k \in {"ctrl_a", "home"} -> EditMoveHome(m)
      [] k \in {"ctrl_e", "end"} -> EditMoveEnd(m)
      [] k = "ctrl_u" -> EditKillLine(m)
      [] k = "ctrl_k" -> EditKillToEnd(m)
      [] k = "ctrl_w" -> EditDeletePrevWord(m)
      [] OTHER -> m

KeyEdit(k, m) == l' = Edited(k, m) /\ More /\ UNCHANGED Browsing

\* Mutant: the line is stored after the index has moved.
EditHistoryNextLate(dir, m) ==
    IF Len(history) > 1
    THEN LET here == Len(history) - history_index
             h    == LET j == here - dir
                    IN  IF j \in DOMAIN history THEN [history EXCEPT ![j] = CString(m.buf)] ELSE history
             i    == history_index + dir
         IN  /\ history' = h
             /\ visited' = visited \cup {here}
             /\ typed' = IF history_index = 0 THEN LineOf(m) ELSE typed
             /\ IF i < 0 \/ i >= Len(history)
                THEN /\ history_index' = IF i < 0 THEN 0 ELSE Len(history) - 1
                     /\ l' = m
                ELSE /\ history_index' = i
                     /\ l' = EditReplace(m, h[Len(h) - i])
    ELSE l' = m /\ UNCHANGED Browsing

\* Mutant: the line is not stored before it is replaced.
EditHistoryNextForgets(dir, m) ==
    IF Len(history) > 1
    THEN LET here == Len(history) - history_index
             h    == history
             i    == history_index + dir
         IN  /\ history' = h
             /\ visited' = visited \cup {here}
             /\ typed' = IF history_index = 0 THEN LineOf(m) ELSE typed
             /\ IF i < 0 \/ i >= Len(history)
                THEN /\ history_index' = IF i < 0 THEN 0 ELSE Len(history) - 1
                     /\ l' = m
                ELSE /\ history_index' = i
                     /\ l' = EditReplace(m, h[Len(h) - i])
    ELSE l' = m /\ UNCHANGED Browsing

\* linenoiseEditHistoryNext: the line goes back into the entry it came from
\* before the next one is looked up, so browsing edits the history.
EditHistoryNext(dir, m) ==
    IF Len(history) > 1
    THEN LET here == Len(history) - history_index
             h    == [history EXCEPT ![here] = CString(m.buf)]
             i    == history_index + dir
         IN  /\ history' = h
             /\ visited' = visited \cup {here}
             /\ typed' = IF history_index = 0 THEN LineOf(m) ELSE typed
             /\ IF i < 0 \/ i >= Len(history)
                THEN /\ history_index' = IF i < 0 THEN 0 ELSE Len(history) - 1
                     /\ l' = m
                ELSE /\ history_index' = i
                     /\ l' = EditReplace(m, h[Len(h) - i])
    ELSE l' = m /\ UNCHANGED Browsing

HISTORY_PREV == 1
HISTORY_NEXT == -1

KeyHistory(k, m) ==
    /\ EditHistoryNext(IF k \in {"ctrl_p", "up"} THEN HISTORY_PREV ELSE HISTORY_NEXT, m)
    /\ More

\* A byte goes into the line.  When it is written to the terminal without a
\* refresh, at the end of the line, a failing write ends the session.
KeyText(k, m) ==
    /\ l' = EditInsert(m, k)
    /\ More \/ (m.pos = m.len /\ m.len < BufLen /\ Return(Null("EIO")))
    /\ UNCHANGED Browsing

Dispatch(k, m) ==
    \/ k = "enter" /\ KeyEnter(m)
    \/ k = "ctrl_c" /\ KeyCtrlC(m)
    \/ k = "ctrl_d" /\ KeyCtrlD(m)
    \/ k \in {"ctrl_p", "ctrl_n"} /\ KeyHistory(k, m)
    \/ /\ k = "esc"
       /\ \E t \in EscTails : \/ t \in {"up", "down"} /\ KeyHistory(t, m)
                              \/ t \notin {"up", "down"} /\ KeyEdit(t, m)
    \/ k \in Text \cup {NUL} /\ KeyText(k, m)
    \/ /\ k \in Controls \ {"enter", "ctrl_c", "ctrl_d", "ctrl_p", "ctrl_n", "esc"}
       /\ KeyEdit(k, m)

\* Mutant: one turn of the wheel too many.
NextIdxFar(n) == (completion_idx + 1) % (n + 2)

\* Through the n completions, then once to the line itself.
NextIdx(n) == (completion_idx + 1) % (n + 1)

\* completeLine, and what linenoiseEditFeed makes of its result: a negative
\* byte ends the session, a zero has been dealt with.
completeLine(k) ==
    LET lc == CompletionsOf(CString(l.buf))
        accepted == IF completion_idx < Len(lc)
                    THEN EditComplete(l, lc[completion_idx + 1]) ELSE l
        Proceed(m) == CASE k \in High -> l' = m /\ Return(Null("none")) /\ UNCHANGED Browsing
                        [] k = NUL -> l' = m /\ More /\ UNCHANGED Browsing
                        [] OTHER -> Dispatch(k, m)
    IN  \/ /\ lc = <<>>
           /\ in_completion' = FALSE
           /\ UNCHANGED completion_idx
           /\ Proceed(l)
        \/ /\ lc # <<>> /\ k = Tab
           /\ in_completion' = TRUE
           /\ completion_idx' = IF in_completion THEN NextIdx(Len(lc)) ELSE 0
           /\ UNCHANGED l /\ More /\ UNCHANGED Browsing
        \/ /\ lc # <<>> /\ k = "esc"
           /\ in_completion' = FALSE
           /\ UNCHANGED <<l, completion_idx>> /\ More /\ UNCHANGED Browsing
        \/ /\ lc # <<>> /\ k \notin {Tab, "esc"}
           /\ in_completion' = FALSE
           /\ UNCHANGED completion_idx
           /\ Proceed(accepted)

EditFeed(k) ==
    /\ phase = "editing"
    /\ \/ (in_completion \/ k = Tab) /\ completeLine(k)
       \/ /\ ~in_completion /\ k # Tab
          /\ UNCHANGED <<in_completion, completion_idx>>
          /\ Dispatch(k, l)
    /\ UNCHANGED <<ttyVars, history_max_len, own, kept>>

\* read returns nothing, or fails.
FeedReadFails ==
    /\ phase = "editing"
    /\ Return(Null("EIO"))
    /\ UNCHANGED <<lineVars, ttyVars, history_max_len, own, kept>>

\* Mutant: the terminal is only put back when there is a line.
EditStopOnLine ==
    /\ phase = "stopping"
    /\ IF res.kind = "line" THEN disableRawMode ELSE UNCHANGED ttyVars
    /\ phase' = "idle"
    /\ l' = EmptyLine /\ in_completion' = FALSE /\ completion_idx' = 0
    /\ history_index' = 0 /\ own' = FALSE /\ kept' = <<>> /\ visited' = {} /\ typed' = <<>>
    /\ UNCHANGED <<history, history_max_len, res>>

\* linenoiseEditStop; the state of the session was on the caller's stack.
EditStop ==
    /\ phase = "stopping"
    /\ disableRawMode
    /\ phase' = "idle"
    /\ l' = EmptyLine /\ in_completion' = FALSE /\ completion_idx' = 0
    /\ history_index' = 0 /\ own' = FALSE /\ kept' = <<>> /\ visited' = {} /\ typed' = <<>>
    /\ UNCHANGED <<history, history_max_len, res>>

-----------------------------------------------------------------------------
(* The program between two calls of linenoise().                            *)

ClientAdds ==
    /\ phase = "idle" /\ res.kind = "line"
    /\ history' = HistoryAdd(history, history_max_len, res.line)
    /\ res' = None
    /\ UNCHANGED <<l, history_index, in_completion, completion_idx, visited, typed,
                   ttyVars, history_max_len, phase, own, kept>>

ClientSetsMaxLen(n) ==
    /\ phase = "idle"
    /\ n >= 1
    /\ history' = HistorySetMaxLen(history, n)
    /\ history_max_len' = n
    /\ UNCHANGED <<l, history_index, in_completion, completion_idx, visited, typed,
                   ttyVars, phase, res, own, kept>>

\* exit(), which runs linenoiseAtExit.
ClientExits ==
    /\ phase = "idle"
    /\ disableRawMode
    /\ phase' = "exited"
    /\ UNCHANGED <<lineVars, history_max_len, res, own, kept>>

Next ==
    \/ EditStart
    \/ \E k \in Keys : EditFeed(k)
    \/ FeedReadFails
    \/ EditStop
    \/ ClientAdds
    \/ \E n \in MaxLens : ClientSetsMaxLen(n)
    \/ ClientExits

Spec == Init /\ [][Next]_vars

-----------------------------------------------------------------------------
(* Properties.                                                              *)

TypeOK ==
    /\ l \in LineState
    /\ history \in Seq(LinesUpTo(BufLen))
    /\ history_max_len \in Nat \ {0} /\ Len(history) <= history_max_len
    /\ history_index \in Nat
    /\ in_completion \in BOOLEAN /\ completion_idx \in Nat
    /\ phase \in {"idle", "editing", "stopping", "exited", "undefined"}
    /\ res \in [kind : {"none"}] \cup [kind : {"line"}, line : LinesUpTo(BufLen)]
               \cup [kind : {"null"}, errno : {"EAGAIN", "ENOENT", "EIO", "none"}]
    /\ rawmode \in BOOLEAN
    /\ tty \in {"initial", "raw"} /\ orig_termios \in {"unset", "initial", "raw"}
    /\ refused \in BOOLEAN /\ own \in BOOLEAN /\ kept \in Seq(LinesUpTo(BufLen))
    /\ visited \subseteq Nat \ {0}
    /\ typed \in LinesUpTo(BufLen)

\* Whatever keys are typed but the one that sends byte 0, the buffer holds a
\* C string of length len whose bytes were all typed, recalled or completed (no
\* memmove drags in memory past the end), and the cursor is inside it.
LineWellFormed == phase \in {"editing", "stopping"} => LineIsString(l)

\* While a line is edited the newest history entry is the session's, if
\* linenoiseEditStart came as far as linenoiseHistoryAdd: the entries before it
\* are the ones it owes the program, of those that linenoiseEditStart found,
\* each unchanged unless browsing passed over it, and history_index is inside
\* the array.
SlotHeld ==
    phase = "editing" /\ own => /\ Len(history) = Len(kept) + 1
                                /\ history_index < Len(history)
                                /\ \A i \in DOMAIN kept : i \in visited \/ history[i] = kept[i]

\* Enter and Ctrl-D remove the session's entry and leave what is owed: the
\* history as it was found, less what browsing rewrote, the oldest line of a
\* full array, and an empty newest line, which the session took for its own.
\* Any other end leaves the session's entry behind it.
HistorySurvives ==
    phase = "stopping" /\ own =>
        /\ Len(history) - Len(kept) \in {0, 1}
        /\ Len(history) = Len(kept) <=> res.kind = "line" \/ res = Null("ENOENT")
        /\ \A i \in DOMAIN kept : i \in visited \/ history[i] = kept[i]

\* The history is the program's, from the start of a line to its end, but for
\* an empty newest line.
HistoryKept == SlotHeld /\ HistorySurvives

\* What linenoiseEditFeed returns is the line as it was edited.
ResultIsLine == phase = "stopping" /\ res.kind = "line" => res.line = LineOf(l)

\* Coming back to the newest entry brings back what had been typed there, as
\* much of it as linenoiseEditHistoryNext copies (one byte less than fits).
TypedComesBack ==
    [][ phase = "editing" /\ phase' = "editing" /\ history_index = 1 /\ history_index' = 0
        => LineOf(l') = SubSeq(typed, 1, IF Len(typed) < BufLen THEN Len(typed) ELSE BufLen - 1)
      ]_vars

\* While a completion is shown there still are completions for the line under
\* it, and the index is one of theirs or the one that stands for the line.
CompletionStands ==
    in_completion => LET lc == CompletionsOf(LineOf(l))
                     IN  lc # <<>> /\ completion_idx <= Len(lc)

Offers == LET lc == CompletionsOf(LineOf(l)) IN {lc[i] : i \in DOMAIN lc}
Editor == INSTANCE LineEditor WITH MaxLen <- BufLen, Letters <- Text, Blank <- Space,
              Swallowed <- High \cup {Tab}, text <- LineOf(l), cur <- l.pos, offered <- Offers

\* Every key does to the C buffer what the abstract editor says it does to a
\* text and a cursor.
KeysAsPromised ==
    [][ \A k \in Controls \cup Text : EditFeed(k) =>
            \/ Editor!Press(k)
            \/ k = "esc" /\ \E t \in EscTails : Editor!Press(t) ]_vars

\* However a session ends, between two calls of linenoise() and after exit the
\* terminal has the settings it had before the first one, unless it has ever
\* refused to take some.
CookedOutside == phase \in {"idle", "exited"} /\ ~refused => tty = "initial"

=============================================================================
