----------------------------- MODULE LineHistory ------------------------------
(***************************************************************************)
(* The history functions of zigredis/src/include/linenoise.c on the array   *)
(* history[0 .. history_len - 1], a sequence h of strings here, oldest      *)
(* first, and on history_max_len.                                           *)
(***************************************************************************)
EXTENDS Integers, Sequences

\* linenoiseHistoryAdd: not the same line twice in a row, and the oldest
\* line goes when the array is full.
HistoryAdd(h, max, line) ==
    CASE max = 0 -> h
      [] max # 0 /\ h # <<>> /\ h[Len(h)] = line -> h
      [] OTHER -> Append(IF Len(h) = max THEN Tail(h) ELSE h, line)

\* linenoiseHistorySetMaxLen keeps the latest lines; lengths below 1 are
\* refused.
HistorySetMaxLen(h, len) ==
    IF len < Len(h) THEN SubSeq(h, Len(h) - len + 1, Len(h)) ELSE h

\* history_len--: all lines but the newest.
Before(h) == SubSeq(h, 1, Len(h) - 1)
=============================================================================
