----------------------------- MODULE HistoryFile ------------------------------
(***************************************************************************)
(* history.txt: linenoiseHistorySave and linenoiseHistoryLoad of            *)
(* zigredis/src/include/linenoise.c, saveHistory of zigredis/src/history.zig *)
(* and the loop of zigredis/src/main.zig that calls them, for clients that   *)
(* run in the same directory.                                               *)
(*                                                                         *)
(* The file is a sequence of bytes.  fopen(.., "w") truncates it; what       *)
(* fprintf produces stays in a buffer of Block bytes that is written when it *)
(* is full and by fclose, at the offset of that writer; bytes nobody wrote   *)
(* below a writer's offset read as NUL.  A client can be killed at any step  *)
(* and started again.  snap, torn and overlap only remember the past.        *)
(***************************************************************************)
EXTENDS LineHistory, SequencesExt

CONSTANTS
    Proc,           \* the clients
    Char,           \* the bytes of a line
    Lines,          \* what linenoise() returns, sequences of them
    CR, LF, NUL,    \* the bytes the file functions treat specially
    MaxLine,        \* LINENOISE_MAX_LINE
    MaxHist,        \* history_max_len
    Block,          \* bytes written at once
    DiskMayFail,    \* whether opening or writing the file can fail
    NoFile

ASSUME HistoryFileAssumption == /\ Lines \subseteq Seq(Char)
                                /\ NoFile \notin Seq(Char \cup {CR, LF, NUL})
                                /\ CR # LF /\ CR # NUL /\ LF # NUL
                                /\ MaxLine \in Nat \ {0, 1}
                                /\ MaxHist \in Nat \ {0}
                                /\ Block \in Nat \ {0}
                                /\ DiskMayFail \in BOOLEAN

VARIABLES
    hist,           \* each client's history array
    pc,             \* what each client does
    line,           \* the line it is working on
    offset,         \* how much of its history it has written
    file,
    snap,           \* the history that the last fopen(.., "w") began to save
    torn,           \* that save was cut short
    overlap         \* another save was under way when it began

vars == <<hist, pc, line, offset, file, snap, torn, overlap>>

-----------------------------------------------------------------------------
(* The text of a history, and reading it back.                              *)

Bytes(h) == FlattenSeq([i \in DOMAIN h |-> Append(h[i], LF)])

\* strchr: the bytes of s before the first b.
UpTo(s, b) == IF \E i \in DOMAIN s : s[i] = b
              THEN SubSeq(s, 1, SelectInSeq(s, LAMBDA x : x = b) - 1) ELSE s

\* Mutant: fgets stops one byte early.
ChunkLenShort(s) == LET n == Len(UpTo(s, LF)) + 1
                        m == IF n < MaxLine - 2 THEN n ELSE MaxLine - 2
                    IN  IF m < Len(s) THEN m ELSE Len(s)

\* fgets reads up to and including a newline, but at most MaxLine - 1 bytes.
ChunkLen(s) == LET n == Len(UpTo(s, LF)) + 1
                   m == IF n < MaxLine - 1 THEN n ELSE MaxLine - 1
               IN  IF m < Len(s) THEN m ELSE Len(s)

\* The line of a chunk: a C string, cut at the first CR or else at the LF.
LineOfChunk(s) == LET c == UpTo(s, NUL)
                  IN  IF \E i \in DOMAIN c : c[i] = CR THEN UpTo(c, CR) ELSE UpTo(c, LF)

\* One turn of linenoiseHistoryLoad's loop, with r.at bytes of s read.
LoadTurn(s, r) ==
    LET left == SubSeq(s, r.at + 1, Len(s))
    IN  [at |-> r.at + ChunkLen(left),
         h |-> HistoryAdd(r.h, MaxHist, LineOfChunk(SubSeq(left, 1, ChunkLen(left))))]

\* linenoiseHistoryLoad of the file s into an empty history.  Every turn reads
\* a byte or more, so there are at most Len(s).
Load(s) ==
    LET turn[k \in 0 .. Len(s)] ==
            IF k = 0 THEN [at |-> 0, h |-> <<>>]
            ELSE IF turn[k - 1].at = Len(s) THEN turn[k - 1]
            ELSE LoadTurn(s, turn[k - 1])
    IN  turn[Len(s)].h

\* Writing the bytes s at offset o of the file.
WriteAt(f, o, s) ==
    [i \in 1 .. (IF Len(f) > o + Len(s) THEN Len(f) ELSE o + Len(s)) |->
        IF i \in o + 1 .. o + Len(s) THEN s[i - o]
        ELSE IF i <= Len(f) THEN f[i] ELSE NUL]

-----------------------------------------------------------------------------
Init ==
    /\ hist = [p \in Proc |-> <<>>] /\ pc = [p \in Proc |-> "start"]
    /\ line = [p \in Proc |-> <<>>] /\ offset = [p \in Proc |-> 0]
    /\ file = NoFile /\ snap = <<>> /\ torn = FALSE /\ overlap = FALSE

fileVars == <<file, snap, torn, overlap>>

\* main: linenoiseHistoryLoad("history.txt"), whose result is ignored.
Start(p) ==
    /\ pc[p] = "start"
    /\ pc' = [pc EXCEPT ![p] = "prompt"]
    /\ hist' = IF file = NoFile THEN hist ELSE [hist EXCEPT ![p] = Load(file)]
    /\ UNCHANGED <<line, offset, fileVars>>

\* linenoise() returns a line.  The session has pushed its own entry, which
\* takes the place of the oldest when the array is full, has let the user
\* rewrite an entry e by browsing, and has popped its entry again.
Prompted(p) == Before(HistoryAdd(hist[p], MaxHist, <<>>))

Prompt(p, s) ==
    /\ pc[p] = "prompt"
    /\ LET h == Prompted(p)
       IN  hist' = [hist EXCEPT ![p] = h] \/ \E e \in DOMAIN h, t \in Lines \cup {<<>>} :
                                                 hist' = [hist EXCEPT ![p] = [h EXCEPT ![e] = t]]
    /\ pc' = [pc EXCEPT ![p] = "run"]
    /\ line' = [line EXCEPT ![p] = s]
    /\ UNCHANGED <<offset, fileVars>>

\* The line does not parse: the loop goes on.
Rejected(p) ==
    /\ pc[p] = "run"
    /\ pc' = [pc EXCEPT ![p] = "prompt"]
    /\ line' = [line EXCEPT ![p] = <<>>]
    /\ UNCHANGED <<hist, offset, fileVars>>

\* Mutant: the file is opened without truncating it.
SaveOpenKeeps(p) ==
    /\ pc[p] = "run"
    /\ hist' = [hist EXCEPT ![p] = HistoryAdd(hist[p], MaxHist, line[p])]
    /\ pc' = [pc EXCEPT ![p] = "save"]
    /\ offset' = [offset EXCEPT ![p] = 0]
    /\ file' = IF file = NoFile THEN <<>> ELSE file
    /\ snap' = hist'[p]
    /\ torn' = FALSE
    /\ overlap' = (\E q \in Proc \ {p} : pc[q] = "save")
    /\ line' = [line EXCEPT ![p] = <<>>]

\* The reply has been printed: saveHistory adds the line and opens the file.
SaveOpen(p) ==
    /\ pc[p] = "run"
    /\ hist' = [hist EXCEPT ![p] = HistoryAdd(hist[p], MaxHist, line[p])]
    /\ pc' = [pc EXCEPT ![p] = "save"]
    /\ offset' = [offset EXCEPT ![p] = 0]
    /\ file' = <<>>
    /\ snap' = hist'[p]
    /\ torn' = FALSE
    /\ overlap' = (\E q \in Proc \ {p} : pc[q] = "save")
    /\ line' = [line EXCEPT ![p] = <<>>]

\* fopen fails: linenoiseHistorySave returns -1, which saveHistory drops.
SaveOpenFails(p) ==
    /\ pc[p] = "run" /\ DiskMayFail
    /\ hist' = [hist EXCEPT ![p] = HistoryAdd(hist[p], MaxHist, line[p])]
    /\ pc' = [pc EXCEPT ![p] = "prompt"]
    /\ line' = [line EXCEPT ![p] = <<>>]
    /\ UNCHANGED <<offset, fileVars>>

\* The next block of the history reaches the file, or the disk is full and it
\* is lost with all that would follow it.
SaveWrite(p) ==
    /\ pc[p] = "save" /\ offset[p] < Len(Bytes(hist[p]))
    /\ LET o   == offset[p]
           end == IF o + Block < Len(Bytes(hist[p])) THEN o + Block ELSE Len(Bytes(hist[p]))
       IN  \/ /\ file' = WriteAt(file, o, SubSeq(Bytes(hist[p]), o + 1, end))
              /\ offset' = [offset EXCEPT ![p] = end]
              /\ UNCHANGED torn
           \/ /\ DiskMayFail
              /\ offset' = [offset EXCEPT ![p] = Len(Bytes(hist[p]))]
              /\ torn' = TRUE
              /\ UNCHANGED file
    /\ UNCHANGED <<hist, pc, line, snap, overlap>>

\* fclose; linenoiseHistorySave returns 0 whatever happened.
SaveClose(p) ==
    /\ pc[p] = "save" /\ offset[p] = Len(Bytes(hist[p]))
    /\ pc' = [pc EXCEPT ![p] = "prompt"]
    /\ offset' = [offset EXCEPT ![p] = 0]
    /\ UNCHANGED <<hist, line, fileVars>>

\* The client exits at the prompt or with a command, or is killed anywhere.
Exit(p) ==
    /\ pc[p] \in {"prompt", "run", "save"}
    /\ pc' = [pc EXCEPT ![p] = "start"]
    /\ hist' = [hist EXCEPT ![p] = <<>>]
    /\ line' = [line EXCEPT ![p] = <<>>]
    /\ offset' = [offset EXCEPT ![p] = 0]
    /\ torn' = (torn \/ pc[p] = "save")
    /\ UNCHANGED <<file, snap, overlap>>

Next == \E p \in Proc :
    \/ Start(p)
    \/ \E s \in Lines : Prompt(p, s)
    \/ Rejected(p)
    \/ SaveOpen(p)
    \/ SaveOpenFails(p)
    \/ SaveWrite(p)
    \/ SaveClose(p)
    \/ Exit(p)

Spec == Init /\ [][Next]_vars

-----------------------------------------------------------------------------
(* Properties.                                                              *)

Quiet == \A p \in Proc : pc[p] # "save"

\* Unless two saves overlapped, the file is at every moment the beginning of
\* the history being saved: what a crash loses is the newest lines, and only
\* all of them when it comes right after the truncation.  With no save under
\* way and none cut short it is the whole history of the client that saved
\* last, whatever happened to the saves before it.
FileIsSaved ==
    file # NoFile /\ ~overlap => /\ IsPrefix(file, Bytes(snap))
                                 /\ Quiet /\ ~torn => file = Bytes(snap)

\* A history that fits, of lines that fit and have no line ends in them, no
\* two the same in a row.
Plain(h) ==
    /\ \A i \in DOMAIN h : /\ Len(h[i]) < MaxLine - 1
                           /\ \A j \in DOMAIN h[i] : h[i][j] \notin {CR, LF, NUL}
    /\ \A i \in 1 .. Len(h) - 1 : h[i] # h[i + 1]

\* Such a history comes back line by line in the client started next.
PlainHistoryReturns ==
    [][ \A p \in Proc :
          Start(p) /\ file # NoFile /\ Quiet /\ ~torn /\ ~overlap /\ Plain(snap)
          => hist'[p] = snap ]_vars
=============================================================================
