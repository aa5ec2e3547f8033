------------------------------ MODULE LineEditor ------------------------------
(***************************************************************************)
(* What the keys of the line editor promise: a text, a cursor between two   *)
(* of its bytes, and for every key what it does to them.  There is no       *)
(* memory, no length field and no history array here: a key that browses    *)
(* the history, or that accepts a completion first, may bring in a text     *)
(* from elsewhere, and everything else is a function of text and cursor.    *)
(***************************************************************************)
EXTENDS Integers, Sequences, SequencesExt

CONSTANTS
    MaxLen,     \* the longest text
    Letters,    \* what it is made of
    Blank,      \* the letter that separates words
    Swallowed   \* the letters that can end or steer a completion untyped

VARIABLES
    text, cur,
    offered     \* the completions there are for this text

Lines == UNION {[1 .. n -> Letters] : n \in 0 .. MaxLen}

Holds(t, p) == text' = t /\ cur' = p

\* The key c types itself, if there is room.
Type(t, p, c) ==
    IF Len(t) < MaxLen THEN Holds(InsertAt(t, p + 1, c), p + 1) ELSE Holds(t, p)

\* Deleting everything from position i up to position j of t.
Cut(t, i, j) == SubSeq(t, 1, i - 1) \o SubSeq(t, j + 1, Len(t))

\* The number of bytes before the last word of s, spaces after it included.
WordStart(s) ==
    CHOOSE n \in 0 .. Len(s) :
        /\ n > 0 => s[n] = Blank /\ s[n + 1] # Blank
        /\ \E e \in n .. Len(s) : /\ \A i \in n + 1 .. e : s[i] # Blank
                                  /\ \A i \in e + 1 .. Len(s) : s[i] = Blank
                                  /\ e = n => n = 0

\* What the editing key k makes of text t with the cursor after p bytes.
Edit(k, t, p) ==
    \/ k \in {"backspace", "ctrl_h"} /\ Holds(IF p > 0 THEN RemoveAt(t, p) ELSE t,
                                              IF p > 0 THEN p - 1 ELSE 0)
    \/ k \in {"ctrl_d", "del"} /\ Holds(IF p < Len(t) THEN RemoveAt(t, p + 1) ELSE t, p)
    \/ k \in {"ctrl_b", "left"} /\ Holds(t, IF p > 0 THEN p - 1 ELSE 0)
    \/ k \in {"ctrl_f", "right"} /\ Holds(t, IF p < Len(t) THEN p + 1 ELSE p)
    \/ k \in {"ctrl_a", "home"} /\ Holds(t, 0)
    \/ k \in {"ctrl_e", "end"} /\ Holds(t, Len(t))
    \/ k = "ctrl_u" /\ Holds(<<>>, 0)
    \/ k = "ctrl_k" /\ Holds(SubSeq(t, 1, p), p)
    \/ k = "ctrl_w" /\ LET w == WordStart(SubSeq(t, 1, p)) IN Holds(Cut(t, w + 1, p), w)
    \/ /\ k = "ctrl_t"
       /\ IF p > 0 /\ p < Len(t)
          THEN Holds([t EXCEPT ![p] = t[p + 1], ![p + 1] = t[p]],
                     IF p < Len(t) - 1 THEN p + 1 ELSE p)
          ELSE Holds(t, p)
    \/ k \in {"enter", "ctrl_c", "ctrl_l", "esc", "other"} /\ Holds(t, p)
    \/ k \in Letters /\ Type(t, p, k)

\* A history key may bring any line, with the cursor at its end.
Browse(k) ==
    /\ k \in {"ctrl_p", "ctrl_n", "up", "down"}
    /\ text' \in Lines
    /\ cur' = Len(text') \/ UNCHANGED <<text, cur>>

\* One key: a history key, or any other on the text or on a completion that
\* is accepted with it.  A swallowed key only steers a completion.
Press(k) ==
    \/ Browse(k)
    \/ Edit(k, text, cur)
    \/ \E w \in offered : Edit(k, w, Len(w))
    \/ /\ k \in Swallowed
       /\ UNCHANGED <<text, cur>> \/ \E w \in offered : Holds(w, Len(w))
=============================================================================
