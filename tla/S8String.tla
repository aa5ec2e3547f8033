------------------------------- MODULE S8String -------------------------------
(***************************************************************************)
(* c-string/cstring.c: strings that are a pointer and a length into memory  *)
(* somebody else owns.  Two such strings, a and b, are cut out of one       *)
(* memory by s8Span, and may overlap; s8ToUpper and s8ToLower write through  *)
(* them, s8Cmp compares them.                                               *)
(***************************************************************************)
EXTENDS Integers, Sequences

CONSTANTS
    Size,       \* bytes of memory, at offsets 0 .. Size - 1
    Bytes       \* the values they can have

VARIABLES
    mem,        \* the memory
    str,        \* the strings "a" and "b": buf, an offset, and len
    cmp         \* what s8Cmp(a, b) returned last

vars == <<mem, str, cmp>>

None == 1000    \* no comparison has been made since the strings changed

s8Span(begin, end) == [buf |-> begin, len |-> end - begin]
Inside(s) == s.buf .. s.buf + s.len - 1

Init ==
    /\ mem \in [0 .. Size - 1 -> Bytes]
    /\ str = [s \in {"a", "b"} |-> s8Span(0, 0)]
    /\ cmp = None

Span(s, begin, end) ==
    /\ str' = [str EXCEPT ![s] = s8Span(begin, end)]
    /\ cmp' = None
    /\ UNCHANGED mem

UpperOf(c) == IF c \in 97 .. 122 THEN c - 32 ELSE c
LowerOf(c) == IF c \in 65 .. 90 THEN c + 32 ELSE c

s8ToUpper(s) ==
    /\ mem' = [i \in DOMAIN mem |-> IF i \in Inside(str[s]) THEN UpperOf(mem[i]) ELSE mem[i]]
    /\ cmp' = None
    /\ UNCHANGED str

s8ToLower(s) ==
    /\ mem' = [i \in DOMAIN mem |-> IF i \in Inside(str[s]) THEN LowerOf(mem[i]) ELSE mem[i]]
    /\ cmp' = None
    /\ UNCHANGED str

\* Mutant: the last byte is not compared.
CmpLenShort(a, b) == a.len - 1

\* The loop runs over a.len bytes of both, whichever is shorter.  Past the
\* memory any byte can be read.
CmpLen(a, b) == IF a.len < b.len THEN a.len ELSE a.len

s8Cmp ==
    /\ cmp = None
    /\ LET a == str["a"]
           b == str["b"]
           n == CmpLen(a, b)
       IN  \E past \in [{i \in b.buf .. b.buf + n - 1 : i >= Size} -> Bytes] :
               LET at(i) == IF i < Size THEN mem[i] ELSE past[i]
                   d == {i \in 0 .. n - 1 : at(a.buf + i) # at(b.buf + i)}
                   first == CHOOSE i \in d : \A j \in d : i <= j
               IN  cmp' = IF d = {} THEN a.len - b.len ELSE at(a.buf + first) - at(b.buf + first)
    /\ UNCHANGED <<mem, str>>

Next ==
    \/ \E s \in {"a", "b"}, i, j \in 0 .. Size : i <= j /\ Span(s, i, j)
    \/ \E s \in {"a", "b"} : s8ToUpper(s)
    \/ \E s \in {"a", "b"} : s8ToLower(s)
    \/ s8Cmp

Spec == Init /\ [][Next]_vars

-----------------------------------------------------------------------------
(* Properties.                                                              *)

Value(s) == [i \in 1 .. str[s].len |-> mem[str[s].buf + i - 1]]

\* Lexicographic order of byte strings.
Before(s, t) ==
    \/ Len(s) < Len(t) /\ \A i \in DOMAIN s : s[i] = t[i]
    \/ \E k \in DOMAIN s \cap DOMAIN t : s[k] < t[k] /\ \A i \in 1 .. k - 1 : s[i] = t[i]

\* b is no proper prefix of a, so the loop does not run past its end.
Comparable == ~ /\ Len(Value("b")) < Len(Value("a"))
                /\ SubSeq(Value("a"), 1, Len(Value("b"))) = Value("b")

\* Unless b is a proper prefix of a, s8Cmp is the order of byte strings.
CmpIsOrder ==
    cmp # None /\ Comparable => /\ cmp < 0 <=> Before(Value("a"), Value("b"))
                                /\ cmp = 0 <=> Value("a") = Value("b")
===============================================================================
