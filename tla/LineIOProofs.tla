---------------------------- MODULE LineIOProofs -----------------------------
(***************************************************************************)
(* Theorems about what the line editor reads and writes besides keys: the   *)
(* width of its terminal, its history file and the inputs it cannot edit.   *)
(***************************************************************************)
EXTENDS LineIO, SequenceTheorems, WellFoundedInduction, TLAPS

-----------------------------------------------------------------------------
(* getColumns.  Every byte that the terminal or the user has sent and        *)
(* getCursorPosition has not dropped is, in order, in buf, in the input, or  *)
(* held back by the line discipline.                                        *)

TermByte == [b : Typeable, number : {0}, of : {"key"}]
            \cup [b : {"esc", "[", "row", "digit", "R"}, number : Nat, of : {"answer"}]
Unread == arrived \o held
Pending == buf \o Unread
Keys(s) == \A i \in 1 .. Len(s) : s[i].of = "key"
Rests(s) == \A i \in 1 .. Len(s) : s[i].of = "answer" => s[i].b \in {"digit", "R"}

WidthTypes ==
  /\ arrived \in Seq(TermByte) /\ held \in Seq(TermByte) /\ buf \in Seq(TermByte)
  /\ col \in 1 .. Width /\ home \in 1 .. Width
  /\ asking \in {1, 2} /\ start \in Nat
  /\ cut \in BOOLEAN
  /\ tty = "raw" => held = <<>>

(* A column c in an answer: of the cursor as it was, or of the margin. *)
Answered(c) == /\ asking = 1 /\ tty = "raw" => c = home
               /\ asking = 2 => c = Width

DigitCount(c) == Len(Terminal!Digits(c))

(* s is the answer that the column is c, and keys typed behind it. *)
IsReport(s, c) ==
  /\ Len(s) >= DigitCount(c) + 4
  /\ \A i \in 1 .. DigitCount(c) + 4 : s[i] = Terminal!Report(c)[i]
  /\ \A i \in DigitCount(c) + 5 .. Len(s) : s[i].of = "key"

(* Asked and not answered: nothing pending begins an answer.  Something that *)
(* begins no answer is the first of what is pending.  Answered: the answer   *)
(* is the first, and its R has not been read.                                *)
Reading ==
  \/ ~cut /\ due /\ Keys(Pending) /\ (asking = 2 /\ Pending = <<>> => col = Width)
  \/ Pending # <<>> /\ Pending[1].b # "esc"
  \/ /\ ~cut /\ ~due
     /\ \E c \in 1 .. Width : Answered(c) /\ Len(buf) <= DigitCount(c) + 3 /\ IsReport(Pending, c)

(* What parses is the answer that was waited for, or the beginning of it     *)
(* whose rest no read will take for an answer.                               *)
Parsed == Terminal!IsAnswer =>
  /\ ~due
  /\ \E c \in 1 .. Width : /\ Answered(c)
                           /\ Terminal!ColumnRead \in Terminal!Range(Terminal!Digits(c))
                           /\ ~cut => Terminal!ColumnRead = c
  /\ ~cut => Keys(Unread)
  /\ cut => Unread # <<>> /\ Unread[1].b # "esc" /\ Rests(Unread)

WidthInv ==
  /\ WidthTypes
  /\ cut => failed
  /\ tty = "raw" => /\ asking = 1 => col = home
                    /\ asking = 2 /\ wpc # "done" /\ ~cut => col = Width /\ start = home
  /\ wpc = "ioctl" => asking = 1 /\ ~due /\ ~cut /\ Keys(Unread)
  /\ wpc = "ask" => /\ ~due
                    /\ ~cut => Keys(Unread) /\ (asking = 2 /\ Unread = <<>> => col = Width)
                    /\ cut => Unread # <<>> /\ Unread[1].b # "esc"
  /\ wpc = "read" => Reading
  /\ wpc = "parse" => Parsed
  /\ wpc = "restore" => asking = 2 /\ Terminal!IsAnswer /\ Parsed
  /\ WidthIsRight

LEMMA DigitsAre ==
  ASSUME NEW c \in 1 .. Width
  PROVE  /\ DigitCount(c) \in 1 .. 3 /\ Terminal!Digits(c) \in Seq(Nat)
         /\ Terminal!Digits(c)[DigitCount(c)] = c
<1>1. c \in Nat /\ c \div 10 \in Nat /\ c \div 100 \in Nat
  BY WidthAssumption
<1> DEFINE d == c \div 10
           e == c \div 100
<1>2. Terminal!Digits(c) = IF c < 10 THEN <<c>> ELSE IF c < 100 THEN <<d, c>> ELSE <<e, d, c>>
  BY DEF Terminal!Digits
<1>3. d \in Nat /\ e \in Nat
  BY <1>1
<1> HIDE DEF d, e
<1>4. CASE Terminal!Digits(c) = <<c>>
  BY <1>1, <1>4 DEF DigitCount
<1>5. CASE Terminal!Digits(c) = <<d, c>>
  BY <1>1, <1>3, <1>5 DEF DigitCount
<1>6. CASE Terminal!Digits(c) = <<e, d, c>>
  BY <1>1, <1>3, <1>6 DEF DigitCount
<1> QED BY <1>2, <1>4, <1>5, <1>6

LEMMA Joins ==
  ASSUME NEW S, NEW u \in Seq(S), NEW v \in Seq(S)
  PROVE  /\ u \o v \in Seq(S) /\ Len(u \o v) = Len(u) + Len(v)
         /\ \A i \in 1 .. Len(u) : (u \o v)[i] = u[i]
         /\ \A i \in 1 .. Len(v) : (u \o v)[Len(u) + i] = v[i]
<1>1. /\ u \o v \in Seq(S) /\ Len(u \o v) = Len(u) + Len(v)
      /\ \A i \in 1 .. Len(u) + Len(v) : (u \o v)[i] = IF i <= Len(u) THEN u[i] ELSE v[i - Len(u)]
  BY ConcatProperties
<1>2. Len(u) \in Nat /\ Len(v) \in Nat
  OBVIOUS
<1> QED BY <1>1, <1>2

LEMMA ReportBytes ==
  ASSUME NEW c \in 1 .. Width
  PROVE  /\ Terminal!Report(c) \in Seq(TermByte) /\ Len(Terminal!Report(c)) = DigitCount(c) + 4
         /\ Terminal!Report(c)[1].b = "esc" /\ Terminal!Report(c)[2].b = "["
         /\ Terminal!Report(c)[3].b = "row" /\ Terminal!Report(c)[DigitCount(c) + 4].b = "R"
         /\ \A i \in 1 .. DigitCount(c) :
              /\ Terminal!Report(c)[3 + i].b = "digit"
              /\ Terminal!Report(c)[3 + i].number = Terminal!Digits(c)[i]
<1> DEFINE n == DigitCount(c)
           A(b) == [b |-> b, number |-> 0, of |-> "answer"]
           D(m) == [b |-> "digit", number |-> m, of |-> "answer"]
           f == <<A("esc"), A("["), A("row")>>
           g == [i \in 1 .. n |-> D(Terminal!Digits(c)[i])]
           h == <<A("R")>>
<1>1. n \in 1 .. 3 /\ n \in Nat /\ \A i \in 1 .. n : Terminal!Digits(c)[i] \in Nat
  BY DigitsAre, ElementOfSeq DEF DigitCount
<1>2. Terminal!Report(c) = (f \o g) \o h
  BY DEF Terminal!Report, Terminal!AnswerByte, Terminal!Digit, DigitCount
<1>3. f \in Seq(TermByte) /\ Len(f) = 3 /\ f[1].b = "esc" /\ f[2].b = "[" /\ f[3].b = "row"
  <2>1. \A x \in {"esc", "[", "row"} : A(x) \in TermByte /\ A(x).b = x
    BY DEF TermByte
  <2>2. A("esc") \in TermByte /\ A("[") \in TermByte /\ A("row") \in TermByte
        /\ A("esc").b = "esc" /\ A("[").b = "[" /\ A("row").b = "row"
    BY <2>1
  <2> HIDE DEF A
  <2> QED BY <2>2
<1>4. h \in Seq(TermByte) /\ Len(h) = 1 /\ h[1].b = "R"
  <2>1. A("R") \in TermByte /\ A("R").b = "R"
    BY DEF TermByte
  <2> HIDE DEF A
  <2> QED BY <2>1
<1>5. /\ g \in Seq(TermByte) /\ Len(g) = n
      /\ \A i \in 1 .. n : g[i].b = "digit" /\ g[i].number = Terminal!Digits(c)[i]
  <2>1. \A m \in Nat : D(m) \in TermByte /\ D(m).b = "digit" /\ D(m).number = m
    BY DEF TermByte
  <2> HIDE DEF D, n
  <2> QED BY <1>1, <2>1
<1> HIDE DEF f, g, h, n
<1> DEFINE fg == f \o g
           t == fg \o h
<1>6. /\ fg \in Seq(TermByte) /\ Len(fg) = 3 + n
      /\ \A i \in 1 .. 3 : fg[i] = f[i]
      /\ \A i \in 1 .. n : fg[3 + i] = g[i]
  <2>1. /\ f \o g \in Seq(TermByte) /\ Len(f \o g) = Len(f) + Len(g)
        /\ \A i \in 1 .. Len(f) : (f \o g)[i] = f[i]
        /\ \A i \in 1 .. Len(g) : (f \o g)[Len(f) + i] = g[i]
    <3>1. f \in Seq(TermByte) /\ g \in Seq(TermByte)
      BY <1>3, <1>5
    <3> QED BY <3>1, Joins
  <2> QED BY <1>3, <1>5, <2>1
<1> HIDE DEF fg
<1>7. /\ t \in Seq(TermByte) /\ Len(t) = 3 + n + 1
      /\ \A i \in 1 .. 3 + n : t[i] = fg[i]
      /\ t[3 + n + 1] = h[1]
  <2>1. /\ fg \o h \in Seq(TermByte) /\ Len(fg \o h) = Len(fg) + Len(h)
        /\ \A i \in 1 .. Len(fg) : (fg \o h)[i] = fg[i]
        /\ \A i \in 1 .. Len(h) : (fg \o h)[Len(fg) + i] = h[i]
    <3>1. fg \in Seq(TermByte) /\ h \in Seq(TermByte)
      BY <1>4, <1>6
    <3> QED BY <3>1, Joins
  <2>2. 1 \in 1 .. Len(h)
    BY <1>4
  <2> QED BY <1>4, <1>6, <2>1, <2>2
<1> HIDE DEF t
<1>8. /\ \A i \in 1 .. 3 : t[i] = f[i]
      /\ \A i \in 1 .. n : t[3 + i] = g[i]
      /\ t[n + 4] = h[1]
  <2>1. \A i \in 1 .. 3 : i \in 1 .. 3 + n
    BY <1>1
  <2>2. \A i \in 1 .. n : 3 + i \in 1 .. 3 + n
    BY <1>1
  <2>3. 3 + n + 1 = n + 4
    BY <1>1
  <2> QED BY <1>6, <1>7, <2>1, <2>2, <2>3
<1>9. Terminal!Report(c) = t /\ t \in Seq(TermByte) /\ Len(t) = n + 4
  <2>1. Terminal!Report(c) = t
    BY <1>2 DEF t, fg
  <2>2. 3 + n + 1 = n + 4
    BY <1>1
  <2> QED BY <1>7, <2>1, <2>2
<1>10. 1 \in 1 .. 3 /\ 2 \in 1 .. 3 /\ 3 \in 1 .. 3
  OBVIOUS
<1>11. \A i \in 1 .. n : t[3 + i].b = "digit" /\ t[3 + i].number = Terminal!Digits(c)[i]
  BY <1>5, <1>8
<1>12. t[1].b = "esc" /\ t[2].b = "[" /\ t[3].b = "row" /\ t[n + 4].b = "R"
  BY <1>3, <1>4, <1>8, <1>10
<1> QED
  BY <1>9, <1>11, <1>12 DEF n

(* More keys behind it leave an answer what it is. *)
LEMMA ReportGrows ==
  ASSUME NEW c \in 1 .. Width, NEW u \in Seq(TermByte), NEW v \in Seq(TermByte),
         IsReport(u, c), Len(v) >= Len(u),
         \A i \in 1 .. Len(u) : v[i] = u[i],
         \A i \in Len(u) + 1 .. Len(v) : v[i].of = "key"
  PROVE  IsReport(v, c)
<1> DEFINE n == DigitCount(c) + 4
<1>1. n \in Nat /\ Len(u) \in Nat /\ Len(v) \in Nat /\ DigitCount(c) + 5 = n + 1
  BY DigitsAre
<1>2. /\ Len(u) >= n /\ \A i \in 1 .. n : u[i] = Terminal!Report(c)[i]
      /\ \A i \in n + 1 .. Len(u) : u[i].of = "key"
  BY <1>1 DEF IsReport
<1> HIDE DEF n
<1>3. Len(v) >= n
  BY <1>1, <1>2
<1>4. ASSUME NEW i \in 1 .. n PROVE v[i] = Terminal!Report(c)[i]
  <2>1. i \in 1 .. Len(u)
    BY <1>1, <1>2
  <2> QED BY <1>2, <2>1
<1>5. ASSUME NEW i \in n + 1 .. Len(v) PROVE v[i].of = "key"
  <2>1. CASE i <= Len(u)
    <3>1. i \in n + 1 .. Len(u) /\ i \in 1 .. Len(u)
      BY <1>1, <2>1
    <3> QED BY <1>2, <3>1
  <2>2. CASE i > Len(u)
    <3>1. i \in Len(u) + 1 .. Len(v)
      BY <1>1, <2>2
    <3> QED BY <3>1
  <2>3. i \in Int /\ Len(u) \in Int
    BY <1>1
  <2> QED BY <2>1, <2>2, <2>3
<1> QED
  BY <1>1, <1>3, <1>4, <1>5 DEF IsReport, n

(* What arrives is pending after what was; only an end of file that makes    *)
(* the line discipline hand over what it held is not a byte of its own.      *)
LEMMA ArriveAdds ==
  ASSUME WidthTypes, NEW s \in Seq(TermByte), s # <<>>, Terminal!Arrive(s)
  PROVE  /\ arrived' \in Seq(TermByte) /\ held' \in Seq(TermByte) /\ col' \in 1 .. Width
         /\ tty = "raw" => held' = <<>> /\ col' = col
         /\ Unread' \in Seq(TermByte)
         /\ \/ Unread' = Unread \o s
            \/ Unread' = Unread /\ Unread # <<>> /\ s[Len(s)].b = "eof"
<1> USE DEF WidthTypes, Unread
<1>1. CASE tty = "raw"
  <2>1. held = <<>> /\ held' = <<>> /\ col' = col /\ arrived' = arrived \o s
    BY <1>1 DEF Terminal!Arrive
  <2>2. arrived' \o held' = arrived' /\ arrived \o held = arrived /\ arrived' \in Seq(TermByte)
    BY <2>1, ConcatEmptySeq, ConcatProperties
  <2> QED BY <1>1, <2>1, <2>2
<1>2. CASE tty # "raw"
  <2> DEFINE last == s[Len(s)].b
  <2>0. tty = "cooked" /\ col' \in 1 .. Width
    BY <1>2 DEF Terminal!Arrive
  <2>1. /\ held' = IF last \in {"newline", "eof"} THEN <<>> ELSE held \o s
        /\ arrived' = CASE last = "newline" -> arrived \o (held \o s)
                        [] last = "eof" -> arrived \o (IF held = <<>> THEN s ELSE held)
                        [] OTHER -> arrived
    BY <1>2 DEF Terminal!Arrive
  <2>2. held \o s \in Seq(TermByte) /\ (arrived \o held) \o s = arrived \o (held \o s)
    <3>1. held \in Seq(TermByte) /\ arrived \in Seq(TermByte)
      OBVIOUS
    <3> HIDE DEF WidthTypes
    <3>2. held \o s \in Seq(TermByte)
      BY <3>1, ConcatProperties
    <3>3. (arrived \o held) \o s = arrived \o (held \o s)
      BY <3>1, ConcatAssociative
    <3> QED BY <3>2, <3>3
  <2>3. CASE last = "newline"
    <3>1. held' = <<>> /\ arrived' = arrived \o (held \o s)
      BY <2>1, <2>3
    <3>2. arrived' \in Seq(TermByte) /\ arrived' \o held' = arrived'
      BY <2>2, <3>1, ConcatProperties, ConcatEmptySeq
    <3>3. Unread' = Unread \o s
      BY <2>2, <3>1, <3>2
    <3> QED BY <1>2, <2>0, <3>1, <3>2, <3>3
  <2>4. CASE last = "eof" /\ held = <<>>
    <3>1. held' = <<>> /\ arrived' = arrived \o s
      BY <2>1, <2>4
    <3>2. arrived \o held = arrived /\ arrived' \in Seq(TermByte) /\ arrived' \o held' = arrived'
      BY <2>4, <3>1, ConcatProperties, ConcatEmptySeq
    <3>3. Unread' = Unread \o s
      BY <3>1, <3>2
    <3> QED BY <1>2, <2>0, <3>1, <3>2, <3>3
  <2>5. CASE last = "eof" /\ held # <<>>
    <3>1. held' = <<>> /\ arrived' = arrived \o held
      BY <2>1, <2>5
    <3>2. arrived' \in Seq(TermByte) /\ arrived' \o held' = arrived' /\ arrived' # <<>>
      BY <2>5, <3>1, ConcatProperties, ConcatEmptySeq
    <3> QED BY <1>2, <2>0, <2>5, <3>1, <3>2
  <2>6. CASE last \notin {"newline", "eof"}
    <3>1. held' = held \o s /\ arrived' = arrived
      BY <2>1, <2>6
    <3> QED BY <1>2, <2>0, <2>2, <3>1, ConcatProperties
  <2> QED BY <2>3, <2>4, <2>5, <2>6
<1> QED BY <1>1, <1>2

(* The bytes of an answer do not change. *)
LEMMA Constants ==
  \A c : /\ Terminal!Report(c)' = Terminal!Report(c) /\ Terminal!Digits(c)' = Terminal!Digits(c)
         /\ Terminal!Range(Terminal!Digits(c))' = Terminal!Range(Terminal!Digits(c))
BY DEF Terminal!Report, Terminal!Digits, Terminal!AnswerByte, Terminal!Digit, Terminal!Range

(* The numbers that a column begins with. *)
LEMMA LastInRange ==
  ASSUME NEW c \in 1 .. Width, NEW i \in 1 .. DigitCount(c)
  PROVE  Terminal!Digits(c)[i] \in Terminal!Range(Terminal!Digits(c))
BY DigitsAre DEF Terminal!Range, DigitCount

LEMMA RangeNat ==
  ASSUME NEW c \in 1 .. Width
  PROVE  Terminal!Range(Terminal!Digits(c)) \subseteq Nat
BY DigitsAre DEF Terminal!Range

LEMMA KeysAreTyped == \A x \in TermByte : x.of = "key" => x.b # "esc"
BY WidthAssumption DEF TermByte

(* v is u, with nothing but keys behind it. *)
Behind(u, v) ==
  /\ Len(v) >= Len(u) /\ v \in Seq(TermByte)
  /\ \A i \in 1 .. Len(u) : v[i] = u[i]
  /\ \A i \in Len(u) + 1 .. Len(v) : v[i].of = "key"

(* A key behind other bytes. *)
LEMMA KeyBehind ==
  ASSUME NEW s \in Seq(TermByte), Len(s) = 1, s[1].of = "key",
         NEW u \in Seq(TermByte), NEW v \in Seq(TermByte), v = u \o s \/ v = u
  PROVE  /\ Keys(u) => Keys(v)
         /\ Rests(u) => Rests(v)
         /\ u # <<>> => v[1] = u[1]
         /\ Behind(u, v)
<1>1. CASE v = u \o s
  <2>1. /\ v \in Seq(TermByte) /\ Len(v) = Len(u) + 1 /\ v[Len(u) + 1] = s[1]
        /\ \A i \in 1 .. Len(u) : v[i] = u[i]
    <3>1. /\ v \in Seq(TermByte) /\ Len(v) = Len(u) + Len(s)
          /\ \A i \in 1 .. Len(u) + Len(s) : v[i] = IF i <= Len(u) THEN u[i] ELSE s[i - Len(u)]
      BY <1>1, ConcatProperties
    <3>2. Len(u) \in Nat
      OBVIOUS
    <3> QED BY <3>1, <3>2
  <2>2. \A i \in 1 .. Len(v) : i \in 1 .. Len(u) \/ i = Len(u) + 1
    BY <2>1
  <2>3. Keys(u) => Keys(v)
    BY <2>1, <2>2 DEF Keys
  <2>4. Rests(u) => Rests(v)
    <3> SUFFICES ASSUME Rests(u), NEW i \in 1 .. Len(v), v[i].of = "answer" PROVE v[i].b \in {"digit", "R"}
      BY DEF Rests
    <3>1. i # Len(u) + 1
      BY <2>1
    <3> QED BY <2>1, <2>2, <3>1 DEF Rests
  <2>5. u # <<>> => 1 \in 1 .. Len(u)
    OBVIOUS
  <2>6. Behind(u, v)
    <3>1. s[1].of = "key"
      OBVIOUS
    <3> QED BY <2>1, <3>1 DEF Behind
  <2> QED BY <2>1, <2>3, <2>4, <2>5, <2>6
<1>2. CASE v = u
  BY <1>2 DEF Behind
<1> QED BY <1>1, <1>2

(* A key of the user begins no answer. *)
LEMMA KeyArrives ==
  ASSUME WidthInv, NEW k \in Typeable, Terminal!Arrive(<<Terminal!Key(k)>>),
         UNCHANGED <<wpc, asking, buf, start, result, tty, due, home, failed, cut>>
  PROVE  WidthInv'
<1> DEFINE s == <<Terminal!Key(k)>>
<1>0. WidthTypes
  BY DEF WidthInv
<1>1. s \in Seq(TermByte) /\ s # <<>> /\ Len(s) = 1 /\ s[1].of = "key" /\ s[1].b # "esc"
  <2>1. Terminal!Key(k) \in TermByte /\ Terminal!Key(k).b = k /\ Terminal!Key(k).of = "key"
    BY DEF Terminal!Key, TermByte
  <2> QED BY <2>1, WidthAssumption
<1> HIDE DEF s
<1>2. /\ arrived' \in Seq(TermByte) /\ held' \in Seq(TermByte) /\ col' \in 1 .. Width
      /\ tty = "raw" => held' = <<>> /\ col' = col
      /\ Unread' \in Seq(TermByte)
      /\ Unread' = Unread \o s \/ (Unread' = Unread /\ Unread # <<>>)
  BY <1>0, <1>1, ArriveAdds DEF s
<1>3. WidthTypes'
  BY <1>0, <1>2 DEF WidthTypes
<1>4. buf \in Seq(TermByte) /\ Unread \in Seq(TermByte) /\ Pending \in Seq(TermByte)
  BY <1>0, ConcatProperties DEF WidthTypes, Unread, Pending
<1>5. Pending' = Pending \o s \/ (Pending' = Pending /\ Pending # <<>>)
  <2>1. CASE Unread' = Unread \o s
    <3>1. (buf \o Unread) \o s = buf \o (Unread \o s)
      BY <1>1, <1>4, ConcatAssociative
    <3>2. buf' = buf
      OBVIOUS
    <3> QED BY <2>1, <3>1, <3>2 DEF Pending
  <2>2. CASE Unread' = Unread /\ Unread # <<>>
    BY <1>4, <2>2 DEF Pending
  <2> QED BY <1>2, <2>1, <2>2
<1>a. s \in Seq(TermByte) /\ Len(s) = 1 /\ s[1].of = "key"
  BY <1>1
<1>b. Unread \in Seq(TermByte)
  BY <1>4
<1>c. Pending \in Seq(TermByte)
  BY <1>4
<1>d. Unread' \in Seq(TermByte)
  BY <1>2
<1>e. Pending' \in Seq(TermByte)
  BY <1>a, <1>c, <1>5, ConcatProperties
<1>7. /\ Keys(Unread) => Keys(Unread')
      /\ Rests(Unread) => Rests(Unread')
      /\ Unread # <<>> => Unread'[1] = Unread[1]
      /\ Keys(Pending) => Keys(Pending')
      /\ Pending # <<>> => Pending'[1] = Pending[1]
  <2>1. Unread' = Unread \o s \/ Unread' = Unread
    BY <1>2
  <2>2. Pending' = Pending \o s \/ Pending' = Pending
    BY <1>5
  <2>3. /\ Keys(Unread) => Keys(Unread')
        /\ Rests(Unread) => Rests(Unread')
        /\ Unread # <<>> => Unread'[1] = Unread[1]
    BY <1>a, <1>b, <1>d, <2>1, KeyBehind
  <2>4. /\ Keys(Pending) => Keys(Pending')
        /\ Pending # <<>> => Pending'[1] = Pending[1]
    BY <1>a, <1>c, <1>e, <2>2, KeyBehind
  <2> QED BY <2>3, <2>4
<1>8. /\ Len(Pending') >= Len(Pending) /\ Pending' \in Seq(TermByte)
      /\ \A i \in 1 .. Len(Pending) : Pending'[i] = Pending[i]
      /\ \A i \in Len(Pending) + 1 .. Len(Pending') : Pending'[i].of = "key"
  <2>1. Pending' = Pending \o s \/ Pending' = Pending
    BY <1>5
  <2>2. Behind(Pending, Pending')
    BY <1>a, <1>c, <1>e, <2>1, KeyBehind
  <2> QED BY <2>2 DEF Behind
<1>f. /\ Len(Unread') >= Len(Unread) /\ Unread' \in Seq(TermByte)
      /\ \A i \in 1 .. Len(Unread) : Unread'[i] = Unread[i]
      /\ \A i \in Len(Unread) + 1 .. Len(Unread') : Unread'[i].of = "key"
  <2>1. Unread' = Unread \o s \/ Unread' = Unread
    BY <1>2
  <2>2. Behind(Unread, Unread')
    BY <1>a, <1>b, <1>d, <2>1, KeyBehind
  <2> QED BY <2>2 DEF Behind
<1>9. Unread' # <<>> /\ Pending' # <<>>
  BY <1>1, <1>2, <1>4, <1>5, ConcatProperties
<1>10. Reading => Reading'
  <2>1. CASE ~cut /\ due /\ Keys(Pending) /\ (asking = 2 /\ Pending = <<>> => col = Width)
    BY <2>1, <1>7, <1>9 DEF Reading
  <2>2. CASE Pending # <<>> /\ Pending[1].b # "esc"
    BY <2>2, <1>7, <1>9 DEF Reading
  <2>3. ASSUME ~cut, ~due, NEW c \in 1 .. Width, Answered(c), Len(buf) <= DigitCount(c) + 3, IsReport(Pending, c)
        PROVE  Reading'
    <3>1. IsReport(Pending', c)
      BY <2>3, <1>4, <1>8, ReportGrows
    <3>2. Answered(c)'
      BY <2>3 DEF Answered
    <3>3. DigitCount(c)' = DigitCount(c) /\ IsReport(Pending, c)' = IsReport(Pending', c)
      BY Constants DEF DigitCount, IsReport
    <3>4. Len(buf') <= DigitCount(c)' + 3
      BY <2>3, <3>3
    <3> QED BY <2>3, <3>1, <3>2, <3>3, <3>4 DEF Reading
  <2> QED BY <2>1, <2>2, <2>3 DEF Reading
<1>11. (Parsed => Parsed') /\ (Terminal!IsAnswer <=> Terminal!IsAnswer')
  <2>1. (Terminal!IsAnswer <=> Terminal!IsAnswer') /\ Terminal!ColumnRead' = Terminal!ColumnRead
    BY DEF Terminal!IsAnswer, Terminal!ColumnRead
  <2>2. \A c : Answered(c)' <=> Answered(c)
    BY DEF Answered
  <2> QED BY <1>7, <1>9, <2>1, <2>2, Constants DEF Parsed
<1>12. WidthIsRight'
  <2> SUFFICES ASSUME wpc = "done" PROVE WidthIsRight'
    BY DEF WidthIsRight, Terminal!WidthIsRight
  <2>1. /\ result.cols \in {Default, Width} \cup IF cut THEN Terminal!Range(Terminal!Digits(Width)) ELSE {}
        /\ result.from = "query" => /\ ~due
                                    /\ \A i \in 1 .. Len(Unread) :
                                         Unread[i].of = "answer" => cut /\ Unread[i].b \in {"digit", "R"}
                                    /\ tty = "raw" /\ ~failed => col = home
    <3>1. WidthIsRight /\ DOMAIN Unread = 1 .. Len(Unread)
      BY <1>4 DEF WidthInv
    <3> QED BY <3>1 DEF WidthIsRight, Terminal!WidthIsRight, Terminal!Left, Unread
  <2>2. ASSUME \A i \in 1 .. Len(Unread) : Unread[i].of = "answer" => cut /\ Unread[i].b \in {"digit", "R"},
               NEW i \in DOMAIN (Unread'), Unread'[i].of = "answer"
        PROVE  cut /\ Unread'[i].b \in {"digit", "R"}
    <3>2. i \in 1 .. Len(Unread')
      BY <1>2
    <3>3. i \in 1 .. Len(Unread)
      <4>1. Len(Unread) \in Nat
        BY <1>4
      <4> QED BY <2>2, <1>f, <3>2, <4>1
    <3> QED BY <2>2, <1>f, <3>3
  <2>3. Terminal!Range(Terminal!Digits(Width))' = Terminal!Range(Terminal!Digits(Width))
    BY Constants
  <2> QED BY <2>1, <2>2, <2>3, <1>2 DEF WidthIsRight, Terminal!WidthIsRight, Terminal!Left, Unread
<1> QED
  BY <1>2, <1>3, <1>7, <1>9, <1>10, <1>11, <1>12 DEF WidthInv

(* The terminal answers after all that was typed before. *)
LEMMA AnswerArrives ==
  ASSUME WidthInv, Terminal!Answer
  PROVE  WidthInv'
<1> DEFINE s == Terminal!Report(col)
<1>0. WidthTypes /\ col \in 1 .. Width
  BY DEF WidthInv, WidthTypes
<1>a. s \in Seq(TermByte) /\ Len(s) = DigitCount(col) + 4 /\ s[DigitCount(col) + 4].b = "R" /\ DigitCount(col) \in 1 .. 3
  BY <1>0, ReportBytes, DigitsAre
<1> HIDE DEF s
<1>b. s \in Seq(TermByte)
  BY <1>a
<1>1. s # <<>> /\ s[Len(s)].b = "R"
  BY <1>a
<1>2. /\ due /\ ~due' /\ Terminal!Arrive(s)
      /\ wpc' = wpc /\ asking' = asking /\ buf' = buf /\ start' = start /\ result' = result
      /\ tty' = tty /\ home' = home /\ failed' = failed /\ cut' = cut
  BY DEF Terminal!Answer, s, Terminal!asked
<1>3. /\ arrived' \in Seq(TermByte) /\ held' \in Seq(TermByte) /\ col' \in 1 .. Width
      /\ tty = "raw" => held' = <<>> /\ col' = col
      /\ Unread' \in Seq(TermByte) /\ Unread' = Unread \o s
  BY <1>0, <1>b, <1>1, <1>2, ArriveAdds
<1>4. WidthTypes'
  BY <1>0, <1>2, <1>3 DEF WidthTypes
<1>5. buf \in Seq(TermByte) /\ Unread \in Seq(TermByte) /\ Pending \in Seq(TermByte)
  BY <1>0, ConcatProperties DEF WidthTypes, Unread, Pending
<1>6. Pending' = Pending \o s
  <2>1. (buf \o Unread) \o s = buf \o (Unread \o s)
    BY <1>b, <1>5, ConcatAssociative
  <2> QED BY <1>2, <1>3, <2>1 DEF Pending
<1>7. wpc = "read" /\ Reading => Reading'
  <2> SUFFICES ASSUME wpc = "read", Reading PROVE Reading'
    OBVIOUS
  <2>1. \/ ~cut /\ Keys(Pending) /\ (asking = 2 /\ Pending = <<>> => col = Width)
        \/ Pending # <<>> /\ Pending[1].b # "esc"
    BY <1>2 DEF Reading
  <2>2. CASE Pending = <<>>
    <3>1. Pending' = s /\ Len(buf) = 0
      BY <1>b, <1>1, <1>5, <1>6, <2>2, ConcatEmptySeq, ConcatProperties DEF Pending
    <3>2. ~cut /\ Answered(col)
      BY <2>1, <2>2 DEF Answered, WidthInv
    <3>3. PICK c \in 1 .. Width : c = col
      BY <1>0
    <3>4. IsReport(s, c)
      <4>1. Len(s) \in Nat /\ Len(s) = DigitCount(c) + 4 /\ DigitCount(c) \in Nat
        BY <1>a, <3>3
      <4>2. \A i \in DigitCount(c) + 5 .. Len(s) : FALSE
        BY <4>1
      <4> QED BY <3>3, <4>1, <4>2 DEF IsReport, s
    <3>5. Answered(c)'
      BY <1>2, <3>2, <3>3 DEF Answered
    <3>6. IsReport(Pending', c) /\ Len(buf') <= DigitCount(c) + 3
      BY <1>2, <1>a, <3>1, <3>3, <3>4
    <3>7. DigitCount(c)' = DigitCount(c) /\ IsReport(Pending, c)' = IsReport(Pending', c)
      BY Constants DEF DigitCount, IsReport
    <3> QED BY <1>2, <3>2, <3>5, <3>6, <3>7 DEF Reading
  <2>3. CASE Pending # <<>>
    <3>1. Pending' # <<>> /\ Pending'[1] = Pending[1]
      BY <1>b, <1>1, <1>5, <1>6, <2>3, ConcatProperties
    <3>2. Pending[1].b # "esc"
      <4>1. Keys(Pending) => Pending[1].of = "key" /\ Pending[1] \in TermByte
        BY <1>5, <2>3 DEF Keys
      <4> QED BY <2>1, <4>1, KeysAreTyped
    <3> QED BY <1>2, <3>1, <3>2 DEF Reading
  <2> QED BY <2>2, <2>3
<1>8. /\ Parsed => ~Terminal!IsAnswer
      /\ Terminal!IsAnswer <=> Terminal!IsAnswer'
  BY <1>2 DEF Parsed, Terminal!IsAnswer
<1>9. WidthIsRight'
  <2>1. wpc = "done" => /\ result.cols \in {Default, Width} \cup IF cut THEN Terminal!Range(Terminal!Digits(Width)) ELSE {}
                        /\ result.from # "query"
    BY <1>2 DEF WidthInv, WidthIsRight, Terminal!WidthIsRight
  <2> QED BY <1>2, <2>1, Constants DEF WidthIsRight, Terminal!WidthIsRight
<1> QED
  BY <1>2, <1>3, <1>4, <1>7, <1>8, <1>9 DEF WidthInv, Parsed

LEMMA PendingParts ==
  ASSUME WidthTypes
  PROVE  /\ buf \in Seq(TermByte) /\ Unread \in Seq(TermByte) /\ Pending \in Seq(TermByte)
         /\ Len(buf) \in Nat /\ Len(Unread) \in Nat /\ Len(Pending) = Len(buf) + Len(Unread)
         /\ \A i \in 1 .. Len(buf) : Pending[i] = buf[i]
         /\ \A i \in 1 .. Len(Unread) : Pending[Len(buf) + i] = Unread[i]
<1>1. buf \in Seq(TermByte) /\ Unread \in Seq(TermByte)
  BY ConcatProperties DEF WidthTypes, Unread
<1> QED BY <1>1, ConcatProperties DEF Pending

(* The column read is the number at the last of the digits that are there. *)
LEMMA ColumnIs ==
  ASSUME Len(buf) \in Nat, Len(buf) >= 4, \A i \in 4 .. Len(buf) : buf[i].b = "digit"
  PROVE  Terminal!ColumnRead = buf[Len(buf)].number
<1> DEFINE L == Len(buf)
           S == {i \in 4 .. L : \A j \in 4 .. i : buf[j].b = "digit"}
<1>1. S = 4 .. L
  <2>1. \A i \in 4 .. L : \A j \in 4 .. i : j \in 4 .. L
    OBVIOUS
  <2> QED BY <2>1
<1>2. Terminal!Max(4 .. L) = L
  <2>1. L \in 4 .. L /\ \A y \in 4 .. L : L >= y
    OBVIOUS
  <2>2. \A x \in 4 .. L : (\A y \in 4 .. L : x >= y) => x = L
    BY <2>1
  <2> HIDE DEF L
  <2> QED BY <2>1, <2>2 DEF Terminal!Max
<1>3. Terminal!ColumnRead = buf[Terminal!Max(S)].number
  BY DEF Terminal!ColumnRead
<1> QED BY <1>1, <1>2, <1>3

(* While the answer is being read, what has been read of it and what has not. *)
LEMMA AnswerParts ==
  ASSUME WidthTypes, NEW c \in 1 .. Width, Len(buf) <= DigitCount(c) + 3, IsReport(Pending, c)
  PROVE  /\ Len(Unread) >= 1 /\ Unread[1] = Terminal!Report(c)[Len(buf) + 1]
         /\ \A i \in 2 .. Len(Unread) : Len(buf) = DigitCount(c) + 3 => Unread[i].of = "key"
         /\ Len(buf) >= 4 =>
              /\ Rests(Unread) /\ Unread[1].b \in {"digit", "R"}
              /\ Len(buf) - 3 \in 1 .. DigitCount(c)
              /\ Terminal!ColumnRead = Terminal!Digits(c)[Len(buf) - 3]
<1> DEFINE n == DigitCount(c)
           k == Len(buf)
           t == Terminal!Report(c)
<1>1. /\ n \in 1 .. 3 /\ k \in Nat /\ k <= n + 3 /\ Len(Unread) \in Nat /\ Len(Pending) = k + Len(Unread)
      /\ \A i \in 1 .. k : Pending[i] = buf[i]
      /\ \A i \in 1 .. Len(Unread) : Pending[k + i] = Unread[i]
  BY DigitsAre, PendingParts
<1>2. /\ Len(Pending) >= n + 4
      /\ \A i \in 1 .. n + 4 : Pending[i] = t[i]
      /\ \A i \in n + 5 .. Len(Pending) : Pending[i].of = "key"
  BY DEF IsReport
<1>3. /\ t[n + 4].b = "R"
      /\ \A i \in 1 .. n : t[3 + i].b = "digit" /\ t[3 + i].number = Terminal!Digits(c)[i]
  BY ReportBytes
<1> HIDE DEF n, k, t
<1>4. Len(Unread) >= 1 /\ Unread[1] = t[k + 1]
  <2>1. Len(Unread) >= 1
    BY <1>1, <1>2
  <2>2. 1 \in 1 .. Len(Unread) /\ k + 1 \in 1 .. n + 4
    BY <1>1, <2>1
  <2> QED BY <1>1, <1>2, <2>1, <2>2
<1>5. ASSUME NEW i \in 2 .. Len(Unread), k = n + 3 PROVE Unread[i].of = "key"
  <2>1. k + i \in n + 5 .. Len(Pending) /\ i \in 1 .. Len(Unread)
    BY <1>1, <1>5
  <2> QED BY <1>1, <1>2, <2>1
<1>6. \A i \in 4 .. n + 3 : t[i].b = "digit"
  <2> SUFFICES ASSUME NEW i \in 4 .. n + 3 PROVE t[i].b = "digit"
    OBVIOUS
  <2>1. i - 3 \in 1 .. n /\ 3 + (i - 3) = i
    BY <1>1
  <2>2. t[3 + (i - 3)].b = "digit"
    BY <1>3, <2>1
  <2> QED BY <2>1, <2>2
<1>7. \A i \in 4 .. n + 4 : t[i].b \in {"digit", "R"}
  <2> SUFFICES ASSUME NEW i \in 4 .. n + 4 PROVE t[i].b \in {"digit", "R"}
    OBVIOUS
  <2>1. i \in 4 .. n + 3 \/ i = n + 4
    BY <1>1
  <2> QED BY <1>3, <1>6, <2>1
<1>8. ASSUME k >= 4 PROVE /\ Unread[1].b \in {"digit", "R"} /\ k - 3 \in 1 .. n
                          /\ Terminal!ColumnRead = Terminal!Digits(c)[k - 3]
                          /\ Rests(Unread)
  <2>1. k + 1 \in 4 .. n + 4 /\ k - 3 \in 1 .. n /\ 3 + (k - 3) = k
    BY <1>1, <1>8
  <2>2. Unread[1].b \in {"digit", "R"}
    BY <1>4, <1>7, <2>1
  <2>3. \A i \in 4 .. k : buf[i] = t[i] /\ i \in 4 .. n + 3
    <3> SUFFICES ASSUME NEW i \in 4 .. k PROVE buf[i] = t[i] /\ i \in 4 .. n + 3
      OBVIOUS
    <3>1. i \in 1 .. k /\ i \in 1 .. n + 4 /\ i \in 4 .. n + 3
      BY <1>1
    <3> QED BY <1>1, <1>2, <3>1
  <2>4. Terminal!ColumnRead = buf[k].number
    <3>1. \A i \in 4 .. Len(buf) : buf[i].b = "digit"
      BY <1>6, <2>3 DEF k
    <3>2. Len(buf) \in Nat /\ Len(buf) >= 4
      BY <1>1, <1>8 DEF k
    <3> QED BY <3>1, <3>2, ColumnIs DEF k
  <2>5. k \in 4 .. k
    BY <1>1, <1>8
  <2>6. buf[k] = t[k] /\ t[3 + (k - 3)].number = Terminal!Digits(c)[k - 3]
    BY <1>3, <2>1, <2>3, <2>5
  <2>7. Rests(Unread)
    <3> SUFFICES ASSUME NEW i \in 1 .. Len(Unread), Unread[i].of = "answer" PROVE Unread[i].b \in {"digit", "R"}
      BY DEF Rests
    <3>1. Unread[i] = Pending[k + i]
      BY <1>1
    <3>2. CASE k + i <= n + 4
      <4>1. k + i \in 1 .. n + 4 /\ k + i \in 4 .. n + 4
        BY <1>1, <1>8, <3>2
      <4> QED BY <1>2, <1>7, <3>1, <4>1
    <3>3. CASE k + i > n + 4
      <4>1. k + i \in n + 5 .. Len(Pending)
        BY <1>1, <3>3
      <4>2. Unread[i].of = "key"
        BY <1>2, <3>1, <4>1
      <4> QED BY <4>2
    <3>4. k + i \in Int /\ n + 4 \in Int
      BY <1>1
    <3> QED BY <3>2, <3>3, <3>4
  <2> QED BY <2>1, <2>2, <2>4, <2>6, <2>7
<1>9. k >= 4 \/ k < 4
  BY <1>1
<1> QED BY <1>4, <1>5, <1>8, <1>9 DEF n, k, t

(* What parses while it is being read is the beginning of the answer. *)
LEMMA ReadingAnswer ==
  ASSUME WidthTypes, Reading, Terminal!IsAnswer
  PROVE  /\ ~cut /\ ~due /\ Len(buf) \in Nat /\ Len(buf) >= 4
         /\ \E c \in 1 .. Width : Answered(c) /\ Len(buf) <= DigitCount(c) + 3 /\ IsReport(Pending, c)
<1>1. Len(buf) >= 4 /\ buf[1].b = "esc"
  BY DEF Terminal!IsAnswer
<1>2. /\ buf \in Seq(TermByte) /\ Len(buf) \in Nat /\ Pending \in Seq(TermByte)
      /\ 1 \in 1 .. Len(buf) /\ 1 \in 1 .. Len(Pending) /\ Pending[1] = buf[1]
  BY <1>1, PendingParts
<1>3. Pending[1].b = "esc" /\ Pending[1] \in TermByte
  BY <1>1, <1>2, ElementOfSeq
<1>4. ~Keys(Pending)
  BY <1>2, <1>3, KeysAreTyped DEF Keys
<1> QED BY <1>1, <1>2, <1>3, <1>4 DEF Reading

LEMMA ReadByteKeeps ==
  ASSUME WidthInv, Terminal!ReadByte
  PROVE  WidthInv'
<1> DEFINE h == Head(arrived)
           ends == h.b \in {"R", "eof"}
<1>1. /\ wpc = "read" /\ arrived # <<>> /\ arrived' = Tail(arrived)
      /\ buf' = (IF ends THEN buf ELSE Append(buf, h))
      /\ wpc' = (IF ends \/ Len(buf') = BufSize THEN "parse" ELSE "read")
      /\ asking' = asking /\ start' = start /\ result' = result /\ tty' = tty /\ held' = held
      /\ due' = due /\ col' = col /\ home' = home /\ failed' = failed /\ cut' = cut
  BY DEF Terminal!ReadByte
<1>2. WidthTypes /\ Reading
  BY <1>1 DEF WidthInv
<1>3. /\ buf \in Seq(TermByte) /\ Unread \in Seq(TermByte) /\ Pending \in Seq(TermByte)
      /\ Len(buf) \in Nat /\ Len(Unread) \in Nat /\ Len(Pending) = Len(buf) + Len(Unread)
      /\ \A i \in 1 .. Len(buf) : Pending[i] = buf[i]
      /\ \A i \in 1 .. Len(Unread) : Pending[Len(buf) + i] = Unread[i]
  BY <1>2, PendingParts
<1>4. /\ h \in TermByte /\ Unread' \in Seq(TermByte) /\ Unread = <<h>> \o Unread'
      /\ arrived' \in Seq(TermByte)
  <2>1. arrived \in Seq(TermByte) /\ held \in Seq(TermByte)
    BY <1>2 DEF WidthTypes
  <2>2. h \in TermByte /\ Tail(arrived) \in Seq(TermByte) /\ arrived = <<h>> \o Tail(arrived)
    BY <1>1, <2>1
  <2> HIDE DEF h
  <2>3. <<h>> \in Seq(TermByte)
    BY <2>2
  <2>4. (<<h>> \o Tail(arrived)) \o held = <<h>> \o (Tail(arrived) \o held)
    BY <2>1, <2>2, <2>3, ConcatAssociative
  <2> QED BY <1>1, <2>1, <2>2, <2>4, ConcatProperties DEF Unread
<1> HIDE DEF h
<1>5. /\ Len(Unread) = Len(Unread') + 1 /\ Unread[1] = h /\ Len(Unread') \in Nat
      /\ \A i \in 1 .. Len(Unread') : Unread'[i] = Unread[i + 1]
  BY <1>4
<1>6. WidthTypes'
  <2>1. buf' \in Seq(TermByte)
    BY <1>1, <1>3, <1>4
  <2> QED BY <1>1, <1>2, <1>4, <2>1 DEF WidthTypes
<1>7. \A c : (Answered(c)' <=> Answered(c)) /\ DigitCount(c)' = DigitCount(c)
             /\ IsReport(Pending, c)' = IsReport(Pending', c)
  <2>1. \A c : Answered(c)' <=> Answered(c)
    BY <1>1 DEF Answered
  <2> QED BY <2>1, Constants DEF DigitCount, IsReport
<1>8. ASSUME ~ends PROVE Len(buf') = Len(buf) + 1 /\ Pending' = Pending
  <2>1. buf' = Append(buf, h) /\ Len(buf') = Len(buf) + 1
    BY <1>1, <1>3, <1>4, <1>8
  <2>2. Append(buf, h) = buf \o <<h>> /\ <<h>> \in Seq(TermByte)
    BY <1>3, <1>4, AppendIsConcat
  <2>3. (buf \o <<h>>) \o Unread' = buf \o (<<h>> \o Unread')
    BY <1>3, <1>4, <2>2, ConcatAssociative
  <2> QED BY <1>4, <2>1, <2>2, <2>3 DEF Pending
<1>9. ASSUME ~ends, NEW c \in 1 .. Width, Len(buf) <= DigitCount(c) + 3, IsReport(Pending, c)
      PROVE  Len(buf') <= DigitCount(c) + 3
  <2>1. h = Terminal!Report(c)[Len(buf) + 1]
    BY <1>2, <1>5, <1>9, AnswerParts
  <2>2. Len(buf) # DigitCount(c) + 3
    <3> SUFFICES ASSUME Len(buf) = DigitCount(c) + 3 PROVE FALSE
      OBVIOUS
    <3>1. Len(buf) + 1 = DigitCount(c) + 4
      BY DigitsAre
    <3>2. h.b = "R"
      BY <2>1, <3>1, ReportBytes
    <3> QED BY <1>9, <3>2
  <2>3. \A n, m \in Nat : n <= m + 3 /\ n # m + 3 => n + 1 <= m + 3
    OBVIOUS
  <2>4. Len(buf) \in Nat /\ DigitCount(c) \in Nat
    BY <1>3, DigitsAre
  <2>5. Len(buf) + 1 <= DigitCount(c) + 3
    BY <1>9, <2>2, <2>3, <2>4
  <2>6. Len(buf') = Len(buf) + 1
    BY <1>8, <1>9
  <2> QED BY <2>5, <2>6
<1>10. wpc' = "read" => Reading'
  <2> SUFFICES ASSUME ~ends PROVE Reading'
    BY <1>1
  <2>1. Pending' = Pending
    BY <1>8
  <2>2. CASE ~cut /\ due /\ Keys(Pending) /\ (asking = 2 /\ Pending = <<>> => col = Width)
    BY <1>1, <2>1, <2>2 DEF Reading
  <2>3. CASE Pending # <<>> /\ Pending[1].b # "esc"
    BY <1>1, <2>1, <2>3 DEF Reading
  <2>4. ASSUME ~cut, ~due, NEW c \in 1 .. Width, Answered(c), Len(buf) <= DigitCount(c) + 3, IsReport(Pending, c)
        PROVE  Reading'
    <3>1. Len(buf') <= DigitCount(c) + 3
      BY <1>9, <2>4
    <3>2. Answered(c)' /\ IsReport(Pending, c)' /\ Len(buf') <= DigitCount(c)' + 3
      BY <1>7, <2>1, <2>4, <3>1
    <3> QED BY <1>1, <2>4, <3>2 DEF Reading
  <2> QED BY <1>2, <2>2, <2>3, <2>4 DEF Reading
<1>11. wpc' = "parse" => Parsed'
  <2>1. CASE ends
    <3>1. buf' = buf /\ (Terminal!IsAnswer <=> Terminal!IsAnswer') /\ Terminal!ColumnRead' = Terminal!ColumnRead
      BY <1>1, <2>1 DEF Terminal!IsAnswer, Terminal!ColumnRead
    <3> SUFFICES ASSUME Terminal!IsAnswer PROVE Parsed'
      BY <3>1 DEF Parsed
    <3>2. ~cut /\ ~due /\ Len(buf) \in Nat /\ Len(buf) >= 4
      BY <1>2, ReadingAnswer
    <3>3. PICK c \in 1 .. Width : Answered(c) /\ Len(buf) <= DigitCount(c) + 3 /\ IsReport(Pending, c)
      BY <1>2, ReadingAnswer
    <3>4. /\ h = Terminal!Report(c)[Len(buf) + 1] /\ h.b \in {"digit", "R"}
          /\ \A i \in 2 .. Len(Unread) : Len(buf) = DigitCount(c) + 3 => Unread[i].of = "key"
          /\ Len(buf) - 3 \in 1 .. DigitCount(c)
          /\ Terminal!ColumnRead = Terminal!Digits(c)[Len(buf) - 3]
      BY <1>2, <1>5, <3>2, <3>3, AnswerParts
    <3>5. /\ DigitCount(c) \in 1 .. 3 /\ Terminal!Digits(c)[DigitCount(c)] = c
          /\ \A i \in 1 .. DigitCount(c) : Terminal!Report(c)[3 + i].b = "digit"
      BY DigitsAre, ReportBytes
    <3>6. Len(buf) = DigitCount(c) + 3
      <4> SUFFICES ASSUME Len(buf) # DigitCount(c) + 3 PROVE FALSE
        OBVIOUS
      <4>1. Len(buf) - 2 \in 1 .. DigitCount(c) /\ 3 + (Len(buf) - 2) = Len(buf) + 1
        BY <3>2, <3>3, <3>5
      <4>2. Terminal!Report(c)[3 + (Len(buf) - 2)].b = "digit"
        BY <3>5, <4>1
      <4>3. h.b = "digit"
        BY <3>4, <4>1, <4>2
      <4> QED BY <2>1, <4>3
    <3>7. Len(buf) - 3 = DigitCount(c)
      BY <3>2, <3>5, <3>6
    <3>8. Terminal!ColumnRead = c
      BY <3>4, <3>5, <3>7
    <3>9. Keys(Unread')
      <4> SUFFICES ASSUME NEW i \in 1 .. Len(Unread') PROVE Unread'[i].of = "key"
        BY DEF Keys
      <4>1. i + 1 \in 2 .. Len(Unread) /\ Unread'[i] = Unread[i + 1]
        BY <1>5
      <4> QED BY <3>4, <3>6, <4>1
    <3>10. Terminal!ColumnRead \in Terminal!Range(Terminal!Digits(c))
      BY <3>5, <3>8, LastInRange
    <3> QED BY <1>1, <1>7, <3>1, <3>2, <3>3, <3>8, <3>9, <3>10, Constants DEF Parsed
  <2>2. CASE ~ends
    <3> SUFFICES ASSUME wpc' = "parse", Terminal!IsAnswer' PROVE FALSE
      BY DEF Parsed
    <3>1. Len(buf') = BufSize /\ BufSize >= 7 /\ BufSize \in Nat
      BY <1>1, <2>2, WidthAssumption
    <3>2. Len(buf') = Len(buf) + 1 /\ Pending' = Pending
      BY <1>8, <2>2
    <3>3. buf[1].b = "esc"
      <4>1. buf' = Append(buf, h) /\ buf'[1].b = "esc"
        BY <1>1, <2>2 DEF Terminal!IsAnswer
      <4>2. 1 \in 1 .. Len(buf)
        BY <1>3, <3>1, <3>2
      <4> QED BY <1>3, <1>4, <4>1, <4>2
    <3>4. 1 \in 1 .. Len(buf) /\ 1 \in 1 .. Len(Pending) /\ Pending[1] = buf[1] /\ Pending[1] \in TermByte
      <4>1. 1 \in 1 .. Len(buf) /\ 1 \in 1 .. Len(Pending)
        BY <1>3, <3>1, <3>2
      <4> QED BY <1>3, <4>1, ElementOfSeq
    <3>5. ~Keys(Pending)
      BY <3>3, <3>4, KeysAreTyped DEF Keys
    <3>6. PICK c \in 1 .. Width : Len(buf) <= DigitCount(c) + 3 /\ IsReport(Pending, c)
      BY <1>2, <3>3, <3>4, <3>5 DEF Reading
    <3>7. Len(buf') <= DigitCount(c) + 3
      BY <1>9, <2>2, <3>6
    <3>8. DigitCount(c) \in 1 .. 3
      BY DigitsAre
    <3> QED BY <3>1, <3>7, <3>8
  <2> QED BY <2>1, <2>2
<1>12. wpc' \in {"read", "parse"}
  BY <1>1
<1>13. /\ cut => failed
       /\ tty = "raw" => /\ asking = 1 => col = home
                         /\ asking = 2 /\ ~cut => col = Width /\ start = home
  BY <1>1 DEF WidthInv
<1>14. WidthIsRight'
  BY <1>12 DEF WidthIsRight, Terminal!WidthIsRight
<1> QED
  BY <1>1, <1>6, <1>10, <1>11, <1>12, <1>13, <1>14 DEF WidthInv

LEMMA AskKeeps ==
  ASSUME WidthInv, Terminal!Ioctl \/ Terminal!Ask \/ Terminal!ReadFails
  PROVE  WidthInv'
<1>1. /\ arrived' = arrived /\ held' = held /\ col' = col /\ home' = home /\ tty' = tty
      /\ asking' = asking /\ start' = start
  BY DEF Terminal!Ioctl, Terminal!Ask, Terminal!ReadFails, Terminal!asked
<1>2. WidthTypes /\ Unread' = Unread /\ (cut => failed)
  BY <1>1 DEF WidthInv, Unread
<1>a. /\ Terminal!Ioctl \/ Terminal!Ask => cut' = cut /\ (cut' => failed')
      /\ Terminal!ReadFails => cut' = (cut \/ Terminal!IsAnswer) /\ failed'
  BY <1>2 DEF Terminal!Ioctl, Terminal!Ask, Terminal!ReadFails
<1>3. WidthTypes' /\ (cut' => failed') /\ (~cut' => ~cut)
  <2>1. buf' = buf \/ buf' = <<>>
    BY DEF Terminal!Ioctl, Terminal!Ask, Terminal!ReadFails, Terminal!asked
  <2>2. buf' \in Seq(TermByte)
    <3>1. buf \in Seq(TermByte) /\ <<>> \in Seq(TermByte)
      BY <1>2, EmptySeq DEF WidthTypes
    <3> QED BY <2>1, <3>1
  <2>3. cut \in BOOLEAN /\ Terminal!IsAnswer \in BOOLEAN
    BY <1>2 DEF WidthTypes, Terminal!IsAnswer
  <2>4. cut' \in BOOLEAN /\ (cut' => failed') /\ (~cut' => ~cut)
    BY <1>a, <2>3
  <2> QED BY <1>1, <1>2, <2>2, <2>4 DEF WidthTypes
<1>4. /\ wpc # "done"
      /\ tty = "raw" => /\ asking = 1 => col = home
                        /\ asking = 2 /\ ~cut => col = Width /\ start = home
  BY DEF WidthInv, Terminal!Ioctl, Terminal!Ask, Terminal!ReadFails
<1>5. CASE Terminal!Ioctl
  <2>1. wpc = "ioctl" /\ due' = due /\ cut' = cut /\ asking = 1 /\ ~due /\ ~cut /\ Keys(Unread)
    BY <1>5 DEF Terminal!Ioctl, WidthInv
  <2>2. CASE Terminal!Returns("ioctl", Width)
    <3>1. wpc' = "done" /\ result'.cols = Width /\ result'.from = "ioctl"
      BY <2>2 DEF Terminal!Returns
    <3>2. WidthIsRight'
      BY <3>1 DEF WidthIsRight, Terminal!WidthIsRight
    <3> QED BY <1>1, <1>3, <1>4, <3>1, <3>2 DEF WidthInv
  <2>3. CASE wpc' = "ask"
    <3>1. WidthIsRight'
      BY <2>3 DEF WidthIsRight, Terminal!WidthIsRight
    <3> QED BY <1>1, <1>2, <1>3, <1>4, <2>1, <2>3, <3>1 DEF WidthInv
  <2> QED BY <1>5, <2>2, <2>3 DEF Terminal!Ioctl
<1>6. CASE Terminal!Ask
  <2>1. /\ wpc = "ask" /\ buf' = <<>> /\ cut' = cut
        /\ ~cut => Keys(Unread) /\ (asking = 2 /\ Unread = <<>> => col = Width)
        /\ cut => Unread # <<>> /\ Unread[1].b # "esc"
    BY <1>6 DEF Terminal!Ask, WidthInv
  <2>2. CASE wpc' = "read" /\ due'
    <3>1. Pending' = Unread
      <4>1. Unread \in Seq(TermByte)
        BY <1>2, PendingParts
      <4> QED BY <1>2, <2>1, <4>1, ConcatEmptySeq DEF Pending
    <3>2. Reading'
      <4>1. CASE cut
        BY <1>1, <2>1, <3>1, <4>1 DEF Reading
      <4>2. CASE ~cut
        BY <1>1, <2>1, <2>2, <3>1, <4>2 DEF Reading
      <4> QED BY <4>1, <4>2
    <3>3. WidthIsRight'
      BY <2>2 DEF WidthIsRight, Terminal!WidthIsRight
    <3> QED BY <1>1, <1>3, <1>4, <2>2, <3>2, <3>3 DEF WidthInv
  <2>3. CASE Terminal!Returns("default", Default)
    <3>1. wpc' = "done" /\ result'.cols = Default /\ result'.from = "default"
      BY <2>3 DEF Terminal!Returns
    <3>2. WidthIsRight'
      BY <3>1 DEF WidthIsRight, Terminal!WidthIsRight
    <3> QED BY <1>1, <1>3, <1>4, <3>1, <3>2 DEF WidthInv
  <2> QED BY <1>6, <2>2, <2>3 DEF Terminal!Ask
<1>7. CASE Terminal!ReadFails
  <2>1. wpc = "read" /\ wpc' = "parse" /\ due' = due /\ buf' = buf /\ cut' = (cut \/ Terminal!IsAnswer)
    BY <1>7 DEF Terminal!ReadFails, Terminal!asked
  <2>2. Reading
    BY <2>1 DEF WidthInv
  <2>3. Parsed'
    <3>1. (Terminal!IsAnswer <=> Terminal!IsAnswer') /\ Terminal!ColumnRead' = Terminal!ColumnRead
      BY <2>1 DEF Terminal!IsAnswer, Terminal!ColumnRead
    <3> SUFFICES ASSUME Terminal!IsAnswer PROVE Parsed'
      BY <3>1 DEF Parsed
    <3>2. ~due /\ Len(buf) \in Nat /\ Len(buf) >= 4
      BY <1>2, <2>2, ReadingAnswer
    <3>3. PICK c \in 1 .. Width : Answered(c) /\ Len(buf) <= DigitCount(c) + 3 /\ IsReport(Pending, c)
      BY <1>2, <2>2, ReadingAnswer
    <3>4. /\ Len(Unread) >= 1 /\ Rests(Unread) /\ Unread[1].b \in {"digit", "R"}
          /\ Len(buf) - 3 \in 1 .. DigitCount(c)
          /\ Terminal!ColumnRead = Terminal!Digits(c)[Len(buf) - 3]
      BY <1>2, <3>2, <3>3, AnswerParts
    <3>5. Terminal!ColumnRead \in Terminal!Range(Terminal!Digits(c))
      BY <3>4, LastInRange
    <3>6. Answered(c)' /\ cut'
      BY <1>1, <2>1, <3>3 DEF Answered
    <3>7. Unread # <<>> /\ Unread[1].b # "esc"
      BY <3>4
    <3> QED BY <1>2, <2>1, <3>1, <3>2, <3>4, <3>5, <3>6, <3>7, Constants DEF Parsed, Rests
  <2>4. WidthIsRight'
    BY <2>1 DEF WidthIsRight, Terminal!WidthIsRight
  <2> QED BY <1>1, <1>3, <1>4, <2>1, <2>3, <2>4 DEF WidthInv
<1> QED BY <1>5, <1>6, <1>7

LEMMA ParseKeeps ==
  ASSUME WidthInv, Terminal!Parse
  PROVE  WidthInv'
<1>1. /\ wpc = "parse" /\ arrived' = arrived /\ held' = held /\ home' = home /\ tty' = tty
      /\ buf' = buf /\ due' = due /\ cut' = cut /\ (failed => failed')
  BY DEF Terminal!Parse
<1>2. WidthTypes /\ Unread' = Unread /\ Parsed /\ (cut' => failed')
  BY <1>1 DEF WidthInv, Unread
<1>3. tty = "raw" => /\ asking = 1 => col = home
                     /\ asking = 2 /\ ~cut => col = Width /\ start = home
  BY <1>1 DEF WidthInv
<1>7. Terminal!IsAnswer => Terminal!ColumnRead \in Nat
  BY <1>2, RangeNat DEF Parsed
<1>4. CASE wpc' = "done"
  <2>1. Terminal!Returns("default", Default) /\ asking' = asking /\ col' = col
    BY <1>4 DEF Terminal!Parse
  <2>2. result'.cols = Default /\ result'.from = "default"
    BY <2>1 DEF Terminal!Returns
  <2>3. WidthIsRight'
    BY <2>2 DEF WidthIsRight, Terminal!WidthIsRight
  <2>4. WidthTypes'
    <3>1. start' = start \/ (Terminal!IsAnswer /\ start' = Terminal!ColumnRead)
      BY DEF Terminal!Parse
    <3> QED BY <1>1, <1>2, <1>7, <2>1, <3>1 DEF WidthTypes
  <2> QED BY <1>1, <1>2, <1>3, <1>4, <2>1, <2>3, <2>4 DEF WidthInv
<1>5. CASE wpc' = "ask"
  <2>1. Terminal!IsAnswer /\ asking = 1 /\ start' = Terminal!ColumnRead /\ asking' = 2 /\ col' = Width
    BY <1>5 DEF Terminal!Parse, Terminal!Returns, Terminal!Margin
  <2>2. /\ ~due /\ (~cut => Keys(Unread)) /\ (cut => Unread # <<>> /\ Unread[1].b # "esc")
        /\ tty = "raw" /\ ~cut => Terminal!ColumnRead = home
    BY <1>2, <2>1 DEF Parsed, Answered
  <2>3. WidthTypes'
    BY <1>1, <1>2, <1>7, <2>1, WidthAssumption DEF WidthTypes
  <2>4. WidthIsRight'
    BY <1>5 DEF WidthIsRight, Terminal!WidthIsRight
  <2> QED BY <1>1, <1>2, <1>5, <2>1, <2>2, <2>3, <2>4 DEF WidthInv
<1>6. CASE wpc' = "restore"
  <2>1. Terminal!IsAnswer /\ asking = 2 /\ asking' = asking /\ start' = start /\ col' = col
    BY <1>6 DEF Terminal!Parse, Terminal!Returns
  <2>2. WidthTypes'
    BY <1>1, <1>2, <2>1 DEF WidthTypes
  <2>3. Parsed' /\ Terminal!IsAnswer'
    <3>1. (Terminal!IsAnswer <=> Terminal!IsAnswer') /\ Terminal!ColumnRead' = Terminal!ColumnRead
      BY <1>1 DEF Terminal!IsAnswer, Terminal!ColumnRead
    <3>2. \A c : Answered(c)' <=> Answered(c)
      BY <1>1, <2>1 DEF Answered
    <3> QED BY <1>1, <1>2, <2>1, <3>1, <3>2, Constants DEF Parsed, Rests
  <2>4. WidthIsRight'
    BY <1>6 DEF WidthIsRight, Terminal!WidthIsRight
  <2> QED BY <1>1, <1>2, <1>3, <1>6, <2>1, <2>2, <2>3, <2>4 DEF WidthInv
<1> QED BY <1>4, <1>5, <1>6 DEF Terminal!Parse, Terminal!Returns

LEMMA RestoreKeeps ==
  ASSUME WidthInv, Terminal!Restore
  PROVE  WidthInv'
<1> DEFINE cols == Terminal!ColumnRead
<1>1. /\ wpc = "restore" /\ arrived' = arrived /\ held' = held /\ home' = home /\ tty' = tty
      /\ asking' = asking /\ start' = start /\ buf' = buf /\ due' = due /\ cut' = cut
  BY DEF Terminal!Restore, Terminal!asked
<1>2. WidthTypes /\ Unread' = Unread /\ Parsed /\ asking = 2 /\ Terminal!IsAnswer /\ (cut => failed)
  BY <1>1 DEF WidthInv, Unread
<1>3. /\ ~due /\ cols \in Terminal!Range(Terminal!Digits(Width))
      /\ ~cut => cols = Width /\ Keys(Unread)
      /\ cut => Rests(Unread)
  BY <1>2 DEF Parsed, Answered
<1>4. tty = "raw" /\ ~cut => col = Width /\ start = home
  BY <1>1, <1>2 DEF WidthInv
<1>5. wpc' = "done" /\ result'.from = "query" /\ result'.cols = cols
  BY DEF Terminal!Restore, Terminal!Returns
<1>6. /\ \/ col' = (IF cols > start THEN Max({1, col - (cols - start)}) ELSE col) /\ failed' = failed
         \/ failed' = TRUE /\ col' = col
      /\ cut' => failed'
  BY <1>2, <1>1 DEF Terminal!Restore, Terminal!Back, Terminal!Max, Max
<1>7. \A x \in Int : Max({1, x}) = IF x > 1 THEN x ELSE 1
  BY DEF Max
<1>8. home \in 1 .. Width /\ col \in 1 .. Width /\ start \in Nat /\ Width \in Nat \ {0} /\ cols \in Nat
  <2>1. Width \in 1 .. Width
    BY WidthAssumption
  <2> QED BY <1>2, <1>3, <2>1, RangeNat, WidthAssumption DEF WidthTypes
<1> HIDE DEF cols
<1>9. tty = "raw" /\ ~failed' => col' = home
  <2> SUFFICES ASSUME tty = "raw", ~failed' PROVE col' = home
    OBVIOUS
  <2>1. col = Width /\ start = home /\ cols = Width
    BY <1>1, <1>3, <1>4, <1>6
  <2>2. col' = (IF cols > start THEN Max({1, col - (cols - start)}) ELSE col)
    BY <1>6
  <2> QED BY <1>7, <1>8, <2>1, <2>2
<1>10. col' \in 1 .. Width
  BY <1>6, <1>7, <1>8
<1>11. WidthTypes'
  BY <1>1, <1>2, <1>10 DEF WidthTypes
<1>12. WidthIsRight'
  <2>1. DOMAIN Unread = 1 .. Len(Unread)
    BY <1>2, PendingParts
  <2>2. \A i \in DOMAIN Unread : Unread[i].of = "answer" => cut /\ Unread[i].b \in {"digit", "R"}
    <3>1. CASE cut
      BY <1>3, <2>1, <3>1 DEF Rests
    <3>2. CASE ~cut
      BY <1>3, <2>1, <3>2 DEF Keys
    <3> QED BY <3>1, <3>2
  <2>3. cols \in {Default, Width} \cup IF cut THEN Terminal!Range(Terminal!Digits(Width)) ELSE {}
    BY <1>3
  <2> QED BY <1>1, <1>2, <1>3, <1>5, <1>9, <2>2, <2>3, Constants DEF WidthIsRight, Terminal!WidthIsRight, Terminal!Left, Unread
<1> QED BY <1>1, <1>2, <1>5, <1>6, <1>11, <1>12 DEF WidthInv

(***************************************************************************)
(* getColumns answers right for any width, any keys typed at any time and   *)
(* both settings of the terminal, and reads and writes that fail: the       *)
(* invariant says that the answer being waited for, or a byte that spoils   *)
(* it, is the first of what is pending, so no column is ever taken from     *)
(* anything else, and that only a failing read leaves a part of an answer,  *)
(* which no answer can begin with.                                          *)
(***************************************************************************)
THEOREM ColumnsAreRight == Terminal!Spec => []WidthIsRight
<1>1. Terminal!Init => WidthInv
  <2> SUFFICES ASSUME Terminal!Init PROVE WidthInv
    OBVIOUS
  <2> USE DEF Terminal!Init
  <2>1. WidthTypes
    <3>1. <<>> \in Seq(TermByte)
      BY EmptySeq
    <3>2. arrived = <<>> /\ held = <<>> /\ buf = <<>> /\ col \in 1 .. Width /\ home = col /\ asking = 1 /\ start = 0 /\ cut = FALSE
      BY DEF Terminal!Init
    <3>3. home \in 1 .. Width /\ asking \in {1, 2} /\ start \in Nat
      BY <3>2
    <3>4. cut \in BOOLEAN
      BY <3>2
    <3> HIDE DEF Terminal!Init
    <3> QED BY <3>1, <3>2, <3>3, <3>4 DEF WidthTypes
  <2>2. Unread = <<>> /\ Keys(Unread)
    BY DEF Unread, Keys
  <2>3. WidthIsRight
    BY DEF WidthIsRight, Terminal!WidthIsRight
  <2> QED BY <2>1, <2>2, <2>3 DEF WidthInv
<1>2. WidthInv /\ [Terminal!Next]_(Terminal!vars) => WidthInv'
  <2> SUFFICES ASSUME WidthInv, [Terminal!Next]_(Terminal!vars) PROVE WidthInv'
    OBVIOUS
  <2>1. CASE Terminal!Ioctl \/ Terminal!Ask \/ Terminal!ReadFails
    BY <2>1, AskKeeps
  <2>2. CASE Terminal!ReadByte
    BY <2>2, ReadByteKeeps
  <2>3. CASE Terminal!Parse
    BY <2>3, ParseKeeps
  <2>4. CASE Terminal!Restore
    BY <2>4, RestoreKeeps
  <2>5. CASE Terminal!Answer
    BY <2>5, AnswerArrives
  <2>6. CASE \E k \in Typeable : Terminal!UserTypes(k)
    BY <2>6, KeyArrives DEF Terminal!UserTypes, Terminal!asked
  <2>7. CASE UNCHANGED Terminal!vars
    <3>1. UNCHANGED widthVars
      BY <2>7 DEF Terminal!vars, Terminal!asked, widthVars
    <3>2. /\ Unread' = Unread /\ Pending' = Pending /\ (WidthTypes <=> WidthTypes')
          /\ Terminal!IsAnswer <=> Terminal!IsAnswer'
      BY <3>1 DEF widthVars, Unread, Pending, WidthTypes, Terminal!IsAnswer
    <3>3. WidthIsRight <=> WidthIsRight'
      BY <3>1 DEF widthVars, WidthIsRight, Terminal!WidthIsRight, Terminal!Left, Terminal!Digits
    <3>4. (\A c : Answered(c)' <=> Answered(c)) /\ Terminal!ColumnRead' = Terminal!ColumnRead
      BY <3>1 DEF widthVars, Answered, Terminal!ColumnRead
    <3>5. Reading <=> Reading'
      BY <3>1, <3>2, <3>4, Constants DEF widthVars, Reading, Keys, IsReport, DigitCount
    <3>6. Parsed <=> Parsed'
      BY <3>1, <3>2, <3>4, Constants DEF widthVars, Parsed, Keys, Rests
    <3> QED BY <3>1, <3>2, <3>3, <3>5, <3>6 DEF widthVars, WidthInv, Keys
  <2> QED
    BY <2>1, <2>2, <2>3, <2>4, <2>5, <2>6, <2>7 DEF Terminal!Next
<1>3. WidthInv => WidthIsRight
  BY DEF WidthInv
<1> QED
  BY <1>1, <1>2, <1>3, PTL DEF Terminal!Spec
-----------------------------------------------------------------------------
(* Induction over the natural numbers, for a set, and functions defined by   *)
(* recursion over a range of numbers.                                       *)
LEMMA LeastNat ==
  ASSUME NEW T, T \subseteq Nat, T # {}
  PROVE  \E x \in T : \A y \in T : x <= y
<1>1. PICK x \in T : \A y \in T : ~(<<y, x>> \in OpToRel(<, Nat))
  BY WFMin, NatLessThanWellFounded
<1>2. \A y \in T : ~(y < x)
  BY <1>1 DEF OpToRel
<1> QED
  BY <1>2

LEMMA SetInduction ==
  ASSUME NEW T \in SUBSET Nat, 0 \in T, \A n \in T : n + 1 \in T
  PROVE  T = Nat
<1> SUFFICES ASSUME Nat \ T # {} PROVE FALSE
  OBVIOUS
<1>1. PICK x \in Nat \ T : \A y \in Nat \ T : x <= y
  BY LeastNat
<1>2. x - 1 \in Nat /\ x - 1 \notin T
  BY <1>1
<1> QED
  BY <1>1, <1>2

(* The same up to a bound. *)
LEMMA BoundedInduction ==
  ASSUME NEW N \in Nat, NEW T, 0 \in T, \A n \in 0 .. N : n \in T /\ n # N => n + 1 \in T
  PROVE  0 .. N \subseteq T
<1> DEFINE U == {n \in Nat : n <= N => n \in T}
<1>1. U \in SUBSET Nat /\ 0 \in U
  OBVIOUS
<1>2. ASSUME NEW n \in U PROVE n + 1 \in U
  OBVIOUS
<1>3. U = Nat
  <2> HIDE DEF U
  <2> QED BY <1>1, <1>2, SetInduction
<1> QED
  BY <1>3

(* A function from 0 .. N that starts with b and goes on by st. *)
Recurses(N, V, b, st) ==
  \E g \in [0 .. N -> V] : g[0] = b /\ \A n \in 1 .. N : g[n] = st[g[n - 1]][n]

LEMMA RecFcn ==
  ASSUME NEW N \in Nat, NEW V, NEW b \in V, NEW st \in [V -> [1 .. N -> V]]
  PROVE  Recurses(N, V, b, st)
<1> DEFINE Is(g, n) == g[0] = b /\ \A m \in 1 .. n : g[m] = st[g[m - 1]][m]
           T == {n \in 0 .. N : \E g \in [0 .. n -> V] : Is(g, n)}
<1>1. 0 \in T
  <2>1. [n \in 0 .. 0 |-> b] \in [0 .. 0 -> V] /\ Is([n \in 0 .. 0 |-> b], 0)
    OBVIOUS
  <2> HIDE DEF Is
  <2> QED BY <2>1
<1>2. ASSUME NEW n \in 0 .. N, n \in T, n # N PROVE n + 1 \in T
  <2>1. PICK g \in [0 .. n -> V] : Is(g, n)
    BY <1>2
  <2> DEFINE h == [m \in 0 .. n + 1 |-> IF m = n + 1 THEN st[g[n]][n + 1] ELSE g[m]]
  <2>2. st[g[n]][n + 1] \in V
    BY <1>2
  <2>3. h \in [0 .. n + 1 -> V]
    BY <2>2
  <2>a. 0 \in 0 .. n /\ n \in 0 .. n /\ \A m \in 0 .. n : m \in 0 .. n + 1 /\ m # n + 1
    OBVIOUS
  <2>b. h[n + 1] = st[g[n]][n + 1] /\ \A m \in 0 .. n : h[m] = g[m]
    BY <2>a
  <2>4. h[0] = b /\ h[n + 1] = st[h[n]][n + 1] /\ \A m \in 0 .. n : h[m] = g[m]
    <3> HIDE DEF h
    <3> QED BY <2>1, <2>a, <2>b
  <2>5. Is(h, n + 1)
    <3> HIDE DEF h
    <3> SUFFICES ASSUME NEW m \in 1 .. n + 1 PROVE h[m] = st[h[m - 1]][m]
      BY <2>4
    <3>1. CASE m = n + 1
      BY <2>4, <3>1
    <3>2. CASE m # n + 1
      <4>1. m \in 1 .. n /\ m \in 0 .. n /\ m - 1 \in 0 .. n
        BY <3>2
      <4> QED BY <2>1, <2>4, <4>1
    <3> QED BY <3>1, <3>2
  <2> HIDE DEF Is, h
  <2>6. n + 1 \in 0 .. N
    BY <1>2
  <2> QED BY <2>3, <2>5, <2>6
<1>3. 0 .. N \subseteq T
  <2> HIDE DEF T
  <2> QED BY <1>1, <1>2, BoundedInduction
<1>4. N \in T
  <2> HIDE DEF T
  <2> QED BY <1>3
<1> QED
  BY <1>4 DEF Recurses

-----------------------------------------------------------------------------
(* Sequences of lines, put together. *)

(* What FlattenSeq computes, line by line. *)
Flattens(q, S) ==
  \E f \in [1 .. Len(q) -> Seq(S)] : /\ FlattenSeq(q) = f[Len(q)] /\ f[1] = q[1]
                                     /\ \A i \in 2 .. Len(q) : f[i] = f[i - 1] \o q[i]

LEMMA FlattenFcn ==
  ASSUME NEW S, NEW q \in Seq(Seq(S)), q # <<>>
  PROVE  Flattens(q, S)
<1> DEFINE N == Len(q)
           E(g) == g = [i \in 1 .. N |-> IF i = 1 THEN q[i] ELSE g[i - 1] \o q[i]]
           f == CHOOSE g : E(g)
           st == [u \in Seq(S) |-> [i \in 1 .. N |-> u \o q[i]]]
<1>1. N \in Nat \ {0} /\ \A i \in 1 .. N : q[i] \in Seq(S)
  OBVIOUS
<1>2. FlattenSeq(q) = f[N]
  BY <1>1 DEF FlattenSeq
<1> HIDE DEF N
<1>3. st \in [Seq(S) -> [1 .. N -> Seq(S)]]
  <2>1. \A u \in Seq(S), i \in 1 .. N : u \o q[i] \in Seq(S)
    BY <1>1, ConcatProperties
  <2> QED BY <2>1
<1>4. PICK g \in [0 .. N -> Seq(S)] : g[0] = <<>> /\ \A n \in 1 .. N : g[n] = st[g[n - 1]][n]
  <2> HIDE DEF st
  <2>1. <<>> \in Seq(S)
    BY EmptySeq
  <2>2. N \in Nat
    BY <1>1
  <2> DEFINE V == Seq(S)
             e == <<>>
  <2>3. e \in V
    BY <2>1
  <2>5. st \in [V -> [1 .. N -> V]]
    BY <1>3
  <2> HIDE DEF V, e, f
  <2>4. \E g \in [0 .. N -> V] : g[0] = e /\ \A n \in 1 .. N : g[n] = st[g[n - 1]][n]
    <3>1. Recurses(N, V, e, st)
      BY <2>2, <2>3, <2>5, RecFcn
    <3> QED BY <3>1 DEF Recurses
  <2> QED BY <2>4 DEF V, e
<1> DEFINE w == [i \in 1 .. N |-> g[i]]
<1>5. \A n \in 1 .. N : g[n] = g[n - 1] \o q[n] /\ g[n] \in Seq(S)
  <2> SUFFICES ASSUME NEW n \in 1 .. N PROVE g[n] = g[n - 1] \o q[n] /\ g[n] \in Seq(S)
    OBVIOUS
  <2>0. n - 1 \in 0 .. N /\ n \in 0 .. N
    BY <1>1
  <2>1. g[n - 1] \in Seq(S) /\ g[n] \in Seq(S) /\ g[n] = st[g[n - 1]][n]
    <3> HIDE DEF st
    <3> QED BY <1>4, <2>0
  <2> QED BY <2>1
<1> HIDE DEF st
<1>6. E(w)
  <2>1. w = [i \in 1 .. N |-> w[i]]
    OBVIOUS
  <2>2. ASSUME NEW i \in 1 .. N PROVE w[i] = IF i = 1 THEN q[i] ELSE w[i - 1] \o q[i]
    <3>1. w[i] = g[i - 1] \o q[i]
      BY <1>5
    <3>2. CASE i = 1
      <4>1. g[i - 1] = <<>> /\ <<>> \o q[i] = q[i]
        BY <1>1, <1>4, <3>2, ConcatEmptySeq
      <4> QED BY <3>1, <3>2, <4>1
    <3>3. CASE i # 1
      <4>1. w[i - 1] = g[i - 1]
        BY <1>1, <3>3
      <4> QED BY <3>1, <3>3, <4>1
    <3> QED BY <3>2, <3>3
  <2> HIDE DEF w
  <2> QED BY <2>1, <2>2
<1>7. E(f)
  BY <1>6
<1> HIDE DEF f, w
<1>8. ASSUME NEW i \in 1 .. N PROVE f[i] = IF i = 1 THEN q[i] ELSE f[i - 1] \o q[i]
  BY <1>7
<1> DEFINE T == {n \in 0 .. N : n # 0 => f[n] \in Seq(S)}
<1>9. 0 .. N \subseteq T
  <2>1. 0 \in T
    BY <1>1
  <2>2. ASSUME NEW n \in 0 .. N, n \in T, n # N PROVE n + 1 \in T
    <3>1. n + 1 \in 1 .. N /\ (n + 1) - 1 = n /\ n + 1 \in 0 .. N
      BY <1>1, <2>2
    <3>2. CASE n = 0
      <4>1. f[n + 1] = q[n + 1] /\ q[n + 1] \in Seq(S)
        <5> HIDE DEF T
        <5> QED BY <1>1, <1>8, <3>1, <3>2
      <4> QED BY <3>1, <4>1
    <3>3. CASE n # 0
      <4>1. f[n + 1] = f[n] \o q[n + 1]
        <5>1. n + 1 # 1
          BY <3>3
        <5> HIDE DEF T
        <5> QED BY <1>8, <3>1, <5>1
      <4>2. f[n] \in Seq(S) /\ q[n + 1] \in Seq(S)
        BY <1>1, <2>2, <3>1, <3>3
      <4>3. f[n + 1] \in Seq(S)
        <5> HIDE DEF T
        <5> QED BY <4>1, <4>2, ConcatProperties
      <4> QED BY <3>1, <4>3
    <3> QED BY <3>2, <3>3
  <2> HIDE DEF T
  <2> QED BY <1>1, <2>1, <2>2, BoundedInduction
<1>10. f \in [1 .. N -> Seq(S)]
  <2>1. \A i \in 1 .. N : f[i] \in Seq(S)
    BY <1>1, <1>9
  <2> QED BY <1>7, <2>1
<1>11. f[1] = q[1] /\ \A i \in 2 .. N : f[i] = f[i - 1] \o q[i]
  <2>1. 1 \in 1 .. N /\ \A i \in 2 .. N : i \in 1 .. N /\ i # 1
    BY <1>1
  <2> HIDE DEF T
  <2> QED BY <1>8, <2>1
<1> QED
  BY <1>2, <1>10, <1>11 DEF N, Flattens

LEMMA FlattenIsSeq ==
  ASSUME NEW S, NEW q \in Seq(Seq(S))
  PROVE  FlattenSeq(q) \in Seq(S) /\ (q = <<>> => FlattenSeq(q) = <<>>)
<1>1. CASE q = <<>>
  <2>1. FlattenSeq(q) = q
    BY <1>1 DEF FlattenSeq
  <2> QED BY <1>1, <2>1, EmptySeq
<1>2. CASE q # <<>>
  <2>1. PICK f \in [1 .. Len(q) -> Seq(S)] : FlattenSeq(q) = f[Len(q)]
    BY <1>2, FlattenFcn DEF Flattens
  <2>2. Len(q) \in 1 .. Len(q)
    BY <1>2
  <2> QED BY <1>2, <2>1, <2>2
<1> QED
  BY <1>1, <1>2

LEMMA FlattenSnoc ==
  ASSUME NEW S, NEW q \in Seq(Seq(S)), NEW x \in Seq(S)
  PROVE  FlattenSeq(Append(q, x)) = FlattenSeq(q) \o x
<1> DEFINE r == Append(q, x)
           N == Len(q)
<1>1. /\ r \in Seq(Seq(S)) /\ r # <<>> /\ N \in Nat /\ Len(r) = N + 1 /\ r[N + 1] = x
      /\ \A i \in 1 .. N : r[i] = q[i]
  BY AppendProperties
<1> HIDE DEF r
<1>2. PICK g \in [1 .. N + 1 -> Seq(S)] : /\ FlattenSeq(r) = g[N + 1] /\ g[1] = r[1]
                                           /\ \A i \in 2 .. N + 1 : g[i] = g[i - 1] \o r[i]
  <2>1. \E g \in [1 .. Len(r) -> Seq(S)] : /\ FlattenSeq(r) = g[Len(r)] /\ g[1] = r[1]
                                           /\ \A i \in 2 .. Len(r) : g[i] = g[i - 1] \o r[i]
    <3>1. Flattens(r, S)
      BY <1>1, FlattenFcn
    <3> QED BY <3>1 DEF Flattens
  <2>2. Len(r) = N + 1
    BY <1>1
  <2> HIDE DEF N
  <2> QED BY <2>1, <2>2
<1>3. CASE q = <<>>
  <2>1. N = 0 /\ FlattenSeq(q) = <<>>
    BY <1>3, FlattenIsSeq
  <2>2. FlattenSeq(r) = x
    BY <1>1, <1>2, <2>1
  <2> QED BY <2>1, <2>2, ConcatEmptySeq DEF r
<1>4. CASE q # <<>>
  <2>0. N \in Nat \ {0} /\ N = Len(q)
    BY <1>4
  <2>1. PICK f \in [1 .. N -> Seq(S)] : /\ FlattenSeq(q) = f[N] /\ f[1] = q[1]
                                         /\ \A i \in 2 .. N : f[i] = f[i - 1] \o q[i]
    BY <1>4, FlattenFcn DEF Flattens
  <2> HIDE DEF N
  <2> DEFINE T == {n \in 0 .. N : n # 0 => f[n] = g[n]}
  <2>2. 0 \in T
    BY <2>0
  <2>3. ASSUME NEW n \in 0 .. N, n \in T, n # N PROVE n + 1 \in T
    <3>1. n + 1 \in 1 .. N /\ n + 1 \in 0 .. N /\ (n + 1) - 1 = n /\ (n # 0 => f[n] = g[n])
      BY <2>0, <2>3
    <3> SUFFICES f[n + 1] = g[n + 1]
      BY <3>1
    <3> HIDE DEF T
    <3>2. CASE n = 0
      BY <1>1, <1>2, <2>1, <3>1, <3>2
    <3>3. CASE n # 0
      <4>1. n + 1 \in 2 .. N /\ n + 1 \in 2 .. N + 1
        BY <2>0, <3>1, <3>3
      <4>2. f[n + 1] = f[n] \o q[n + 1] /\ g[n + 1] = g[n] \o r[n + 1] /\ r[n + 1] = q[n + 1]
        BY <1>1, <1>2, <2>1, <3>1, <4>1
      <4> QED BY <3>1, <3>3, <4>2
    <3> QED BY <3>2, <3>3
  <2>4. N \in T
    <3> HIDE DEF T
    <3>1. N \in Nat /\ N \in 0 .. N
      BY <2>0
    <3>2. 0 .. N \subseteq T
      BY <2>2, <2>3, <3>1, BoundedInduction
    <3> QED BY <3>1, <3>2
  <2>5. f[N] = g[N] /\ N + 1 \in 2 .. N + 1 /\ (N + 1) - 1 = N
    BY <2>0, <2>4
  <2> HIDE DEF T
  <2>6. g[N + 1] = g[N] \o r[N + 1]
    BY <1>2, <2>5
  <2> QED BY <1>1, <1>2, <2>1, <2>5, <2>6 DEF r
<1> QED
  BY <1>3, <1>4

(* The text of a history, line by line.  The text of lines is the same       *)
(* function in LineSource.                                                  *)
Ended(h) == [i \in DOMAIN h |-> Append(h[i], LF)]

LEMMA EndedIs ==
  ASSUME NEW S, LF \in S, NEW h \in Seq(Seq(S))
  PROVE  /\ Ended(h) \in Seq(Seq(S)) /\ Len(Ended(h)) = Len(h)
         /\ h = <<>> => Ended(h) = <<>>
         /\ \A l \in Seq(S) : Ended(Append(h, l)) = Append(Ended(h), Append(l, LF))
<1>1. \A l \in Seq(S) : Append(l, LF) \in Seq(S)
  BY AppendProperties
<1>2. Ended(h) \in Seq(Seq(S)) /\ Len(Ended(h)) = Len(h)
  <2>1. DOMAIN h = 1 .. Len(h) /\ Len(h) \in Nat /\ \A i \in 1 .. Len(h) : h[i] \in Seq(S)
    OBVIOUS
  <2>2. Ended(h) = [i \in 1 .. Len(h) |-> Append(h[i], LF)]
    BY <2>1 DEF Ended
  <2>3. \A i \in 1 .. Len(h) : Append(h[i], LF) \in Seq(S)
    BY <1>1, <2>1
  <2> QED BY <2>1, <2>2, <2>3
<1>3. h = <<>> => Ended(h) = <<>>
  BY <1>2
<1>4. ASSUME NEW l \in Seq(S) PROVE Ended(Append(h, l)) = Append(Ended(h), Append(l, LF))
  <2> DEFINE a == Ended(Append(h, l))
             c == Append(Ended(h), Append(l, LF))
  <2>1. /\ Append(h, l) \in Seq(Seq(S)) /\ Len(Append(h, l)) = Len(h) + 1 /\ Len(h) \in Nat
        /\ Append(h, l)[Len(h) + 1] = l /\ \A i \in 1 .. Len(h) : Append(h, l)[i] = h[i]
    OBVIOUS
  <2>2. a = [i \in 1 .. Len(h) + 1 |-> Append(Append(h, l)[i], LF)]
    BY <2>1 DEF Ended
  <2>3. /\ c \in Seq(Seq(S)) /\ Len(c) = Len(h) + 1 /\ c[Len(h) + 1] = Append(l, LF)
        /\ \A i \in 1 .. Len(h) : c[i] = Ended(h)[i]
    BY <1>1, <1>2, AppendProperties
  <2>4. \A i \in 1 .. Len(h) : Ended(h)[i] = Append(h[i], LF)
    BY DEF Ended
  <2> HIDE DEF c
  <2>5. \A i \in 1 .. Len(h) + 1 : a[i] = c[i]
    <3> SUFFICES ASSUME NEW i \in 1 .. Len(h) + 1 PROVE a[i] = c[i]
      OBVIOUS
    <3>1. a[i] = Append(Append(h, l)[i], LF)
      BY <2>2
    <3> HIDE DEF a
    <3>2. CASE i = Len(h) + 1
      BY <2>1, <2>3, <3>1, <3>2
    <3>3. CASE i # Len(h) + 1
      <4>1. i \in 1 .. Len(h)
        BY <2>1, <3>3
      <4> QED BY <2>1, <2>3, <2>4, <3>1, <4>1
    <3> QED BY <3>2, <3>3
  <2>6. a = [i \in 1 .. Len(h) + 1 |-> a[i]] /\ c = [i \in 1 .. Len(h) + 1 |-> c[i]]
    BY <2>2, <2>3
  <2> HIDE DEF a
  <2> QED BY <2>5, <2>6 DEF a, c
<1> QED
  BY <1>2, <1>3, <1>4

LEMMA BytesSnoc ==
  ASSUME NEW S, LF \in S, NEW h \in Seq(Seq(S))
  PROVE  /\ Bytes(h) \in Seq(S)
         /\ h = <<>> => Bytes(h) = <<>>
         /\ \A l \in Seq(S) : Bytes(Append(h, l)) = Bytes(h) \o Append(l, LF)
<1>1. \A g : Bytes(g) = FlattenSeq(Ended(g))
  BY DEF Bytes, Ended
<1>2. /\ Ended(h) \in Seq(Seq(S)) /\ (h = <<>> => Ended(h) = <<>>)
      /\ \A l \in Seq(S) : Ended(Append(h, l)) = Append(Ended(h), Append(l, LF))
  BY EndedIs
<1>3. FlattenSeq(Ended(h)) \in Seq(S) /\ (Ended(h) = <<>> => FlattenSeq(Ended(h)) = <<>>)
  BY <1>2, FlattenIsSeq
<1>4. ASSUME NEW l \in Seq(S) PROVE Bytes(Append(h, l)) = Bytes(h) \o Append(l, LF)
  <2>1. Append(l, LF) \in Seq(S)
    BY AppendProperties
  <2>2. FlattenSeq(Append(Ended(h), Append(l, LF))) = FlattenSeq(Ended(h)) \o Append(l, LF)
    BY <1>2, <2>1, FlattenSnoc
  <2> QED BY <1>1, <1>2, <2>2
<1> QED
  BY <1>1, <1>2, <1>3, <1>4
-----------------------------------------------------------------------------
(* The history file: what linenoiseHistoryLoad reads. *)

Chars == Char \cup {CR, LF, NUL}

LEMMA UpToIs ==
  ASSUME NEW S, NEW s \in Seq(S), NEW b
  PROVE  \E n \in 0 .. Len(s) : /\ UpTo(s, b) = SubSeq(s, 1, n) /\ UpTo(s, b) \in Seq(S)
                                /\ Len(UpTo(s, b)) = n
                                /\ \A i \in 1 .. n : s[i] # b
                                /\ n < Len(s) => s[n + 1] = b
<1>0. DOMAIN s = 1 .. Len(s) /\ Len(s) \in Nat
  OBVIOUS
<1>1. CASE \E i \in 1 .. Len(s) : s[i] = b
  <2> DEFINE I == {i \in 1 .. Len(s) : s[i] = b}
  <2>1. I # {} /\ I \subseteq Nat
    BY <1>1
  <2>2. SelectInSeq(s, LAMBDA x : x = b) = CHOOSE x \in I : \A y \in I : x <= y
    BY <2>1 DEF SelectInSeq, Min
  <2>3. \E x \in I : \A y \in I : x <= y
    <3> HIDE DEF I
    <3> QED BY <2>1, LeastNat
  <2>4. PICK m \in I : SelectInSeq(s, LAMBDA x : x = b) = m /\ \A y \in I : m <= y
    BY <2>2, <2>3
  <2>5. m \in 1 .. Len(s) /\ s[m] = b /\ \A i \in 1 .. m - 1 : s[i] # b
    BY <1>0, <2>4
  <2>6. UpTo(s, b) = SubSeq(s, 1, m - 1)
    BY <1>0, <1>1, <2>4 DEF UpTo
  <2>7. m - 1 \in 0 .. Len(s) /\ (m - 1) + 1 = m
    BY <1>0, <2>5
  <2> HIDE DEF I
  <2>8. SubSeq(s, 1, m - 1) \in Seq(S) /\ Len(SubSeq(s, 1, m - 1)) = m - 1
    BY <1>0, <2>5
  <2> QED BY <2>5, <2>6, <2>7, <2>8
<1>2. CASE ~ \E i \in 1 .. Len(s) : s[i] = b
  <2>1. UpTo(s, b) = s
    BY <1>0, <1>2 DEF UpTo
  <2>2. SubSeq(s, 1, Len(s)) = s
    BY SubSeqFull
  <2>3. /\ Len(s) \in 0 .. Len(s) /\ UpTo(s, b) = SubSeq(s, 1, Len(s)) /\ UpTo(s, b) \in Seq(S)
        /\ Len(UpTo(s, b)) = Len(s)
        /\ \A i \in 1 .. Len(s) : s[i] # b
        /\ ~(Len(s) < Len(s))
    BY <1>0, <1>2, <2>1, <2>2
  <2> QED BY <2>3
<1> QED
  BY <1>1, <1>2

LEMMA ChunkLenIs ==
  ASSUME NEW S, NEW s \in Seq(S), s # <<>>
  PROVE  ChunkLen(s) \in 1 .. Len(s)
<1>1. Len(UpTo(s, LF)) \in 0 .. Len(s) /\ Len(s) \in Nat \ {0}
  BY UpToIs
<1> QED
  BY <1>1, HistoryFileAssumption DEF ChunkLen

LEMMA LineOfChunkIs ==
  ASSUME NEW S, NEW s \in Seq(S)
  PROVE  LineOfChunk(s) \in Seq(S)
<1>1. \A t \in Seq(S) : \A b : UpTo(t, b) \in Seq(S)
  BY UpToIs
<1> QED
  BY <1>1 DEF LineOfChunk

LEMMA HistoryAddIs ==
  ASSUME NEW X, NEW h \in Seq(X), NEW l \in X, NEW m \in Nat \ {0}, Len(h) <= m
  PROVE  HistoryAdd(h, m, l) \in Seq(X) /\ Len(HistoryAdd(h, m, l)) <= m
<1>1. CASE h # <<>> /\ h[Len(h)] = l
  BY <1>1 DEF HistoryAdd
<1>2. CASE ~(h # <<>> /\ h[Len(h)] = l)
  <2> DEFINE g == IF Len(h) = m THEN Tail(h) ELSE h
  <2>1. HistoryAdd(h, m, l) = Append(g, l)
    BY <1>2 DEF HistoryAdd
  <2>2. g \in Seq(X) /\ Len(g) < m /\ Len(g) \in Nat
    <3>1. CASE Len(h) = m
      <4>1. h # <<>>
        BY <3>1
      <4> QED BY <3>1, <4>1, HeadTailProperties
    <3>2. CASE Len(h) # m
      BY <3>2
    <3> QED BY <3>1, <3>2
  <2> HIDE DEF g
  <2>3. Append(g, l) \in Seq(X) /\ Len(Append(g, l)) = Len(g) + 1
    BY <2>2
  <2> QED BY <2>1, <2>2, <2>3
<1> QED
  BY <1>1, <1>2

LoadState(s) == {r \in [at : 0 .. Len(s), h : Seq(Seq(Chars))] : Len(r.h) <= MaxHist}

LEMMA LoadTurnIs ==
  ASSUME NEW s \in Seq(Chars), NEW r \in LoadState(s), r.at # Len(s)
  PROVE  LoadTurn(s, r) \in LoadState(s)
<1> DEFINE left == SubSeq(s, r.at + 1, Len(s))
           chunk == SubSeq(left, 1, ChunkLen(left))
<1>1. /\ r.at \in 0 .. Len(s) /\ r.h \in Seq(Seq(Chars)) /\ Len(r.h) <= MaxHist /\ Len(s) \in Nat
      /\ r.at < Len(s)
  BY DEF LoadState
<1>2. left \in Seq(Chars) /\ Len(left) = Len(s) - r.at /\ left # <<>>
  <2>1. \A i \in r.at + 1 .. Len(s) : s[i] \in Chars
    BY <1>1
  <2>2. left \in Seq(Chars) /\ Len(left) = Len(s) - r.at
    BY <1>1, <2>1, SubSeqProperties
  <2>3. Len(s) - r.at # 0
    BY <1>1
  <2> HIDE DEF left
  <2>4. left # <<>>
    BY <2>2, <2>3
  <2> QED BY <2>2, <2>4
<1> HIDE DEF left
<1>3. ChunkLen(left) \in 1 .. Len(left) /\ Len(left) \in Nat
  BY <1>2, ChunkLenIs
<1>4. chunk \in Seq(Chars)
  BY <1>2, <1>3
<1> HIDE DEF chunk
<1>5. LineOfChunk(chunk) \in Seq(Chars)
  BY <1>4, LineOfChunkIs
<1>6. /\ HistoryAdd(r.h, MaxHist, LineOfChunk(chunk)) \in Seq(Seq(Chars))
      /\ Len(HistoryAdd(r.h, MaxHist, LineOfChunk(chunk))) <= MaxHist
  BY <1>1, <1>5, HistoryAddIs, HistoryFileAssumption
<1>7. LoadTurn(s, r) = [at |-> r.at + ChunkLen(left), h |-> HistoryAdd(r.h, MaxHist, LineOfChunk(chunk))]
  BY DEF LoadTurn, left, chunk
<1>8. r.at + ChunkLen(left) \in 0 .. Len(s)
  BY <1>1, <1>2, <1>3
<1> QED
  BY <1>6, <1>7, <1>8 DEF LoadState

(* What Load computes, turn by turn. *)
Loads(s) ==
  \E f \in [0 .. Len(s) -> LoadState(s)] :
     /\ f[0] = [at |-> 0, h |-> <<>>] /\ Load(s) = f[Len(s)].h
     /\ \A k \in 1 .. Len(s) :
          f[k] = IF f[k - 1].at = Len(s) THEN f[k - 1] ELSE LoadTurn(s, f[k - 1])

LEMMA LoadFcn ==
  ASSUME NEW s \in Seq(Chars)
  PROVE  Loads(s)
<1> DEFINE N == Len(s)
           V == LoadState(s)
           z == [at |-> 0, h |-> <<>>]
           To(r) == IF r.at = N THEN r ELSE LoadTurn(s, r)
           E(g) == g = [k \in 0 .. N |-> IF k = 0 THEN z
                                         ELSE IF g[k - 1].at = N THEN g[k - 1]
                                         ELSE LoadTurn(s, g[k - 1])]
           f == CHOOSE g : E(g)
           st == [r \in V |-> [k \in 1 .. N |-> To(r)]]
<1>1. N \in Nat /\ z \in V
  <2>1. z \in [at : 0 .. Len(s), h : Seq(Seq(Chars))] /\ Len(z.h) = 0
    <3>1. 0 \in 0 .. Len(s) /\ <<>> \in Seq(Seq(Chars)) /\ Len(<<>>) = 0
      BY EmptySeq
    <3> QED BY <3>1
  <2> QED BY <2>1, HistoryFileAssumption DEF LoadState
<1>2. Load(s) = f[N].h
  BY DEF Load
<1>3. \A r \in V : To(r) \in V
  BY LoadTurnIs
<1> HIDE DEF N, V, z
<1>4. st \in [V -> [1 .. N -> V]]
  <2> HIDE DEF To
  <2> QED BY <1>3
<1>5. Recurses(N, V, z, st)
  <2> HIDE DEF st
  <2> QED BY <1>1, <1>4, RecFcn
<1>6. PICK w \in [0 .. N -> V] : w[0] = z /\ \A k \in 1 .. N : w[k] = st[w[k - 1]][k]
  <2> HIDE DEF st
  <2> QED BY <1>5 DEF Recurses
<1>7. \A k \in 1 .. N : w[k] = To(w[k - 1]) /\ k - 1 \in 0 .. N
  <2> SUFFICES ASSUME NEW k \in 1 .. N PROVE w[k] = To(w[k - 1]) /\ k - 1 \in 0 .. N
    OBVIOUS
  <2>1. k - 1 \in 0 .. N
    BY <1>1
  <2>2. w[k - 1] \in V /\ w[k] = st[w[k - 1]][k]
    <3> HIDE DEF st
    <3> QED BY <1>6, <2>1
  <2> HIDE DEF To
  <2> QED BY <2>1, <2>2
<1> HIDE DEF st
<1>8. E(w)
  <2>1. w = [k \in 0 .. N |-> w[k]]
    OBVIOUS
  <2>2. ASSUME NEW k \in 0 .. N
        PROVE  w[k] = IF k = 0 THEN z ELSE IF w[k - 1].at = N THEN w[k - 1] ELSE LoadTurn(s, w[k - 1])
    <3>1. k # 0 => k \in 1 .. N
      BY <1>1
    <3> QED BY <1>6, <1>7, <3>1
  <2> QED BY <2>1, <2>2
<1>9. E(f)
  BY <1>8
<1> HIDE DEF f
<1>10. ASSUME NEW k \in 0 .. N PROVE f[k] = IF k = 0 THEN z ELSE To(f[k - 1])
  BY <1>9
<1>11. 0 \in 0 .. N /\ \A k \in 1 .. N : k \in 0 .. N /\ k # 0
  BY <1>1
<1> HIDE DEF E
<1>12. f[0] = z /\ \A k \in 1 .. N : f[k] = To(f[k - 1])
  <2> HIDE DEF To
  <2> QED BY <1>10, <1>11
<1> HIDE DEF To
<1> DEFINE T == {k \in 0 .. N : f[k] \in V}
<1>13. 0 .. N \subseteq T
  <2>1. 0 \in T
    BY <1>1, <1>11, <1>12
  <2>2. ASSUME NEW k \in 0 .. N, k \in T, k # N PROVE k + 1 \in T
    <3>1. k + 1 \in 1 .. N /\ k + 1 \in 0 .. N /\ (k + 1) - 1 = k /\ f[k] \in V
      BY <1>1, <2>2
    <3>2. f[k + 1] \in V
      <4> HIDE DEF T
      <4> QED BY <1>3, <1>12, <3>1
    <3> QED BY <3>1, <3>2
  <2> HIDE DEF T
  <2> QED BY <1>1, <2>1, <2>2, BoundedInduction
<1>14. f \in [0 .. N -> V]
  <2>1. \A k \in 0 .. N : f[k] \in V
    BY <1>13
  <2> QED BY <1>9, <2>1 DEF E
<1> QED
  BY <1>2, <1>12, <1>14 DEF Loads, N, V, z, To

LEMMA LoadIs ==
  ASSUME NEW s \in Seq(Chars)
  PROVE  Load(s) \in Seq(Seq(Chars)) /\ Len(Load(s)) <= MaxHist
<1>1. PICK f \in [0 .. Len(s) -> LoadState(s)] : Load(s) = f[Len(s)].h
  BY LoadFcn DEF Loads
<1>2. Len(s) \in 0 .. Len(s)
  OBVIOUS
<1>3. f[Len(s)] \in LoadState(s)
  BY <1>1, <1>2
<1> QED
  BY <1>1, <1>3 DEF LoadState
-----------------------------------------------------------------------------
(* The history file: what linenoiseHistorySave writes. *)

History == {h \in Seq(Seq(Chars)) : Len(h) <= MaxHist}

HistoryTypes ==
  /\ hist \in [Proc -> History] /\ line \in [Proc -> Seq(Chars)]
  /\ pc \in [Proc -> {"start", "prompt", "run", "save"}]
  /\ offset \in [Proc -> Nat]
  /\ file = NoFile \/ file \in Seq(Chars)
  /\ snap \in History

(* The client p writes what snap says, alone, and has got as far as the      *)
(* file has, unless a block of it was lost.                                 *)
Saving(p) ==
  /\ snap = hist[p]
  /\ offset[p] <= Len(Bytes(snap))
  /\ torn => offset[p] = Len(Bytes(snap))
  /\ ~torn => Len(file) = offset[p]
  /\ \A q \in Proc : pc[q] = "save" => q = p

FileInv ==
  /\ HistoryTypes
  /\ \A p \in Proc : pc[p] = "save" => file # NoFile
  /\ file # NoFile /\ ~overlap => \A p \in Proc : pc[p] = "save" => Saving(p)
  /\ FileIsSaved

LEMMA BytesOfHistory ==
  ASSUME NEW h \in History
  PROVE  Bytes(h) \in Seq(Chars) /\ Len(Bytes(h)) \in Nat
<1>1. h \in Seq(Seq(Chars)) /\ LF \in Chars
  BY DEF History, Chars
<1>2. Bytes(h) \in Seq(Chars)
  BY <1>1, BytesSnoc
<1> QED BY <1>2

LEMMA PrefixIs ==
  ASSUME NEW S, NEW s \in Seq(S), NEW t \in Seq(S)
  PROVE  IsPrefix(s, t) <=> Len(s) <= Len(t) /\ \A i \in 1 .. Len(s) : s[i] = t[i]
<1>1. SubSeq(s, 1, Len(s)) = s /\ Len(s) \in Nat /\ Len(t) \in Nat
  BY SubSeqFull
<1>2. ASSUME Len(s) <= Len(t)
      PROVE  /\ SubSeq(t, 1, Len(s)) \in Seq(S) /\ Len(SubSeq(t, 1, Len(s))) = Len(s)
             /\ \A i \in 1 .. Len(s) : SubSeq(t, 1, Len(s))[i] = t[i]
  BY <1>1, <1>2
<1>3. ASSUME Len(s) <= Len(t), \A i \in 1 .. Len(s) : s[i] = t[i]
      PROVE  s = SubSeq(t, 1, Len(s))
  <2> DEFINE u == SubSeq(t, 1, Len(s))
  <2>1. u \in Seq(S) /\ Len(s) = Len(u) /\ \A i \in 1 .. Len(s) : u[i] = t[i]
    BY <1>2, <1>3
  <2> HIDE DEF u
  <2>2. s = u
    BY <1>3, <2>1, SeqEqual
  <2> QED BY <2>2 DEF u
<1>4. ASSUME Len(s) <= Len(t), s = SubSeq(t, 1, Len(s)), NEW i \in 1 .. Len(s)
      PROVE  s[i] = t[i]
  BY <1>2, <1>4
<1> QED
  BY <1>1, <1>3, <1>4 DEF IsPrefix

LEMMA WriteIsSeq ==
  ASSUME NEW f \in Seq(Chars), NEW o \in Nat, NEW s \in Seq(Chars)
  PROVE  WriteAt(f, o, s) \in Seq(Chars)
<1> DEFINE n == IF Len(f) > o + Len(s) THEN Len(f) ELSE o + Len(s)
           e(i) == IF i \in o + 1 .. o + Len(s) THEN s[i - o]
                   ELSE IF i <= Len(f) THEN f[i] ELSE NUL
<1>1. n \in Nat /\ Len(f) \in Nat /\ Len(s) \in Nat
  OBVIOUS
<1>2. ASSUME NEW i \in 1 .. n PROVE e(i) \in Chars
  <2>1. CASE i \in o + 1 .. o + Len(s)
    <3>1. i - o \in 1 .. Len(s)
      BY <1>1, <2>1
    <3> QED BY <2>1, <3>1, ElementOfSeq
  <2>2. CASE i \notin o + 1 .. o + Len(s) /\ i <= Len(f)
    <3>1. i \in 1 .. Len(f)
      BY <1>1, <2>2
    <3> QED BY <2>2, <3>1, ElementOfSeq
  <2>3. CASE i \notin o + 1 .. o + Len(s) /\ ~(i <= Len(f))
    BY <2>3 DEF Chars
  <2> QED BY <2>1, <2>2, <2>3
<1>3. WriteAt(f, o, s) = [i \in 1 .. n |-> e(i)]
  BY DEF WriteAt
<1> HIDE DEF n, e
<1> QED
  BY <1>1, <1>2, <1>3

(* Writing the next bytes of B after the first ones makes the file longer    *)
(* by them.                                                                 *)
LEMMA WriteExtends ==
  ASSUME NEW B \in Seq(Chars), NEW f \in Seq(Chars), NEW e \in 0 .. Len(B),
         Len(f) <= e, \A i \in 1 .. Len(f) : f[i] = B[i]
  PROVE  LET g == WriteAt(f, Len(f), SubSeq(B, Len(f) + 1, e))
         IN  g \in Seq(Chars) /\ Len(g) = e /\ \A i \in 1 .. e : g[i] = B[i]
<1> DEFINE o == Len(f)
           s == SubSeq(B, o + 1, e)
           g == WriteAt(f, o, s)
<1>1. o \in Nat /\ Len(B) \in Nat /\ e \in Nat /\ o <= e /\ o = Len(f)
  OBVIOUS
<1>2. /\ s \in Seq(Chars) /\ Len(s) = e - o
      /\ \A i \in 1 .. e - o : s[i] = B[o + i]
  <2>1. \A i \in o + 1 .. e : B[i] \in Chars
    BY <1>1
  <2>2. s \in Seq(Chars) /\ Len(s) = (IF o + 1 <= e THEN e - (o + 1) + 1 ELSE 0)
        /\ \A i \in 1 .. e - (o + 1) + 1 : s[i] = B[(o + 1) + i - 1]
    BY <1>1, <2>1, SubSeqProperties
  <2> HIDE DEF s
  <2>3. (o + 1 <= e => e - (o + 1) + 1 = e - o) /\ (~(o + 1 <= e) => e - o = 0)
        /\ e - (o + 1) + 1 = e - o /\ \A i \in 1 .. e - o : (o + 1) + i - 1 = o + i
    BY <1>1
  <2> HIDE DEF o
  <2> QED BY <2>2, <2>3
<1> HIDE DEF s
<1>3. g \in Seq(Chars)
  <2> HIDE DEF g
  <2> QED BY <1>1, <1>2, WriteIsSeq DEF g
<1>4. g = [i \in 1 .. e |-> IF i \in o + 1 .. e THEN s[i - o] ELSE f[i]]
  <2>1. o + Len(s) = e /\ ~(Len(f) > o + Len(s)) /\ \A i \in 1 .. e : i \in o + 1 .. e \/ i <= Len(f)
    BY <1>1, <1>2
  <2> HIDE DEF o
  <2>2. g = [i \in 1 .. e |-> IF i \in o + 1 .. e THEN s[i - o] ELSE IF i <= Len(f) THEN f[i] ELSE NUL]
    BY <2>1 DEF WriteAt
  <2> HIDE DEF g
  <2> QED BY <2>1, <2>2
<1> HIDE DEF g
<1>5. Len(g) = e
  BY <1>1, <1>3, <1>4
<1>6. ASSUME NEW i \in 1 .. e PROVE g[i] = B[i]
  <2>1. CASE i \in o + 1 .. e
    <3>1. i - o \in 1 .. e - o /\ o + (i - o) = i
      BY <1>1, <2>1
    <3> HIDE DEF o
    <3> QED BY <1>2, <1>4, <2>1, <3>1
  <2>2. CASE i \notin o + 1 .. e
    <3>1. i \in 1 .. Len(f)
      BY <1>1, <2>2
    <3> QED BY <1>4, <2>2, <3>1
  <2> QED BY <2>1, <2>2
<1> QED
  BY <1>3, <1>5, <1>6 DEF g, s

(* A step of a client that is not saving, before it or after it, and leaves  *)
(* the file alone.                                                          *)
LEMMA IdleStep ==
  ASSUME FileInv, NEW p \in Proc, pc[p] # "save",
         NEW x \in {"start", "prompt", "run"}, pc' = [pc EXCEPT ![p] = x],
         NEW h \in History, hist' = [hist EXCEPT ![p] = h],
         NEW l \in Seq(Chars), line' = [line EXCEPT ![p] = l],
         NEW o \in Nat, offset' = [offset EXCEPT ![p] = o],
         file' = file, snap' = snap, torn' <=> torn, overlap' <=> overlap
  PROVE  FileInv'
<1>1. HistoryTypes /\ pc[p] # "save" /\ pc'[p] # "save"
  BY DEF FileInv, HistoryTypes
<1>2. HistoryTypes'
  BY <1>1 DEF HistoryTypes
<1>3. \A q \in Proc : q # p => pc'[q] = pc[q] /\ hist'[q] = hist[q] /\ offset'[q] = offset[q]
  BY <1>1 DEF HistoryTypes
<1>4. \A q \in Proc : pc'[q] = "save" => q # p /\ pc[q] = "save"
  BY <1>1, <1>3
<1>5. Quiet' <=> Quiet
  BY <1>1, <1>3 DEF Quiet
<1>6. ASSUME file # NoFile, ~overlap, NEW q \in Proc, pc'[q] = "save" PROVE Saving(q)'
  <2>1. Saving(q) /\ q # p
    BY <1>4, <1>6 DEF FileInv
  <2> QED BY <1>3, <1>4, <2>1 DEF Saving
<1>7. FileIsSaved'
  BY <1>5 DEF FileInv, FileIsSaved
<1> QED
  BY <1>2, <1>4, <1>6, <1>7 DEF FileInv

LEMMA HistoryParts ==
  ASSUME FileInv, NEW p \in Proc
  PROVE  hist[p] \in History /\ line[p] \in Seq(Chars) /\ offset[p] \in Nat
  BY DEF FileInv, HistoryTypes

LEMMA AddedIsHistory ==
  ASSUME NEW h \in History, NEW l \in Seq(Chars)
  PROVE  HistoryAdd(h, MaxHist, l) \in History
<1>1. h \in Seq(Seq(Chars)) /\ Len(h) <= MaxHist
  BY DEF History
<1>2. HistoryAdd(h, MaxHist, l) \in Seq(Seq(Chars)) /\ Len(HistoryAdd(h, MaxHist, l)) <= MaxHist
  BY <1>1, HistoryAddIs, HistoryFileAssumption
<1> QED
  BY <1>2 DEF History

LEMMA LinesAreChars == \A s \in Lines \cup {<<>>} : s \in Seq(Chars)
<1>1. \A s \in Lines : s \in Seq(Char)
  BY HistoryFileAssumption
<1>2. Char \subseteq Chars
  BY DEF Chars
<1>3. \A s \in Lines : s \in Seq(Chars)
  BY <1>1, <1>2, SeqMonotonic
<1> QED
  BY <1>3, EmptySeq

LEMMA PromptedIsHistory ==
  ASSUME FileInv, NEW p \in Proc
  PROVE  /\ Prompted(p) \in History
         /\ \A e \in DOMAIN Prompted(p), s \in Lines \cup {<<>>} : [Prompted(p) EXCEPT ![e] = s] \in History
<1> DEFINE g == HistoryAdd(hist[p], MaxHist, <<>>)
           h == Prompted(p)
<1>1. g \in History
  <2>1. <<>> \in Seq(Chars)
    BY EmptySeq
  <2> QED BY <2>1, HistoryParts, AddedIsHistory
<1>2. h = SubSeq(g, 1, Len(g) - 1)
  BY DEF Prompted, Before
<1> HIDE DEF g, h
<1>3. g \in Seq(Seq(Chars)) /\ Len(g) <= MaxHist /\ Len(g) \in Nat /\ MaxHist \in Nat
  BY <1>1, HistoryFileAssumption DEF History
<1>4. h \in Seq(Seq(Chars)) /\ Len(h) <= MaxHist
  <2>1. \A i \in 1 .. Len(g) - 1 : g[i] \in Seq(Chars)
    BY <1>3
  <2>2. h \in Seq(Seq(Chars)) /\ Len(h) = (IF 1 <= Len(g) - 1 THEN (Len(g) - 1) - 1 + 1 ELSE 0)
    BY <1>2, <1>3, <2>1, SubSeqProperties
  <2> QED BY <1>3, <2>2
<1>5. ASSUME NEW e \in DOMAIN h, NEW s \in Lines \cup {<<>>} PROVE [h EXCEPT ![e] = s] \in History
  <2>1. s \in Seq(Chars) /\ e \in 1 .. Len(h)
    BY <1>4, LinesAreChars
  <2>2. [h EXCEPT ![e] = s] \in Seq(Seq(Chars)) /\ Len([h EXCEPT ![e] = s]) = Len(h)
    BY <1>4, <2>1, ExceptSeq
  <2> QED BY <1>4, <2>2 DEF History
<1> QED
  BY <1>4, <1>5 DEF h, History

LEMMA IdleKeeps ==
  ASSUME FileInv, NEW p \in Proc,
         \/ Start(p) \/ Rejected(p) \/ SaveOpenFails(p)
         \/ \E s \in Lines : Prompt(p, s)
  PROVE  FileInv'
<1>0. /\ hist[p] \in History /\ line[p] \in Seq(Chars) /\ offset[p] \in Nat
      /\ hist = [hist EXCEPT ![p] = hist[p]] /\ offset = [offset EXCEPT ![p] = offset[p]]
      /\ line = [line EXCEPT ![p] = line[p]]
  BY DEF FileInv, HistoryTypes
<1>e. <<>> \in Seq(Chars)
  BY EmptySeq
<1>1. CASE Start(p)
  <2>1. /\ pc[p] # "save" /\ pc' = [pc EXCEPT ![p] = "prompt"] /\ line' = line /\ offset' = offset
        /\ file' = file /\ snap' = snap /\ torn' = torn /\ overlap' = overlap
    BY <1>1 DEF Start, fileVars
  <2>2. \E h \in History : hist' = [hist EXCEPT ![p] = h]
    <3>1. CASE file = NoFile
      BY <1>0, <1>1, <3>1 DEF Start
    <3>2. CASE file # NoFile
      <4>1. file \in Seq(Chars)
        BY <3>2 DEF FileInv, HistoryTypes
      <4>2. Load(file) \in History
        BY <4>1, LoadIs DEF History
      <4> QED BY <1>1, <3>2, <4>2 DEF Start
    <3> QED BY <3>1, <3>2
  <2> QED BY <1>0, <2>1, <2>2, IdleStep
<1>2. CASE Rejected(p)
  <2>1. /\ pc[p] # "save" /\ pc' = [pc EXCEPT ![p] = "prompt"] /\ hist' = hist /\ offset' = offset
        /\ line' = [line EXCEPT ![p] = <<>>]
        /\ file' = file /\ snap' = snap /\ torn' = torn /\ overlap' = overlap
    BY <1>2 DEF Rejected, fileVars
  <2> QED BY <1>0, <1>e, <2>1, IdleStep
<1>3. CASE SaveOpenFails(p)
  <2>1. /\ pc[p] # "save" /\ pc' = [pc EXCEPT ![p] = "prompt"] /\ offset' = offset
        /\ hist' = [hist EXCEPT ![p] = HistoryAdd(hist[p], MaxHist, line[p])]
        /\ line' = [line EXCEPT ![p] = <<>>]
        /\ file' = file /\ snap' = snap /\ torn' = torn /\ overlap' = overlap
    BY <1>3 DEF SaveOpenFails, fileVars
  <2>2. HistoryAdd(hist[p], MaxHist, line[p]) \in History
    BY <1>0, AddedIsHistory
  <2> QED BY <1>0, <1>e, <2>1, <2>2, IdleStep
<1>4. CASE \E s \in Lines : Prompt(p, s)
  <2>1. PICK s \in Lines : Prompt(p, s)
    BY <1>4
  <2>2. /\ pc[p] # "save" /\ pc' = [pc EXCEPT ![p] = "run"] /\ offset' = offset
        /\ line' = [line EXCEPT ![p] = s]
        /\ file' = file /\ snap' = snap /\ torn' = torn /\ overlap' = overlap
    BY <2>1 DEF Prompt, fileVars
  <2>3. \E h \in History : hist' = [hist EXCEPT ![p] = h]
    BY <2>1, PromptedIsHistory DEF Prompt
  <2>4. s \in Seq(Chars)
    BY LinesAreChars
  <2> QED BY <1>0, <2>2, <2>3, <2>4, IdleStep
<1> QED
  BY <1>1, <1>2, <1>3, <1>4

(* The file is opened: it is empty, and the one client that saves has        *)
(* nothing in it yet, or two do, and overlap says so.                       *)
LEMMA SaveOpenIsFresh ==
  ASSUME FileInv, NEW p \in Proc, SaveOpen(p)
  PROVE  FileInv'
<1> DEFINE h == HistoryAdd(hist[p], MaxHist, line[p])
<1>1. HistoryTypes /\ hist[p] \in History /\ line[p] \in Seq(Chars)
  BY HistoryParts DEF FileInv
<1>2. h \in History
  BY <1>1, AddedIsHistory
<1> HIDE DEF h
<1>3. /\ hist' = [hist EXCEPT ![p] = h] /\ pc' = [pc EXCEPT ![p] = "save"]
      /\ offset' = [offset EXCEPT ![p] = 0] /\ file' = <<>> /\ line' = [line EXCEPT ![p] = <<>>]
      /\ snap' = hist'[p]
  BY DEF SaveOpen, h
<1>4. ~torn' /\ (overlap' <=> \E q \in Proc \ {p} : pc[q] = "save")
  BY Zenon DEF SaveOpen
<1>5. /\ hist'[p] = h /\ snap' = h /\ offset'[p] = 0 /\ pc'[p] = "save"
      /\ \A q \in Proc : q # p => pc'[q] = pc[q]
  BY <1>1, <1>3 DEF HistoryTypes
<1>6. <<>> \in Seq(Chars) /\ NoFile \notin Seq(Chars) /\ Len(<<>>) = 0
  BY EmptySeq, HistoryFileAssumption DEF Chars
<1>7. HistoryTypes'
  BY <1>1, <1>2, <1>3, <1>5, <1>6 DEF HistoryTypes
<1>8. Bytes(h) \in Seq(Chars) /\ Len(Bytes(h)) \in Nat
  BY <1>2, BytesOfHistory
<1>9. file' # NoFile
  BY <1>3, <1>6
<1>10. ASSUME ~overlap', NEW q \in Proc, pc'[q] = "save" PROVE Saving(q)'
  <2>1. \A r \in Proc : pc'[r] = "save" => r = p
    BY <1>4, <1>5, <1>10
  <2>2. q = p
    BY <2>1, <1>10
  <2> QED BY <1>3, <1>4, <1>5, <1>6, <1>8, <2>1, <2>2 DEF Saving
<1>11. FileIsSaved'
  <2>1. IsPrefix(file', Bytes(snap)')
    <3>1. Bytes(snap)' = Bytes(h) /\ file' = <<>>
      BY <1>3, <1>5 DEF Bytes
    <3>2. IsPrefix(<<>>, Bytes(h))
      <4> DEFINE z == <<>>
      <4>1. z \in Seq(Chars) /\ Len(z) = 0
        BY <1>6
      <4> HIDE DEF z
      <4>2. Len(z) <= Len(Bytes(h)) /\ \A i \in 1 .. Len(z) : z[i] = Bytes(h)[i]
        BY <1>8, <4>1
      <4>3. IsPrefix(z, Bytes(h))
        BY <1>8, <4>1, <4>2, PrefixIs
      <4> QED BY <4>3 DEF z
    <3> QED BY <3>1, <3>2
  <2>2. ~Quiet'
    BY <1>5 DEF Quiet
  <2> QED BY <2>1, <2>2 DEF FileIsSaved
<1> QED
  BY <1>7, <1>9, <1>10, <1>11 DEF FileInv

LEMMA SaveWriteKeeps ==
  ASSUME FileInv, NEW p \in Proc, SaveWrite(p)
  PROVE  FileInv'
<1> DEFINE B == Bytes(hist[p])
           o == offset[p]
           e == IF o + Block < Len(B) THEN o + Block ELSE Len(B)
           s == SubSeq(B, o + 1, e)
<1>1. HistoryTypes /\ hist[p] \in History /\ o \in Nat /\ pc[p] = "save" /\ file # NoFile
  BY HistoryParts DEF FileInv, SaveWrite
<1>2. /\ o < Len(B) /\ hist' = hist /\ pc' = pc /\ line' = line /\ snap' = snap
      /\ overlap' = overlap
  BY DEF SaveWrite
<1>3. \/ file' = WriteAt(file, o, s) /\ offset' = [offset EXCEPT ![p] = e] /\ torn' = torn
      \/ file' = file /\ offset' = [offset EXCEPT ![p] = Len(B)] /\ torn' = TRUE
  BY DEF SaveWrite
<1>4. B \in Seq(Chars) /\ Len(B) \in Nat
  BY <1>1, BytesOfHistory
<1>5. e \in o .. Len(B) /\ e \in 0 .. Len(B)
  BY <1>1, <1>2, <1>4, HistoryFileAssumption
<1>6. file \in Seq(Chars)
  BY <1>1 DEF HistoryTypes
<1>7. file' \in Seq(Chars) /\ file' # NoFile
  <2>1. s \in Seq(Chars)
    <3>1. \A i \in o + 1 .. e : B[i] \in Chars
      BY <1>1, <1>4, <1>5
    <3> HIDE DEF e, B
    <3> QED BY <1>1, <1>5, <3>1, SubSeqProperties
  <2>2. WriteAt(file, o, s) \in Seq(Chars)
    <3> HIDE DEF s, o
    <3> QED BY <1>1, <1>6, <2>1, WriteIsSeq
  <2>3. NoFile \notin Seq(Chars)
    BY HistoryFileAssumption DEF Chars
  <2> HIDE DEF s, o, e, B
  <2> QED BY <1>3, <1>6, <2>2, <2>3
<1> HIDE DEF e
<1>8. HistoryTypes'
  <2>1. offset' \in [Proc -> Nat]
    <3>1. e \in Nat /\ Len(B) \in Nat /\ offset \in [Proc -> Nat]
      BY <1>1, <1>4, <1>5 DEF HistoryTypes
    <3>2. offset' = [offset EXCEPT ![p] = e] \/ offset' = [offset EXCEPT ![p] = Len(B)]
      BY <1>3
    <3> HIDE DEF B
    <3> QED BY <3>1, <3>2
  <2> QED BY <1>1, <1>2, <1>7, <2>1 DEF HistoryTypes
<1>9. ASSUME ~overlap'
      PROVE  /\ \A q \in Proc : pc'[q] = "save" => Saving(q)'
             /\ IsPrefix(file, Bytes(snap))'
  <2>1. Saving(p) /\ IsPrefix(file, B) /\ snap = hist[p]
    BY <1>1, <1>2, <1>9 DEF FileInv, FileIsSaved, Saving
  <2>2. ~torn /\ Len(file) = o /\ \A q \in Proc : pc'[q] = "save" => q = p
    BY <1>1, <1>2, <2>1 DEF Saving
  <2>3. \A i \in 1 .. Len(file) : file[i] = B[i]
    <3> HIDE DEF B
    <3> QED BY <1>4, <1>6, <2>1, PrefixIs
  <2>4. Bytes(snap)' = B
    BY <1>2, <2>1 DEF Bytes
  <2>5. CASE file' = WriteAt(file, o, s) /\ offset' = [offset EXCEPT ![p] = e] /\ torn' = torn
    <3>1. Len(file') = e /\ \A i \in 1 .. e : file'[i] = B[i]
      <4>1. Len(file) <= e
        BY <1>5, <2>2
      <4> HIDE DEF B, o
      <4> QED BY <1>4, <1>5, <1>6, <2>2, <2>3, <2>5, <4>1, WriteExtends
    <3>2. IsPrefix(file', B)
      <4>1. Len(file') <= Len(B)
        BY <1>4, <1>5, <3>1
      <4> HIDE DEF B, o, s
      <4> QED BY <1>4, <1>7, <3>1, <4>1, PrefixIs
    <3>3. offset'[p] = e /\ ~torn'
      BY <1>1, <2>2, <2>5 DEF HistoryTypes
    <3>4. Saving(p)'
      BY <1>2, <1>4, <1>5, <2>1, <2>2, <2>4, <3>1, <3>3 DEF Saving
    <3> QED BY <2>2, <2>4, <3>2, <3>4
  <2>6. CASE file' = file /\ offset' = [offset EXCEPT ![p] = Len(B)] /\ torn' = TRUE
    <3>1. offset'[p] = Len(B)
      BY <1>1, <2>6 DEF HistoryTypes
    <3>2. Saving(p)'
      BY <1>2, <1>4, <2>1, <2>2, <2>4, <2>6, <3>1 DEF Saving
    <3> QED BY <2>1, <2>2, <2>4, <2>6, <3>2
  <2> QED BY <1>3, <2>5, <2>6
<1>10. ~Quiet'
  BY <1>1, <1>2 DEF Quiet
<1> QED
  BY <1>7, <1>8, <1>9, <1>10 DEF FileInv, FileIsSaved

LEMMA SaveEndKeeps ==
  ASSUME FileInv, NEW p \in Proc, SaveClose(p) \/ Exit(p)
  PROVE  FileInv'
<1>0. HistoryTypes /\ <<>> \in Seq(Chars) /\ <<>> \in History
  <2>1. <<>> \in Seq(Chars) /\ <<>> \in Seq(Seq(Chars)) /\ Len(<<>>) = 0
    BY EmptySeq
  <2> QED BY <2>1, HistoryFileAssumption DEF FileInv, History
<1>1. /\ file' = file /\ snap' = snap /\ overlap' = overlap /\ offset' = [offset EXCEPT ![p] = 0]
      /\ \E x \in {"start", "prompt"} : pc' = [pc EXCEPT ![p] = x]
  BY DEF SaveClose, Exit, fileVars
<1>2. /\ hist' = hist \/ hist' = [hist EXCEPT ![p] = <<>>]
      /\ line' = line \/ line' = [line EXCEPT ![p] = <<>>]
  BY DEF SaveClose, Exit, fileVars
<1>3. HistoryTypes'
  BY <1>0, <1>1, <1>2 DEF HistoryTypes
<1>4. /\ pc'[p] # "save" /\ (\A q \in Proc : q # p => pc'[q] = pc[q] /\ offset'[q] = offset[q])
      /\ \A q \in Proc : q # p => hist'[q] = hist[q]
  BY <1>0, <1>1, <1>2 DEF HistoryTypes
<1>5. (torn' <=> torn) \/ (pc[p] = "save" /\ torn')
  <2>1. SaveClose(p) => torn' = torn
    BY DEF SaveClose, fileVars
  <2>2. Exit(p) => (torn' <=> (torn \/ pc[p] = "save"))
    BY Zenon DEF Exit
  <2> QED BY <2>1, <2>2
<1>6. ASSUME file # NoFile, ~overlap, NEW q \in Proc, pc'[q] = "save" PROVE Saving(q)'
  <2>1. q # p /\ pc[q] = "save"
    BY <1>4, <1>6
  <2>2. Saving(q)
    BY <1>6, <2>1 DEF FileInv
  <2>3. pc[p] # "save"
    BY <2>1, <2>2 DEF Saving
  <2> QED BY <1>1, <1>4, <1>5, <2>1, <2>2, <2>3 DEF Saving
<1>7. ASSUME file # NoFile, ~overlap
      PROVE  IsPrefix(file, Bytes(snap)) /\ (Quiet' /\ ~torn' => file = Bytes(snap))
  <2>1. IsPrefix(file, Bytes(snap)) /\ (Quiet /\ ~torn => file = Bytes(snap))
    BY <1>7 DEF FileInv, FileIsSaved
  <2>2. CASE pc[p] # "save"
    <3>1. Quiet' => Quiet
      BY <1>4, <2>2 DEF Quiet
    <3> QED BY <1>5, <2>1, <2>2, <3>1
  <2>3. CASE pc[p] = "save"
    <3> SUFFICES ASSUME ~torn' PROVE file = Bytes(snap)
      BY <2>1
    <3>1. SaveClose(p) /\ ~torn
      <4>1. Exit(p) => torn'
        BY <2>3, Zenon DEF Exit
      <4>2. SaveClose(p)
        BY <4>1
      <4> QED BY <4>2 DEF SaveClose, fileVars
    <3>2. Saving(p)
      BY <1>7, <2>3 DEF FileInv
    <3>3. Len(file) = Len(Bytes(snap))
      BY <3>1, <3>2 DEF Saving, SaveClose
    <3>4. file \in Seq(Chars) /\ Bytes(snap) \in Seq(Chars)
      BY <1>0, <1>7, BytesOfHistory DEF HistoryTypes
    <3>5. \A i \in 1 .. Len(file) : file[i] = Bytes(snap)[i]
      BY <2>1, <3>4, PrefixIs
    <3> QED BY <3>3, <3>4, <3>5, SeqEqual
  <2> QED BY <2>2, <2>3
<1>8. FileIsSaved'
  <2>1. Bytes(snap)' = Bytes(snap)
    BY <1>1 DEF Bytes
  <2> QED BY <1>1, <1>7, <2>1 DEF FileIsSaved
<1>9. \A q \in Proc : pc'[q] = "save" => file # NoFile
  BY <1>4 DEF FileInv
<1> QED
  BY <1>1, <1>3, <1>6, <1>8, <1>9 DEF FileInv

LEMMA FileInvHolds == Spec => []FileInv
<1>1. Init => FileInv
  <2> SUFFICES ASSUME Init PROVE FileInv
    OBVIOUS
  <2>1. <<>> \in Seq(Chars) /\ <<>> \in Seq(Seq(Chars)) /\ Len(<<>>) = 0
    BY EmptySeq
  <2>2. <<>> \in History
    BY <2>1, HistoryFileAssumption DEF History
  <2>3. HistoryTypes
    BY <2>1, <2>2 DEF Init, HistoryTypes
  <2> QED BY <2>3 DEF Init, FileInv, FileIsSaved
<1>2. FileInv /\ [Next]_vars => FileInv'
  <2> SUFFICES ASSUME FileInv, [Next]_vars PROVE FileInv'
    OBVIOUS
  <2>1. CASE UNCHANGED vars
    <3>1. /\ hist' = hist /\ pc' = pc /\ line' = line /\ offset' = offset /\ file' = file /\ snap' = snap
          /\ torn' = torn /\ overlap' = overlap
      BY <2>1 DEF vars
    <3>2. (HistoryTypes <=> HistoryTypes') /\ Bytes(snap)' = Bytes(snap) /\ (Quiet <=> Quiet')
      BY <3>1 DEF HistoryTypes, Bytes, Quiet
    <3>3. \A p \in Proc : Saving(p)' <=> Saving(p)
      BY <3>1, <3>2 DEF Saving
    <3> QED BY <3>1, <3>2, <3>3 DEF FileInv, FileIsSaved
  <2>2. CASE Next
    <3>1. PICK p \in Proc : \/ Start(p) \/ Rejected(p) \/ SaveOpenFails(p)
                            \/ \E s \in Lines : Prompt(p, s)
                            \/ SaveOpen(p) \/ SaveWrite(p) \/ SaveClose(p) \/ Exit(p)
      BY <2>2 DEF Next
    <3> QED BY <3>1, IdleKeeps, SaveOpenIsFresh, SaveWriteKeeps, SaveEndKeeps
  <2> QED BY <2>1, <2>2
<1> QED
  BY <1>1, <1>2, PTL DEF Spec

(***************************************************************************)
(* history.txt holds the beginning of the history being saved, and all of   *)
(* it once a save has ended well, for any number of clients and lines of    *)
(* any bytes, with crashes and full disks: unless two saves overlap, one    *)
(* client writes and what it has written is what the file holds.            *)
(***************************************************************************)
THEOREM FileHoldsHistory == Spec => []FileIsSaved
<1>1. FileInv => FileIsSaved
  BY DEF FileInv
<1> QED
  BY <1>1, FileInvHolds, PTL
-----------------------------------------------------------------------------
(* Reading back what was written. *)

Pre(h, k) == SubSeq(h, 1, k)

LEMMA PreIs ==
  ASSUME NEW S, NEW h \in Seq(S), NEW k \in 0 .. Len(h)
  PROVE  /\ Pre(h, k) \in Seq(S) /\ Len(Pre(h, k)) = k
         /\ \A i \in 1 .. k : Pre(h, k)[i] = h[i]
         /\ Pre(h, Len(h)) = h
         /\ k = 0 => Pre(h, k) = <<>>
         /\ k # Len(h) => Pre(h, k + 1) = Append(Pre(h, k), h[k + 1]) /\ h[k + 1] \in S
<1>1. Len(h) \in Nat /\ k \in Nat
  OBVIOUS
<1>2. /\ Pre(h, k) \in Seq(S) /\ Len(Pre(h, k)) = k
      /\ \A i \in 1 .. k : Pre(h, k)[i] = h[i]
  BY <1>1 DEF Pre
<1>3. Pre(h, Len(h)) = h
  BY SubSeqFull DEF Pre
<1>4. k = 0 => Pre(h, k) = <<>>
  BY <1>2
<1>5. ASSUME k # Len(h) PROVE Pre(h, k + 1) = Append(Pre(h, k), h[k + 1]) /\ h[k + 1] \in S
  <2>1. k + 1 \in 1 .. Len(h) /\ (k + 1) - 1 = k /\ 1 \in 1 .. Len(h) /\ k + 1 \in 1 .. Len(h)
    BY <1>1, <1>5
  <2>2. SubSeq(h, 1, k + 1) = SubSeq(h, 1, (k + 1) - 1) \o <<h[k + 1]>>
    BY <2>1, SubSeqRecursiveSecond
  <2>3. h[k + 1] \in S
    BY <2>1, ElementOfSeq
  <2>4. Append(Pre(h, k), h[k + 1]) = Pre(h, k) \o <<h[k + 1]>>
    BY <1>2, <2>3, AppendIsConcat
  <2> QED BY <2>1, <2>2, <2>3, <2>4 DEF Pre
<1> QED
  BY <1>2, <1>3, <1>4, <1>5

LEMMA UpToUnique ==
  ASSUME NEW S, NEW s \in Seq(S), NEW b, NEW m \in 0 .. Len(s),
         \A i \in 1 .. m : s[i] # b, m < Len(s) => s[m + 1] = b
  PROVE  UpTo(s, b) = SubSeq(s, 1, m) /\ Len(UpTo(s, b)) = m
<1>1. PICK n \in 0 .. Len(s) : /\ UpTo(s, b) = SubSeq(s, 1, n) /\ Len(UpTo(s, b)) = n
                               /\ \A i \in 1 .. n : s[i] # b
                               /\ n < Len(s) => s[n + 1] = b
  BY UpToIs
<1>2. n = m
  <2>0. n \in Nat /\ m \in Nat /\ Len(s) \in Nat /\ n <= Len(s) /\ m <= Len(s)
    OBVIOUS
  <2>1. ASSUME n < m PROVE FALSE
    <3>1. n + 1 \in 1 .. m /\ n < Len(s)
      BY <2>0, <2>1
    <3> QED BY <1>1, <3>1
  <2>2. ASSUME m < n PROVE FALSE
    <3>1. m + 1 \in 1 .. n /\ m < Len(s)
      BY <2>0, <2>2
    <3> QED BY <1>1, <3>1
  <2> QED BY <2>0, <2>1, <2>2
<1> QED
  BY <1>1, <1>2

(* The text of the first k lines begins the text of all, and has a byte or  *)
(* more for each.                                                          *)
LEMMA BytesOfPre ==
  ASSUME NEW h \in Seq(Seq(Chars)), NEW k \in 0 .. Len(h)
  PROVE  /\ Bytes(Pre(h, k)) \in Seq(Chars) /\ Len(Bytes(Pre(h, k))) \in Nat
         /\ k = 0 => Bytes(Pre(h, k)) = <<>>
         /\ k # Len(h) => Bytes(Pre(h, k + 1)) = Bytes(Pre(h, k)) \o Append(h[k + 1], LF)
<1>1. LF \in Chars
  BY DEF Chars
<1>2. /\ Pre(h, k) \in Seq(Seq(Chars)) /\ (k = 0 => Pre(h, k) = <<>>)
      /\ k # Len(h) => Pre(h, k + 1) = Append(Pre(h, k), h[k + 1]) /\ h[k + 1] \in Seq(Chars)
  BY PreIs
<1>3. /\ Bytes(Pre(h, k)) \in Seq(Chars) /\ (Pre(h, k) = <<>> => Bytes(Pre(h, k)) = <<>>)
      /\ \A l \in Seq(Chars) : Bytes(Append(Pre(h, k), l)) = Bytes(Pre(h, k)) \o Append(l, LF)
  BY <1>1, <1>2, BytesSnoc
<1>4. Len(Bytes(Pre(h, k))) \in Nat
  BY <1>3
<1>5. ASSUME k # Len(h) PROVE Bytes(Pre(h, k + 1)) = Bytes(Pre(h, k)) \o Append(h[k + 1], LF)
  <2>1. Pre(h, k + 1) = Append(Pre(h, k), h[k + 1]) /\ h[k + 1] \in Seq(Chars)
    BY <1>2, <1>5
  <2>2. Bytes(Append(Pre(h, k), h[k + 1])) = Bytes(Pre(h, k)) \o Append(h[k + 1], LF)
    BY <1>3, <2>1
  <2> QED BY <2>1, <2>2
<1> QED
  BY <1>2, <1>3, <1>4, <1>5

LEMMA BytesGrow ==
  ASSUME NEW h \in Seq(Seq(Chars)), NEW k \in 0 .. Len(h), k # Len(h)
  PROVE  LET a == Bytes(Pre(h, k))
             b == Bytes(Pre(h, k + 1))
             l == h[k + 1]
         IN  /\ Len(b) = Len(a) + Len(l) + 1 /\ Len(l) \in Nat /\ l \in Seq(Chars)
             /\ \A i \in 1 .. Len(a) : b[i] = a[i]
             /\ \A i \in 1 .. Len(l) : b[Len(a) + i] = l[i]
             /\ b[Len(a) + Len(l) + 1] = LF
<1> DEFINE a == Bytes(Pre(h, k))
           b == Bytes(Pre(h, k + 1))
           l == h[k + 1]
           e == Append(l, LF)
<1>1. a \in Seq(Chars) /\ b = a \o e
  BY BytesOfPre
<1>2. l \in Seq(Chars)
  BY PreIs
<1> HIDE DEF a, b, l
<1>3. /\ e \in Seq(Chars) /\ Len(e) = Len(l) + 1 /\ e[Len(l) + 1] = LF /\ Len(l) \in Nat
      /\ \A i \in 1 .. Len(l) : e[i] = l[i]
  <2>1. LF \in Chars
    BY DEF Chars
  <2> QED BY <1>2, <2>1, AppendProperties
<1> HIDE DEF e
<1>4. /\ Len(b) = Len(a) + Len(e) /\ Len(a) \in Nat
      /\ \A i \in 1 .. Len(a) + Len(e) : b[i] = IF i <= Len(a) THEN a[i] ELSE e[i - Len(a)]
  <2>1. a \in Seq(Chars) /\ e \in Seq(Chars)
    BY <1>1, <1>3
  <2>2. /\ Len(a \o e) = Len(a) + Len(e)
        /\ \A i \in 1 .. Len(a) + Len(e) : (a \o e)[i] = IF i <= Len(a) THEN a[i] ELSE e[i - Len(a)]
    BY <2>1, ConcatProperties
  <2>3. Len(a) \in Nat
    BY <2>1
  <2> QED BY <1>1, <2>2, <2>3
<1>5. \A i \in 1 .. Len(a) : b[i] = a[i]
  BY <1>3, <1>4
<1>6. ASSUME NEW i \in 1 .. Len(l) + 1 PROVE b[Len(a) + i] = e[i]
  <2>1. Len(a) + i \in 1 .. Len(a) + Len(e) /\ ~(Len(a) + i <= Len(a)) /\ (Len(a) + i) - Len(a) = i
    BY <1>3, <1>4
  <2> QED BY <1>4, <2>1
<1>7. \A i \in 1 .. Len(l) : b[Len(a) + i] = l[i]
  <2> SUFFICES ASSUME NEW i \in 1 .. Len(l) PROVE b[Len(a) + i] = l[i]
    OBVIOUS
  <2>1. i \in 1 .. Len(l) + 1
    BY <1>3
  <2> QED BY <1>3, <1>6, <2>1
<1>8. b[Len(a) + Len(l) + 1] = LF
  <2>1. Len(l) + 1 \in 1 .. Len(l) + 1 /\ Len(a) + (Len(l) + 1) = Len(a) + Len(l) + 1
    BY <1>3, <1>4
  <2>2. b[Len(a) + (Len(l) + 1)] = e[Len(l) + 1]
    BY <1>6, <2>1
  <2> QED BY <1>3, <2>1, <2>2
<1>9. Len(b) = Len(a) + Len(l) + 1
  BY <1>3, <1>4
<1> QED
  BY <1>2, <1>3, <1>5, <1>7, <1>8, <1>9 DEF a, b, l

LEMMA BytesPrefix ==
  ASSUME NEW h \in Seq(Seq(Chars)), NEW k \in 0 .. Len(h)
  PROVE  /\ Len(Bytes(Pre(h, k))) <= Len(Bytes(h)) /\ Len(Bytes(h)) \in Nat
         /\ \A i \in 1 .. Len(Bytes(Pre(h, k))) : Bytes(Pre(h, k))[i] = Bytes(h)[i]
<1> DEFINE n == Len(h)
           a(m) == Bytes(Pre(h, m))
           P(m) == Len(a(m)) <= Len(Bytes(h)) /\ \A i \in 1 .. Len(a(m)) : a(m)[i] = Bytes(h)[i]
           T == {d \in 0 .. n : P(n - d)}
<1>1. n \in Nat /\ Pre(h, n) = h /\ Len(a(n)) \in Nat /\ n \in 0 .. n
  <2>1. n \in Nat /\ n \in 0 .. n
    OBVIOUS
  <2> QED BY <2>1, PreIs, BytesOfPre
<1>2. P(n)
  BY <1>1
<1>3. ASSUME NEW m \in 0 .. n, m # n, P(m + 1) PROVE P(m)
  <2> DEFINE b == a(m + 1)
             c == a(m)
  <2>1. /\ Len(b) = Len(c) + Len(h[m + 1]) + 1 /\ Len(h[m + 1]) \in Nat
        /\ \A i \in 1 .. Len(c) : b[i] = c[i]
    BY <1>3, BytesGrow
  <2>2. Len(c) \in Nat
    BY BytesOfPre
  <2>3. Len(b) <= Len(Bytes(h)) /\ \A i \in 1 .. Len(b) : b[i] = Bytes(h)[i]
    BY <1>3
  <2>4. Len(Bytes(h)) \in Nat
    BY <1>1
  <2> HIDE DEF b, c
  <2>5. Len(c) <= Len(Bytes(h)) /\ \A i \in 1 .. Len(c) : i \in 1 .. Len(b)
    BY <2>1, <2>2, <2>3, <2>4
  <2>6. \A i \in 1 .. Len(c) : c[i] = Bytes(h)[i]
    BY <2>1, <2>3, <2>5
  <2> QED BY <2>5, <2>6 DEF c
<1> HIDE DEF P, n
<1>4. 0 \in T
  BY <1>1, <1>2
<1>5. ASSUME NEW d \in 0 .. n, d \in T, d # n PROVE d + 1 \in T
  <2>1. n - (d + 1) \in 0 .. n /\ n - (d + 1) # n /\ (n - (d + 1)) + 1 = n - d /\ P(n - d)
    BY <1>1, <1>5
  <2>2. P(n - (d + 1))
    BY <1>3, <2>1
  <2>3. d + 1 \in 0 .. n
    BY <1>1, <1>5
  <2> QED BY <2>2, <2>3
<1>6. 0 .. n \subseteq T
  <2> HIDE DEF T
  <2> QED BY <1>1, <1>4, <1>5, BoundedInduction
<1>7. n - k \in T /\ n - (n - k) = k
  <2>1. k \in 0 .. n /\ n - k \in 0 .. n /\ n - (n - k) = k
    BY <1>1 DEF n
  <2> HIDE DEF T
  <2> QED BY <1>6, <2>1
<1>8. P(k)
  BY <1>7
<1> QED
  BY <1>1, <1>8 DEF P

LEMMA BytesLong ==
  ASSUME NEW h \in Seq(Seq(Chars))
  PROVE  Len(h) <= Len(Bytes(h))
<1> DEFINE n == Len(h)
           T == {k \in 0 .. n : k <= Len(Bytes(Pre(h, k)))}
<1>1. n \in Nat /\ Pre(h, n) = h /\ n \in 0 .. n
  <2>1. n \in Nat /\ n \in 0 .. n
    OBVIOUS
  <2> QED BY <2>1, PreIs
<1>2. 0 \in T
  <2>1. 0 \in 0 .. n
    BY <1>1
  <2>2. Len(Bytes(Pre(h, 0))) \in Nat
    BY <2>1, BytesOfPre
  <2> QED BY <2>1, <2>2
<1>3. ASSUME NEW k \in 0 .. n, k \in T, k # n PROVE k + 1 \in T
  <2>1. Len(Bytes(Pre(h, k + 1))) = Len(Bytes(Pre(h, k))) + Len(h[k + 1]) + 1 /\ Len(h[k + 1]) \in Nat
    BY <1>3, BytesGrow
  <2>2. Len(Bytes(Pre(h, k))) \in Nat
    BY BytesOfPre
  <2>3. k <= Len(Bytes(Pre(h, k)))
    BY <1>3
  <2>4. k + 1 \in 0 .. n
    BY <1>1, <1>3
  <2>5. k + 1 <= Len(Bytes(Pre(h, k + 1)))
    <3> HIDE DEF T, n
    <3> QED BY <1>1, <2>1, <2>2, <2>3
  <2> QED BY <2>4, <2>5
<1>4. n \in T
  <2> HIDE DEF T
  <2>1. 0 .. n \subseteq T
    BY <1>1, <1>2, <1>3, BoundedInduction
  <2> QED BY <1>1, <2>1
<1> QED
  BY <1>1, <1>4

(* Where the text of a line that fits fgets' buffer begins, it is read whole. *)
LEMMA LineIsRead ==
  ASSUME NEW left \in Seq(Chars), NEW l \in Seq(Chars), Len(l) < MaxLine - 1, Len(l) + 1 <= Len(left),
         \A i \in 1 .. Len(l) : l[i] \notin {CR, LF, NUL} /\ left[i] = l[i],
         left[Len(l) + 1] = LF
  PROVE  /\ ChunkLen(left) = Len(l) + 1
         /\ LineOfChunk(SubSeq(left, 1, Len(l) + 1)) = l
<1> DEFINE m == Len(l)
           chunk == SubSeq(left, 1, m + 1)
<1>1. m \in Nat /\ Len(left) \in Nat /\ m + 1 <= Len(left) /\ m < MaxLine - 1 /\ MaxLine \in Nat
      /\ CR # LF /\ CR # NUL /\ LF # NUL /\ m = Len(l)
  BY HistoryFileAssumption
<1>2. \A i \in 1 .. m : l[i] # CR /\ l[i] # LF /\ l[i] # NUL /\ left[i] = l[i]
  OBVIOUS
<1>3. left[m + 1] = LF
  OBVIOUS
<1> HIDE DEF m
<1>4. m \in 0 .. Len(left) /\ m < Len(left) /\ \A i \in 1 .. m : left[i] # LF
  BY <1>1, <1>2
<1>5. Len(UpTo(left, LF)) = m
  BY <1>3, <1>4, UpToUnique
<1>6. ChunkLen(left) = m + 1
  BY <1>1, <1>5 DEF ChunkLen
<1>7. chunk \in Seq(Chars) /\ Len(chunk) = m + 1 /\ \A i \in 1 .. m + 1 : chunk[i] = left[i]
  BY <1>1
<1> HIDE DEF chunk
<1>8. /\ \A i \in 1 .. m : chunk[i] = l[i] /\ chunk[i] # CR /\ chunk[i] # LF /\ chunk[i] # NUL
      /\ chunk[m + 1] = LF
  <2>1. m + 1 \in 1 .. m + 1 /\ \A i \in 1 .. m : i \in 1 .. m + 1
    BY <1>1
  <2> QED BY <1>2, <1>3, <1>7, <2>1
<1>9. \A i \in 1 .. m + 1 : chunk[i] # NUL /\ chunk[i] # CR
  <2>1. \A i \in 1 .. m + 1 : i \in 1 .. m \/ i = m + 1
    BY <1>1
  <2> QED BY <1>1, <1>8, <2>1
<1>10. UpTo(chunk, NUL) = chunk
  <2>1. Len(chunk) \in 0 .. Len(chunk) /\ ~(Len(chunk) < Len(chunk))
        /\ \A i \in 1 .. Len(chunk) : chunk[i] # NUL
    BY <1>1, <1>7, <1>9
  <2>2. UpTo(chunk, NUL) = SubSeq(chunk, 1, Len(chunk))
    BY <1>7, <2>1, UpToUnique
  <2> QED BY <1>7, <2>2, SubSeqFull
<1>11. LineOfChunk(chunk) = UpTo(chunk, LF)
  <2>1. ~ \E i \in DOMAIN chunk : chunk[i] = CR
    BY <1>7, <1>9
  <2> QED BY <1>10, <2>1 DEF LineOfChunk
<1>12. UpTo(chunk, LF) = SubSeq(chunk, 1, m)
  <2>1. m \in 0 .. Len(chunk)
    BY <1>1, <1>7
  <2> QED BY <1>7, <1>8, <2>1, UpToUnique
<1>13. SubSeq(chunk, 1, m) = l
  <2> DEFINE u == SubSeq(chunk, 1, m)
  <2>1. u \in Seq(Chars) /\ Len(u) = m /\ \A i \in 1 .. m : u[i] = chunk[i]
    BY <1>1, <1>7
  <2> HIDE DEF u
  <2>2. Len(u) = Len(l) /\ \A i \in 1 .. Len(u) : u[i] = l[i]
    BY <1>1, <1>8, <2>1
  <2>3. u = l
    BY <2>1, <2>2, SeqEqual
  <2> QED BY <2>3 DEF u
<1> QED
  BY <1>6, <1>11, <1>12, <1>13 DEF m, chunk

LEMMA LineReturns ==
  ASSUME NEW h \in History, Plain(h), NEW k \in 0 .. Len(h), k # Len(h)
  PROVE  LET r == [at |-> Len(Bytes(Pre(h, k))), h |-> Pre(h, k)]
         IN  /\ r.at # Len(Bytes(h))
             /\ LoadTurn(Bytes(h), r) = [at |-> Len(Bytes(Pre(h, k + 1))), h |-> Pre(h, k + 1)]
<1> DEFINE B == Bytes(h)
           a == Bytes(Pre(h, k))
           b == Bytes(Pre(h, k + 1))
           l == h[k + 1]
           left == SubSeq(B, Len(a) + 1, Len(B))
<1>0. h \in Seq(Seq(Chars)) /\ Len(h) <= MaxHist /\ Len(h) \in Nat /\ k \in Nat /\ k + 1 \in 0 .. Len(h)
  BY DEF History
<1>1. /\ Len(b) = Len(a) + Len(l) + 1 /\ Len(l) \in Nat /\ l \in Seq(Chars)
      /\ \A i \in 1 .. Len(l) : b[Len(a) + i] = l[i]
      /\ b[Len(a) + Len(l) + 1] = LF
  BY <1>0, BytesGrow
<1>2. Len(b) <= Len(B) /\ Len(B) \in Nat /\ \A i \in 1 .. Len(b) : b[i] = B[i]
  BY <1>0, BytesPrefix
<1>3. Len(a) \in Nat /\ B \in Seq(Chars)
  BY <1>0, BytesOfPre, BytesOfHistory
<1>4. Len(l) < MaxLine - 1 /\ \A i \in 1 .. Len(l) : l[i] \notin {CR, LF, NUL}
  <2>1. k + 1 \in DOMAIN h /\ DOMAIN l = 1 .. Len(l)
    BY <1>0, <1>1
  <2> QED BY <2>1 DEF Plain
<1>5. Len(Pre(h, k)) = k /\ Pre(h, k) \in Seq(Seq(Chars)) /\ (\A i \in 1 .. k : Pre(h, k)[i] = h[i])
      /\ Pre(h, k + 1) = Append(Pre(h, k), l)
  BY <1>0, PreIs
<1> HIDE DEF B, a, b, l
<1>6. /\ left \in Seq(Chars) /\ Len(left) = Len(B) - Len(a)
      /\ \A i \in 1 .. Len(B) - Len(a) : left[i] = B[Len(a) + i]
  <2>1. \A i \in Len(a) + 1 .. Len(B) : B[i] \in Chars
    BY <1>2, <1>3
  <2>2. /\ left \in Seq(Chars)
        /\ Len(left) = (IF Len(a) + 1 <= Len(B) THEN Len(B) - (Len(a) + 1) + 1 ELSE 0)
        /\ \A i \in 1 .. Len(B) - (Len(a) + 1) + 1 : left[i] = B[(Len(a) + 1) + i - 1]
    BY <1>2, <1>3, <2>1, SubSeqProperties
  <2> HIDE DEF left
  <2>3. /\ Len(a) + 1 <= Len(B) /\ Len(B) - (Len(a) + 1) + 1 = Len(B) - Len(a)
        /\ \A i \in 1 .. Len(B) - Len(a) : (Len(a) + 1) + i - 1 = Len(a) + i
    BY <1>1, <1>2, <1>3
  <2> QED BY <2>2, <2>3
<1> HIDE DEF left
<1>7. Len(l) + 1 <= Len(left) /\ Len(a) # Len(B) /\ \A i \in 1 .. Len(l) + 1 : left[i] = b[Len(a) + i]
  <2>1. Len(l) + 1 <= Len(left) /\ Len(a) # Len(B)
    BY <1>1, <1>2, <1>3, <1>6
  <2>2. ASSUME NEW i \in 1 .. Len(l) + 1 PROVE left[i] = b[Len(a) + i]
    <3>1. i \in 1 .. Len(B) - Len(a) /\ Len(a) + i \in 1 .. Len(b)
      BY <1>1, <1>2, <1>3
    <3> QED BY <1>2, <1>6, <3>1
  <2> QED BY <2>1, <2>2
<1>8. (\A i \in 1 .. Len(l) : left[i] = l[i]) /\ left[Len(l) + 1] = LF
  <2>1. /\ \A i \in 1 .. Len(l) : i \in 1 .. Len(l) + 1
        /\ Len(l) + 1 \in 1 .. Len(l) + 1 /\ Len(a) + (Len(l) + 1) = Len(a) + Len(l) + 1
    BY <1>1, <1>3
  <2>2. left[Len(l) + 1] = b[Len(a) + (Len(l) + 1)]
    BY <1>7, <2>1
  <2> QED BY <1>1, <1>7, <2>1, <2>2
<1>9. ChunkLen(left) = Len(l) + 1 /\ LineOfChunk(SubSeq(left, 1, Len(l) + 1)) = l
  BY <1>1, <1>4, <1>6, <1>7, <1>8, LineIsRead
<1>10. HistoryAdd(Pre(h, k), MaxHist, l) = Pre(h, k + 1)
  <2>1. ~(Pre(h, k) # <<>> /\ Pre(h, k)[Len(Pre(h, k))] = l)
    <3> SUFFICES ASSUME Pre(h, k) # <<>> PROVE Pre(h, k)[k] # l
      BY <1>5
    <3>1. k # 0
      BY <1>5
    <3>2. k \in 1 .. Len(h) - 1 /\ k \in 1 .. k
      BY <1>0, <3>1
    <3> QED BY <1>5, <3>2 DEF Plain, l
  <2>2. Len(Pre(h, k)) # MaxHist /\ MaxHist # 0
    BY <1>0, <1>5, HistoryFileAssumption
  <2> QED BY <1>5, <2>1, <2>2 DEF HistoryAdd
<1>11. Len(a) + (Len(l) + 1) = Len(b)
  BY <1>1, <1>3
<1> DEFINE r == [at |-> Len(a), h |-> Pre(h, k)]
<1>12. r.at = Len(a) /\ r.h = Pre(h, k)
  OBVIOUS
<1> HIDE DEF r
<1>13. LoadTurn(B, r) = [at |-> Len(a) + ChunkLen(left),
                        h |-> HistoryAdd(Pre(h, k), MaxHist, LineOfChunk(SubSeq(left, 1, ChunkLen(left))))]
  BY <1>12 DEF LoadTurn, left
<1>14. LoadTurn(B, r) = [at |-> Len(b), h |-> Pre(h, k + 1)]
  BY <1>9, <1>10, <1>11, <1>13
<1> QED
  BY <1>7, <1>12, <1>14 DEF B, a, b, r

(* linenoiseHistoryLoad undoes linenoiseHistorySave. *)
LEMMA LoadReturns ==
  ASSUME NEW h \in History, Plain(h)
  PROVE  Load(Bytes(h)) = h
<1> DEFINE B == Bytes(h)
           N == Len(B)
           n == Len(h)
           r(k) == [at |-> Len(Bytes(Pre(h, k))), h |-> Pre(h, k)]
<1>0. h \in Seq(Seq(Chars)) /\ n \in Nat /\ n \in 0 .. n
  BY DEF History
<1>1. B \in Seq(Chars) /\ N \in Nat
  BY BytesOfHistory
<1>2. PICK f \in [0 .. N -> LoadState(B)] :
         /\ f[0] = [at |-> 0, h |-> <<>>] /\ Load(B) = f[N].h
         /\ \A k \in 1 .. N : f[k] = IF f[k - 1].at = N THEN f[k - 1] ELSE LoadTurn(B, f[k - 1])
  BY <1>1, LoadFcn DEF Loads
<1>3. n <= N
  BY <1>0, BytesLong
<1>4. r(0) = [at |-> 0, h |-> <<>>]
  <2>1. 0 \in 0 .. Len(h)
    BY <1>0
  <2>2. Pre(h, 0) = <<>> /\ Bytes(Pre(h, 0)) = <<>> /\ Len(<<>>) = 0
    BY <1>0, <2>1, PreIs, BytesOfPre, EmptySeq
  <2> QED BY <2>2
<1>5. r(n) = [at |-> N, h |-> h]
  <2>1. Pre(h, n) = h
    BY <1>0, PreIs
  <2> QED BY <2>1
<1>6. ASSUME NEW k \in 0 .. n, k # n PROVE r(k).at # N /\ LoadTurn(B, r(k)) = r(k + 1)
  BY <1>6, LineReturns
<1> HIDE DEF B, N, n, r
<1> DEFINE T == {k \in 0 .. n : f[k] = r(k)}
<1>7. 0 \in T
  BY <1>0, <1>2, <1>4
<1>8. ASSUME NEW k \in 0 .. n, k \in T, k # n PROVE k + 1 \in T
  <2>1. k + 1 \in 1 .. N /\ (k + 1) - 1 = k /\ k + 1 \in 0 .. n /\ f[k] = r(k)
    BY <1>0, <1>1, <1>3, <1>8
  <2>2. f[k + 1] = IF f[k].at = N THEN f[k] ELSE LoadTurn(B, f[k])
    <3> HIDE DEF T
    <3> QED BY <1>2, <2>1
  <2>3. f[k + 1] = r(k + 1)
    <3> HIDE DEF T
    <3> QED BY <1>6, <1>8, <2>1, <2>2
  <2> QED BY <2>1, <2>3
<1>9. f[n] = r(n)
  <2>1. 0 .. n \subseteq T
    <3> HIDE DEF T
    <3> QED BY <1>0, <1>7, <1>8, BoundedInduction
  <2> QED BY <1>0, <2>1
<1> HIDE DEF T
<1> DEFINE U == {k \in 0 .. N - n : f[n + k] = r(n)}
<1>10. 0 \in U
  BY <1>0, <1>1, <1>3, <1>9
<1>11. ASSUME NEW k \in 0 .. N - n, k \in U, k # N - n PROVE k + 1 \in U
  <2>1. n + (k + 1) \in 1 .. N /\ (n + (k + 1)) - 1 = n + k /\ k + 1 \in 0 .. N - n /\ f[n + k] = r(n)
    BY <1>0, <1>1, <1>3, <1>11
  <2>2. f[n + (k + 1)] = IF f[n + k].at = N THEN f[n + k] ELSE LoadTurn(B, f[n + k])
    <3> HIDE DEF U
    <3> QED BY <1>2, <2>1
  <2>3. r(n).at = N
    BY <1>5
  <2>4. f[n + (k + 1)] = r(n)
    <3> HIDE DEF U
    <3> QED BY <2>1, <2>2, <2>3
  <2> QED BY <2>1, <2>4
<1>12. f[N] = r(n)
  <2>1. N - n \in Nat /\ N - n \in 0 .. N - n /\ n + (N - n) = N
    BY <1>0, <1>1, <1>3
  <2>2. 0 .. N - n \subseteq U
    <3> HIDE DEF U
    <3> QED BY <1>10, <1>11, <2>1, BoundedInduction
  <2> QED BY <2>1, <2>2
<1>13. f[N].h = h
  BY <1>5, <1>12
<1> QED
  BY <1>2, <1>13 DEF B

(***************************************************************************)
(* A history of lines that fit and hold no line ends comes back as it was    *)
(* in the client that starts after it was saved, for every such history:     *)
(* each turn of linenoiseHistoryLoad reads one line that was written.        *)
(***************************************************************************)
THEOREM PlainHistoryComesBack == Spec => PlainHistoryReturns
<1> DEFINE A == \A p \in Proc :
                  Start(p) /\ file # NoFile /\ Quiet /\ ~torn /\ ~overlap /\ Plain(snap)
                  => hist'[p] = snap
<1>1. FileInv /\ [Next]_vars => [A]_vars
  <2> SUFFICES ASSUME FileInv, NEW p \in Proc, Start(p), file # NoFile, Quiet, ~torn, ~overlap,
                      Plain(snap)
               PROVE  hist'[p] = snap
    OBVIOUS
  <2>1. file = Bytes(snap) /\ snap \in History
    BY DEF FileInv, FileIsSaved, HistoryTypes
  <2>2. hist' = [hist EXCEPT ![p] = Load(file)] /\ hist \in [Proc -> History]
    BY DEF Start, FileInv, HistoryTypes
  <2>3. Load(file) = snap
    BY <2>1, LoadReturns
  <2> QED BY <2>2, <2>3
<1> QED
  BY <1>1, FileInvHolds, PTL DEF Spec, PlainHistoryReturns
-----------------------------------------------------------------------------
(* Inputs that cannot be edited.  First, the bytes of a text that are not    *)
(* line ends.                                                               *)

LEMMA SameText ==
  /\ \A q : Source!FlattenSeq(q) = FlattenSeq(q)
  /\ \A h : Source!Joined(h) = Bytes(h)
<1>1. ASSUME NEW q PROVE Source!FlattenSeq(q) = FlattenSeq(q)
  BY DEF Source!FlattenSeq, FlattenSeq
<1>2. ASSUME NEW h PROVE Source!Joined(h) = Bytes(h)
  BY <1>1 DEF Source!Joined, Bytes
<1> QED
  BY <1>1, <1>2

Prints(s) ==
  \E f \in [0 .. Len(s) -> Seq(Chars)] :
     /\ f[0] = <<>> /\ Source!Printable(s) = f[Len(s)]
     /\ \A n \in 1 .. Len(s) : f[n] = IF s[n] \in {CR, LF} THEN f[n - 1] ELSE Append(f[n - 1], s[n])

LEMMA PrintableFcn ==
  ASSUME NEW s \in Seq(Chars)
  PROVE  Prints(s)
<1> DEFINE N == Len(s)
           V == Seq(Chars)
           z == <<>>
           E(g) == g = [n \in 0 .. N |-> IF n = 0 THEN z
                                         ELSE IF s[n] \in {CR, LF} THEN g[n - 1]
                                         ELSE Append(g[n - 1], s[n])]
           To(u, n) == IF s[n] \in {CR, LF} THEN u ELSE Append(u, s[n])
           f == CHOOSE g : E(g)
           st == [u \in V |-> [n \in 1 .. N |-> To(u, n)]]
<1>1. N \in Nat /\ z \in V /\ \A n \in 1 .. N : s[n] \in Chars
  BY EmptySeq
<1>2. Source!Printable(s) = f[N]
  BY DEF Source!Printable
<1>3. \A u \in V, n \in 1 .. N : To(u, n) \in V
  BY <1>1, AppendProperties
<1> HIDE DEF N, V, z
<1>4. st \in [V -> [1 .. N -> V]]
  <2> HIDE DEF To
  <2> QED BY <1>3
<1>5. Recurses(N, V, z, st)
  <2> HIDE DEF st
  <2> QED BY <1>1, <1>4, RecFcn
<1>6. PICK w \in [0 .. N -> V] : w[0] = z /\ \A n \in 1 .. N : w[n] = st[w[n - 1]][n]
  <2> HIDE DEF st
  <2> QED BY <1>5 DEF Recurses
<1>7. \A n \in 1 .. N : w[n] = To(w[n - 1], n)
  <2> SUFFICES ASSUME NEW n \in 1 .. N PROVE w[n] = To(w[n - 1], n)
    OBVIOUS
  <2>1. n - 1 \in 0 .. N
    BY <1>1
  <2>2. w[n - 1] \in V /\ w[n] = st[w[n - 1]][n]
    <3> HIDE DEF st
    <3> QED BY <1>6, <2>1
  <2> HIDE DEF To
  <2> QED BY <2>2
<1> HIDE DEF st
<1>8. E(w)
  <2>1. w = [n \in 0 .. N |-> w[n]]
    OBVIOUS
  <2>2. ASSUME NEW n \in 0 .. N
        PROVE  w[n] = IF n = 0 THEN z ELSE IF s[n] \in {CR, LF} THEN w[n - 1] ELSE Append(w[n - 1], s[n])
    <3>1. n # 0 => n \in 1 .. N
      BY <1>1
    <3> QED BY <1>6, <1>7, <3>1
  <2> QED BY <2>1, <2>2
<1>9. E(f)
  BY <1>8
<1> HIDE DEF f
<1>10. ASSUME NEW n \in 0 .. N PROVE f[n] = IF n = 0 THEN z ELSE To(f[n - 1], n)
  BY <1>9
<1>11. 0 \in 0 .. N /\ \A n \in 1 .. N : n \in 0 .. N /\ n # 0
  BY <1>1
<1> HIDE DEF E
<1>12. f[0] = z /\ \A n \in 1 .. N : f[n] = To(f[n - 1], n)
  <2> HIDE DEF To
  <2> QED BY <1>10, <1>11
<1> HIDE DEF To
<1> DEFINE T == {n \in 0 .. N : f[n] \in V}
<1>13. 0 .. N \subseteq T
  <2>1. 0 \in T
    BY <1>1, <1>11, <1>12
  <2>2. ASSUME NEW n \in 0 .. N, n \in T, n # N PROVE n + 1 \in T
    <3>1. n + 1 \in 1 .. N /\ n + 1 \in 0 .. N /\ (n + 1) - 1 = n /\ f[n] \in V
      BY <1>1, <2>2
    <3>2. f[n + 1] \in V
      <4> HIDE DEF T
      <4> QED BY <1>3, <1>12, <3>1
    <3> QED BY <3>1, <3>2
  <2> HIDE DEF T
  <2> QED BY <1>1, <2>1, <2>2, BoundedInduction
<1>14. f \in [0 .. N -> V]
  <2>1. \A n \in 0 .. N : f[n] \in V
    BY <1>13
  <2> QED BY <1>9, <2>1 DEF E
<1> QED
  BY <1>2, <1>12, <1>14 DEF Prints, N, V, z, To

LEMMA PrintableSnoc ==
  ASSUME NEW s \in Seq(Chars), NEW x \in Chars
  PROVE  Source!Printable(Append(s, x)) =
           IF x \in {CR, LF} THEN Source!Printable(s) ELSE Append(Source!Printable(s), x)
<1> DEFINE r == Append(s, x)
           N == Len(s)
           M == Len(r)
<1>1. /\ r \in Seq(Chars) /\ N \in Nat /\ M = N + 1 /\ r[N + 1] = x
      /\ \A i \in 1 .. N : r[i] = s[i]
  BY AppendProperties
<1>2. PICK f \in [0 .. N -> Seq(Chars)] :
         /\ f[0] = <<>> /\ Source!Printable(s) = f[N]
         /\ \A n \in 1 .. N : f[n] = IF s[n] \in {CR, LF} THEN f[n - 1] ELSE Append(f[n - 1], s[n])
  BY PrintableFcn DEF Prints
<1> HIDE DEF r
<1>3. PICK g \in [0 .. M -> Seq(Chars)] :
         /\ g[0] = <<>> /\ Source!Printable(r) = g[M]
         /\ \A n \in 1 .. M : g[n] = IF r[n] \in {CR, LF} THEN g[n - 1] ELSE Append(g[n - 1], r[n])
  BY <1>1, PrintableFcn DEF Prints
<1> HIDE DEF N, M
<1> DEFINE T == {n \in 0 .. N : f[n] = g[n]}
<1>4. 0 .. N \subseteq T
  <2>1. 0 \in T
    BY <1>1, <1>2, <1>3
  <2>2. ASSUME NEW n \in 0 .. N, n \in T, n # N PROVE n + 1 \in T
    <3>1. n + 1 \in 1 .. N /\ n + 1 \in 1 .. M /\ n + 1 \in 0 .. N /\ (n + 1) - 1 = n /\ f[n] = g[n]
      BY <1>1, <2>2
    <3>2. r[n + 1] = s[n + 1]
      BY <1>1, <3>1
    <3> SUFFICES f[n + 1] = g[n + 1]
      BY <3>1
    <3> HIDE DEF T
    <3>3. f[n + 1] = IF s[n + 1] \in {CR, LF} THEN f[n] ELSE Append(f[n], s[n + 1])
      BY <1>2, <3>1
    <3>4. g[n + 1] = IF r[n + 1] \in {CR, LF} THEN g[n] ELSE Append(g[n], r[n + 1])
      BY <1>3, <3>1
    <3> QED BY <3>1, <3>2, <3>3, <3>4
  <2> HIDE DEF T
  <2> QED BY <1>1, <2>1, <2>2, BoundedInduction
<1>5. f[N] = g[N] /\ M \in 1 .. M /\ M - 1 = N /\ r[M] = x
  <2>1. N \in 0 .. N /\ M \in 1 .. M /\ M - 1 = N
    BY <1>1
  <2>2. N \in T
    <3> HIDE DEF T
    <3> QED BY <1>4, <2>1
  <2> QED BY <1>1, <2>1, <2>2
<1> HIDE DEF T
<1>6. g[M] = IF r[M] \in {CR, LF} THEN g[M - 1] ELSE Append(g[M - 1], r[M])
  BY <1>3, <1>5
<1> QED
  BY <1>2, <1>3, <1>5, <1>6 DEF r

(* What comes before a text does not matter for its own bytes. *)
LEMMA PrintableAfter ==
  ASSUME NEW a \in Seq(Chars), NEW b \in Seq(Chars), NEW u \in Seq(Chars),
         Source!Printable(a) = Source!Printable(b)
  PROVE  Source!Printable(a \o u) = Source!Printable(b \o u)
<1> DEFINE N == Len(u)
           P(s) == Source!Printable(s)
           T == {k \in 0 .. N : P(a \o Pre(u, k)) = P(b \o Pre(u, k))}
<1>1. N \in Nat /\ N \in 0 .. N
  OBVIOUS
<1>2. 0 \in T
  <2>1. 0 \in 0 .. N
    BY <1>1
  <2>2. Pre(u, 0) = <<>>
    BY <2>1, PreIs
  <2>3. a \o <<>> = a /\ b \o <<>> = b
    BY ConcatEmptySeq
  <2> QED BY <2>1, <2>2, <2>3
<1>3. ASSUME NEW k \in 0 .. N, k \in T, k # N PROVE k + 1 \in T
  <2> DEFINE v == Pre(u, k)
             x == u[k + 1]
  <2>1. k + 1 \in 0 .. N /\ P(a \o v) = P(b \o v)
    BY <1>1, <1>3
  <2>2. v \in Seq(Chars) /\ x \in Chars /\ Pre(u, k + 1) = Append(v, x)
    BY <1>3, PreIs
  <2> HIDE DEF v, x
  <2>3. \A c \in Seq(Chars) : c \o v \in Seq(Chars) /\ c \o Append(v, x) = Append(c \o v, x)
    BY <2>2
  <2> HIDE DEF T
  <2>4. P(Append(a \o v, x)) = P(Append(b \o v, x))
    <3>1. P(Append(a \o v, x)) = IF x \in {CR, LF} THEN P(a \o v) ELSE Append(P(a \o v), x)
      BY <2>2, <2>3, PrintableSnoc
    <3>2. P(Append(b \o v, x)) = IF x \in {CR, LF} THEN P(b \o v) ELSE Append(P(b \o v), x)
      BY <2>2, <2>3, PrintableSnoc
    <3> HIDE DEF P
    <3> QED BY <2>1, <3>1, <3>2
  <2>5. P(a \o Pre(u, k + 1)) = P(b \o Pre(u, k + 1))
    BY <2>2, <2>3, <2>4
  <2> HIDE DEF P
  <2> QED BY <2>1, <2>5 DEF T
<1>4. N \in T
  <2> HIDE DEF T
  <2>1. 0 .. N \subseteq T
    BY <1>1, <1>2, <1>3, BoundedInduction
  <2> QED BY <1>1, <2>1
<1>5. Pre(u, N) = u
  BY <1>1, PreIs
<1> QED
  BY <1>4, <1>5

(* Line ends at the end of a text do not either. *)
LEMMA PrintableTrim ==
  ASSUME NEW b \in Seq(Chars), NEW u \in Seq(Chars), NEW m \in 0 .. Len(u),
         \A i \in m + 1 .. Len(u) : u[i] \in {CR, LF}
  PROVE  Source!Printable(b \o Pre(u, m)) = Source!Printable(b \o u)
<1> DEFINE N == Len(u) - m
           P(s) == Source!Printable(s)
           T == {k \in 0 .. N : P(b \o Pre(u, m + k)) = P(b \o Pre(u, m))}
<1>1. N \in Nat /\ N \in 0 .. N /\ m + N = Len(u) /\ m + 0 = m /\ 0 \in 0 .. N
  OBVIOUS
<1>2. 0 \in T
  BY <1>1
<1>3. ASSUME NEW k \in 0 .. N, k \in T, k # N PROVE k + 1 \in T
  <2> DEFINE v == Pre(u, m + k)
             x == u[(m + k) + 1]
  <2>a. P(b \o v) = P(b \o Pre(u, m))
    BY <1>3
  <2>b. Len(u) \in Nat /\ m \in Nat /\ k \in Nat
    OBVIOUS
  <2>1. /\ k + 1 \in 0 .. N /\ P(b \o v) = P(b \o Pre(u, m)) /\ m + k \in 0 .. Len(u) /\ m + k # Len(u)
        /\ m + (k + 1) = (m + k) + 1 /\ (m + k) + 1 \in m + 1 .. Len(u)
    <3> HIDE DEF T, P, v, N
    <3>1. k + 1 \in 0 .. N /\ m + (k + 1) = (m + k) + 1 /\ m + k < m + N
      BY <1>1, <1>3, <2>b
    <3>2. m + k \in 0 .. Len(u) /\ m + k # Len(u) /\ (m + k) + 1 \in m + 1 .. Len(u)
      BY <1>1, <2>b, <3>1
    <3> QED BY <2>a, <3>1, <3>2
  <2>2. v \in Seq(Chars) /\ x \in Chars /\ Pre(u, (m + k) + 1) = Append(v, x)
    BY <2>1, PreIs
  <2>3. x \in {CR, LF}
    BY <2>1
  <2> HIDE DEF v, x, T
  <2>4. b \o v \in Seq(Chars) /\ b \o Append(v, x) = Append(b \o v, x)
    BY <2>2
  <2>5. P(Append(b \o v, x)) = P(b \o v)
    BY <2>2, <2>3, <2>4, PrintableSnoc
  <2>6. P(b \o Pre(u, m + (k + 1))) = P(b \o Pre(u, m))
    BY <2>1, <2>2, <2>4, <2>5
  <2> HIDE DEF P
  <2> QED BY <2>1, <2>6 DEF T
<1>4. N \in T
  <2> HIDE DEF T
  <2>1. 0 .. N \subseteq T
    BY <1>1, <1>2, <1>3, BoundedInduction
  <2> QED BY <1>1, <2>1
<1>5. Pre(u, m + N) = u
  BY <1>1, PreIs
<1> QED
  BY <1>4, <1>5

LEMMA TrimmedIs ==
  ASSUME NEW u \in Seq(Chars)
  PROVE  \E m \in 0 .. Len(u) : /\ Source!Trimmed(u) = Pre(u, m)
                                /\ \A i \in m + 1 .. Len(u) : u[i] \in {CR, LF}
<1> DEFINE Ends(n) == \A i \in n + 1 .. Len(u) : u[i] \in {CR, LF}
           I == {n \in 0 .. Len(u) : Ends(n)}
           Q(n) == (n > 0 => u[n] \notin {CR, LF}) /\ Ends(n)
           c == CHOOSE n \in 0 .. Len(u) : Q(n)
<1>1. Len(u) \in Nat /\ Len(u) \in I /\ I \subseteq Nat
  OBVIOUS
<1>2. PICK n \in I : \A y \in I : n <= y
  <2> HIDE DEF I
  <2> QED BY <1>1, LeastNat
<1>3. Q(n)
  <2> SUFFICES ASSUME n > 0, u[n] \in {CR, LF} PROVE FALSE
    BY <1>2
  <2>1. n - 1 \in 0 .. Len(u) /\ \A i \in (n - 1) + 1 .. Len(u) : i = n \/ i \in n + 1 .. Len(u)
    BY <1>1
  <2>2. Ends(n)
    OBVIOUS
  <2>3. n - 1 \in I
    BY <2>1, <2>2
  <2>4. n <= n - 1 /\ n \in Nat
    <3> HIDE DEF I
    <3> QED BY <1>1, <1>2, <2>3
  <2> QED BY <2>4
<1>4. n \in 0 .. Len(u)
  OBVIOUS
<1> HIDE DEF Q
<1>5. c \in 0 .. Len(u) /\ Q(c)
  BY <1>3, <1>4
<1>6. Source!Trimmed(u) = Pre(u, c)
  BY DEF Source!Trimmed, Pre, Q
<1> HIDE DEF c
<1> QED
  BY <1>5, <1>6 DEF Q

SourceTypes ==
  /\ input \in Seq(Chars) /\ at \in 0 .. Len(input) /\ mem \in Seq(Chars) /\ maxlen \in Nat
  /\ out \in Seq(Seq(Chars))
  /\ from \in {"none", "dumb"} /\ spc \in {"main", "read", "done"}
  /\ spc = "read" => from = "none"

NoLF(s) == \A j \in 1 .. Len(s) : s[j] # LF

(* The whole input has been returned, its last line without a newline too. *)
AllGiven == /\ at = Len(input) /\ input # <<>> /\ input[Len(input)] # LF
            /\ Bytes(out) = Append(input, LF)

(* The lines returned, and the one being built, are what has been read. *)
LinesGiven ==
  /\ \A i \in 1 .. Len(out) : NoLF(out[i])
  /\ spc = "read" => /\ NoLF(mem)
                     /\ Bytes(out) \o mem = Pre(input, at) \/ (AllGiven /\ mem = <<>>)
  /\ spc = "main" => Bytes(out) = Pre(input, at) \/ AllGiven
  /\ spc = "done" /\ ~lost => Source!AreLinesOf(out, input)

SourceInv == SourceTypes /\ (from = "none" => LinesGiven) /\ InputArrives

LEMMA OutText ==
  ASSUME SourceTypes
  PROVE  /\ Bytes(out) \in Seq(Chars) /\ (out = <<>> => Bytes(out) = <<>>)
         /\ \A l \in Seq(Chars) : /\ Bytes(Append(out, l)) = (Bytes(out) \o l) \o <<LF>>
                                   /\ Append(out, l) \in Seq(Seq(Chars))
<1>1. out \in Seq(Seq(Chars)) /\ LF \in Chars /\ <<LF>> \in Seq(Chars)
  BY DEF SourceTypes, Chars
<1>2. /\ Bytes(out) \in Seq(Chars) /\ (out = <<>> => Bytes(out) = <<>>)
      /\ \A l \in Seq(Chars) : Bytes(Append(out, l)) = Bytes(out) \o Append(l, LF)
  BY <1>1, BytesSnoc
<1>3. ASSUME NEW l \in Seq(Chars)
      PROVE  /\ Bytes(Append(out, l)) = (Bytes(out) \o l) \o <<LF>>
             /\ Append(out, l) \in Seq(Seq(Chars))
  <2>1. Append(l, LF) = l \o <<LF>>
    BY <1>1, AppendIsConcat
  <2>2. (Bytes(out) \o l) \o <<LF>> = Bytes(out) \o (l \o <<LF>>)
    BY <1>1, <1>2, ConcatAssociative
  <2>3. Append(out, l) \in Seq(Seq(Chars))
    BY <1>1, AppendProperties
  <2>4. Bytes(Append(out, l)) = Bytes(out) \o Append(l, LF)
    BY <1>2
  <2> QED BY <2>1, <2>2, <2>3, <2>4
<1> QED
  BY <1>2, <1>3

(* The text of lines ends with a newline. *)
LEMMA BytesEnd ==
  ASSUME NEW h \in Seq(Seq(Chars)), h # <<>>
  PROVE  Bytes(h) # <<>> /\ Bytes(h)[Len(Bytes(h))] = LF
<1> DEFINE k == Len(h) - 1
           a == Bytes(Pre(h, k))
<1>1. k \in 0 .. Len(h) /\ k # Len(h) /\ k + 1 = Len(h) /\ Len(h) \in 0 .. Len(h)
  OBVIOUS
<1>2. Pre(h, Len(h)) = h
  BY <1>1, PreIs
<1>3. Len(a) \in Nat
  BY <1>1, BytesOfPre
<1>4. /\ Len(Bytes(Pre(h, k + 1))) = Len(a) + Len(h[k + 1]) + 1 /\ Len(h[k + 1]) \in Nat
      /\ Bytes(Pre(h, k + 1))[Len(a) + Len(h[k + 1]) + 1] = LF
  BY <1>1, BytesGrow
<1> HIDE DEF a, k
<1>5. Len(Bytes(h)) = Len(a) + Len(h[k + 1]) + 1 /\ Bytes(h)[Len(Bytes(h))] = LF
  BY <1>1, <1>2, <1>4
<1>6. Len(Bytes(h)) # 0
  BY <1>3, <1>4, <1>5
<1>7. Len(<<>>) = 0
  BY EmptySeq
<1> QED
  BY <1>5, <1>6, <1>7

(* A turn makes room before it stores a byte. *)
LEMMA RoomIsMade ==
  ASSUME SourceTypes, Len(mem) <= maxlen,
         maxlen' = IF Source!MustGrow THEN Source!Grown ELSE maxlen
  PROVE  maxlen' \in Nat /\ Len(mem) < maxlen'
<1>1. Len(mem) \in Nat /\ maxlen \in Nat /\ FirstSize \in Nat \ {0}
  BY SourceAssumption DEF SourceTypes
<1> QED
  BY <1>1 DEF Source!MustGrow, Source!Grown

LEMMA InputSteps ==
  ASSUME SourceTypes
  PROVE  /\ Pre(input, at) \in Seq(Chars) /\ Pre(input, Len(input)) = input
         /\ at = 0 => Pre(input, at) = <<>>
         /\ at # Len(input) => /\ at + 1 \in 0 .. Len(input) /\ input[at + 1] \in Chars
                               /\ Pre(input, at + 1) = Pre(input, at) \o <<input[at + 1]>>
<1>1. input \in Seq(Chars) /\ at \in 0 .. Len(input)
  BY DEF SourceTypes
<1>2. /\ Pre(input, at) \in Seq(Chars) /\ Pre(input, Len(input)) = input
      /\ at = 0 => Pre(input, at) = <<>>
      /\ at # Len(input) => /\ Pre(input, at + 1) = Append(Pre(input, at), input[at + 1])
                            /\ input[at + 1] \in Chars
  BY <1>1, PreIs
<1>3. ASSUME at # Len(input) PROVE Pre(input, at + 1) = Pre(input, at) \o <<input[at + 1]>>
  BY <1>2, <1>3, AppendIsConcat
<1>4. at # Len(input) => at + 1 \in 0 .. Len(input)
  BY <1>1
<1> QED
  BY <1>2, <1>3, <1>4

(* One turn of the loop of linenoiseNoTTY. *)
LEMMA NoTTYKeeps ==
  ASSUME SourceInv, Source!NoTTY
  PROVE  SourceInv'
<1>0. /\ SourceTypes /\ spc = "read" /\ from = "none" /\ LinesGiven /\ Len(mem) <= maxlen
      /\ input' = input /\ from' = from /\ lost' = lost
      /\ maxlen' = IF Source!MustGrow THEN Source!Grown ELSE maxlen
  BY DEF SourceInv, SourceTypes, Source!NoTTY, InputArrives, Source!InputArrives
<1>1. maxlen' \in Nat /\ Len(mem) < maxlen'
  BY <1>0, RoomIsMade
<1>2. /\ input \in Seq(Chars) /\ mem \in Seq(Chars) /\ at \in 0 .. Len(input) /\ Len(input) \in Nat
      /\ out \in Seq(Seq(Chars)) /\ LF \in Chars /\ Len(mem) \in Nat
  BY <1>0 DEF SourceTypes, Chars
<1>3. /\ NoLF(mem) /\ \A i \in 1 .. Len(out) : NoLF(out[i])
      /\ Bytes(out) \o mem = Pre(input, at) \/ (AllGiven /\ mem = <<>>)
  BY <1>0 DEF LinesGiven
<1>4. /\ Bytes(out) \in Seq(Chars) /\ (out = <<>> => Bytes(out) = <<>>)
      /\ \A l \in Seq(Chars) : /\ Bytes(Append(out, l)) = (Bytes(out) \o l) \o <<LF>>
                                /\ Append(out, l) \in Seq(Seq(Chars))
  BY <1>0, OutText
<1>5. \A l \in Seq(Chars) : NoLF(l) => \A i \in 1 .. Len(Append(out, l)) : NoLF(Append(out, l)[i])
  <2> SUFFICES ASSUME NEW l \in Seq(Chars), NoLF(l), NEW i \in 1 .. Len(Append(out, l))
               PROVE  NoLF(Append(out, l)[i])
    OBVIOUS
  <2>1. /\ Len(Append(out, l)) = Len(out) + 1 /\ Append(out, l)[Len(out) + 1] = l /\ Len(out) \in Nat
        /\ \A j \in 1 .. Len(out) : Append(out, l)[j] = out[j]
    BY <1>2
  <2>2. i = Len(out) + 1 \/ i \in 1 .. Len(out)
    BY <2>1
  <2> QED BY <1>3, <2>1, <2>2
<1>6. /\ Pre(input, Len(input)) = input /\ Pre(input, at) \in Seq(Chars)
      /\ at # Len(input) => /\ at + 1 \in 0 .. Len(input) /\ input[at + 1] \in Chars
                            /\ Pre(input, at + 1) = Pre(input, at) \o <<input[at + 1]>>
  BY <1>0, InputSteps
<1>7. CASE Source!AtEof /\ mem = <<>> /\ Source!Finish /\ UNCHANGED <<mem, at>>
  <2>1. spc' = "done" /\ out' = out /\ mem' = mem /\ at' = at /\ at = Len(input)
    BY <1>7 DEF Source!Finish, Source!AtEof
  <2>2. SourceTypes'
    BY <1>0, <1>1, <2>1 DEF SourceTypes
  <2>3. Bytes(out) = IF input = <<>> \/ input[Len(input)] = LF THEN input ELSE Append(input, LF)
    <3>1. CASE AllGiven
      BY <3>1 DEF AllGiven
    <3>2. CASE Bytes(out) \o mem = Pre(input, at)
      <4>1. Bytes(out) = input
        BY <1>4, <1>6, <1>7, <2>1, <3>2, ConcatEmptySeq
      <4>2. input # <<>> => input[Len(input)] = LF
        <5>1. input # <<>> => out # <<>>
          BY <1>4, <4>1
        <5> QED BY <1>2, <4>1, <5>1, BytesEnd
      <4> QED BY <4>1, <4>2
    <3> QED BY <1>3, <3>1, <3>2
  <2>4. Source!AreLinesOf(out, input)
    <3>1. DOMAIN out = 1 .. Len(out) /\ \A i \in 1 .. Len(out) : DOMAIN out[i] = 1 .. Len(out[i])
      BY <1>2
    <3>2. \A i \in DOMAIN out : \A j \in DOMAIN out[i] : out[i][j] # LF
      BY <1>3, <3>1 DEF NoLF
    <3> QED BY <2>3, <3>2, SameText DEF Source!AreLinesOf
  <2>5. Source!AreLinesOf(out, input)'
    <3>1. Source!Joined(out)' = Source!Joined(out)
      BY <2>1 DEF Source!Joined
    <3> QED BY <1>0, <2>1, <2>4, <3>1 DEF Source!AreLinesOf
  <2>6. LinesGiven'
    BY <1>3, <2>1, <2>5 DEF LinesGiven
  <2>7. InputArrives'
    BY <1>0, <1>1, <2>1, <2>5 DEF InputArrives, Source!InputArrives
  <2> QED BY <2>2, <2>6, <2>7 DEF SourceInv
<1>8. CASE Source!AtEof /\ mem # <<>> /\ Source!Return(mem) /\ UNCHANGED <<mem, at>>
  <2>1. spc' = "main" /\ out' = Append(out, mem) /\ mem' = mem /\ at' = at /\ at = Len(input)
    BY <1>8 DEF Source!Return, Source!AtEof
  <2>2. SourceTypes'
    <3>1. out' \in Seq(Seq(Chars))
      BY <1>2, <1>4, <2>1
    <3> QED BY <1>0, <1>1, <2>1, <3>1 DEF SourceTypes
  <2>3. Bytes(out) \o mem = input
    BY <1>3, <1>6, <1>8, <2>1
  <2>4. input # <<>> /\ input[Len(input)] # LF
    <3> DEFINE g == Bytes(out)
    <3>1. /\ g \in Seq(Chars) /\ Len(g) \in Nat /\ Len(mem) \in 1 .. Len(mem) /\ input = g \o mem
      BY <1>2, <1>4, <1>8, <2>3
    <3> HIDE DEF g
    <3>2. /\ Len(g \o mem) = Len(g) + Len(mem)
          /\ \A i \in 1 .. Len(g) + Len(mem) : (g \o mem)[i] = IF i <= Len(g) THEN g[i] ELSE mem[i - Len(g)]
      BY <1>2, <3>1, ConcatProperties
    <3>3. /\ Len(g) + Len(mem) \in 1 .. Len(g) + Len(mem) /\ ~(Len(g) + Len(mem) <= Len(g))
          /\ (Len(g) + Len(mem)) - Len(g) = Len(mem)
      BY <1>2, <3>1
    <3>4. Len(input) = Len(g) + Len(mem) /\ input[Len(input)] = mem[Len(mem)]
      BY <3>1, <3>2, <3>3
    <3>5. Len(input) # 0 /\ Len(<<>>) = 0
      BY <1>2, <3>1, <3>4
    <3> QED BY <1>3, <3>1, <3>4, <3>5 DEF NoLF
  <2>5. Bytes(out') = Append(input, LF)
    <3>1. Bytes(out') = (Bytes(out) \o mem) \o <<LF>>
      BY <1>2, <1>4, <2>1
    <3> QED BY <1>2, <2>3, <3>1, AppendIsConcat
  <2>6. AllGiven'
    <3>1. Bytes(out)' = Bytes(out')
      BY DEF Bytes
    <3> QED BY <1>0, <2>1, <2>4, <2>5, <3>1 DEF AllGiven
  <2>7. LinesGiven'
    BY <1>2, <1>3, <1>5, <2>1, <2>6 DEF LinesGiven
  <2>8. InputArrives'
    BY <1>0, <1>1, <2>1 DEF InputArrives, Source!InputArrives
  <2> QED BY <2>2, <2>7, <2>8 DEF SourceInv
<1>9. CASE ~Source!AtEof /\ Source!Byte = LF /\ Source!Return(mem) /\ at' = at + 1 /\ UNCHANGED mem
  <2>1. spc' = "main" /\ out' = Append(out, mem) /\ mem' = mem /\ at' = at + 1 /\ at # Len(input)
        /\ input[at + 1] = LF
    BY <1>9 DEF Source!Return, Source!AtEof, Source!Byte
  <2>2. SourceTypes'
    <3>1. out' \in Seq(Seq(Chars))
      BY <1>2, <1>4, <2>1
    <3> QED BY <1>0, <1>1, <1>6, <2>1, <3>1 DEF SourceTypes
  <2>3. Bytes(out) \o mem = Pre(input, at)
    BY <1>3, <2>1 DEF AllGiven
  <2>4. Bytes(out') = Pre(input, at + 1)
    <3>1. Bytes(out') = (Bytes(out) \o mem) \o <<LF>>
      BY <1>2, <1>4, <2>1
    <3> QED BY <1>6, <2>1, <2>3, <3>1
  <2>5. Bytes(out)' = Pre(input, at)'
    <3>1. Bytes(out)' = Bytes(out') /\ Pre(input, at)' = Pre(input, at + 1)
      BY <1>0, <2>1 DEF Bytes, Pre
    <3> QED BY <2>4, <3>1
  <2>6. LinesGiven'
    BY <1>2, <1>3, <1>5, <2>1, <2>5 DEF LinesGiven
  <2>7. InputArrives'
    BY <1>0, <1>1, <2>1 DEF InputArrives, Source!InputArrives
  <2> QED BY <2>2, <2>6, <2>7 DEF SourceInv
<1>10. CASE /\ ~Source!AtEof /\ Source!Byte # LF
            /\ mem' = Append(mem, Source!Byte) /\ at' = at + 1
            /\ UNCHANGED <<spc, out>>
  <2>1. spc' = spc /\ out' = out /\ mem' = Append(mem, input[at + 1]) /\ at' = at + 1 /\ at # Len(input)
        /\ input[at + 1] # LF
    BY <1>10 DEF Source!AtEof, Source!Byte
  <2> DEFINE x == input[at + 1]
  <2>2. x \in Chars /\ x # LF /\ mem' = Append(mem, x)
    BY <1>6, <2>1
  <2>3. Bytes(out) \o mem = Pre(input, at) /\ Pre(input, at + 1) = Pre(input, at) \o <<x>>
    BY <1>3, <1>6, <2>1 DEF AllGiven
  <2> HIDE DEF x
  <2>4. /\ mem' \in Seq(Chars) /\ Len(mem') = Len(mem) + 1 /\ mem'[Len(mem) + 1] = x
        /\ \A i \in 1 .. Len(mem) : mem'[i] = mem[i]
    BY <1>2, <2>2
  <2>5. SourceTypes'
    BY <1>0, <1>1, <1>6, <2>1, <2>4 DEF SourceTypes
  <2>6. NoLF(mem')
    <3>1. \A i \in 1 .. Len(mem') : i \in 1 .. Len(mem) \/ i = Len(mem) + 1
      BY <1>2, <2>4
    <3> QED BY <1>3, <2>2, <2>4, <3>1 DEF NoLF
  <2>7. Bytes(out) \o mem' = Pre(input, at + 1)
    <3>1. Append(mem, x) = mem \o <<x>> /\ <<x>> \in Seq(Chars)
      BY <1>2, <2>2, AppendIsConcat
    <3>2. Bytes(out) \in Seq(Chars) /\ mem \in Seq(Chars) /\ <<x>> \in Seq(Chars)
      BY <1>2, <1>4, <3>1
    <3>3. (Bytes(out) \o mem) \o <<x>> = Bytes(out) \o (mem \o <<x>>)
      BY <3>2, ConcatAssociative
    <3> QED BY <2>2, <2>3, <3>1, <3>3
  <2>8. LinesGiven'
    <3>1. Bytes(out)' = Bytes(out) /\ Pre(input, at)' = Pre(input, at + 1)
      BY <1>0, <2>1 DEF Bytes, Pre
    <3>2. NoLF(mem)'
      BY <2>6 DEF NoLF
    <3>3. \A i \in 1 .. Len(out') : NoLF(out'[i])
      BY <1>3, <2>1
    <3>4. spc' = "read"
      BY <1>0, <2>1
    <3>5. (Bytes(out) \o mem)' = Pre(input, at)'
      BY <2>7, <3>1
    <3> QED BY <3>2, <3>3, <3>4, <3>5 DEF LinesGiven
  <2>9. InputArrives'
    <3>1. Len(mem') <= maxlen'
      BY <1>1, <1>2, <2>4
    <3> QED BY <1>0, <2>1, <3>1 DEF InputArrives, Source!InputArrives
  <2> QED BY <2>5, <2>8, <2>9 DEF SourceInv
<1> QED
  BY <1>7, <1>8, <1>9, <1>10 DEF Source!NoTTY

(* linenoise() is called for a pipe. *)
LEMMA CallNoTTYKeeps ==
  ASSUME SourceInv, Source!CallNoTTY
  PROVE  SourceInv'
<1>1. /\ SourceTypes /\ from = "none" /\ spc = "main" /\ LinesGiven
      /\ spc' = "read" /\ mem' = <<>> /\ maxlen' = 0
      /\ input' = input /\ at' = at /\ from' = from /\ out' = out /\ lost' = lost
  BY DEF SourceInv, Source!CallNoTTY
<1>2. <<>> \in Seq(Chars) /\ Len(<<>>) = 0
  OBVIOUS
<1>3. SourceTypes'
  BY <1>1, <1>2 DEF SourceTypes
<1>4. (Bytes(out) \o mem)' = Pre(input, at)' \/ (AllGiven' /\ mem' = <<>>)
  <2>1. Bytes(out)' = Bytes(out) /\ Pre(input, at)' = Pre(input, at)
    BY <1>1 DEF Bytes, Pre
  <2>2. Bytes(out) = Pre(input, at) \/ AllGiven
    BY <1>1 DEF LinesGiven
  <2>3. Bytes(out) \o <<>> = Bytes(out)
    BY <1>1, OutText, ConcatEmptySeq
  <2>4. AllGiven => AllGiven'
    BY <1>1, <2>1 DEF AllGiven
  <2> QED BY <1>1, <2>1, <2>2, <2>3, <2>4
<1>5. NoLF(mem)'
  BY <1>1, <1>2 DEF NoLF
<1>6. LinesGiven'
  <2>1. \A i \in 1 .. Len(out) : NoLF(out[i])
    BY <1>1 DEF LinesGiven
  <2>2. (\A i \in 1 .. Len(out) : NoLF(out[i]))'
    BY <1>1, <2>1 DEF NoLF
  <2> QED BY <1>1, <1>4, <1>5, <2>2 DEF LinesGiven
<1>7. InputArrives'
  BY <1>1, <1>2 DEF InputArrives, Source!InputArrives
<1> QED
  BY <1>3, <1>6, <1>7 DEF SourceInv

(* The memory for a longer line is refused. *)
LEMMA NoTTYFailsKeeps ==
  ASSUME SourceInv, Source!NoTTYFails
  PROVE  SourceInv'
<1>1. /\ SourceTypes /\ from = "none" /\ spc = "read" /\ LinesGiven /\ Len(mem) <= maxlen
      /\ spc' = "done" /\ out' = out /\ lost' = TRUE
      /\ input' = input /\ at' = at /\ from' = from /\ mem' = mem /\ maxlen' = maxlen
  BY DEF SourceInv, SourceTypes, InputArrives, Source!InputArrives, Source!NoTTYFails, Source!Finish
<1>2. SourceTypes'
  BY <1>1 DEF SourceTypes
<1>3. LinesGiven'
  <2>1. \A i \in 1 .. Len(out) : NoLF(out[i])
    BY <1>1 DEF LinesGiven
  <2>2. (\A i \in 1 .. Len(out) : NoLF(out[i]))'
    BY <1>1, <2>1 DEF NoLF
  <2> QED BY <1>1, <2>2 DEF LinesGiven
<1>4. InputArrives'
  BY <1>1 DEF InputArrives, Source!InputArrives
<1> QED
  BY <1>2, <1>3, <1>4 DEF SourceInv

(* fgets reads at least a byte and stays in the input. *)
LEMMA FgetsEndIs ==
  ASSUME SourceTypes, ~Source!AtEof
  PROVE  Source!FgetsEnd \in at + 1 .. Len(input)
<1> DEFINE Ends(n) == input[n] = LF \/ n = Len(input) \/ n = at + MaxLine - 1
           Q(n) == /\ input[n] = LF \/ n = Len(input) \/ n = at + MaxLine - 1
                   /\ \A i \in at + 1 .. n - 1 : input[i] # LF /\ i # at + MaxLine - 1
           I == {n \in at + 1 .. Len(input) : Ends(n)}
<1>1. at \in Nat /\ Len(input) \in Nat /\ Len(input) \in at + 1 .. Len(input)
  BY DEF SourceTypes, Source!AtEof
<1>2. I \subseteq Nat /\ Len(input) \in I
  BY <1>1
<1>3. PICK n \in I : \A y \in I : n <= y
  <2> HIDE DEF I
  <2> QED BY <1>2, LeastNat
<1>4. n \in at + 1 .. Len(input) /\ Ends(n)
  BY <1>3
<1>5. ASSUME NEW i \in at + 1 .. n - 1 PROVE ~Ends(i)
  <2>1. i \in at + 1 .. Len(input) /\ ~(n <= i)
    BY <1>1, <1>4
  <2> HIDE DEF Ends
  <2> QED BY <1>3, <2>1
<1>6. Q(n)
  BY <1>4, <1>5
<1>7. Source!FgetsEnd = CHOOSE m \in at + 1 .. Len(input) : Q(m)
  BY DEF Source!FgetsEnd
<1> HIDE DEF Q
<1> QED
  BY <1>4, <1>6, <1>7

(* A text is cut in two. *)
LEMMA PreAndRest ==
  ASSUME NEW S, NEW s \in Seq(S), NEW i \in 0 .. Len(s), NEW j \in i .. Len(s)
  PROVE  /\ SubSeq(s, i + 1, j) \in Seq(S)
         /\ Pre(s, j) = Pre(s, i) \o SubSeq(s, i + 1, j)
<1> DEFINE u == SubSeq(s, i + 1, j)
           c == Pre(s, i) \o u
<1>1. i \in Nat /\ j \in Nat /\ Len(s) \in Nat /\ i <= j /\ j <= Len(s) /\ j \in 0 .. Len(s)
  OBVIOUS
<1>2. u \in Seq(S) /\ Len(u) = j - i /\ \A n \in 1 .. j - i : u[n] = s[i + n]
  BY <1>1
<1>3. /\ Pre(s, i) \in Seq(S) /\ Len(Pre(s, i)) = i /\ (\A n \in 1 .. i : Pre(s, i)[n] = s[n])
      /\ Pre(s, j) \in Seq(S) /\ Len(Pre(s, j)) = j /\ (\A n \in 1 .. j : Pre(s, j)[n] = s[n])
  BY <1>1, PreIs
<1> HIDE DEF u
<1>4. /\ c \in Seq(S) /\ Len(c) = Len(Pre(s, i)) + Len(u)
      /\ \A n \in 1 .. Len(Pre(s, i)) + Len(u) :
            c[n] = IF n <= Len(Pre(s, i)) THEN Pre(s, i)[n] ELSE u[n - Len(Pre(s, i))]
  BY <1>2, <1>3, ConcatProperties
<1> HIDE DEF c
<1>5. i + (j - i) = j
  BY <1>1
<1>6. Len(c) = j
  BY <1>2, <1>3, <1>4, <1>5
<1>7. ASSUME NEW n \in 1 .. j PROVE c[n] = Pre(s, j)[n]
  <2>1. c[n] = IF n <= i THEN Pre(s, i)[n] ELSE u[n - i]
    BY <1>2, <1>3, <1>4, <1>5
  <2>2. CASE n <= i
    <3>1. n \in 1 .. i
      BY <1>1, <2>2
    <3> QED BY <1>3, <2>1, <2>2, <3>1
  <2>3. CASE ~(n <= i)
    <3>1. n - i \in 1 .. j - i /\ i + (n - i) = n
      BY <1>1, <2>3
    <3> QED BY <1>2, <1>3, <2>1, <2>3, <3>1
  <2> QED BY <2>2, <2>3
<1>8. c = Pre(s, j)
  BY <1>3, <1>4, <1>6, <1>7, SeqEqual
<1> QED
  BY <1>2, <1>8 DEF c, u

(* A call of fgets on an unsupported terminal. *)
LEMMA UnsupportedKeeps ==
  ASSUME SourceInv, Source!Unsupported
  PROVE  SourceInv'
<1>1. /\ SourceTypes /\ from = "dumb" /\ spc = "main" /\ InputArrives
      /\ input' = input /\ from' = from /\ mem' = mem /\ maxlen' = maxlen /\ lost' = lost
  BY DEF SourceInv, Source!Unsupported
<1>2. /\ input \in Seq(Chars) /\ at \in 0 .. Len(input) /\ out \in Seq(Seq(Chars)) /\ Len(input) \in Nat
  BY <1>1 DEF SourceTypes
<1>3. /\ Len(mem) <= maxlen /\ (maxlen > 0 => Len(mem) < maxlen)
      /\ Source!Printable(FlattenSeq(out)) = Source!Printable(Pre(input, at))
  BY <1>1, SameText DEF InputArrives, Source!InputArrives, Pre
<1>4. CASE Source!AtEof
  <2>1. spc' = "done" /\ out' = out /\ at' = at
    BY <1>4 DEF Source!Unsupported, Source!Finish
  <2>2. SourceTypes'
    BY <1>1, <2>1 DEF SourceTypes
  <2>3. InputArrives'
    <3>1. /\ Source!Printable(Source!FlattenSeq(out))' = Source!Printable(Source!FlattenSeq(out))
          /\ Source!Printable(SubSeq(input, 1, at))' = Source!Printable(SubSeq(input, 1, at))
      BY <1>1, <2>1
    <3> QED BY <1>1, <2>1, <3>1 DEF InputArrives, Source!InputArrives
  <2> QED BY <1>1, <2>2, <2>3 DEF SourceInv
<1>5. CASE ~Source!AtEof
  <2> DEFINE e == Source!FgetsEnd
             u == SubSeq(input, at + 1, e)
             l == Source!Trimmed(u)
             P(s) == Source!Printable(s)
  <2>1. spc' = "main" /\ out' = Append(out, l) /\ at' = e
    BY <1>5 DEF Source!Unsupported, Source!Return
  <2>2. e \in at + 1 .. Len(input)
    BY <1>1, <1>5, FgetsEndIs
  <2> HIDE DEF e
  <2>3. e \in 0 .. Len(input) /\ e \in at .. Len(input)
    BY <1>2, <2>2
  <2>4. u \in Seq(Chars) /\ Pre(input, e) = Pre(input, at) \o u
    BY <1>2, <2>3, PreAndRest
  <2> HIDE DEF u
  <2>5. PICK m \in 0 .. Len(u) : l = Pre(u, m) /\ \A i \in m + 1 .. Len(u) : u[i] \in {CR, LF}
    BY <2>4, TrimmedIs
  <2>6. l \in Seq(Chars)
    BY <2>4, <2>5, PreIs
  <2> HIDE DEF l
  <2>7. Append(out, l) \in Seq(Seq(Chars))
    BY <1>2, <2>6, AppendProperties
  <2>8. SourceTypes'
    BY <1>1, <2>1, <2>3, <2>7 DEF SourceTypes
  <2>9. FlattenSeq(out) \in Seq(Chars) /\ FlattenSeq(Append(out, l)) = FlattenSeq(out) \o l
    BY <1>2, <2>6, FlattenIsSeq, FlattenSnoc
  <2>10. Pre(input, at) \in Seq(Chars)
    BY <1>2, PreIs
  <2>11. P(FlattenSeq(out) \o l) = P(FlattenSeq(out) \o u)
    BY <2>4, <2>5, <2>9, PrintableTrim
  <2>12. P(FlattenSeq(out) \o u) = P(Pre(input, at) \o u)
    BY <1>3, <2>4, <2>9, <2>10, PrintableAfter
  <2>13. P(FlattenSeq(Append(out, l))) = P(Pre(input, e))
    BY <2>4, <2>9, <2>11, <2>12
  <2>14. Source!Printable(Source!FlattenSeq(out))' = Source!Printable(SubSeq(input, 1, at))'
    <3>1. /\ Source!Printable(Source!FlattenSeq(out))' = P(Source!FlattenSeq(Append(out, l)))
          /\ Source!Printable(SubSeq(input, 1, at))' = P(SubSeq(input, 1, e))
      BY <1>1, <2>1
    <3> QED BY <2>13, <3>1, SameText DEF Pre
  <2>15. InputArrives'
    BY <1>1, <1>3, <2>1, <2>14 DEF InputArrives, Source!InputArrives
  <2> QED BY <1>1, <2>8, <2>15 DEF SourceInv
<1> QED
  BY <1>4, <1>5

LEMMA SourceInvInit ==
  ASSUME Source!Init
  PROVE  SourceInv
<1>1. /\ input \in Inputs /\ at = 0 /\ from \in {"none", "dumb"}
      /\ spc = "main" /\ mem = <<>> /\ maxlen = 0 /\ out = <<>> /\ lost = FALSE
  BY DEF Source!Init
<1>2. input \in Seq(Chars) /\ Len(input) \in Nat
  <2>1. input \in Seq(Char \cup {CR, LF})
    BY <1>1, SourceAssumption
  <2>2. Char \cup {CR, LF} \subseteq Chars
    BY DEF Chars
  <2> QED BY <2>1, <2>2
<1>3. <<>> \in Seq(Chars) /\ <<>> \in Seq(Seq(Chars)) /\ Len(<<>>) = 0
  OBVIOUS
<1>4. SourceTypes
  BY <1>1, <1>2, <1>3 DEF SourceTypes
<1>5. Pre(input, at) = <<>> /\ Bytes(out) = <<>>
  BY <1>1, <1>4, InputSteps, OutText
<1>6. LinesGiven
  BY <1>1, <1>3, <1>5 DEF LinesGiven
<1>7. Source!FlattenSeq(out) = <<>>
  <2>1. FlattenSeq(out) = <<>>
    BY <1>1, <1>3, FlattenIsSeq
  <2> QED BY <2>1, SameText
<1>8. Source!Printable(Source!FlattenSeq(out)) = Source!Printable(SubSeq(input, 1, at))
  <2>1. SubSeq(input, 1, at) = <<>>
    BY <1>5 DEF Pre
  <2> QED BY <1>7, <2>1
<1>9. InputArrives
  <2>1. Len(mem) <= maxlen /\ ~(maxlen > 0)
    BY <1>1, <1>3
  <2> QED BY <1>1, <1>8, <2>1 DEF InputArrives, Source!InputArrives
<1> QED
  BY <1>4, <1>6, <1>9 DEF SourceInv

LEMMA SourceInvStutters ==
  ASSUME SourceInv, UNCHANGED sourceVars
  PROVE  SourceInv'
<1>1. /\ input' = input /\ at' = at /\ from' = from /\ spc' = spc
      /\ mem' = mem /\ maxlen' = maxlen /\ out' = out /\ lost' = lost
  BY DEF sourceVars
<1>2. /\ Source!AreLinesOf(out, input)' <=> Source!AreLinesOf(out, input)
      /\ Source!Printable(Source!FlattenSeq(out))' = Source!Printable(Source!FlattenSeq(out))
      /\ Source!Printable(SubSeq(input, 1, at))' = Source!Printable(SubSeq(input, 1, at))
      /\ Bytes(out)' = Bytes(out) /\ Pre(input, at)' = Pre(input, at)
  <2>1. Source!AreLinesOf(out, input)' <=> Source!AreLinesOf(out, input)
    <3>1. Source!Joined(out)' = Source!Joined(out)
      BY <1>1 DEF Source!Joined
    <3> QED BY <1>1, <3>1 DEF Source!AreLinesOf
  <2>2. Bytes(out)' = Bytes(out) /\ Pre(input, at)' = Pre(input, at)
    BY <1>1 DEF Bytes, Pre
  <2>3. /\ Source!Printable(Source!FlattenSeq(out))' = Source!Printable(Source!FlattenSeq(out))
        /\ Source!Printable(SubSeq(input, 1, at))' = Source!Printable(SubSeq(input, 1, at))
    BY <1>1
  <2> QED BY <2>1, <2>2, <2>3
<1>3. SourceTypes'
  BY <1>1 DEF SourceInv, SourceTypes
<1>4. InputArrives'
  BY <1>1, <1>2 DEF SourceInv, InputArrives, Source!InputArrives
<1>5. LinesGiven => LinesGiven'
  BY <1>1, <1>2 DEF LinesGiven, AllGiven, NoLF
<1> QED
  BY <1>1, <1>3, <1>4, <1>5 DEF SourceInv

(* From a pipe every line reaches the program, once, in order and inside     *)
(* the memory allocated for it, unless an allocation fails; on a terminal    *)
(* that cannot be edited no byte is lost (linenoiseNoTTY, linenoise).        *)
THEOREM InputIsGiven == Source!Spec => []InputArrives
<1>1. Source!Init => SourceInv
  BY SourceInvInit
<1>2. SourceInv /\ [Source!Next]_Source!vars => SourceInv'
  BY CallNoTTYKeeps, NoTTYKeeps, NoTTYFailsKeeps, UnsupportedKeeps, SourceInvStutters
  DEF Source!Next, Source!vars, sourceVars
<1>3. SourceInv => InputArrives
  BY DEF SourceInv
<1> QED
  BY <1>1, <1>2, <1>3, PTL DEF Source!Spec
=============================================================================
