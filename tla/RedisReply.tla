----------------------------- MODULE RedisReply -----------------------------
(***************************************************************************)
(* Resp.parse (src/zigredis/src/rsp.zig): what the redis prompt makes of   *)
(* the bytes one read returned.  Bytes are symbols, CR and LF among them.  *)
(* A reply is a kind (its first byte) and its items.  Nil is what the      *)
(* server means by "no value"; the parser turns it into text.              *)
(***************************************************************************)
EXTENDS Integers, Sequences

EOL == <<"CR", "LF">>
Nil == <<"no value">>
NilItem == <<"n", "i", "l">>
NilBulk == <<"(">> \o NilItem \o <<")">>

Digits == <<"0", "1", "2", "3", "4", "5", "6", "7", "8", "9">>
Digit == [d \in {Digits[i] : i \in 1 .. 10} |-> (CHOOSE i \in 1 .. 10 : Digits[i] = d) - 1]

Reply(kind, items) == [kind |-> kind, items |-> items]

Result(status, kind, items) == [status |-> status, reply |-> Reply(kind, items)]
Ok(kind, items) == Result("ok", kind, items)
Failed(status) == Result(status, "none", << >>)

(***************************************************************************)
(* What a server puts on the wire for a reply: the RESP encoding.          *)
(***************************************************************************)
Smallest(S) == CHOOSE i \in S : \A j \in S : i <= j

(* n in decimal: its digits are the remainders when it is divided by ten again and again. *)
Quotients(n) == LET left[i \in 0 .. n + 1] == IF i = 0 THEN n ELSE left[i - 1] \div 10 IN left
NumText(n) ==
  LET left == Quotients(n)
      size == Smallest({k \in 1 .. n + 1 : left[k] = 0})
  IN  [j \in 1 .. size |-> Digits[(left[size - j] % 10) + 1]]

WireItem(item) ==
  IF item = Nil THEN <<"$", "-", "1">> \o EOL
  ELSE <<"$">> \o NumText(Len(item)) \o EOL \o item \o EOL

WireItems(items) ==
  LET first[n \in 0 .. Len(items)] == IF n = 0 THEN << >> ELSE first[n - 1] \o WireItem(items[n])
  IN  first[Len(items)]

Wire(r) ==
  CASE r.kind = "$" -> WireItem(r.items[1])
    [] r.kind = "*" -> <<"*">> \o NumText(Len(r.items)) \o EOL \o WireItems(r.items)
    [] r.kind = "*nil" -> <<"*", "-", "1">> \o EOL
    [] OTHER -> <<r.kind>> \o r.items[1] \o EOL
-----------------------------------------------------------------------------
(***************************************************************************)
(* std.mem.tokenizeSequence(raw, "\r\n").  at is the iterator's index: the *)
(* next line is the first that begins there or later; empty ones are none. *)
(***************************************************************************)
EolAt(raw, i) == i \in 1 .. Len(raw) - 1 /\ raw[i] = "CR" /\ raw[i + 1] = "LF"
Begins(raw, i) == i \in 1 .. Len(raw) /\ ~EolAt(raw, i) /\ (i = 1 \/ EolAt(raw, i - 2))

LineFrom(raw, at) == Smallest({i \in at .. Len(raw) : Begins(raw, i)} \cup {Len(raw) + 1})
LineEnd(raw, i) == Smallest({j \in i .. Len(raw) : EolAt(raw, j)} \cup {Len(raw) + 1})

(* lines.next(): whether there is a line, the line, and where the index is then. *)
HasLine(raw, at) == LineFrom(raw, at) <= Len(raw)
NextLine(raw, at) == SubSeq(raw, LineFrom(raw, at), LineEnd(raw, LineFrom(raw, at)) - 1)
Passed(raw, at) == LineEnd(raw, LineFrom(raw, at))

(***************************************************************************)
(* std.fmt.parseInt, base 10: whether it succeeds, and what it returns.    *)
(* The lengths a server sends, and what is left of them, fit its integers, *)
(* and none holds the underscores it would skip.                           *)
(***************************************************************************)
Unsigned(s) == IF s # << >> /\ Head(s) \in {"+", "-"} THEN Tail(s) ELSE s
IsInt(s) == Unsigned(s) # << >> /\ \A i \in 1 .. Len(Unsigned(s)) : Unsigned(s)[i] \in DOMAIN Digit
Value(s) ==
  LET upTo[n \in 0 .. Len(s)] == IF n = 0 THEN 0 ELSE 10 * upTo[n - 1] + Digit[s[n]]
  IN  upTo[Len(s)]
IntOf(s) == IF Head(s) = "-" THEN -Value(Unsigned(s)) ELSE Value(Unsigned(s))

(* parseLength of a line: -1 also when it fails. *)
ParseLength(line) == IF Head(line) = "$" /\ IsInt(Tail(line)) THEN IntOf(Tail(line)) ELSE -1

(* Mutant: the length of the line that follows is not compared. *)
ParseBulkUnchecked(raw, size, at) ==
  IF size = << >> \/ size = <<"-">> THEN Failed("InvalidResp")
  ELSE IF size[1] = "-" /\ size[2] = "1" THEN Ok("$", <<NilBulk>>)
  ELSE IF ~IsInt(size) \/ IntOf(size) < 0 THEN Failed("ParseIntError")
  ELSE IF ~HasLine(raw, at) THEN Failed("InvalidResp")
  ELSE Ok("$", <<NextLine(raw, at)>>)

(* A bulk string: nil, or a line of exactly the announced length. *)
ParseBulk(raw, size, at) ==
  IF size = << >> \/ size = <<"-">> THEN Failed("InvalidResp")
  ELSE IF size[1] = "-" /\ size[2] = "1" THEN Ok("$", <<NilBulk>>)
  ELSE IF ~IsInt(size) \/ IntOf(size) < 0 THEN Failed("ParseIntError")
  ELSE IF ~HasLine(raw, at) \/ Len(NextLine(raw, at)) # IntOf(size) THEN Failed("InvalidResp")
  ELSE Ok("$", <<NextLine(raw, at)>>)

(* Mutant: without the continue, a nil item takes a line of its own. *)
ParseItemNoContinue(raw, p) ==
  LET length == ParseLength(NextLine(raw, p.at))
      text == Passed(raw, p.at)
  IN  IF ~HasLine(raw, p.at) THEN [p EXCEPT !.ok = FALSE]
      ELSE IF length = -1 THEN [p EXCEPT !.at = Passed(raw, text), !.items = Append(@, NilItem)]
      ELSE IF length < 0 \/ ~HasLine(raw, text) THEN [p EXCEPT !.ok = FALSE]
      ELSE IF Len(NextLine(raw, text)) < length THEN [p EXCEPT !.ok = FALSE]
      ELSE [p EXCEPT !.at = Passed(raw, text), !.items = Append(@, SubSeq(NextLine(raw, text), 1, length))]

(* One turn of the loop over an array's items. *)
ParseItem(raw, p) ==
  LET length == ParseLength(NextLine(raw, p.at))
      text == Passed(raw, p.at)
  IN  IF ~HasLine(raw, p.at) THEN [p EXCEPT !.ok = FALSE]
      ELSE IF length = -1 THEN [p EXCEPT !.at = text, !.items = Append(@, NilItem)]
      ELSE IF length < 0 \/ ~HasLine(raw, text) THEN [p EXCEPT !.ok = FALSE]
      ELSE IF Len(NextLine(raw, text)) < length THEN [p EXCEPT !.ok = FALSE]
      ELSE [p EXCEPT !.at = Passed(raw, text), !.items = Append(@, SubSeq(NextLine(raw, text), 1, length))]

(* The n turns of that loop; after a failure there are none. *)
ParseItems(raw, n, at) ==
  LET turn[j \in 0 .. n] ==
        IF j = 0 THEN [ok |-> TRUE, at |-> at, items |-> << >>]
        ELSE IF turn[j - 1].ok THEN ParseItem(raw, turn[j - 1])
        ELSE turn[j - 1]
  IN  turn[n]

(***************************************************************************)
(* An array.  When it fails after its first item, the errdefers run last   *)
(* to first: res is freed, and then read for the items to free.            *)
(***************************************************************************)
ParseArray(raw, size, at) ==
  LET n == IntOf(size)
      p == ParseItems(raw, n, at)
  IN  IF size = << >> THEN Failed("InvalidResp")
      ELSE IF ~IsInt(size) THEN Failed("ParseIntError")
      ELSE IF n = -1 THEN Ok("*nil", << >>)
      ELSE IF n < 0 THEN Failed("panic")
      ELSE IF p.ok THEN Ok("*", p.items)
      ELSE Failed(IF p.items = << >> THEN "InvalidResp" ELSE "use after free")

(* The first line that begins like a reply decides; the others are passed over. *)
Parse(raw) ==
  LET replies == {i \in 1 .. Len(raw) : Begins(raw, i) /\ raw[i] \in {"+", "-", ":", ",", "$", "*"}}
      i == Smallest(replies)
      rest == Tail(NextLine(raw, i))
  IN  IF replies = {} THEN Failed("InvalidResp")
      ELSE CASE raw[i] = "$" -> ParseBulk(raw, rest, Passed(raw, i))
             [] raw[i] = "*" -> ParseArray(raw, rest, Passed(raw, i))
             [] OTHER -> Ok(raw[i], <<rest>>)
=============================================================================
