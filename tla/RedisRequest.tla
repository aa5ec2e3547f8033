---------------------------- MODULE RedisRequest ----------------------------
(***************************************************************************)
(* Request.parse and Command.serialize (src/zigredis/src/req.zig): from    *)
(* the words of a typed line to the request that is sent.  A word stands   *)
(* for itself in any case; of its text only the length matters, and that   *)
(* is never 0: std.mem.tokenizeScalar yields no empty word.                *)
(***************************************************************************)
EXTENDS Integers, SequencesExt

CONSTANTS
  WordLen,     \* the length of each word
  TypedLines   \* the lines there can be, sequences of words

I8Max == 127
BufLen == 2048

(* How many arguments parse asks parseHelper for; -1 is any number from two on. *)
Arity ==
  LET one   == {"GET", "INCR", "SELECT", "AUTH", "DEL", "EXISTS", "LLEN"}
      two   == {"GETSET", "SET", "LPOP", "RPOP"}
      three == {"LTRIM", "LRANGE", "LREM"}
      any   == {"MGET", "LPUSH", "RPUSH"}
  IN  [n \in {"PING", "LINSERT"} \cup one \cup two \cup three \cup any |->
         CASE n = "PING" -> 0
           [] n \in one -> 1
           [] n \in two -> 2
           [] n \in three -> 3
           [] n = "LINSERT" -> 4
           [] n \in any -> -1]

Names == DOMAIN Arity \cup {"EXIT"}

Accepted(name, args, argsNum) == [status |-> "ok", name |-> name, args |-> args, argsNum |-> argsNum]
Refused(status) == [status |-> status, name |-> "", args |-> << >>, argsNum |-> 0]

(* Mutant: the word read to see whether there is a value is not kept. *)
ValuesAfter(rest) == SubSeq(rest, 3, Len(rest))

(* The values parseHelper's loop collects behind the key. *)
Values(rest) == SubSeq(rest, 2, Len(rest))

ArgsNum(cnt) == cnt + 1

(***************************************************************************)
(* A command's arguments are its key and the values behind it.  Up to two  *)
(* are taken and the other words left; from three on all the words are     *)
(* taken and counted in an i8, which has to hold the key as well.          *)
(***************************************************************************)
ParseHelper(name, rest, argNum) ==
  LET cnt == Len(rest) - 1 IN
  IF argNum \in 0 .. 2
  THEN IF Len(rest) < argNum THEN Refused("InvalidCommandParam")
       ELSE Accepted(name, SubSeq(rest, 1, argNum), argNum)
  ELSE IF Len(rest) < 2 THEN Refused("InvalidCommandParam")
       ELSE IF cnt >= I8Max THEN Refused("panic")
       ELSE IF argNum \notin {-1, cnt + 1} THEN Refused("InvalidCommandParam")
       ELSE Accepted(name, <<rest[1]>> \o Values(rest), ArgsNum(cnt))

LinsertWhere(kv) == kv.args[2] \in {"BEFORE", "AFTER"}

(* The first word that names a command decides; the words before it are passed over. *)
Parse(words) ==
  LET i == SelectInSeq(words, LAMBDA w : w \in Names)
      kv == ParseHelper(words[i], SubSeq(words, i + 1, Len(words)), Arity[words[i]])
  IN  IF i = 0 THEN Refused("UnknownCommand")
      ELSE IF words[i] = "EXIT" THEN Refused("exit")
      ELSE IF words[i] = "LINSERT" /\ kv.status = "ok" /\ ~LinsertWhere(kv)
           THEN Refused("UnknownCommand")
      ELSE kv
-----------------------------------------------------------------------------
Digits(n) == IF n < 10 THEN 1 ELSE IF n < 100 THEN 2 ELSE IF n < 1000 THEN 3 ELSE 4

(* "${d}\r\n{s}\r\n" *)
BulkLen(w) == 1 + Digits(WordLen[w]) + 2 + WordLen[w] + 2

(* The name, and the key and the values that are not empty. *)
Bulks(kv) ==
  LET upTo[n \in 0 .. Len(kv.args)] ==
        IF n = 0 THEN <<kv.name>>
        ELSE IF WordLen[kv.args[n]] # 0 THEN Append(upTo[n - 1], kv.args[n])
        ELSE upTo[n - 1]
  IN  upTo[Len(kv.args)]

HeaderLen(count) == 1 + Digits(count) + 2

(* Mutant: the last byte of the buffer is kept free. *)
FitsBelow(end) == end < BufLen

Fits(end) == end <= BufLen

(* The header's count and the bulks are written one after the other into the buffer, each behind the last. *)
Serialize(kv) ==
  LET bulks == Bulks(kv)
      count == kv.argsNum + 1
      end[n \in 0 .. Len(bulks)] == IF n = 0 THEN HeaderLen(count) ELSE end[n - 1] + BulkLen(bulks[n])
  IN  [status |-> IF \A n \in 0 .. Len(bulks) : Fits(end[n]) THEN "ok" ELSE "NoSpaceLeft",
       count |-> count, bulks |-> bulks]
-----------------------------------------------------------------------------
(* A line on its way through main.zig: typed, parsed, serialized. *)
VARIABLES
  typed,     \* the words of the line
  command,   \* what parse made of them
  request    \* what serialize made of that

vars == <<typed, command, request>>

NotYet == [status |-> "not yet"]

Init ==
  /\ typed \in TypedLines
  /\ command = NotYet /\ request = NotYet

ParseStep ==
  /\ command = NotYet
  /\ command' = Parse(typed)
  /\ UNCHANGED <<typed, request>>

SerializeStep ==
  /\ command.status = "ok" /\ request = NotYet
  /\ request' = Serialize(command)
  /\ UNCHANGED <<typed, command>>

Next == ParseStep \/ SerializeStep

Spec == Init /\ [][Next]_vars
-----------------------------------------------------------------------------
Sent == request.status = "ok"

(***************************************************************************)
(* What is sent are words of the line, in their order and without gaps:    *)
(* the first command in the line and its arguments.  Only commands with at *)
(* most two arguments leave words behind them out.  The header announces   *)
(* the bulks that follow it: otherwise the server would wait for more, or  *)
(* take the rest for another request (parseHelper, serializeHelper).       *)
(***************************************************************************)
TypedIsSent ==
  Sent =>
    /\ request.count = Len(request.bulks)
    /\ \E i \in 1 .. Len(typed), j \in 0 .. Len(typed) :
         /\ request.bulks = SubSeq(typed, i, j)
         /\ \A k \in 1 .. i - 1 : typed[k] \notin Names
         /\ j < Len(typed) => j - i <= 2

WellFormed(line) ==
  /\ line # << >> /\ Head(line) \in DOMAIN Arity
  /\ LET n == Arity[Head(line)]
         args == Tail(line)
     IN  /\ IF n = -1 THEN Len(args) >= 2 ELSE Len(args) = n
         /\ Head(line) = "LINSERT" => args[2] \in {"BEFORE", "AFTER"}

(* The bytes that a line takes as a request: its number of words, then each word as a bulk string. *)
WireLen(line) ==
  LET upTo[n \in 0 .. Len(line)] ==
        IF n = 0 THEN HeaderLen(Len(line)) ELSE upTo[n - 1] + BulkLen(line[n])
  IN  upTo[Len(line)]

(***************************************************************************)
(* A line that has what its command needs is accepted exactly when it has  *)
(* at most 127 arguments - the 128th ends the program, as the i8 that      *)
(* counts them cannot hold it - and an accepted line is serialized exactly *)
(* when all of it takes at most the 2048 bytes of the buffer.  What is     *)
(* serialized is the whole line (parse, serializeHelper).                  *)
(***************************************************************************)
WellFormedIsSent ==
  WellFormed(typed) =>
    /\ command # NotYet =>
         command.status = IF Len(typed) - 1 <= 127 THEN "ok" ELSE "panic"
    /\ request # NotYet =>
         /\ request.status = IF WireLen(typed) <= 2048 THEN "ok" ELSE "NoSpaceLeft"
         /\ request.bulks = typed
=============================================================================
