--------------------------- MODULE RedisCompletion ----------------------------
(***************************************************************************)
(* completionCallback of zigredis/src/main.zig: the commands offered for    *)
(* the bytes typed so far, out of the list setupCompletion has filled with  *)
(* the lower-cased names of the fields of req.CommandType, in their order.  *)
(***************************************************************************)
EXTENDS Integers, Sequences

CONSTANTS
    Names,      \* the field names of CommandType, sequences of bytes
    Lower(_)    \* std.ascii.toLower

lowerString(s) == [i \in DOMAIN s |-> Lower(s[i])]

setupCompletion == [i \in DOMAIN Names |-> lowerString(Names[i])]

\* Mutant: only the last byte typed is compared.
eqlLastByte(item, b) == Lower(item[Len(b)]) = Lower(b[Len(b)])

\* The first len bytes, upper and lower case being the same.
eqlIgnoreCase(item, b) == \A i \in DOMAIN b : Lower(item[i]) = Lower(b[i])

\* The loop stops for good at the first command shorter than what was typed,
\* and adds those it has looked at that begin with it.
completionCallback(b) ==
    LET items  == setupCompletion
        looked == CHOOSE n \in 0 .. Len(items) :
                      /\ \A i \in 1 .. n : Len(b) <= Len(items[i])
                      /\ n < Len(items) => Len(b) > Len(items[n + 1])
        added[n \in 0 .. looked] ==
            IF n = 0 THEN <<>>
            ELSE IF eqlIgnoreCase(items[n], b) THEN Append(added[n - 1], items[n]) ELSE added[n - 1]
    IN  IF b = <<>> THEN <<>> ELSE added[looked]
=============================================================================
