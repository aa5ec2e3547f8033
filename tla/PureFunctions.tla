---------------------------- MODULE PureFunctions ----------------------------
(***************************************************************************)
(* The functions that only compute, side by side: the commands and the      *)
(* replies of the redis client, and the strings of c-string.                *)
(***************************************************************************)
EXTENDS Integers, Sequences

CONSTANTS WordLen, TypedLines,  \* of RedisRequest
          Texts, MaxItems,      \* of ReplyReader
          Symbols,              \* the bytes a reply is made of
          Size, Bytes           \* of S8String

\* The tokenizer gives words of one byte or more; a memory has some bytes.
ASSUME WordsAssumption == /\ \A w \in DOMAIN WordLen : WordLen[w] \in Nat \ {0}
                          /\ TypedLines \subseteq Seq(DOMAIN WordLen)
\* Among the bytes are those that parse looks for; none is the sign for no value.
ASSUME TextsAssumption ==
    /\ {"CR", "LF", "$", "*", "+", "-", ":", ",", "n", "i", "l"} \subseteq Symbols
    /\ {"0", "1", "2", "3", "4", "5", "6", "7", "8", "9"} \subseteq Symbols
    /\ "no value" \notin Symbols
    /\ Texts \subseteq Seq(Symbols) /\ MaxItems \in Nat
\* The lengths on the wire fit the 32 bits they are parsed into.
ASSUME LengthsAssumption == MaxItems <= 2147483647 /\ \A t \in Texts : Len(t) <= 2147483647
ASSUME MemoryAssumption == Size \in Nat /\ Bytes \subseteq 0 .. 255

VARIABLES typed, command, request, reply, cut, result, mem, str, cmp

requestVars == <<typed, command, request>>
replyVars == <<reply, cut, result>>
s8Vars == <<mem, str, cmp>>

RQ == INSTANCE RedisRequest
RSP == INSTANCE ReplyReader
S8 == INSTANCE S8String

-----------------------------------------------------------------------------
(* Their properties, under their names.                                     *)

\* What is sent are words of the line, in their order and without gaps, and
\* the header announces the bulks that follow it (req.zig parseHelper,
\* serializeHelper).
TypedIsSent == RQ!TypedIsSent

\* A line that has what its command needs is accepted exactly up to 127
\* arguments, and then serialized, whole, exactly if it takes at most 2048
\* bytes (req.zig parse, serializeHelper).
WellFormedIsSent == RQ!WellFormedIsSent

\* A reply that arrives in one read is shown as the server meant it, unless
\* it holds an empty string or one with a CR LF in it (rsp.zig parse).
WholeRepliesAreRight == RSP!WholeRepliesAreRight

\* A bulk string or an array that a read has cut is refused wherever the cut
\* is, but for a cut in the length of an array's last item (rsp.zig parse).
CutIsNoticed == RSP!CutIsNoticed

\* Unless b is a proper prefix of a, s8Cmp is the order of byte strings.
CmpIsOrder == S8!CmpIsOrder
=============================================================================
