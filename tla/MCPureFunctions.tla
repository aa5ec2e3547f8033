--------------------------- MODULE MCPureFunctions ----------------------------
(***************************************************************************)
(* The functions that only compute, for TLC: the commands and the replies   *)
(* of the redis client, and the strings of c-string.  In a behaviour one of *)
(* the three runs, the others wait where they began.  Lines are all those   *)
(* of up to five words, commands in every place, and lines around the       *)
(* limits of the counter and the buffer.                                    *)
(***************************************************************************)
EXTENDS PureFunctions, SequencesExt, TLC

VARIABLE part

Commands == {"PING", "GET", "SET", "GETSET", "INCR", "SELECT", "AUTH", "DEL", "EXISTS", "MGET", "LLEN",
             "LPUSH", "RPUSH", "LPOP", "RPOP", "LTRIM", "LRANGE", "LREM", "LINSERT", "EXIT"}
ASSUME CommandsAreAll == Commands = RQ!Names

\* "GET long" is a request of 2048 bytes, "GET longer" and "INCR long" are of 2049.
MCWordLen == [w \in Commands |-> Len(w)] @@ [w \in {"k", "v"} |-> 1]
             @@ ("BEFORE" :> 6) @@ ("long" :> 2026) @@ ("longer" :> 2027)

Words == {"PING", "GET", "SET", "LTRIM", "LINSERT", "MGET", "EXIT", "k", "BEFORE"}
Repeat(w, n) == [i \in 1 .. n |-> w]

Lists == {<<name, "k">> \o Repeat("v", n) : name \in Commands, n \in 120 .. 130}
Longs == {<<name>> \o s : name \in Commands, s \in SeqOf({"k", "long", "longer"}, 3)}
MCTypedLines == SeqOf(Words, 5) \cup Lists \cup Longs

MCSymbols == {"CR", "LF", "$", "*", "+", "-", ":", ",", "n", "i", "l", "a", "b",
              "0", "1", "2", "3", "4", "5", "6", "7", "8", "9"}
\* Texts that look like the start of a reply, or like a nil, and two that the
\* tokenizer loses or splits.
MCTexts == {<<"a">>, <<"$", "1">>, <<":", "1", "1">>, <<"n", "i", "l">>, <<"a", "CR">>,
            [i \in 1 .. 10 |-> "a"], << >>, <<"a", "CR", "LF", "b">>}

NoRequest == typed = <<>> /\ command = RQ!NotYet /\ request = RQ!NotYet
NoReply == reply = <<>> /\ cut = 0 /\ result = RSP!NotParsed
NoStrings == mem = <<>> /\ str = <<>> /\ cmp = S8!None

MCInit ==
    \/ part = "request" /\ RQ!Init /\ NoReply /\ NoStrings
    \/ part = "reply" /\ RSP!Init /\ NoRequest /\ NoStrings
    \/ part = "s8" /\ S8!Init /\ NoRequest /\ NoReply

MCNext ==
    /\ UNCHANGED part
    /\ \/ part = "request" /\ RQ!Next /\ UNCHANGED <<replyVars, s8Vars>>
       \/ part = "reply" /\ RSP!ParseStep /\ UNCHANGED <<requestVars, s8Vars>>
       \/ part = "s8" /\ S8!Next /\ UNCHANGED <<requestVars, replyVars>>

mcVars == <<part, requestVars, replyVars, s8Vars>>

MCSpec == MCInit /\ [][MCNext]_mcVars
=============================================================================
