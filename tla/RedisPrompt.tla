------------------------------ MODULE RedisPrompt ------------------------------
(***************************************************************************)
(* The line editor with the completions of the redis client: main.zig gives *)
(* linenoise the callback of module RedisCompletion.                        *)
(***************************************************************************)
EXTENDS LinePrompt

CONSTANTS
    Letter,         \* the bytes of command names, in upper and lower case
    CommandNames,   \* the field names of req.CommandType
    Lower(_)        \* std.ascii.toLower

Redis == INSTANCE RedisCompletion WITH Names <- CommandNames

ASSUME CommandsAssumption == /\ CommandNames \in Seq(Seq(Letter))
                             /\ \A c \in Letter : Lower(c) \in Letter /\ Lower(Lower(c)) = Lower(c)
ASSUME CallbackAssumption ==
    \A s \in LinesUpTo(BufLen) : CompletionsOf(s) = Redis!completionCallback(s)

-----------------------------------------------------------------------------
\* The commands that begin with s, upper and lower case being the same.
BeginWith(s) == {n \in 1 .. Len(CommandNames) :
                    /\ Len(CommandNames[n]) >= Len(s)
                    /\ \A i \in 1 .. Len(s) : Lower(CommandNames[n][i]) = Lower(s[i])}

\* Every completion that is shown is a command that begins with what is in the
\* buffer, and as long as no command is shorter than that none is missing
\* (completionCallback, whose loop ends at the first command that is).
OffersRight ==
    phase = "editing" /\ l.len > 0 =>
        LET words == {[i \in DOMAIN CommandNames[n] |-> Lower(CommandNames[n][i])] :
                         n \in BeginWith(LineOf(l))}
        IN  /\ Offers \subseteq words
            /\ (\A n \in 1 .. Len(CommandNames) : Len(CommandNames[n]) >= l.len) => Offers = words
=============================================================================
