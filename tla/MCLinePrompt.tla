----------------------------- MODULE MCLinePrompt -----------------------------
(* The line editor with the completions of the redis client, for TLC.        *)
EXTENDS RedisPrompt, TLC

MCLower(c) == IF c = "A" THEN "a" ELSE c
\* Names of two and more bytes, longer and shorter ones in turn, as in the
\* command table of the client.
MCNames == << <<"A", "a">>, <<"a">>, <<"A", "A">> >>
MCCompletions(b) == Redis!completionCallback(b)

\* TLC looks at every line while the history has room for the session's own
\* entry only, and at browsing through lines that differ in length only.
Focus == \/ history_max_len = 1
         \/ \A s \in {LineOf(l)} \cup {history[i] : i \in DOMAIN history} :
                \A i \in DOMAIN s : s[i] = Tab
=============================================================================
