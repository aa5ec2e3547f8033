----------------------------- MODULE MCLineScreen -----------------------------
(* A narrow terminal, for TLC.                                               *)
EXTENDS LineScreen

MCGlyphs == {">", "a", "b", "h", "i", "*", "x", BlankCell}
MCPrompt == <<">">>
MCRecalls == { <<>>, <<"a", "b">>, <<"a", "b", "a", "b", "b">> }
MCWords == { <<"b">>, <<"b", "b", "a", "a">> }
\* Each way of drawing by itself, then masked and with a hint.
MCModes == {[multi |-> m, mask |-> k, hint |-> IF k THEN <<"h", "i">> ELSE <<>>] :
               m, k \in BOOLEAN}
=============================================================================
