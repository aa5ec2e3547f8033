------------------------------ MODULE MCLineIO -------------------------------
(***************************************************************************)
(* LineIO for TLC: in a behaviour one of the three parts runs, and the      *)
(* others stay at the smallest of their initial states.                     *)
(***************************************************************************)
EXTENDS LineIO, TLC

CONSTANT MaxInput
VARIABLE part       \* the one that runs

MCInputs == UNION {[1 .. n -> {"a", CR, LF}] : n \in 0 .. MaxInput}

\* A line feed, or a carriage return, can be typed into a line; TLC looks at
\* such lines while one client runs.
Odd == { <<"a", LF, "b">>, <<"b", CR>> }
MCLines == { <<"a">>, <<"b", "a">> } \cup Odd
Focus == \A p, q \in Proc :
            p # q /\ pc[p] # "start" /\ pc[q] # "start" =>
                \A r \in {p, q} : ({line[r]} \cup Range(hist[r])) \cap Odd = {}

MCInit ==
    /\ Init /\ Source!Init /\ Terminal!Init
    /\ part \in {"history", "source", "width"}
    /\ part # "source" => input = <<>> /\ from = "none"
    /\ part # "width" => col = 1 /\ tty = "raw"

MCNext ==
    \/ part = "history" /\ Next /\ Focus' /\ UNCHANGED <<part, sourceVars, widthVars>>
    \/ part = "source" /\ Source!Next /\ UNCHANGED <<part, vars, widthVars>>
    \/ part = "width" /\ Terminal!Next /\ UNCHANGED <<part, vars, sourceVars>>

mcVars == <<part, vars, sourceVars, widthVars>>

MCSpec == MCInit /\ [][MCNext]_mcVars
=============================================================================
