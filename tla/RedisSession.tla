---------------------------- MODULE RedisSession ----------------------------
(***************************************************************************)
(* The redis prompt's loop (src/zigredis/src/main.zig), the connection it  *)
(* keeps (client.zig) and the server and network at the other end of it,   *)
(* which may be slow, answer in pieces and close the connection.           *)
(*                                                                         *)
(* Commands are numbered in the order they are typed.  What one write(2)   *)
(* takes of a request is a block; a block shorter than the request is of   *)
(* no use to the server, and garbles what follows it.                      *)
(***************************************************************************)
EXTENDS Integers, Sequences

CONSTANTS
  Replies,      \* the replies a server may give
  WireOf(_),    \* a reply's bytes
  ParseOf(_),   \* Resp.parse: [status, reply]
  ReqLen,       \* length of a serialized request
  BufSize,      \* length of read_buf
  MaxCmds,      \* bound: commands typed
  MaxCloses     \* bound: connections closed or reset by the other end

ASSUME LengthAssumption == ReqLen \in Nat \ {0} /\ BufSize \in Nat \ {0}
ASSUME BoundAssumption == MaxCmds \in Nat /\ MaxCloses \in Nat

(* Resp.parse understands a whole reply and refuses no bytes at all. *)
ASSUME ReplyAssumption ==
  /\ \A r \in Replies : WireOf(r) # << >> /\ WireOf(r) \in Seq(STRING)
  /\ \A r \in Replies : ParseOf(WireOf(r)) = [status |-> "ok", reply |-> r]
  /\ ParseOf(<< >>).status # "ok"

MaxTries == 3   \* client.zig:62

VARIABLES
  pc,         \* where main is
  cmd,        \* number of the last command typed
  sent,       \* i of sendTo
  resending,  \* inside the recursive sendTo
  tries,      \* turns of read's loop
  got,        \* what read returned
  shown,      \* the last reply printed
  conn,       \* the client's socket: "none", "up", "fin" or "rst"
  toServer,   \* blocks the server has not taken
  toClient,   \* bytes the client has not read
  executed,   \* ghost: the commands the server executed, in order
  answers,    \* ghost: the reply of each command executed
  closes,     \* bound counter
  short,      \* ghost: a write took less than the whole request
  split       \* ghost: a read returned less than what the server had sent

main == <<pc, cmd, sent, resending, tries, got, shown>>
net == <<conn, toServer, toClient, closes>>
server == <<executed, answers>>
ghosts == <<short, split>>
vars == <<main, net, server, ghosts>>

NoReply == [none |-> TRUE]

Init ==
  /\ pc = "start" /\ cmd = 0 /\ sent = 0 /\ resending = FALSE /\ tries = 0
  /\ got = << >> /\ shown = NoReply
  /\ conn = "none" /\ toServer = << >> /\ toClient = << >> /\ closes = 0
  /\ executed = << >> /\ answers = [c \in 1 .. MaxCmds |-> NoReply]
  /\ short = FALSE /\ split = FALSE
-----------------------------------------------------------------------------
(* The start of main and its loop. *)

Connect ==
  /\ pc = "start"
  /\ pc' = "prompt" /\ conn' = "up"
  /\ UNCHANGED <<cmd, sent, resending, tries, got, shown, toServer, toClient, closes, server, ghosts>>

ConnectFails ==
  /\ pc = "start"
  /\ pc' = "exit"
  /\ UNCHANGED <<cmd, sent, resending, tries, got, shown, net, server, ghosts>>

(* A line that parse accepts.  One that it refuses changes nothing. *)
EnterCommand ==
  /\ pc = "prompt" /\ cmd < MaxCmds
  /\ pc' = "send" /\ cmd' = cmd + 1 /\ sent' = 0
  /\ UNCHANGED <<resending, tries, got, shown, net, server, ghosts>>

(* exit, the end of the input, or a request that serialize has no room for. *)
EnterExit ==
  /\ pc = "prompt"
  /\ pc' = "exit"
  /\ UNCHANGED <<cmd, sent, resending, tries, got, shown, net, server, ghosts>>
-----------------------------------------------------------------------------
(* sendTo *)

Block(n) == [cmd |-> cmd, len |-> n]

(* Mutant: while (i <= len). *)
SendMore(i) == i <= ReqLen

(* The condition of sendTo's loop. *)
SendLoop(i) == i < ReqLen

(* Back in main; the recursive call's caller returns the BrokenPipe. *)
SendReturns == IF resending THEN "exit" ELSE "read"

(***************************************************************************)
(* write(2) takes n bytes of the request, and always the first ones: a     *)
(* second turn of the loop writes the request from its beginning.  A       *)
(* socket that has seen the other end's FIN takes the bytes too; the       *)
(* answer to them is a reset.                                              *)
(***************************************************************************)
WriteSome(n) ==
  /\ pc = "send" /\ conn \in {"up", "fin"}
  /\ sent' = sent + n
  /\ pc' = IF SendLoop(sent + n) THEN "send" ELSE SendReturns
  /\ tries' = 0
  /\ toServer' = IF conn = "up" THEN Append(toServer, Block(n)) ELSE toServer
  /\ conn' \in IF conn = "up" THEN {"up"} ELSE {"fin", "rst"}
  /\ toClient' = IF conn' = "rst" THEN << >> ELSE toClient
  /\ short' = (short \/ n < ReqLen)
  /\ UNCHANGED <<cmd, resending, got, shown, closes, server, split>>

(* A timeout (which a reconnected socket does not have), a reset, or a reconnect that fails. *)
WriteFails ==
  /\ pc = "send"
  /\ \/ conn = "up" /\ ~resending
     \/ conn = "rst"
  /\ pc' = "exit"
  /\ UNCHANGED <<cmd, sent, resending, tries, got, shown, net, server, ghosts>>

(* BrokenPipe, and the recursive call on a new connection. *)
Reconnect ==
  /\ pc = "send" /\ conn = "rst"
  /\ conn' = "up" /\ toServer' = << >> /\ toClient' = << >>
  /\ sent' = 0 /\ resending' = TRUE
  /\ UNCHANGED <<pc, cmd, tries, got, shown, closes, server, ghosts>>
-----------------------------------------------------------------------------
(* read and parse *)

ReadSome(n) ==
  /\ pc = "read" /\ conn \in {"up", "fin"}
  /\ n <= BufSize /\ n <= Len(toClient)
  /\ got' = SubSeq(toClient, 1, n)
  /\ toClient' = SubSeq(toClient, n + 1, Len(toClient))
  /\ pc' = "parse"
  /\ split' = (split \/ n < Len(toClient))
  /\ UNCHANGED <<cmd, sent, resending, tries, shown, conn, toServer, closes, server, short>>

(* Mutant: the timeouts are not counted. *)
ReadTimesOutAlways ==
  /\ pc = "read" /\ conn = "up" /\ toClient = << >>
  /\ UNCHANGED vars

(* RCVTIMEO; after the third one cnt is still 0. *)
ReadTimesOut ==
  /\ pc = "read" /\ conn = "up" /\ toClient = << >>
  /\ tries' = tries + 1
  /\ pc' = IF tries' = MaxTries THEN "parse" ELSE "read"
  /\ got' = << >>
  /\ UNCHANGED <<cmd, sent, resending, shown, net, server, ghosts>>

ReadEOF ==
  /\ pc = "read" /\ conn = "fin" /\ toClient = << >>
  /\ got' = << >> /\ pc' = "parse"
  /\ UNCHANGED <<cmd, sent, resending, tries, shown, net, server, ghosts>>

(* Any other error leaves the loop with cnt = 0. *)
ReadFails ==
  /\ pc = "read" /\ conn = "rst"
  /\ got' = << >> /\ pc' = "parse"
  /\ UNCHANGED <<cmd, sent, resending, tries, shown, net, server, ghosts>>

(* Mutant: main prints the error and goes on, as it does for a bad command. *)
ParseReplyContinues ==
  /\ pc = "parse"
  /\ pc' = "prompt"
  /\ shown' = IF ParseOf(got).status = "ok" THEN ParseOf(got).reply ELSE shown
  /\ UNCHANGED <<cmd, sent, resending, tries, got, net, server, ghosts>>

(* Prints the reply and saves the history, or leaves main with the error. *)
ParseReply ==
  /\ pc = "parse"
  /\ IF ParseOf(got).status = "ok"
     THEN pc' = "prompt" /\ shown' = ParseOf(got).reply
     ELSE pc' = "exit" /\ shown' = shown
  /\ UNCHANGED <<cmd, sent, resending, tries, got, net, server, ghosts>>
-----------------------------------------------------------------------------
(* The server.  It goes on with what it has received after main has ended. *)

ServerExecutes ==
  /\ conn = "up" /\ toServer # << >> /\ Head(toServer).len = ReqLen
  /\ \E r \in Replies :
       /\ toClient' = toClient \o WireOf(r)
       /\ answers' = [answers EXCEPT ![Head(toServer).cmd] = r]
  /\ executed' = Append(executed, Head(toServer).cmd)
  /\ toServer' = Tail(toServer)
  /\ UNCHANGED <<main, conn, closes, ghosts>>

(***************************************************************************)
(* Half a request, with the bytes behind it taken for its rest: the server *)
(* answers something, and is then in step again, or has eaten the next     *)
(* block, or some of it.                                                   *)
(***************************************************************************)
ServerGarbles ==
  /\ conn = "up" /\ Len(toServer) > 1 /\ Head(toServer).len # ReqLen
  /\ LET rest == Tail(toServer)
     IN  toServer' \in {rest, Tail(rest), <<[Head(rest) EXCEPT !.len = 0]>> \o Tail(rest)}
  /\ \E r \in Replies : toClient' = toClient \o WireOf(r)
  /\ UNCHANGED <<main, conn, closes, server, ghosts>>

(* The server closes, or the connection is reset: only the first leaves what was sent readable. *)
ServerCloses ==
  /\ conn = "up" /\ closes < MaxCloses
  /\ conn' = "fin" /\ toServer' = << >> /\ closes' = closes + 1
  /\ UNCHANGED <<main, toClient, server, ghosts>>

ConnectionResets ==
  /\ conn \in {"up", "fin"} /\ closes < MaxCloses
  /\ conn' = "rst" /\ toServer' = << >> /\ toClient' = << >> /\ closes' = closes + 1
  /\ UNCHANGED <<main, server, ghosts>>
-----------------------------------------------------------------------------
Write == (\E n \in 1 .. ReqLen : WriteSome(n)) \/ WriteFails \/ Reconnect

Read ==
  \/ \E n \in 1 .. BufSize : ReadSome(n)
  \/ ReadTimesOut \/ ReadEOF \/ ReadFails

Server == ServerExecutes \/ ServerGarbles \/ ServerCloses \/ ConnectionResets

Next ==
  \/ Connect \/ ConnectFails \/ EnterCommand \/ EnterExit
  \/ Write \/ Read \/ ParseReply \/ Server

Spec == Init /\ [][Next]_vars

(***************************************************************************)
(* Every system call of the client returns: the first socket has timeouts, *)
(* and a later one is used only to write one small request.                *)
(***************************************************************************)
Fairness == WF_vars(Write) /\ WF_vars(Read) /\ WF_vars(ParseReply)
FairSpec == Spec /\ Fairness
-----------------------------------------------------------------------------
Blocks == [cmd : 1 .. MaxCmds, len : 0 .. ReqLen]

TypeOK ==
  /\ pc \in {"start", "prompt", "send", "read", "parse", "exit"}
  /\ cmd \in 0 .. MaxCmds /\ sent \in 0 .. 2 * ReqLen /\ resending \in BOOLEAN
  /\ tries \in 0 .. MaxTries
  /\ got \in Seq(STRING)
  /\ conn \in {"none", "up", "fin", "rst"}
  /\ toServer \in Seq(Blocks) /\ toClient \in Seq(STRING)
  /\ executed \in Seq(1 .. MaxCmds)
  /\ answers \in [1 .. MaxCmds -> Replies \cup {NoReply}]
  /\ closes \in 0 .. MaxCloses
  /\ short \in BOOLEAN /\ split \in BOOLEAN

(***************************************************************************)
(* However writes are cut, connections lost and requests resent (sendTo),  *)
(* the server executes no command twice.                                   *)
(***************************************************************************)
AtMostOnce ==
  \A i, j \in 1 .. Len(executed) : executed[i] = executed[j] => i = j

(***************************************************************************)
(* Back at the prompt every command typed so far has been executed, in the *)
(* order typed, and nothing of them is under way that the next command     *)
(* could take for its own (main, sendTo, read).  Late answers are no       *)
(* exception; short writes and split replies are.                          *)
(***************************************************************************)
StartsInSync ==
  pc = "prompt" /\ ~short /\ ~split =>
    /\ executed = [i \in 1 .. cmd |-> i]
    /\ toServer = << >> /\ toClient = << >>

(***************************************************************************)
(* What the prompt prints for a command is the server's reply to it, under *)
(* the same condition.                                                     *)
(***************************************************************************)
ShownIsTheAnswer ==
  pc = "prompt" /\ cmd > 0 /\ ~short /\ ~split => shown = answers[cmd]

(***************************************************************************)
(* A command that was typed is answered or ends the program, whatever the  *)
(* server does (sendTo, read).                                             *)
(***************************************************************************)
AnswersOrExits == pc = "send" ~> pc \in {"prompt", "exit"}
=============================================================================
