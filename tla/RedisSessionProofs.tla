------------------------- MODULE RedisSessionProofs -------------------------
(***************************************************************************)
(* Theorems about RedisSession: types, that no command is executed twice,  *)
(* and that the prompt shows each command its own reply.                   *)
(***************************************************************************)
EXTENDS RedisSession, SequenceTheorems, TLAPS

(* Whole requests among the executed and the blocks belong to different commands up to c. *)
Once(ex, blocks, c) ==
  /\ \A i, j \in 1 .. Len(ex) : ex[i] = ex[j] => i = j
  /\ \A i \in 1 .. Len(ex) : ex[i] <= c
  /\ \A k \in 1 .. Len(blocks) : blocks[k].cmd <= c
  /\ \A k \in 1 .. Len(blocks), i \in 1 .. Len(ex) :
       blocks[k].len = ReqLen => ex[i] # blocks[k].cmd
  /\ \A k, l \in 1 .. Len(blocks) :
       /\ blocks[k].len = ReqLen /\ blocks[l].len = ReqLen
       /\ blocks[k].cmd = blocks[l].cmd
       => k = l

(* No whole copy of command c has left. *)
Unsent(ex, blocks, c) ==
  /\ \A k \in 1 .. Len(blocks) : blocks[k].cmd = c => blocks[k].len # ReqLen
  /\ \A i \in 1 .. Len(ex) : ex[i] # c

OnceInv == Once(executed, toServer, cmd)

SendInv ==
  pc = "send" => cmd > 0 /\ sent < ReqLen /\ Unsent(executed, toServer, cmd)

AllExecuted(n) == executed = [i \in 1 .. n |-> i]
NothingSent == toServer = << >> /\ toClient = << >>
OwnReply(bytes) == answers[cmd] \in Replies /\ bytes = WireOf(answers[cmd])

(* What is under way in each state of main, without short writes and split replies. *)
SyncInv ==
  ~short /\ ~split =>
    /\ pc \in {"start", "prompt"} => AllExecuted(cmd) /\ NothingSent
    /\ pc = "send" => AllExecuted(cmd - 1) /\ NothingSent /\ sent = 0
    /\ pc = "read" =>
         /\ cmd > 0
         /\ \/ /\ AllExecuted(cmd - 1) /\ toClient = << >>
               /\ toServer = << >> \/ toServer = <<Block(ReqLen)>>
            \/ /\ AllExecuted(cmd) /\ toServer = << >>
               /\ toClient = << >> \/ OwnReply(toClient)
    /\ pc = "parse" =>
         /\ cmd > 0
         /\ got = << >> \/ (OwnReply(got) /\ AllExecuted(cmd) /\ NothingSent)
    /\ pc = "prompt" /\ cmd > 0 => shown = answers[cmd]

(* Where main's counters are. *)
MainInv == (pc = "start" => cmd = 0) /\ (pc = "read" => tries < MaxTries)

Inv == TypeOK /\ MainInv /\ OnceInv /\ SendInv /\ SyncInv

USE DEF MaxTries
-----------------------------------------------------------------------------
(* Executing one more command in order. *)
LEMMA ExecutedAppend ==
  ASSUME NEW n \in Nat
  PROVE  Append([i \in 1 .. n |-> i], n + 1) = [i \in 1 .. n + 1 |-> i]
  OBVIOUS

(* The first and the remaining blocks. *)
LEMMA BlocksFacts ==
  ASSUME NEW s \in Seq(Blocks), s # << >>
  PROVE  /\ Head(s) \in Blocks /\ Head(s) = s[1] /\ Tail(s) \in Seq(Blocks)
         /\ Len(s) > 0 /\ Len(Tail(s)) = Len(s) - 1
         /\ \A k \in 1 .. Len(Tail(s)) : Tail(s)[k] = s[k + 1]
  BY HeadTailProperties

(* What is left of a block the server has eaten some of. *)
LEMMA EatenBlock ==
  ASSUME NEW b \in Blocks
  PROVE  /\ [b EXCEPT !.len = 0] \in Blocks
         /\ [b EXCEPT !.len = 0].len = 0 /\ [b EXCEPT !.len = 0].cmd = b.cmd
<1>1. b = [cmd |-> b.cmd, len |-> b.len] /\ b.cmd \in 1 .. MaxCmds
  BY DEF Blocks
<1>2. [b EXCEPT !.len = 0] = [cmd |-> b.cmd, len |-> 0]
  BY DEF Blocks
<1> QED
  BY <1>1, <1>2, LengthAssumption DEF Blocks

(* The types are kept. *)
LEMMA TypeStep == TypeOK /\ MainInv /\ SendInv /\ [Next]_vars => TypeOK' /\ MainInv'
<1> SUFFICES ASSUME TypeOK, MainInv, SendInv, [Next]_vars PROVE TypeOK' /\ MainInv'
  OBVIOUS
<1> USE LengthAssumption, BoundAssumption DEF TypeOK, MainInv
<1>1. CASE Connect
  BY <1>1 DEF Connect, server, ghosts
<1>2. CASE ConnectFails
  BY <1>2 DEF ConnectFails, server, ghosts, net
<1>3. CASE EnterCommand
  BY <1>3 DEF EnterCommand, server, ghosts, net
<1>4. CASE EnterExit
  BY <1>4 DEF EnterExit, server, ghosts, net
<1>5. ASSUME NEW n \in 1 .. ReqLen, WriteSome(n) PROVE TypeOK' /\ MainInv'
  <2>1. Block(n) \in Blocks
    BY <1>5 DEF WriteSome, SendInv, Block, Blocks
  <2>2. toServer' \in Seq(Blocks) /\ toClient' \in Seq(STRING)
    <3>1. Append(toServer, Block(n)) \in Seq(Blocks)
      BY <2>1
    <3>2. << >> \in Seq(STRING)
      OBVIOUS
    <3> QED
      BY <1>5, <3>1, <3>2 DEF WriteSome
  <2> QED
    BY <1>5, <2>2 DEF WriteSome, SendInv, SendLoop, SendReturns, server
<1>6. CASE WriteFails
  BY <1>6 DEF WriteFails, server, ghosts, net
<1>7. CASE Reconnect
  BY <1>7 DEF Reconnect, server, ghosts
<1>8. ASSUME NEW n \in 1 .. BufSize, ReadSome(n) PROVE TypeOK' /\ MainInv'
  <2>1. got' \in Seq(STRING) /\ toClient' \in Seq(STRING)
    BY <1>8 DEF ReadSome
  <2> QED
    BY <1>8, <2>1 DEF ReadSome, server
<1>9. CASE ReadTimesOut
  BY <1>9 DEF ReadTimesOut, server, ghosts, net
<1>10. CASE ReadEOF
  BY <1>10 DEF ReadEOF, server, ghosts, net
<1>11. CASE ReadFails
  BY <1>11 DEF ReadFails, server, ghosts, net
<1>12. CASE ParseReply
  BY <1>12 DEF ParseReply, server, ghosts, net
<1>13. CASE ServerExecutes
  <2>1. PICK r \in Replies :
          /\ toClient' = toClient \o WireOf(r)
          /\ answers' = [answers EXCEPT ![Head(toServer).cmd] = r]
    BY <1>13 DEF ServerExecutes
  <2>2. toServer # << >> /\ Head(toServer).cmd \in 1 .. MaxCmds /\ Tail(toServer) \in Seq(Blocks)
    BY <1>13, BlocksFacts DEF ServerExecutes, Blocks
  <2>3. WireOf(r) \in Seq(STRING)
    BY ReplyAssumption
  <2>4. toClient' \in Seq(STRING)
    BY <2>1, <2>3
  <2>5. executed' \in Seq(1 .. MaxCmds)
    BY <1>13, <2>2 DEF ServerExecutes
  <2>6. answers' \in [1 .. MaxCmds -> Replies \cup {NoReply}]
    BY <2>1, <2>2
  <2> QED
    BY <1>13, <2>2, <2>4, <2>5, <2>6 DEF ServerExecutes, main, ghosts
<1>14. CASE ServerGarbles
  <2> DEFINE rest == Tail(toServer)
  <2>1. rest \in Seq(Blocks) /\ rest # << >> /\ Head(rest) \in Blocks /\ Tail(rest) \in Seq(Blocks)
    <3>1. toServer # << >> /\ Len(toServer) > 1
      BY <1>14 DEF ServerGarbles
    <3>2. rest \in Seq(Blocks) /\ Len(rest) > 0
      BY <3>1, BlocksFacts
    <3>3. rest # << >>
      <4> HIDE DEF rest
      <4> QED
        BY <3>2
    <3> QED
      BY <3>2, <3>3, BlocksFacts
  <2>2. <<[Head(rest) EXCEPT !.len = 0]>> \o Tail(rest) \in Seq(Blocks)
    <3>1. [Head(rest) EXCEPT !.len = 0] \in Blocks
      BY <2>1, EatenBlock
    <3> HIDE DEF rest
    <3> QED
      BY <2>1, <3>1
  <2>3. toServer' \in Seq(Blocks)
    <3>1. toServer' \in {rest, Tail(rest), <<[Head(rest) EXCEPT !.len = 0]>> \o Tail(rest)}
      BY <1>14 DEF ServerGarbles
    <3> HIDE DEF rest
    <3> QED
      BY <2>1, <2>2, <3>1
  <2>4. toClient' \in Seq(STRING)
    BY <1>14, ReplyAssumption DEF ServerGarbles
  <2> QED
    BY <1>14, <2>3, <2>4 DEF ServerGarbles, main, server, ghosts
<1>15. CASE ServerCloses
  BY <1>15 DEF ServerCloses, main, server, ghosts
<1>16. CASE ConnectionResets
  BY <1>16 DEF ConnectionResets, main, server, ghosts
<1>17. CASE UNCHANGED vars
  BY <1>17 DEF vars, main, net, server, ghosts
<1> QED
  BY <1>1, <1>2, <1>3, <1>4, <1>5, <1>6, <1>7, <1>8, <1>9, <1>10, <1>11, <1>12, <1>13,
     <1>14, <1>15, <1>16, <1>17 DEF Next, Write, Read, Server

(* A new command. *)
LEMMA OnceNew ==
  ASSUME NEW ex \in Seq(Nat), NEW blocks \in Seq(Blocks), NEW c \in Nat, Once(ex, blocks, c)
  PROVE  Once(ex, blocks, c + 1) /\ Unsent(ex, blocks, c + 1)
<1>1. \A i \in 1 .. Len(ex) : ex[i] \in Nat
  OBVIOUS
<1>2. ASSUME NEW k \in 1 .. Len(blocks) PROVE blocks[k].cmd \in Nat
  <2>1. blocks[k] \in Blocks
    OBVIOUS
  <2> QED
    BY <2>1, BoundAssumption DEF Blocks
<1>3. \A k \in 1 .. Len(blocks) : blocks[k].cmd <= c
  BY DEF Once
<1>4. \A i \in 1 .. Len(ex) : ex[i] <= c
  BY DEF Once
<1>5. Unsent(ex, blocks, c + 1)
  <2>1. \A i \in 1 .. Len(ex) : ex[i] # c + 1
    BY <1>1, <1>4
  <2>2. \A k \in 1 .. Len(blocks) : blocks[k].cmd # c + 1
    BY <1>2, <1>3
  <2> QED
    BY <2>1, <2>2 DEF Unsent
<1>6. Once(ex, blocks, c + 1)
  <2>1. \A i \in 1 .. Len(ex) : ex[i] <= c + 1
    BY <1>1, <1>4
  <2>2. \A k \in 1 .. Len(blocks) : blocks[k].cmd <= c + 1
    BY <1>2, <1>3
  <2> QED
    BY <2>1, <2>2 DEF Once
<1> QED
  BY <1>5, <1>6

(* A write. *)
LEMMA OnceWrite ==
  ASSUME NEW ex \in Seq(Nat), NEW blocks \in Seq(Blocks), NEW c \in Nat,
         Once(ex, blocks, c), Unsent(ex, blocks, c), NEW b \in Blocks, b.cmd = c
  PROVE  /\ Once(ex, Append(blocks, b), c)
         /\ b.len # ReqLen => Unsent(ex, Append(blocks, b), c)
<1> DEFINE s == Append(blocks, b)
<1>1. /\ Len(s) = Len(blocks) + 1 /\ s[Len(blocks) + 1] = b
      /\ \A k \in 1 .. Len(blocks) : s[k] = blocks[k]
  OBVIOUS
<1>2. \A k \in 1 .. Len(s) : k \in 1 .. Len(blocks) \/ k = Len(blocks) + 1
  BY <1>1
<1> HIDE DEF s
<1>3. Once(ex, s, c)
  <2>1. ASSUME NEW k \in 1 .. Len(s) PROVE s[k].cmd <= c
    <3>1. CASE k \in 1 .. Len(blocks)
      BY <1>1, <3>1 DEF Once
    <3>2. CASE k = Len(blocks) + 1
      BY <1>1, <3>2
    <3> QED
      BY <1>2, <3>1, <3>2
  <2>2. \A k \in 1 .. Len(s), i \in 1 .. Len(ex) : s[k].len = ReqLen => ex[i] # s[k].cmd
    BY <1>1, <1>2 DEF Once, Unsent
  <2>3. ASSUME NEW k \in 1 .. Len(s), NEW l \in 1 .. Len(s), s[k].len = ReqLen, s[l].len = ReqLen,
               s[k].cmd = s[l].cmd
        PROVE  k = l
    <3>1. CASE k \in 1 .. Len(blocks) /\ l \in 1 .. Len(blocks)
      BY <1>1, <2>3, <3>1 DEF Once
    <3>2. CASE k \in 1 .. Len(blocks) /\ l = Len(blocks) + 1
      BY <1>1, <2>3, <3>2 DEF Unsent
    <3>3. CASE k = Len(blocks) + 1 /\ l \in 1 .. Len(blocks)
      BY <1>1, <2>3, <3>3 DEF Unsent
    <3> QED
      BY <1>2, <3>1, <3>2, <3>3
  <2> QED
    BY <2>1, <2>2, <2>3 DEF Once
<1>4. b.len # ReqLen => Unsent(ex, s, c)
  BY <1>1, <1>2 DEF Unsent
<1> QED
  BY <1>3, <1>4 DEF s

(* The server drops the first d blocks, and may spoil what is left. *)
LEMMA OnceDrop ==
  ASSUME NEW ex \in Seq(Nat), NEW blocks \in Seq(Blocks), NEW c \in Nat, Once(ex, blocks, c),
         NEW left \in Seq(Blocks), NEW d \in Nat,
         \A k \in 1 .. Len(left) :
           /\ k + d \in 1 .. Len(blocks) /\ left[k].cmd = blocks[k + d].cmd
           /\ left[k].len = ReqLen => blocks[k + d].len = ReqLen
  PROVE  /\ Once(ex, left, c)
         /\ Unsent(ex, blocks, c) => Unsent(ex, left, c)
<1>1. \A k, l \in 1 .. Len(left) : k + d = l + d => k = l
  OBVIOUS
<1>2. Once(ex, left, c)
  <2>1. \A k \in 1 .. Len(left) : left[k].cmd <= c
    BY DEF Once
  <2>2. \A k \in 1 .. Len(left), i \in 1 .. Len(ex) :
          left[k].len = ReqLen => ex[i] # left[k].cmd
    BY DEF Once
  <2>3. ASSUME NEW k \in 1 .. Len(left), NEW l \in 1 .. Len(left),
               left[k].len = ReqLen, left[l].len = ReqLen, left[k].cmd = left[l].cmd
        PROVE  k = l
    <3>1. k + d = l + d
      BY <2>3 DEF Once
    <3> QED BY <1>1, <3>1
  <2> QED BY <2>1, <2>2, <2>3 DEF Once
<1>3. Unsent(ex, blocks, c) => Unsent(ex, left, c)
  BY DEF Unsent
<1> QED
  BY <1>2, <1>3

(* The server executes the first block. *)
LEMMA OnceExecute ==
  ASSUME NEW ex \in Seq(Nat), NEW blocks \in Seq(Blocks), NEW c \in Nat, Once(ex, blocks, c),
         blocks # << >>, Head(blocks).len = ReqLen
  PROVE  /\ Once(Append(ex, Head(blocks).cmd), Tail(blocks), c)
         /\ Unsent(ex, blocks, c) => Unsent(Append(ex, Head(blocks).cmd), Tail(blocks), c)
<1> DEFINE left == Tail(blocks)
           h == Head(blocks).cmd
           e == Append(ex, h)
<1>1. /\ left \in Seq(Blocks) /\ Len(blocks) > 0 /\ Len(left) = Len(blocks) - 1
      /\ \A k \in 1 .. Len(left) : left[k] = blocks[k + 1]
  BY BlocksFacts
<1>2. h = blocks[1].cmd /\ blocks[1].len = ReqLen /\ h \in Nat
  <2>1. Head(blocks) \in Blocks /\ Head(blocks) = blocks[1]
    BY BlocksFacts
  <2>2. Head(blocks).cmd \in Nat
    BY <2>1, BoundAssumption DEF Blocks
  <2> QED
    BY <2>1, <2>2
<1> HIDE DEF left, h
<1>3. \A k \in 1 .. Len(left) : k + 1 \in 1 .. Len(blocks) /\ left[k] = blocks[k + 1]
  BY <1>1
<1>4. /\ Once(ex, left, c)
      /\ Unsent(ex, blocks, c) => Unsent(ex, left, c)
  <2>1. \A k \in 1 .. Len(left) :
          /\ k + 1 \in 1 .. Len(blocks) /\ left[k].cmd = blocks[k + 1].cmd
          /\ left[k].len = ReqLen => blocks[k + 1].len = ReqLen
    BY <1>3
  <2>2. 1 \in Nat
    OBVIOUS
  <2> QED
    BY <1>1, <2>1, <2>2, OnceDrop
<1>5. /\ Len(e) = Len(ex) + 1 /\ e[Len(ex) + 1] = h
      /\ \A i \in 1 .. Len(ex) : e[i] = ex[i]
  BY <1>2
<1>6. \A i \in 1 .. Len(e) : i \in 1 .. Len(ex) \/ i = Len(ex) + 1
  BY <1>5
<1> HIDE DEF e
<1>7. 1 \in 1 .. Len(blocks)
  BY <1>1
<1>8. \A i \in 1 .. Len(ex) : ex[i] # h
  BY <1>2, <1>7 DEF Once
<1>9. \A k \in 1 .. Len(left) : left[k].len = ReqLen => left[k].cmd # h
  BY <1>2, <1>3, <1>7 DEF Once
<1>10. h <= c
  BY <1>2, <1>7 DEF Once
<1>11. Once(e, left, c)
  <2>1. ASSUME NEW i \in 1 .. Len(e), NEW j \in 1 .. Len(e), e[i] = e[j] PROVE i = j
    <3>1. CASE i \in 1 .. Len(ex) /\ j \in 1 .. Len(ex)
      BY <1>5, <2>1, <3>1 DEF Once
    <3>2. CASE i \in 1 .. Len(ex) /\ j = Len(ex) + 1
      BY <1>5, <1>8, <2>1, <3>2
    <3>3. CASE i = Len(ex) + 1 /\ j \in 1 .. Len(ex)
      BY <1>5, <1>8, <2>1, <3>3
    <3> QED
      BY <1>6, <3>1, <3>2, <3>3
  <2>2. \A i \in 1 .. Len(e) : e[i] <= c
    BY <1>5, <1>6, <1>10 DEF Once
  <2>3. \A k \in 1 .. Len(left), i \in 1 .. Len(e) : left[k].len = ReqLen => e[i] # left[k].cmd
    BY <1>4, <1>5, <1>6, <1>9 DEF Once
  <2> QED
    BY <1>4, <2>1, <2>2, <2>3 DEF Once
<1>12. Unsent(ex, blocks, c) => Unsent(e, left, c)
  BY <1>2, <1>4, <1>5, <1>6, <1>7 DEF Unsent
<1> QED
  BY <1>11, <1>12 DEF e, left, h

(* No command gets a second chance to be executed. *)
LEMMA OnceStep ==
  TypeOK /\ MainInv /\ OnceInv /\ SendInv /\ [Next]_vars => OnceInv' /\ SendInv'
<1> SUFFICES ASSUME TypeOK, MainInv, OnceInv, SendInv, [Next]_vars PROVE OnceInv' /\ SendInv'
  OBVIOUS
<1>0. executed \in Seq(Nat) /\ toServer \in Seq(Blocks) /\ cmd \in Nat /\ Once(executed, toServer, cmd)
  <2>1. 1 .. MaxCmds \subseteq Nat
    BY BoundAssumption
  <2> QED
    BY <2>1, BoundAssumption DEF TypeOK, OnceInv
<1>1. CASE UNCHANGED <<toServer, executed, cmd>> /\ pc' # "send"
  BY <1>1 DEF OnceInv, SendInv
<1>2. CASE UNCHANGED <<toServer, executed, cmd, pc, sent>>
  BY <1>2 DEF OnceInv, SendInv
<1>3. ASSUME toServer' = << >>, UNCHANGED <<executed, cmd, pc>>, UNCHANGED sent \/ sent' = 0
      PROVE  OnceInv' /\ SendInv'
  <2>1. << >> \in Seq(Blocks) /\ Len(<< >>) = 0
    OBVIOUS
  <2>2. Once(executed, << >>, cmd) /\ (Unsent(executed, toServer, cmd) => Unsent(executed, << >>, cmd))
    BY <1>0, <2>1 DEF Once, Unsent
  <2> QED
    BY <1>3, <2>2, LengthAssumption DEF OnceInv, SendInv
<1>4. CASE EnterCommand
  <2>1. Once(executed, toServer, cmd + 1) /\ Unsent(executed, toServer, cmd + 1)
    BY <1>0, OnceNew
  <2> QED
    BY <1>0, <1>4, <2>1, LengthAssumption DEF EnterCommand, server, net, OnceInv, SendInv
<1>5. ASSUME NEW n \in 1 .. ReqLen, WriteSome(n) PROVE OnceInv' /\ SendInv'
  <2>1. pc = "send" /\ sent \in Nat /\ cmd > 0 /\ Unsent(executed, toServer, cmd)
    BY <1>5, LengthAssumption DEF WriteSome, SendInv, TypeOK
  <2>2. executed' = executed /\ cmd' = cmd /\ sent' = sent + n
    BY <1>5 DEF WriteSome, server
  <2>3. pc' = "send" => n # ReqLen /\ sent' < ReqLen
    BY <1>5, <2>1, LengthAssumption DEF WriteSome, SendLoop, SendReturns
  <2>4. CASE conn = "up"
    <3>1. Block(n) \in Blocks /\ Block(n).cmd = cmd /\ Block(n).len = n
      BY <1>5, <2>1, LengthAssumption DEF TypeOK, Block, Blocks
    <3>2. /\ Once(executed, Append(toServer, Block(n)), cmd)
          /\ n # ReqLen => Unsent(executed, Append(toServer, Block(n)), cmd)
      BY <1>0, <2>1, <3>1, OnceWrite
    <3>3. toServer' = Append(toServer, Block(n))
      BY <1>5, <2>4 DEF WriteSome
    <3> QED
      BY <2>1, <2>2, <2>3, <3>2, <3>3 DEF OnceInv, SendInv
  <2>5. CASE conn # "up"
    <3>1. toServer' = toServer
      BY <1>5, <2>5 DEF WriteSome
    <3> QED
      BY <1>0, <2>1, <2>2, <2>3, <3>1 DEF OnceInv, SendInv
  <2> QED
    BY <2>4, <2>5
<1>6. CASE ServerExecutes
  <2>1. /\ toServer # << >> /\ Head(toServer).len = ReqLen
        /\ toServer' = Tail(toServer) /\ executed' = Append(executed, Head(toServer).cmd)
        /\ UNCHANGED <<cmd, pc, sent>>
    BY <1>6 DEF ServerExecutes, main
  <2>2. /\ Once(executed', toServer', cmd)
        /\ Unsent(executed, toServer, cmd) => Unsent(executed', toServer', cmd)
    BY <1>0, <2>1, OnceExecute
  <2> QED
    BY <2>1, <2>2 DEF OnceInv, SendInv
<1>7. CASE ServerGarbles
  <2> DEFINE rest == Tail(toServer)
  <2>1. toServer # << >> /\ Len(toServer) > 1
    BY <1>0, <1>7 DEF ServerGarbles
  <2>2. /\ rest \in Seq(Blocks) /\ Len(rest) = Len(toServer) - 1
        /\ \A k \in 1 .. Len(rest) : rest[k] = toServer[k + 1]
    BY <1>0, <2>1, BlocksFacts
  <2>3. toServer' \in {rest, Tail(rest), <<[Head(rest) EXCEPT !.len = 0]>> \o Tail(rest)}
    BY <1>7 DEF ServerGarbles
  <2>4. UNCHANGED <<executed, cmd, pc, sent>>
    BY <1>7 DEF ServerGarbles, main, server
  <2> HIDE DEF rest
  <2>5. rest # << >>
    BY <2>1, <2>2
  <2>6. /\ Head(rest) = rest[1] /\ Head(rest) \in Blocks /\ Tail(rest) \in Seq(Blocks)
        /\ Len(rest) > 0 /\ Len(Tail(rest)) = Len(rest) - 1
        /\ \A k \in 1 .. Len(Tail(rest)) : Tail(rest)[k] = rest[k + 1]
    BY <2>2, <2>5, BlocksFacts
  <2>7. ASSUME NEW d \in Nat, NEW left \in Seq(Blocks), toServer' = left,
               \A k \in 1 .. Len(left) :
                 /\ k + d \in 1 .. Len(toServer) /\ left[k].cmd = toServer[k + d].cmd
                 /\ left[k].len = ReqLen => toServer[k + d].len = ReqLen
        PROVE  OnceInv' /\ SendInv'
    <3>1. /\ Once(executed, left, cmd)
          /\ Unsent(executed, toServer, cmd) => Unsent(executed, left, cmd)
      BY <1>0, <2>7, OnceDrop
    <3> QED
      BY <2>4, <2>7, <3>1 DEF OnceInv, SendInv
  <2>8. CASE toServer' = rest
    <3>1. \A k \in 1 .. Len(rest) : k + 1 \in 1 .. Len(toServer) /\ rest[k] = toServer[k + 1]
      BY <1>0, <2>2
    <3> QED
      BY <2>2, <2>7, <2>8, <3>1
  <2>9. CASE toServer' = Tail(rest)
    <3>1. \A k \in 1 .. Len(Tail(rest)) :
            k + 2 \in 1 .. Len(toServer) /\ Tail(rest)[k] = toServer[k + 2]
      BY <1>0, <2>2, <2>6
    <3> QED
      BY <2>6, <2>7, <2>9, <3>1
  <2>10. CASE toServer' = <<[Head(rest) EXCEPT !.len = 0]>> \o Tail(rest)
    <3> DEFINE eaten == [Head(rest) EXCEPT !.len = 0]
               left == <<eaten>> \o Tail(rest)
    <3>1. eaten \in Blocks /\ eaten.len # ReqLen /\ eaten.cmd = rest[1].cmd
      BY <2>6, EatenBlock, LengthAssumption
    <3> HIDE DEF eaten
    <3>2. left \in Seq(Blocks) /\ Len(left) = Len(rest) /\ left[1] = eaten
      BY <2>2, <2>6, <3>1
    <3>3. \A k \in 1 .. Len(Tail(rest)) : left[k + 1] = Tail(rest)[k]
      BY <2>2, <2>6, <3>1
    <3> HIDE DEF left
    <3>4. \A k \in 1 .. Len(left) :
            /\ k + 1 \in 1 .. Len(toServer) /\ left[k].cmd = toServer[k + 1].cmd
            /\ left[k].len = ReqLen => toServer[k + 1].len = ReqLen
      <4> SUFFICES ASSUME NEW k \in 1 .. Len(left)
                   PROVE  /\ k + 1 \in 1 .. Len(toServer) /\ left[k].cmd = toServer[k + 1].cmd
                          /\ left[k].len = ReqLen => toServer[k + 1].len = ReqLen
        OBVIOUS
      <4>1. k \in 1 .. Len(rest) /\ k + 1 \in 1 .. Len(toServer) /\ rest[k] = toServer[k + 1]
        BY <1>0, <2>2, <3>2
      <4>2. CASE k = 1
        BY <3>1, <3>2, <4>1, <4>2
      <4>3. CASE k # 1
        <5>1. k - 1 \in 1 .. Len(Tail(rest)) /\ (k - 1) + 1 = k
          BY <2>2, <2>6, <4>1, <4>3
        <5>2. left[k] = rest[k]
          BY <2>6, <3>3, <5>1
        <5> QED
          BY <4>1, <5>2
      <4> QED
        BY <4>2, <4>3
    <3>5. toServer' = left
      BY <2>10 DEF left, eaten
    <3> QED
      BY <2>7, <3>2, <3>4, <3>5
  <2> QED
    BY <2>3, <2>8, <2>9, <2>10
<1> QED
  BY <1>1, <1>2, <1>3, <1>4, <1>5, <1>6, <1>7
     DEF Next, Write, Read, Server, Connect, ConnectFails, EnterExit, WriteFails, Reconnect, ReadSome,
         ReadTimesOut, ReadEOF, ReadFails, ParseReply, ServerCloses, ConnectionResets, vars, main, net, server

(* Each command gets its own reply, unless a write was short or a reply was split. *)
LEMMA SyncStep ==
  Inv /\ [Next]_vars => SyncInv'
<1> SUFFICES ASSUME TypeOK, MainInv, OnceInv, SendInv, SyncInv, [Next]_vars, ~short', ~split'
             PROVE  SyncInv'
  BY DEF Inv, SyncInv
<1>0. ~short /\ ~split /\ cmd \in Nat /\ sent \in Nat
  BY BoundAssumption, LengthAssumption
     DEF TypeOK, Next, Write, Read, Server, Connect, ConnectFails, EnterCommand, EnterExit, WriteSome,
         WriteFails, Reconnect, ReadSome, ReadTimesOut, ReadEOF, ReadFails, ParseReply, ServerExecutes,
         ServerGarbles, ServerCloses, ConnectionResets, vars, ghosts
<1> USE <1>0 DEF SyncInv, AllExecuted, NothingSent, OwnReply
<1>1. CASE Connect
  BY <1>1 DEF Connect, server, MainInv
<1>2. CASE pc' = "exit"
  BY <1>2
<1>3. CASE EnterCommand
  BY <1>3 DEF EnterCommand, server, net
<1>4. ASSUME NEW n \in 1 .. ReqLen, WriteSome(n) PROVE SyncInv'
  <2>1. n = ReqLen /\ pc = "send" /\ sent = 0 /\ cmd > 0
    <3>1. ~(n < ReqLen)
      BY <1>4, Zenon DEF WriteSome
    <3> QED
      BY <1>4, <3>1, LengthAssumption DEF WriteSome, SendInv
  <2>2. /\ AllExecuted(cmd - 1) /\ toServer = << >> /\ toClient' = << >>
        /\ executed' = executed /\ answers' = answers /\ cmd' = cmd
        /\ pc' \in {"read", "exit"}
    BY <1>4, <2>1, LengthAssumption DEF WriteSome, SendLoop, SendReturns, server
  <2>3. toServer' = << >> \/ toServer' = <<Block(ReqLen)>>
    BY <1>4, <2>1, <2>2 DEF WriteSome
  <2>4. Block(ReqLen)' = Block(ReqLen)
    BY <2>2 DEF Block
  <2> QED
    BY <2>1, <2>2, <2>3, <2>4
<1>5. CASE Reconnect
  BY <1>5 DEF Reconnect, server
<1>6. ASSUME NEW n \in 1 .. BufSize, ReadSome(n) PROVE SyncInv'
  <2>1. /\ toClient \in Seq(STRING) /\ n = Len(toClient) /\ Len(toClient) > 0 /\ pc = "read" /\ pc' = "parse"
        /\ toServer' = toServer /\ executed' = executed /\ answers' = answers /\ cmd' = cmd
    <3>1. ~(n < Len(toClient))
      BY <1>6, Zenon DEF ReadSome
    <3> QED
      BY <1>6, <3>1, LengthAssumption DEF ReadSome, TypeOK, server
  <2>2. got' = toClient /\ toClient' = << >>
    BY <1>6, <2>1 DEF ReadSome
  <2>3. toClient # << >>
    BY <2>1
  <2> QED
    BY <2>1, <2>2, <2>3
<1>7. CASE ReadTimesOut
  <2>1. CASE pc' = "read"
    BY <1>7, <2>1 DEF ReadTimesOut, net, server, Block
  <2>2. CASE pc' = "parse"
    BY <1>7, <2>2 DEF ReadTimesOut, net, server
  <2> QED
    BY <1>7, <2>1, <2>2 DEF ReadTimesOut
<1>8. CASE ReadEOF \/ ReadFails
  BY <1>8 DEF ReadEOF, ReadFails, net, server
<1>9. CASE ParseReply
  <2>1. CASE got = << >>
    BY <1>9, <2>1, ReplyAssumption DEF ParseReply
  <2>2. CASE got # << >>
    <3>1. pc = "parse" /\ OwnReply(got) /\ AllExecuted(cmd) /\ NothingSent
      BY <1>9, <2>2 DEF ParseReply
    <3>2. ParseOf(got).status = "ok" /\ ParseOf(got).reply = answers[cmd]
      BY <3>1, ReplyAssumption
    <3> QED
      BY <1>9, <3>1, <3>2 DEF ParseReply, net, server
  <2> QED
    BY <2>1, <2>2
<1>10. CASE ServerExecutes
  <2>1. toServer # << >> /\ UNCHANGED <<pc, cmd, sent, got, shown>>
    BY <1>10 DEF ServerExecutes, main
  <2>2. pc \in {"read", "parse", "exit"}
    BY <2>1 DEF TypeOK
  <2>3. CASE pc = "read"
    <3>1. AllExecuted(cmd - 1) /\ toClient = << >> /\ toServer = <<Block(ReqLen)>> /\ cmd > 0
      BY <2>1, <2>3
    <3>2. Head(toServer).cmd = cmd /\ toServer' = << >>
      BY <1>10, <3>1 DEF ServerExecutes, Block
    <3>3. PICK r \in Replies :
            /\ toClient' = toClient \o WireOf(r)
            /\ answers' = [answers EXCEPT ![Head(toServer).cmd] = r]
      BY <1>10 DEF ServerExecutes
    <3>4. WireOf(r) \in Seq(STRING)
      BY ReplyAssumption
    <3>5. toClient' = WireOf(r)
      BY <3>1, <3>3, <3>4
    <3>6. answers'[cmd] = r
      BY <3>1, <3>2, <3>3, BoundAssumption DEF TypeOK
    <3>7. executed' = [i \in 1 .. cmd |-> i]
      <4>1. cmd - 1 \in Nat /\ (cmd - 1) + 1 = cmd
        BY <3>1
      <4>2. executed' = Append([i \in 1 .. cmd - 1 |-> i], cmd)
        BY <1>10, <3>1, <3>2 DEF ServerExecutes
      <4> QED
        BY <4>1, <4>2, ExecutedAppend
    <3> QED
      BY <2>1, <2>3, <3>1, <3>2, <3>3, <3>5, <3>6, <3>7
  <2>4. CASE pc = "parse"
    BY <2>1, <2>4
  <2>5. CASE pc = "exit"
    BY <2>1, <2>5
  <2> QED
    BY <2>2, <2>3, <2>4, <2>5
<1>11. CASE ServerGarbles
  <2>1. toServer # << >> /\ Len(toServer) > 1 /\ UNCHANGED <<pc, cmd, got>>
    BY <1>11 DEF ServerGarbles, main, TypeOK
  <2>2. pc \in {"parse", "exit"}
    <3>1. Len(<<Block(ReqLen)>>) = 1
      OBVIOUS
    <3>2. ASSUME toServer = <<Block(ReqLen)>> PROVE FALSE
      <4>1. Len(toServer) = 1
        BY <3>1, <3>2, Zenon
      <4> QED
        BY <2>1, <4>1
    <3> QED
      BY <2>1, <3>2 DEF TypeOK
  <2> QED
    BY <2>1, <2>2
<1>12. CASE ServerCloses
  BY <1>12 DEF ServerCloses, main, server, Block
<1>13. CASE ConnectionResets
  BY <1>13 DEF ConnectionResets, main, server
<1>14. CASE UNCHANGED vars
  BY <1>14 DEF vars, main, net, server, Block
<1> QED
  BY <1>1, <1>2, <1>3, <1>4, <1>5, <1>6, <1>7, <1>8, <1>9, <1>10, <1>11, <1>12, <1>13, <1>14
     DEF Next, Write, Read, Server, ConnectFails, EnterExit, WriteFails
-----------------------------------------------------------------------------
LEMMA InvHolds == Spec => []Inv
<1>1. Init => Inv
  <2> SUFFICES ASSUME Init PROVE Inv
    OBVIOUS
  <2>1. TypeOK /\ MainInv
    <3>1. /\ << >> \in Seq(STRING) /\ << >> \in Seq(Blocks) /\ << >> \in Seq(1 .. MaxCmds)
          /\ 0 \in 0 .. MaxCmds /\ 0 \in 0 .. 2 * ReqLen /\ 0 \in 0 .. MaxTries /\ 0 \in 0 .. MaxCloses
          /\ 0 < MaxTries
      BY LengthAssumption, BoundAssumption
    <3>2. answers \in [1 .. MaxCmds -> Replies \cup {NoReply}]
      BY DEF Init
    <3> QED
      BY <3>1, <3>2 DEF Init, TypeOK, MainInv
  <2>2. OnceInv /\ SendInv
    BY DEF Init, OnceInv, Once, SendInv
  <2>3. << >> = [i \in 1 .. 0 |-> i]
    OBVIOUS
  <2>4. SyncInv
    BY <2>3 DEF Init, SyncInv, AllExecuted, NothingSent
  <2> QED
    BY <2>1, <2>2, <2>4 DEF Inv
<1>2. Inv /\ [Next]_vars => Inv'
  BY TypeStep, OnceStep, SyncStep DEF Inv
<1> QED
  BY <1>1, <1>2, PTL DEF Spec

(* The prompt, the connection and the server keep their types; read turns its loop three times at most. *)
THEOREM TypeCorrect == Spec => []TypeOK
<1>1. Inv => TypeOK
  BY DEF Inv
<1> QED
  BY <1>1, InvHolds, PTL

(* However sendTo's writes are cut and its requests resent, no command is executed twice. *)
THEOREM NeverTwice == Spec => []AtMostOnce
<1>1. Inv => AtMostOnce
  BY DEF Inv, OnceInv, Once, AtMostOnce
<1> QED
  BY <1>1, InvHolds, PTL

(* Without short writes and split replies, nothing is left over when main is back at its prompt. *)
THEOREM InSync == Spec => []StartsInSync
<1>1. Inv => StartsInSync
  BY DEF Inv, SyncInv, AllExecuted, NothingSent, StartsInSync
<1> QED
  BY <1>1, InvHolds, PTL

(* Without short writes and split replies, main prints the reply to the command that was typed. *)
THEOREM RightAnswer == Spec => []ShownIsTheAnswer
<1>1. Inv => ShownIsTheAnswer
  BY DEF Inv, SyncInv, ShownIsTheAnswer
<1> QED
  BY <1>1, InvHolds, PTL
=============================================================================
