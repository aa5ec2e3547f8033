----------------------------- MODULE ReplyReader -----------------------------
(***************************************************************************)
(* Resp.parse against the RESP encoding: a reply is sent, a read returns   *)
(* it or the beginning of it, and the prompt shows what parse makes of     *)
(* that (src/zigredis/src/main.zig, rsp.zig).                              *)
(***************************************************************************)
EXTENDS RedisReply

CONSTANTS
  Texts,      \* the strings a server sends
  MaxItems    \* and how many of them in an array

VARIABLES
  reply,   \* the reply the server sent
  cut,     \* how many of its symbols the read returned
  result   \* what parse made of them

readerVars == <<reply, cut, result>>

Items == Texts \cup {Nil}
SimpleReplies == UNION {{Reply(k, <<t>>) : t \in Texts} : k \in {"+", "-", ":", ","}}
BulkReplies == {Reply("$", <<t>>) : t \in Items}
ArrayReplies == {Reply("*", s) : s \in UNION {[1 .. n -> Items] : n \in 0 .. MaxItems}}
Replies == SimpleReplies \cup BulkReplies \cup ArrayReplies \cup {Reply("*nil", << >>)}

NotParsed == Failed("not parsed")

Init ==
  /\ reply \in Replies
  /\ cut \in 0 .. Len(Wire(reply))
  /\ result = NotParsed

ParseStep ==
  /\ result = NotParsed
  /\ result' = Parse(SubSeq(Wire(reply), 1, cut))
  /\ UNCHANGED <<reply, cut>>

Spec == Init /\ [][ParseStep]_readerVars

(* The reply as the prompt prints it: a nil has become a text. *)
Shown(r) ==
  Reply(r.kind, [i \in 1 .. Len(r.items) |->
                   IF r.items[i] # Nil THEN r.items[i]
                   ELSE IF r.kind = "$" THEN NilBulk ELSE NilItem])

Parsed == result # NotParsed

(* The texts that the tokenizer leaves whole: it drops an empty one and splits at a CR LF. *)
Plain(text) == text # << >> /\ \A i \in 1 .. Len(text) - 1 : ~EolAt(text, i)
PlainItems == \A i \in 1 .. Len(reply.items) : Plain(reply.items[i])

(***************************************************************************)
(* A reply that arrives in one read is shown as the server meant it,       *)
(* unless it holds an empty string or one with a CR LF in it, which the    *)
(* tokenizer loses or splits (rsp.zig parse).                              *)
(***************************************************************************)
WholeRepliesAreRight ==
  Parsed /\ cut = Len(Wire(reply)) /\ PlainItems =>
    result.status = "ok" /\ result.reply = Shown(reply)

(* Cut behind the "$" or the CR of the length of an array's last item. *)
CutInLastLength ==
  /\ reply.kind = "*"
  /\ reply.items # << >>
  /\ LET text == reply.items[Len(reply.items)]
         item == WireItem(text)
         kept == cut - (Len(Wire(reply)) - Len(item))
     IN  kept \in {1, Len(item) - Len(text) - 3}

(***************************************************************************)
(* Bulk strings and arrays announce their lengths: a cut one is refused    *)
(* wherever the cut is, or its value is complete.  The one exception is a  *)
(* cut that leaves the last item of an array with a length parse cannot    *)
(* read: it takes that for nil (rsp.zig:162).                              *)
(***************************************************************************)
CutIsNoticed ==
  Parsed /\ PlainItems /\ reply.kind \in {"$", "*", "*nil"} =>
    result.status # "ok" \/ result.reply = Shown(reply) \/ CutInLastLength
=============================================================================
