--------------------------- MODULE MCRedisSession ---------------------------
(***************************************************************************)
(* RedisSession with the replies and the parser of RedisReply.             *)
(***************************************************************************)
EXTENDS RedisSession

R == INSTANCE RedisReply

MCWire(r) == R!Wire(r)
MCParse(raw) == R!Parse(raw)

MCReplies == {R!Reply("+", <<<<"1">>>>), R!Reply("$", <<<<"a">>>>)}
=============================================================================
