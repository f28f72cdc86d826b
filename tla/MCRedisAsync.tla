----------------------------- MODULE MCRedisAsync -----------------------------
(* Programs with two commands of any kind, with three plain ones, and with  *)
(* three that are plain or subscriptions to two channels.                   *)
EXTENDS RedisAsync

CONSTANTS a, b

Leave == {"redisAsyncDisconnect", "redisAsyncFree"}
Anything == [calls |-> AllCalls, keys |-> {a}, commands |-> 2, lines |-> 1]
Plain == [calls |-> {"get", "forget"} \cup Leave, keys |-> {}, commands |-> 3, lines |-> 1]
Subscribing == [calls |-> {"get", "subscribe"}, keys |-> {a, b}, commands |-> 3, lines |-> 2]
ThreePrograms == {Anything, Plain, Subscribing}
=============================================================================
