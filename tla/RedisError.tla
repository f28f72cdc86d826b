----------------------------- MODULE RedisError -----------------------------
(* The error of a redisContext, which net.c and hiredis.c set and test.      *)
VARIABLE err
=============================================================================
