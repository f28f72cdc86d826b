--------------------------- MODULE MCRedisSession ---------------------------
(* All eight constructors, a timeout out of range for two of them.          *)
EXTENDS RedisSession

AllModes == {redisConnect, redisConnectWithTimeout(TRUE), redisConnectNonBlock,
             redisConnectBindNonBlock, redisConnectBindNonBlockWithReuse,
             redisConnectUnix, redisConnectUnixWithTimeout(TRUE), redisConnectUnixNonBlock}
=============================================================================
