---------------------------- MODULE RedisSession ----------------------------
(***************************************************************************)
(* A program that talks to redis through hiredis, from the constructor of  *)
(* its context to redisFree: RedisConnect makes the context, RedisContext  *)
(* is its use. Both set and test the one error in it. A context that does  *)
(* not block is used by RedisAsync and goes no further here.               *)
(***************************************************************************)
EXTENDS RedisConnect, RedisContext

sessionVars == <<connectVars, vars>>

\* The variables of RedisContext that calls of RedisConnect leave alone.
contextRest == <<pc, obuf, inbuf, conn, issued, executed, results>>

SessionInit == ConnectInit /\ Init

Ready == at = "up" /\ mode.block

\* A constructor's next system call.
Construct == Constructor /\ UNCHANGED contextRest
             /\ failedAt' = IF err = "none" /\ err' # "none" THEN issued ELSE failedAt

\* Between two commands: an option that cannot be set, or redisFree.
Configure == /\ pc = "idle"
             /\ redisSetTimeout \/ redisEnableKeepAlive \/ redisFree
             /\ UNCHANGED contextRest
             /\ failedAt' = IF err = "none" /\ err' # "none" THEN issued ELSE failedAt

\* The program's calls, and what they do until they return.
Use == /\ Ready
       /\ \/ redisAppendCommand \/ redisGetReply \/ redisCommand \/ redisCommandFails
          \/ InCall \/ IOFails
       /\ UNCHANGED socketVars

\* The server goes on with what it has got, even when the context is gone.
Serve == /\ mode.block /\ at \in {"up", "freed"}
         /\ Execute \/ Close
         /\ UNCHANGED <<socketVars, err>>

SessionNext == Construct \/ Configure \/ Use \/ Serve

\* System calls return, and the server serves what it has. Nothing has to
\* fail, and the program need not make another call.
SessionSpec == /\ SessionInit /\ [][SessionNext]_sessionVars
               /\ WF_sessionVars(Construct)
               /\ WF_sessionVars(Ready /\ InCall /\ UNCHANGED socketVars)
               /\ WF_sessionVars(Execute /\ UNCHANGED socketVars)

=============================================================================
