---------------------------- MODULE RedisConnect ----------------------------
(***************************************************************************)
(* hiredis/net.c and the constructors of hiredis.c: how a redisContext     *)
(* gets its socket and how redisFree gives it back. Every system call may  *)
(* fail; at is the next one. The addresses of the server are tried in      *)
(* turn. A socket is a number; like the kernel, the model hands out the    *)
(* least one that is free.                                                 *)
(***************************************************************************)
EXTENDS Integers, RedisError

CONSTANTS Modes,     \* how connections are made, see below
          Addresses, \* how many addresses the server's name has
          Retries    \* REDIS_CONNECT_RETRIES (10)

ASSUME CountsAssumption == Addresses \in Nat /\ Retries \in Nat \ {0}

(* The constructors: family, REDIS_BLOCK, REDIS_REUSEADDR, a source address,  *)
(* a timeout that is out of range.                                          *)
Mode(family, block, reuse, source, badTimeout) ==
  [family |-> family, block |-> block, reuse |-> reuse, source |-> source,
   badTimeout |-> badTimeout]
redisConnect == Mode("tcp", TRUE, FALSE, FALSE, FALSE)
redisConnectWithTimeout(bad) == Mode("tcp", TRUE, FALSE, FALSE, bad)
redisConnectNonBlock == Mode("tcp", FALSE, FALSE, FALSE, FALSE)
redisConnectBindNonBlock == Mode("tcp", FALSE, FALSE, TRUE, FALSE)
redisConnectBindNonBlockWithReuse == Mode("tcp", FALSE, TRUE, TRUE, FALSE)
redisConnectUnix == Mode("unix", TRUE, FALSE, FALSE, FALSE)
redisConnectUnixWithTimeout(bad) == Mode("unix", TRUE, FALSE, FALSE, bad)
redisConnectUnixNonBlock == Mode("unix", FALSE, FALSE, FALSE, FALSE)

VARIABLES mode,       \* which constructor runs
          at,         \* its next system call; "up", "failed", "freed" afterwards
          p, reuses,  \* the address tried and the retries made
          fd,         \* redisContext: its socket; err is its error
          open,       \* the sockets the process has open
          blocking    \* those of them that block

socketVars == <<mode, at, p, reuses, fd, open, blocking>>
connectVars == <<socketVars, err>>

NoFd == -1
ConnectInit == /\ mode \in Modes
               /\ at = IF mode.family = "tcp" THEN "getaddrinfo" ELSE "socket"
               /\ p = 1 /\ reuses = 0
               /\ fd = 0 /\ err = "none"       \* calloc
               /\ open = {} /\ blocking = {}

-----------------------------------------------------------------------------
NewFd == CHOOSE n \in 3..(3 + Addresses + Retries) :
           n \notin open /\ \A m \in 3..n - 1 : m \in open

KeepFd == UNCHANGED <<fd, open, blocking>>
(* redisContextCloseFd *)
CloseFd == /\ fd' = IF fd >= 0 THEN NoFd ELSE fd
           /\ open' = open \ {fd} /\ blocking' = blocking \ {fd}

(* __redisSetError, and what the constructor returns. *)
FailWith(e) == err' = e /\ at' = "failed"
FailSilently == at' = "failed" /\ UNCHANGED err
Goto(label) == at' = label /\ UNCHANGED err

SameAddress == p' = p  \* Mutant
NextAddress == p' = p + 1

Resolve ==
  /\ at = "getaddrinfo"
  /\ Goto("socket") \/ FailWith("other")
  /\ KeepFd /\ UNCHANGED <<mode, p, reuses>>

(* The next address is tried; one that no socket can be made for is skipped. *)
MakeSocket == /\ fd' = NewFd
              /\ open' = open \cup {NewFd} /\ blocking' = blocking \cup {NewFd}
              /\ Goto("nonblock") /\ UNCHANGED p
Socket ==
  /\ at = "socket" /\ mode.family = "tcp" /\ p <= Addresses
  /\ MakeSocket \/ (NextAddress /\ KeepFd /\ UNCHANGED <<at, err>>)
  /\ UNCHANGED <<mode, reuses>>

redisCreateSocket ==
  /\ at = "socket" /\ mode.family = "unix"
  /\ MakeSocket \/ (FailWith("io") /\ KeepFd /\ UNCHANGED p)
  /\ UNCHANGED <<mode, reuses>>

NoAddressLeftSilent ==  \* Mutant
  /\ at = "socket" /\ mode.family = "tcp" /\ p > Addresses
  /\ FailSilently /\ KeepFd /\ UNCHANGED <<mode, p, reuses>>
NoAddressLeft ==
  /\ at = "socket" /\ mode.family = "tcp" /\ p > Addresses
  /\ FailWith("other") /\ KeepFd /\ UNCHANGED <<mode, p, reuses>>

(* redisSetBlocking *)
SetBlocking(b, next) ==
  \/ /\ blocking' = IF b THEN blocking \cup {fd} ELSE blocking \ {fd}
     /\ Goto(next) /\ UNCHANGED <<fd, open>>
  \/ CloseFd /\ FailWith("io")

NonBlock ==
  /\ at = "nonblock"
  /\ SetBlocking(FALSE, IF mode.source THEN "bind" ELSE "connect")
  /\ UNCHANGED <<mode, p, reuses>>

(* The source address is looked up, made reusable and bound to. *)
Bind ==
  /\ at = "bind"
  /\ \/ Goto("connect")
     \/ FailWith("other")
     \/ mode.reuse /\ FailSilently
  /\ KeepFd /\ UNCHANGED <<mode, p, reuses>>

StaysNonBlocking == IF mode.family = "tcp" THEN "nodelay" ELSE "up"  \* Mutant
Connected == IF mode.block THEN "block" ELSE IF mode.family = "tcp" THEN "nodelay" ELSE "up"

(* connect(2) succeeds or fails with errno. *)
ConnectWith(errno) ==
  /\ at = "connect"
  /\ CASE errno = "none" ->
            Goto(Connected) /\ KeepFd /\ UNCHANGED <<p, reuses>>
       [] errno = "EHOSTUNREACH" /\ mode.family = "tcp" ->
            CloseFd /\ NextAddress /\ Goto("socket") /\ UNCHANGED reuses
       [] errno = "EINPROGRESS" ->
            /\ IF ~mode.block THEN Goto(Connected) /\ KeepFd
               ELSE IF mode.badTimeout THEN CloseFd /\ FailWith("io")
               ELSE Goto("poll") /\ KeepFd
            /\ UNCHANGED <<p, reuses>>
       [] errno = "EADDRNOTAVAIL" /\ mode.reuse ->
            /\ reuses' = reuses + 1
            /\ IF reuses' >= Retries THEN FailSilently ELSE Goto("socket")
            /\ KeepFd /\ UNCHANGED p
       [] OTHER -> CloseFd /\ FailWith("io") /\ UNCHANGED <<p, reuses>>
  /\ UNCHANGED mode
Connect == \E errno \in {"none", "EHOSTUNREACH", "EINPROGRESS", "EADDRNOTAVAIL", "ECONNREFUSED"} :
             ConnectWith(errno)

(* redisContextWaitReady: the connection is made, refused, or not in time. *)
Poll ==
  /\ at = "poll"
  /\ \/ Goto(Connected) /\ KeepFd
     \/ FailWith("io") /\ KeepFd     \* redisCheckSocketError
     \/ FailWith("io") /\ CloseFd    \* poll fails or times out
  /\ UNCHANGED <<mode, p, reuses>>

Block ==
  /\ at = "block"
  /\ SetBlocking(TRUE, IF mode.family = "tcp" THEN "nodelay" ELSE "up")
  /\ UNCHANGED <<mode, p, reuses>>

(* redisSetTcpNoDelay *)
NoDelay ==
  /\ at = "nodelay"
  /\ (Goto("up") /\ KeepFd) \/ (FailWith("io") /\ CloseFd)
  /\ UNCHANGED <<mode, p, reuses>>

(* An option that cannot be set is an error of the context, whose socket    *)
(* stays open. A nonblocking context has no timeout.                        *)
OptionFails(e) == at = "up" /\ err' = e /\ KeepFd /\ UNCHANGED <<mode, at, p, reuses>>
redisSetTimeout == mode.block /\ OptionFails("io")
redisEnableKeepAlive == OptionFails("other")

redisFree ==
  /\ at \in {"up", "failed"}
  /\ at' = "freed"
  /\ open' = IF fd > 0 THEN open \ {fd} ELSE open
  /\ blocking' = blocking \cap open'
  /\ UNCHANGED <<mode, p, reuses, fd, err>>

Constructor == Resolve \/ Socket \/ redisCreateSocket \/ NoAddressLeft \/ NonBlock \/ Bind \/ Connect \/ Poll
                 \/ Block \/ NoDelay
ConnectNext == Constructor \/ redisSetTimeout \/ redisEnableKeepAlive \/ redisFree
ConnectSpec == ConnectInit /\ [][ConnectNext]_connectVars

-----------------------------------------------------------------------------
SocketTypeOK == /\ mode \in Modes
                /\ p \in 1..Addresses + 1 /\ reuses \in 0..Retries
                /\ fd \in {NoFd, 0} \cup open \/ at = "freed"
                /\ blocking \subseteq open

(* The context's socket is the only one the process has open: every way out *)
(* of the loop over addresses and every error path closes or keeps it, and  *)
(* after redisFree none is left. Only the retry with SO_REUSEADDR (net.c:330)*)
(* goes back to making a socket with the last one still open.               *)
NoLeak == ~mode.reuse => /\ open \subseteq {fd}
                         /\ at = "freed" => open = {}

(* A context that is up has its socket, in the mode that reads and writes   *)
(* rely on: EAGAIN means something else on a blocking one.                  *)
UpIsUsable == at = "up" => fd \in open /\ (fd \in blocking <=> mode.block)

(* hiredis.c:629: "On error the field error in the returned context will be *)
(* set". A constructor that failed and left no error looks connected; with  *)
(* SO_REUSEADDR the last retry does.                                        *)
ErrorReported == ~mode.reuse /\ at = "failed" => err # "none"

(* The constructor returns, after at most Retries sockets per address: the  *)
(* kernel answers every system call, poll included.                         *)
ConstructorReturns == <>(at \in {"up", "failed", "freed"})
=============================================================================
