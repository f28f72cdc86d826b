------------------------- MODULE RedisSessionProofs -------------------------
(***************************************************************************)
(* Proofs about the constructors, for any number of addresses and retries; *)
(* about the blocking context, for any size and number of commands and any *)
(* way the bytes are split between system calls; and about a session, in   *)
(* which they share the context's error.                                   *)
(***************************************************************************)
EXTENDS RedisSession, ListsProofs, SequenceTheorems, TLAPS

-----------------------------------------------------------------------------
(* Any constructor: what each system call may rely on.                     *)

\* The context's socket at each label.
SocketMade == /\ at \in {"nonblock", "bind", "connect", "poll", "block", "nodelay", "up"}
                   => fd \in open
              /\ at \in {"bind", "connect", "poll", "block"} => fd \notin blocking
              /\ at = "block" => mode.block
              /\ at \in {"nodelay", "up"} => (fd \in blocking <=> mode.block)

LEMMA InitSocketMade == ConnectInit => SocketMade
BY DEF ConnectInit, SocketMade

LEMMA StepSocketMade == SocketMade /\ [ConnectNext]_connectVars => SocketMade'
<1> SUFFICES ASSUME SocketMade, [ConnectNext]_connectVars PROVE SocketMade'
  OBVIOUS
<1> USE DEF SocketMade, KeepFd, Goto, FailWith, FailSilently
<1>1. CASE Resolve
  BY <1>1 DEF Resolve
<1>2. CASE Socket \/ redisCreateSocket
  BY <1>2 DEF Socket, redisCreateSocket, MakeSocket
<1>3. CASE NoAddressLeft
  BY <1>3 DEF NoAddressLeft
<1>4. CASE NonBlock
  BY <1>4 DEF NonBlock, SetBlocking
<1>5. CASE Bind
  BY <1>5 DEF Bind
<1>6. CASE Connect
  <2>1. PICK errno : ConnectWith(errno)
    BY <1>6 DEF Connect
  <2> QED
    BY <2>1 DEF ConnectWith, Connected
<1>7. CASE Poll
  BY <1>7 DEF Poll, Connected
<1>8. CASE Block
  BY <1>8 DEF Block, SetBlocking
<1>9. CASE NoDelay
  BY <1>9 DEF NoDelay
<1>10. CASE redisSetTimeout \/ redisEnableKeepAlive
  BY <1>10 DEF redisSetTimeout, redisEnableKeepAlive, OptionFails
<1>11. CASE redisFree
  BY <1>11 DEF redisFree
<1>12. CASE UNCHANGED connectVars
  BY <1>12 DEF connectVars, socketVars
<1> QED
  BY <1>1, <1>2, <1>3, <1>4, <1>5, <1>6, <1>7, <1>8, <1>9, <1>10, <1>11, <1>12
     DEF ConnectNext, Constructor

(* Whatever the system calls answer, a connection that is up has its socket *)
(* open, blocking if and only if the constructor is a blocking one          *)
(* (net.c: redisSetBlocking twice on the blocking path).                    *)
THEOREM UpUsable == ConnectSpec => []UpIsUsable
<1>1. SocketMade => UpIsUsable
  BY DEF SocketMade, UpIsUsable
<1> QED
  BY <1>1, InitSocketMade, StepSocketMade, PTL DEF ConnectSpec

-----------------------------------------------------------------------------
(* The constructors that do not retry.                                     *)

\* The least free number is a number.
LEMMA NewFdIsNumber == open = {} => NewFd = 3
<1> SUFFICES ASSUME open = {} PROVE NewFd = 3
  OBVIOUS
<1>1. 3 \in 3..(3 + Addresses + Retries)
  BY CountsAssumption
<1>2. \A m \in 3..3 - 1 : m \in open
  OBVIOUS
<1>3. \A n \in 3..(3 + Addresses + Retries) : (\A m \in 3..n - 1 : m \in open) => n = 3
  OBVIOUS
<1> QED
  BY <1>1, <1>2, <1>3 DEF NewFd

\* The context's socket is the only one, and none is open while an address
\* is looked for; an error is set where one is due.
OneSocket == /\ mode \in Modes
             /\ open \subseteq {fd} /\ open \subseteq Nat \ {0}
             /\ fd \in Int
             /\ at \in {"getaddrinfo", "socket", "freed"} => open = {}
             /\ at = "failed" => err # "none"

LEMMA InitOneSocket == ConnectInit => OneSocket
BY DEF ConnectInit, OneSocket

LEMMA CloseFdCloses == OneSocket /\ CloseFd => open' = {} /\ fd' \in Int
BY DEF OneSocket, CloseFd, NoFd

LEMMA MakeSocketOpens ==
    OneSocket /\ at = "socket" /\ MakeSocket
        => fd' = 3 /\ open' = {3} /\ at' = "nonblock"
BY NewFdIsNumber DEF OneSocket, MakeSocket, Goto

LEMMA StepOneSocket ==
    (~mode.reuse => OneSocket) /\ [ConnectNext]_connectVars => (~mode.reuse => OneSocket)'
<1>a. ASSUME [ConnectNext]_connectVars PROVE mode' = mode
  BY <1>a DEF ConnectNext, Constructor, Resolve, Socket, redisCreateSocket, NoAddressLeft, NonBlock,
     Bind, Connect, ConnectWith, Poll, Block, NoDelay, redisSetTimeout, redisEnableKeepAlive,
     OptionFails, redisFree, connectVars, socketVars
<1> SUFFICES ASSUME OneSocket, [ConnectNext]_connectVars, ~mode.reuse PROVE OneSocket'
  BY <1>a
<1> USE DEF OneSocket, KeepFd, Goto, FailWith
<1>0. ~mode.reuse
  OBVIOUS
<1>1. CASE Resolve
  BY <1>1 DEF Resolve
<1>2. CASE Socket \/ redisCreateSocket
  <2>1. at = "socket" /\ mode' = mode
    BY <1>2 DEF Socket, redisCreateSocket
  <2>2. CASE MakeSocket
    BY <2>1, <2>2, MakeSocketOpens
  <2>3. CASE ~MakeSocket
    BY <1>2, <2>3 DEF Socket, redisCreateSocket
  <2> QED
    BY <2>2, <2>3
<1>3. CASE NoAddressLeft
  BY <1>3 DEF NoAddressLeft
<1>4. CASE NonBlock
  BY <1>4, CloseFdCloses DEF NonBlock, SetBlocking
<1>5. CASE Bind
  BY <1>0, <1>5 DEF Bind
<1>6. CASE Connect
  <2>1. PICK errno : ConnectWith(errno)
    BY <1>6 DEF Connect
  <2> QED
    BY <1>0, <2>1, CloseFdCloses DEF ConnectWith, Connected
<1>7. CASE Poll
  BY <1>7, CloseFdCloses DEF Poll, Connected
<1>8. CASE Block
  BY <1>8, CloseFdCloses DEF Block, SetBlocking
<1>9. CASE NoDelay
  BY <1>9, CloseFdCloses DEF NoDelay
<1>10. CASE redisSetTimeout \/ redisEnableKeepAlive
  BY <1>10 DEF redisSetTimeout, redisEnableKeepAlive, OptionFails
<1>11. CASE redisFree
  BY <1>11 DEF redisFree
<1>12. CASE UNCHANGED connectVars
  BY <1>12 DEF connectVars, socketVars
<1> QED
  BY <1>1, <1>2, <1>3, <1>4, <1>5, <1>6, <1>7, <1>8, <1>9, <1>10, <1>11, <1>12
     DEF ConnectNext, Constructor

(* Without SO_REUSEADDR the process never holds a socket the context does   *)
(* not know, on any path through the addresses and errors of net.c, and     *)
(* redisFree leaves none.                                                   *)
THEOREM NothingLeaks == ConnectSpec => []NoLeak
<1>1. (~mode.reuse => OneSocket) => NoLeak
  BY DEF OneSocket, NoLeak
<1> QED
  BY <1>1, InitOneSocket, StepOneSocket, PTL DEF ConnectSpec

(* Without SO_REUSEADDR a constructor that fails has set the error by which *)
(* its caller can tell (hiredis.c:629).                                     *)
THEOREM ErrorsReported == ConnectSpec => []ErrorReported
<1>1. (~mode.reuse => OneSocket) => ErrorReported
  BY DEF OneSocket, ErrorReported
<1> QED
  BY <1>1, InitOneSocket, StepOneSocket, PTL DEF ConnectSpec

-----------------------------------------------------------------------------
(* Sequences and multiplication.                                           *)

LEMMA FromSeq ==
    ASSUME NEW S, NEW s \in Seq(S), NEW n \in 0..Len(s)
    PROVE  /\ From(s, n) \in Seq(S)
           /\ Len(From(s, n)) = Len(s) - n
           /\ \A i \in 1..Len(s) - n : From(s, n)[i] = s[n + i]
<1>1. n + 1 \in 1..Len(s) + 1 /\ Len(s) \in n..Len(s)
  OBVIOUS
<1>2. Len(SubSeq(s, n + 1, Len(s))) = Len(s) - n
  OBVIOUS
<1> QED
  BY <1>1, <1>2 DEF From

LEMMA TakeSeq ==
    ASSUME NEW S, NEW s \in Seq(S), NEW n \in 0..Len(s)
    PROVE  /\ SubSeq(s, 1, n) \in Seq(S)
           /\ Len(SubSeq(s, 1, n)) = n
           /\ \A i \in 1..n : SubSeq(s, 1, n)[i] = s[i]
OBVIOUS

LEMMA InSeq ==
    ASSUME NEW S, NEW s \in Seq(S)
    PROVE  /\ Len(s) \in Nat /\ \A i \in 1..Len(s) : s[i] \in S
           /\ DOMAIN s = 1..Len(s)
           /\ Len(s) >= 1 => Head(s) = s[1] /\ s[1] \in S
OBVIOUS

LEMMA ConcatSeq ==
    ASSUME NEW S, NEW s \in Seq(S), NEW t \in Seq(S)
    PROVE  /\ s \o t \in Seq(S) /\ Len(s \o t) = Len(s) + Len(t)
           /\ \A i \in 1..Len(s) : (s \o t)[i] = s[i]
           /\ \A i \in 1..Len(t) : (s \o t)[Len(s) + i] = t[i]
OBVIOUS

LEMMA AppendSeq ==
    ASSUME NEW S, NEW s \in Seq(S), NEW e \in S
    PROVE  /\ Append(s, e) \in Seq(S) /\ Len(Append(s, e)) = Len(s) + 1
           /\ \A i \in 1..Len(s) : Append(s, e)[i] = s[i]
           /\ Append(s, e)[Len(s) + 1] = e
OBVIOUS

LEMMA BytesSeq ==
    ASSUME NEW n
    PROVE  /\ Bytes(n) \in Seq({n})
           /\ Len(Bytes(n)) = Size
           /\ \A i \in 1..Size : Bytes(n)[i] = n
BY SizeAssumption DEF Bytes

\* The byte at which command n ends.
End(n) == n * Size

LEMMA EndStep ==
    ASSUME NEW a \in Nat
    PROVE  End(a) \in Nat /\ End(a + 1) = End(a) + Size
BY SizeAssumption DEF End

LEMMA EndMonotone ==
    ASSUME NEW a \in Nat, NEW b \in Nat, a < b
    PROVE  End(a) < End(b)
<1>1. b = a + (b - a) /\ b - a \in Nat /\ b - a >= 1
  OBVIOUS
<1>2. b * Size = a * Size + (b - a) * Size
  BY SizeAssumption
<1>3. (b - a) * Size >= Size
  BY <1>1, SizeAssumption
<1> QED
  BY <1>2, <1>3, SizeAssumption DEF End

-----------------------------------------------------------------------------
(* The inductive invariant.                                                *)

Typed == /\ TypeOK
         /\ up \in BOOLEAN /\ failedAt \in 0..MaxCommands

\* The bytes of s follow the byte off of the stream of all commands.
Follows(s, off) ==
    \A i \in 1..Len(s) : End(s[i] - 1) < off + i /\ off + i <= End(s[i])

\* The first byte after the command k is the next command's.
LEMMA FirstByte ==
    ASSUME NEW k \in Nat, NEW buf \in Seq(1..MaxCommands), Len(buf) >= 1,
           Follows(buf, End(k))
    PROVE  Head(buf) = k + 1
<1> DEFINE c == Head(buf)
<1>1. c = buf[1] /\ c \in 1..MaxCommands /\ Len(buf) \in Nat
  BY InSeq
<1> HIDE DEF c
<1>2. End(c - 1) < End(k) + 1 /\ End(k) + 1 <= End(c)
  BY <1>1 DEF Follows
<1>3. c \in Nat /\ c - 1 \in Nat
  BY <1>1, SizeAssumption
<1>4. End(c) \in Nat /\ End(c - 1) \in Nat /\ End(k) \in Nat
  BY <1>3, EndStep
<1>5. ~(c < k)
  <2>1. c < k => End(c) < End(k)
    BY <1>3, EndMonotone
  <2> QED
    BY <1>2, <1>4, <2>1
<1>6. c # k
  BY <1>2, <1>4
<1>7. ~(k < c - 1)
  <2>1. k < c - 1 => End(k) < End(c - 1)
    BY <1>3, EndMonotone
  <2> QED
    BY <1>2, <1>4, <2>1
<1>8. c = k + 1
  BY <1>3, <1>5, <1>6, <1>7
<1> QED
  BY <1>8 DEF c

\* What is on the way to the server and what is still to be written continue
\* the commands executed, up to the last one appended.
Flow == /\ ExecutedIsPrefix
        /\ ~up => toServer = << >>
        /\ up => /\ Follows(toServer, End(Len(executed)))
                 /\ Follows(obuf, End(Len(executed)) + Len(toServer))
                 /\ End(Len(executed)) + Len(toServer) + Len(obuf) = End(issued)

AllBelow(s, n) == \A i \in 1..Len(s) : s[i] <= n

\* An error ends the call, and nothing is written after it.
Errors == /\ err = "none" => failedAt = MaxCommands
          /\ err # "none" => pc = "idle"
          /\ AllBelow(obuf, issued)
          /\ AllBelow(toServer, issued) /\ AllBelow(executed, issued)
          /\ AllBelow(toServer, failedAt) /\ AllBelow(executed, failedAt)
          /\ NullMeansError

IInv == Typed /\ Flow /\ Errors

LEMMA InitIInv == Init => IInv
<1> SUFFICES ASSUME Init PROVE IInv
  OBVIOUS
<1>1. Typed
  BY SizeAssumption DEF Init, Typed, TypeOK
<1>2. End(0) = 0
  BY SizeAssumption DEF End
<1>3. Flow
  BY <1>2 DEF Init, Flow, ExecutedIsPrefix, Follows
<1>4. Errors
  BY DEF Init, Errors, AllBelow, NullMeansError
<1> QED
  BY <1>1, <1>3, <1>4 DEF IInv

-----------------------------------------------------------------------------
(* The parts of the calls.                                                 *)

\* What redisGetReply may answer.
LEMMA Answered ==
    ASSUME NEW r \in 0..MaxCommands, Typed, Return(r), NullMeansError,
           r = NULL => err' # "none", err # "none" => err' # "none"
    PROVE  results' \in Seq(0..MaxCommands) /\ pc' = "idle" /\ NullMeansError'
<1>1. /\ results \in Seq(0..MaxCommands)
      /\ results' = Append(results, r) /\ pc' = "idle"
  BY DEF Typed, TypeOK, Return
<1>2. \A i \in 1..Len(results') : i \in 1..Len(results) \/ results'[i] = r
  BY <1>1
<1>3. \A i \in 1..Len(results) : results'[i] = results[i]
  BY <1>1
<1>4. DOMAIN results = 1..Len(results) /\ DOMAIN results' = 1..Len(results')
  BY <1>1
<1> QED
  BY <1>1, <1>2, <1>3, <1>4 DEF NullMeansError, NULL

\* A reply handed out leaves the rest in the reader.
LEMMA HandedOut ==
    ASSUME NEW buf \in Seq(1..MaxCommands), ReplyThere(buf)
    PROVE  Head(buf) \in 1..MaxCommands /\ From(buf, Size) \in Seq(1..MaxCommands)
<1>1. Size \in 0..Len(buf) /\ Len(buf) >= 1
  BY SizeAssumption DEF ReplyThere
<1>2. From(buf, Size) \in Seq(1..MaxCommands)
  BY <1>1, FromSeq
<1>3. Head(buf) \in 1..MaxCommands
  BY <1>1, InSeq, Zenon
<1> QED
  BY <1>2, <1>3

LEMMA GetReplyGives ==
    ASSUME Typed, Errors, GetReply, err' = err
    PROVE  /\ pc' \in {"idle", "write"} /\ (err # "none" => pc' = "idle")
           /\ inbuf' \in Seq(1..MaxCommands)
           /\ results' \in Seq(0..MaxCommands) /\ NullMeansError'
<1>1. CASE ReplyThere(inbuf)
  <2>1. Return(Head(inbuf)) /\ inbuf' = From(inbuf, Size)
    BY <1>1 DEF GetReply
  <2>2. Head(inbuf) \in 1..MaxCommands /\ inbuf' \in Seq(1..MaxCommands)
    BY <1>1, <2>1, HandedOut DEF Typed, TypeOK
  <2>3. Head(inbuf) \in 0..MaxCommands /\ Head(inbuf) # NULL
    BY <2>2 DEF NULL
  <2> QED
    BY <2>1, <2>2, <2>3, Answered DEF Errors
<1>2. CASE ~ReplyThere(inbuf) /\ err # "none"
  <2>1. Return(NULL) /\ inbuf' = inbuf
    BY <1>2 DEF GetReply
  <2>2. NULL \in 0..MaxCommands
    BY SizeAssumption DEF NULL
  <2> QED
    BY <1>2, <2>1, <2>2, Answered DEF Errors, Typed, TypeOK
<1>3. CASE ~ReplyThere(inbuf) /\ err = "none"
  BY <1>3 DEF GetReply, Typed, TypeOK, Errors, NullMeansError
<1> QED
  BY <1>1, <1>2, <1>3

\* What is appended continues the stream.
LEMMA Appended ==
    ASSUME Typed, Flow, Errors, AppendCommand, UNCHANGED <<conn, executed, failedAt>>
    PROVE  /\ obuf' \in Seq(1..MaxCommands) /\ issued' \in 0..MaxCommands
           /\ Flow'
           /\ AllBelow(obuf', issued') /\ AllBelow(toServer, issued')
           /\ AllBelow(executed, issued')
<1> DEFINE n == issued + 1
<1>1. /\ obuf \in Seq(1..MaxCommands) /\ issued \in Nat /\ n \in 1..MaxCommands
      /\ issued' = n /\ obuf' = obuf \o Bytes(n)
      /\ toServer \in Seq(1..MaxCommands) /\ executed \in Seq(1..MaxCommands)
  BY SizeAssumption DEF AppendCommand, Typed, TypeOK
<1>2. Bytes(n) \in Seq(1..MaxCommands)
  BY <1>1, SizeAssumption DEF Bytes
<1>3. Len(Bytes(n)) = Size /\ \A i \in 1..Size : Bytes(n)[i] = n
  BY BytesSeq
<1> HIDE DEF n
<1>4. obuf' \in Seq(1..MaxCommands) /\ Len(obuf') = Len(obuf) + Size
  BY <1>1, <1>2, <1>3, ConcatSeq, Zenon
<1>5. /\ \A i \in 1..Len(obuf) : obuf'[i] = obuf[i]
      /\ \A i \in 1..Len(obuf') : i > Len(obuf) => obuf'[i] = n
  <2>1. \A i \in 1..Len(obuf) : obuf'[i] = obuf[i]
    BY <1>1, <1>2
  <2>2. ASSUME NEW i \in 1..Len(obuf'), i > Len(obuf)
        PROVE  obuf'[i] = n
    <3>1. i - Len(obuf) \in 1..Size
      BY <1>1, <1>4, <2>2, SizeAssumption
    <3>2. obuf'[i] = Bytes(n)[i - Len(obuf)]
      BY <1>1, <1>2, <1>3, <2>2, <3>1, SizeAssumption
    <3> QED
      BY <1>3, <3>1, <3>2
  <2> QED
    BY <2>1, <2>2
<1>6. AllBelow(obuf', n) /\ AllBelow(toServer, n) /\ AllBelow(executed, n)
  <2>1. ASSUME NEW q \in Seq(1..MaxCommands), AllBelow(q, issued)
        PROVE  AllBelow(q, n)
    <3>1. \A i \in 1..Len(q) : q[i] \in 1..MaxCommands
      BY InSeq
    <3> QED
      BY <1>1, <2>1, <3>1 DEF AllBelow, n
  <2>2. AllBelow(toServer, n) /\ AllBelow(executed, n) /\ AllBelow(obuf, n)
    BY <1>1, <2>1 DEF Errors
  <2>3. ASSUME NEW i \in 1..Len(obuf')
        PROVE  obuf'[i] <= n
    <3>1. CASE i <= Len(obuf)
      BY <1>5, <2>2, <3>1 DEF AllBelow
    <3>2. CASE i > Len(obuf)
      BY <1>1, <1>5, <3>2
    <3>3. Len(obuf) \in Nat
      BY <1>1, InSeq
    <3> QED
      BY <3>1, <3>2, <3>3
  <2> QED
    BY <2>2, <2>3 DEF AllBelow
<1>7. ASSUME up PROVE
        /\ Follows(obuf', End(Len(executed)) + Len(toServer))
        /\ End(Len(executed)) + Len(toServer) + Len(obuf') = End(n)
  <2> DEFINE e == End(Len(executed))  t == Len(toServer)  l == Len(obuf)
  <2>1. e \in Nat /\ t \in Nat /\ l \in Nat
    <3>1. Len(executed) \in Nat /\ t \in Nat /\ l \in Nat
      BY <1>1, InSeq, Zenon
    <3> QED
      BY <3>1, EndStep, Zenon
  <2>2. End(n) = End(issued) + Size /\ End(issued) \in Nat /\ n - 1 = issued
    <3>1. n = issued + 1
      BY DEF n
    <3>2. End(issued) \in Nat /\ End(issued + 1) = End(issued) + Size
      BY <1>1, EndStep, Zenon
    <3>3. End(n) = End(issued + 1)
      BY <3>1, Zenon
    <3> QED
      BY <1>1, <3>1, <3>2, <3>3
  <2>3. e + t + l = End(issued) /\ Follows(obuf, e + t)
    BY <1>7 DEF Flow
  <2> HIDE DEF e, t
  <2>4. e + t + Len(obuf') = End(n)
    BY <1>4, <2>1, <2>2, <2>3, SizeAssumption
  <2>5. ASSUME NEW i \in 1..Len(obuf')
        PROVE  End(obuf'[i] - 1) < e + t + i /\ e + t + i <= End(obuf'[i])
    <3>1. CASE i <= l
      BY <1>5, <2>1, <2>3, <3>1 DEF Follows
    <3>2. CASE i > l
      <4>1. obuf'[i] = n
        BY <1>5, <3>2
      <4>2. End(issued) < e + t + i /\ e + t + i <= End(n)
        BY <1>4, <2>1, <2>2, <2>3, <2>4, <3>2, SizeAssumption
      <4> QED
        BY <2>2, <4>1, <4>2
    <3> QED
      BY <2>1, <3>1, <3>2
  <2> QED
    BY <2>4, <2>5 DEF Follows, e, t
<1>8. Flow'
  BY <1>1, <1>7 DEF Flow, conn, ExecutedIsPrefix
<1> QED
  BY <1>1, <1>4, <1>6, <1>8 DEF n

\* A part of what is to be written, once written, still continues the stream.
LEMMA Written ==
    ASSUME NEW off \in Nat, NEW n \in 0..Len(obuf),
           toServer \in Seq(1..MaxCommands), obuf \in Seq(1..MaxCommands)
    PROVE  LET w == toServer \o SubSeq(obuf, 1, n)
               r == From(obuf, n)
           IN  /\ w \in Seq(1..MaxCommands) /\ r \in Seq(1..MaxCommands)
               /\ Len(w) + Len(r) = Len(toServer) + Len(obuf)
               /\ Follows(toServer, off) /\ Follows(obuf, off + Len(toServer))
                     => Follows(w, off) /\ Follows(r, off + Len(w))
               /\ \A m \in Nat : AllBelow(toServer, m) /\ AllBelow(obuf, m)
                     => AllBelow(w, m) /\ AllBelow(r, m)
<1> DEFINE h == SubSeq(obuf, 1, n)
           w == toServer \o h
           r == From(obuf, n)
           t == Len(toServer)
<1>1. /\ h \in Seq(1..MaxCommands) /\ Len(h) = n
      /\ \A i \in 1..n : h[i] = obuf[i]
  BY TakeSeq
<1>2. /\ r \in Seq(1..MaxCommands) /\ Len(r) = Len(obuf) - n
      /\ \A i \in 1..Len(obuf) - n : r[i] = obuf[n + i]
  BY FromSeq
<1>3. t \in Nat /\ Len(obuf) \in Nat /\ n \in Nat /\ n <= Len(obuf)
  BY InSeq
<1>4. /\ w \in Seq(1..MaxCommands) /\ Len(w) = t + n
      /\ \A i \in 1..t : w[i] = toServer[i]
      /\ \A i \in 1..n : w[t + i] = h[i]
  BY <1>1, ConcatSeq
<1> HIDE DEF h, w, r, t
<1>5. ASSUME NEW i \in 1..Len(w)
      PROVE  \/ i \in 1..t /\ w[i] = toServer[i]
             \/ i - t \in 1..Len(obuf) /\ w[i] = obuf[i - t]
  <2>1. CASE i <= t
    BY <1>3, <1>4, <2>1
  <2>2. CASE i > t
    <3>1. i - t \in 1..n /\ i = t + (i - t)
      BY <1>3, <1>4, <2>2
    <3>2. w[t + (i - t)] = h[i - t] /\ h[i - t] = obuf[i - t]
      BY <1>1, <1>4, <3>1
    <3> QED
      BY <1>3, <3>1, <3>2
  <2> QED
    BY <1>3, <2>1, <2>2
<1>6. ASSUME NEW i \in 1..Len(r)
      PROVE  n + i \in 1..Len(obuf) /\ r[i] = obuf[n + i]
  BY <1>2, <1>3
<1>7. ASSUME Follows(toServer, off), Follows(obuf, off + t)
      PROVE  Follows(w, off) /\ Follows(r, off + Len(w))
  <2>1. ASSUME NEW i \in 1..Len(w)
        PROVE  End(w[i] - 1) < off + i /\ off + i <= End(w[i])
    <3>1. CASE i \in 1..t /\ w[i] = toServer[i]
      BY <1>3, <1>7, <3>1 DEF Follows, t
    <3>2. CASE i - t \in 1..Len(obuf) /\ w[i] = obuf[i - t]
      <4>1. off + t + (i - t) = off + i
        BY <1>3
      <4>2. End(obuf[i - t] - 1) < off + t + (i - t) /\ off + t + (i - t) <= End(obuf[i - t])
        BY <1>7, <3>2 DEF Follows
      <4> QED
        BY <3>2, <4>1, <4>2
    <3> QED
      BY <1>5, <3>1, <3>2
  <2>2. ASSUME NEW i \in 1..Len(r)
        PROVE  /\ End(r[i] - 1) < off + Len(w) + i
               /\ off + Len(w) + i <= End(r[i])
    <3>1. n + i \in 1..Len(obuf) /\ r[i] = obuf[n + i]
      BY <1>6
    <3>2. off + t + (n + i) = off + Len(w) + i
      BY <1>2, <1>3, <1>4
    <3>3. End(obuf[n + i] - 1) < off + t + (n + i) /\ off + t + (n + i) <= End(obuf[n + i])
      BY <1>7, <3>1 DEF Follows
    <3> QED
      BY <3>1, <3>2, <3>3
  <2> QED
    BY <2>1, <2>2 DEF Follows
<1>8. ASSUME NEW m \in Nat, AllBelow(toServer, m), AllBelow(obuf, m)
      PROVE  AllBelow(w, m) /\ AllBelow(r, m)
  BY <1>5, <1>6, <1>8 DEF AllBelow, t
<1>9. Len(w) + Len(r) = t + Len(obuf)
  BY <1>2, <1>3, <1>4
<1> QED
  BY <1>2, <1>4, <1>7, <1>8, <1>9 DEF h, w, r, t

-----------------------------------------------------------------------------
(* The steps.                                                              *)

\* A call that appends a command and perhaps asks for a reply.
LEMMA AppendSteps ==
    ASSUME IInv, redisAppendCommand \/ redisCommand
    PROVE  IInv'
<1>1. AppendCommand /\ UNCHANGED <<conn, executed, failedAt, err>>
  BY DEF redisAppendCommand, redisCommand
<1>2. /\ obuf' \in Seq(1..MaxCommands) /\ issued' \in 0..MaxCommands /\ Flow'
      /\ AllBelow(obuf', issued') /\ AllBelow(toServer, issued') /\ AllBelow(executed, issued')
  BY <1>1, Appended DEF IInv
<1>3. /\ pc' \in {"idle", "write", "read"} /\ (err # "none" => pc' = "idle")
      /\ inbuf' \in Seq(1..MaxCommands)
      /\ results' \in Seq(0..MaxCommands) /\ NullMeansError'
  <2>1. CASE redisAppendCommand
    BY <2>1 DEF redisAppendCommand, IInv, Typed, TypeOK, Errors, NullMeansError
  <2>2. CASE redisCommand
    BY <1>1, <2>2, GetReplyGives DEF redisCommand, IInv
  <2> QED
    BY <2>1, <2>2
<1> QED
  BY <1>1, <1>2, <1>3 DEF IInv, Typed, TypeOK, Errors, conn

LEMMA AskStep ==
    ASSUME IInv, redisGetReply
    PROVE  IInv'
<1>1. GetReply /\ UNCHANGED <<obuf, err, conn, issued, executed, failedAt>>
  BY DEF redisGetReply
<1>2. /\ pc' \in {"idle", "write", "read"} /\ (err # "none" => pc' = "idle")
      /\ inbuf' \in Seq(1..MaxCommands)
      /\ results' \in Seq(0..MaxCommands) /\ NullMeansError'
  BY <1>1, GetReplyGives DEF IInv
<1> QED
  BY <1>1, <1>2 DEF IInv, Typed, TypeOK, Errors, conn, Flow, ExecutedIsPrefix

\* Every way to fail sets the error and ends the call.
LEMMA FailSteps ==
    ASSUME IInv, redisCommandFails \/ ReadEOF \/ IOFails
    PROVE  IInv'
<1>1. PICK e \in {"io", "eof", "protocol", "oom", "other"} : SetError(e)
  BY DEF redisCommandFails, ReadEOF, IOFails
<1>2. Return(NULL) /\ UNCHANGED <<obuf, conn, issued, executed>>
  BY DEF redisCommandFails, ReadEOF, IOFails
<1>3. inbuf' \in Seq(1..MaxCommands)
  <2>1. inbuf' = inbuf \/ inbuf' = << >>
    BY DEF redisCommandFails, ReadEOF, IOFails
  <2>2. inbuf \in Seq(1..MaxCommands) /\ << >> \in Seq(1..MaxCommands)
    BY DEF IInv, Typed, TypeOK
  <2> QED
    BY <2>1, <2>2
<1>4. err' = e /\ e # "none" /\ failedAt' \in {failedAt, issued}
  BY <1>1 DEF SetError
<1>5. results' \in Seq(0..MaxCommands) /\ pc' = "idle" /\ NullMeansError'
  <2>1. NULL \in 0..MaxCommands
    BY SizeAssumption DEF NULL
  <2> QED
    BY <1>2, <1>4, <2>1, Answered DEF IInv, Errors
<1> QED
  BY <1>2, <1>3, <1>4, <1>5
     DEF IInv, Typed, TypeOK, Errors, conn, Flow, ExecutedIsPrefix

LEMMA WriteStep ==
    ASSUME IInv, NEW n \in 1..Len(obuf), Write(n)
    PROVE  IInv'
<1>1. /\ pc = "write" /\ obuf' = From(obuf, n)
      /\ toServer' = IF up THEN toServer \o SubSeq(obuf, 1, n) ELSE toServer
      /\ UNCHANGED <<pc, err, inbuf, toClient, up, issued, executed, results, failedAt>>
  BY DEF Write
<1>2. toServer \in Seq(1..MaxCommands) /\ obuf \in Seq(1..MaxCommands)
      /\ executed \in Seq(1..MaxCommands) /\ issued \in Nat
  BY DEF IInv, Typed, TypeOK
<1>3. n \in 0..Len(obuf) /\ Len(executed) \in Nat
  BY <1>2, InSeq
<1>4. failedAt = MaxCommands
  BY <1>1 DEF IInv, Errors
<1>5. NullMeansError'
  BY <1>1 DEF IInv, Errors, NullMeansError
<1>6. CASE up
  <2> DEFINE e == End(Len(executed))
  <2>1. e \in Nat
    BY <1>3, EndStep, Zenon
  <2>2. toServer' = toServer \o SubSeq(obuf, 1, n) /\ obuf' = From(obuf, n)
    BY <1>1, <1>6
  <2> HIDE DEF e
  <2>3. /\ toServer' \in Seq(1..MaxCommands) /\ obuf' \in Seq(1..MaxCommands)
        /\ Len(toServer') + Len(obuf') = Len(toServer) + Len(obuf)
        /\ Follows(toServer, e) /\ Follows(obuf, e + Len(toServer))
              => Follows(toServer', e) /\ Follows(obuf', e + Len(toServer'))
        /\ \A m \in Nat : AllBelow(toServer, m) /\ AllBelow(obuf, m)
              => AllBelow(toServer', m) /\ AllBelow(obuf', m)
    BY <1>2, <1>3, <2>1, <2>2, Written
  <2>4. AllBelow(toServer', issued) /\ AllBelow(obuf', issued)
    BY <1>2, <2>3 DEF IInv, Errors
  <2>5. AllBelow(toServer', failedAt)
    <3>1. \A i \in 1..Len(toServer') : toServer'[i] \in 1..MaxCommands
      BY <2>3, InSeq
    <3> QED
      BY <1>4, <3>1, SizeAssumption DEF AllBelow
  <2>6. Follows(toServer', e) /\ Follows(obuf', e + Len(toServer'))
    BY <1>6, <2>3 DEF IInv, Flow, e
  <2>7. e + Len(toServer') + Len(obuf') = End(issued)
    <3>1. e + Len(toServer) + Len(obuf) = End(issued)
      BY <1>6 DEF IInv, Flow, e
    <3>2. Len(toServer) \in Nat /\ Len(obuf) \in Nat /\ Len(toServer') \in Nat /\ Len(obuf') \in Nat
      BY <1>2, <2>3, InSeq, Zenon
    <3> QED
      BY <2>1, <2>3, <3>1, <3>2
  <2>8. Flow'
    BY <1>1, <1>6, <2>6, <2>7 DEF IInv, Flow, ExecutedIsPrefix, e
  <2> QED
    BY <1>1, <1>5, <2>3, <2>4, <2>5, <2>8 DEF IInv, Typed, TypeOK, Errors
<1>7. CASE ~up
  <2>1. /\ obuf' \in Seq(1..MaxCommands) /\ Len(obuf') = Len(obuf) - n
        /\ \A i \in 1..Len(obuf) - n : obuf'[i] = obuf[n + i]
    BY <1>1, <1>2, <1>3, FromSeq
  <2>2. AllBelow(obuf', issued)
    <3>1. ASSUME NEW i \in 1..Len(obuf') PROVE obuf'[i] <= issued
      <4>1. n + i \in 1..Len(obuf) /\ i \in 1..Len(obuf) - n
        BY <1>3, <2>1
      <4> QED
        BY <2>1, <4>1 DEF IInv, Errors, AllBelow
    <3> QED
      BY <3>1 DEF AllBelow
  <2> QED
    BY <1>1, <1>5, <1>7, <2>1, <2>2 DEF IInv, Typed, TypeOK, Errors, Flow, ExecutedIsPrefix
<1> QED
  BY <1>6, <1>7

LEMMA WriteDoneStep ==
    ASSUME IInv, WriteDone
    PROVE  IInv'
BY DEF WriteDone, IInv, Typed, TypeOK, Errors, Flow, ExecutedIsPrefix, NullMeansError, conn

LEMMA ReadStep ==
    ASSUME IInv, NEW n \in 1..Len(toClient), Read(n)
    PROVE  IInv'
<1> DEFINE buf == inbuf \o SubSeq(toClient, 1, n)
<1>1. /\ pc = "read" /\ toClient' = From(toClient, n)
      /\ \/ ReplyThere(buf) /\ Return(Head(buf)) /\ inbuf' = From(buf, Size)
         \/ ~ReplyThere(buf) /\ inbuf' = buf /\ UNCHANGED <<pc, results>>
      /\ UNCHANGED <<obuf, err, toServer, up, issued, executed, failedAt>>
  BY DEF Read
<1>2. toClient \in Seq(1..MaxCommands) /\ inbuf \in Seq(1..MaxCommands)
  BY DEF IInv, Typed, TypeOK
<1>3. n \in 0..Len(toClient)
  BY <1>2, InSeq
<1>4. SubSeq(toClient, 1, n) \in Seq(1..MaxCommands) /\ toClient' \in Seq(1..MaxCommands)
  BY <1>1, <1>2, <1>3, TakeSeq, FromSeq
<1>5. buf \in Seq(1..MaxCommands)
  BY <1>2, <1>4, ConcatSeq, Zenon
<1> HIDE DEF buf
<1>6. /\ inbuf' \in Seq(1..MaxCommands) /\ results' \in Seq(0..MaxCommands)
      /\ pc' \in {"idle", "read"} /\ NullMeansError'
  <2>1. CASE ReplyThere(buf) /\ Return(Head(buf)) /\ inbuf' = From(buf, Size)
    <3>1. Head(buf) \in 1..MaxCommands /\ inbuf' \in Seq(1..MaxCommands)
      BY <1>5, <2>1, HandedOut
    <3>2. Head(buf) \in 0..MaxCommands /\ Head(buf) # NULL
      BY <3>1 DEF NULL
    <3> QED
      BY <1>1, <2>1, <3>1, <3>2, Answered DEF IInv, Errors
  <2>2. CASE ~ReplyThere(buf) /\ inbuf' = buf /\ UNCHANGED <<pc, results>>
    BY <1>1, <1>5, <2>2 DEF IInv, Typed, TypeOK, Errors, NullMeansError
  <2> QED
    BY <1>1, <2>1, <2>2
<1>7. err = "none"
  BY <1>1 DEF IInv, Errors
<1> QED
  BY <1>1, <1>4, <1>6, <1>7 DEF IInv, Typed, TypeOK, Errors, Flow, ExecutedIsPrefix

\* The first byte on the way to the server is the next command's.
LEMMA ExecuteStep ==
    ASSUME IInv, Execute
    PROVE  IInv'
<1> DEFINE k == Len(executed)
           c == Head(toServer)
<1>1. /\ up /\ Len(toServer) >= Size
      /\ executed' = Append(executed, c) /\ toServer' = From(toServer, Size)
      /\ toClient' = toClient \o Bytes(c)
      /\ UNCHANGED <<pc, obuf, err, inbuf, up, issued, results, failedAt>>
  BY DEF Execute
<1>2. /\ toServer \in Seq(1..MaxCommands) /\ executed \in Seq(1..MaxCommands)
      /\ toClient \in Seq(1..MaxCommands) /\ obuf \in Seq(1..MaxCommands)
  BY DEF IInv, Typed, TypeOK
<1>3. k \in Nat /\ Len(toServer) \in Nat /\ Len(obuf) \in Nat
  BY <1>2, InSeq, Zenon
<1>4. Size \in 0..Len(toServer) /\ Len(toServer) >= 1
  BY <1>1, <1>3, SizeAssumption
<1>5. c = toServer[1] /\ c \in 1..MaxCommands
  BY <1>2, <1>4, InSeq
<1> HIDE DEF c, k
<1>6. Follows(toServer, End(k)) /\ Follows(obuf, End(k) + Len(toServer))
      /\ End(k) + Len(toServer) + Len(obuf) = End(issued)
  BY <1>1 DEF IInv, Flow, k
<1>7. End(k) \in Nat /\ End(k + 1) = End(k) + Size
  BY <1>3, EndStep
<1>8. c = k + 1
  BY <1>2, <1>3, <1>4, <1>6, FirstByte DEF c
<1>9. /\ executed' \in Seq(1..MaxCommands) /\ Len(executed') = k + 1
      /\ \A i \in 1..k : executed'[i] = executed[i]
      /\ executed'[k + 1] = c
  BY <1>1, <1>2, <1>5, AppendSeq DEF k
<1>10. ExecutedIsPrefix'
  <2>1. \A i \in 1..k : executed[i] = i
    BY DEF IInv, Flow, ExecutedIsPrefix, k
  <2>2. \A i \in 1..k + 1 : executed'[i] = i
    BY <1>3, <1>8, <1>9, <2>1
  <2>3. executed' = [i \in 1..Len(executed') |-> executed'[i]]
    BY <1>9
  <2> QED
    BY <1>9, <2>2, <2>3 DEF ExecutedIsPrefix
<1>11. /\ toServer' \in Seq(1..MaxCommands) /\ Len(toServer') = Len(toServer) - Size
       /\ \A i \in 1..Len(toServer) - Size : toServer'[i] = toServer[Size + i]
  BY <1>1, <1>2, <1>4, FromSeq
<1>12. ASSUME NEW i \in 1..Len(toServer')
       PROVE  Size + i \in 1..Len(toServer) /\ toServer'[i] = toServer[Size + i]
  BY <1>3, <1>11, SizeAssumption
<1>13. Follows(toServer', End(k + 1))
  <2>1. ASSUME NEW i \in 1..Len(toServer')
        PROVE  /\ End(toServer'[i] - 1) < End(k + 1) + i
               /\ End(k + 1) + i <= End(toServer'[i])
    <3>1. Size + i \in 1..Len(toServer) /\ toServer'[i] = toServer[Size + i]
      BY <1>12
    <3>2. End(toServer[Size + i] - 1) < End(k) + (Size + i)
          /\ End(k) + (Size + i) <= End(toServer[Size + i])
      BY <1>6, <3>1 DEF Follows
    <3>3. End(k) + (Size + i) = End(k + 1) + i
      BY <1>7, SizeAssumption
    <3> QED
      BY <3>1, <3>2, <3>3
  <2> QED
    BY <2>1 DEF Follows
<1>14. End(k + 1) + Len(toServer') = End(k) + Len(toServer)
  BY <1>3, <1>7, <1>11, SizeAssumption
<1>15. Flow'
  BY <1>1, <1>6, <1>9, <1>10, <1>13, <1>14 DEF Flow
<1>16. toClient' \in Seq(1..MaxCommands)
  <2>1. Bytes(c) \in Seq(1..MaxCommands)
    BY <1>5, SizeAssumption DEF Bytes
  <2> QED
    BY <1>1, <1>2, <2>1, ConcatSeq, Zenon
<1>17. \A m \in Nat : AllBelow(toServer, m) /\ AllBelow(executed, m)
          => AllBelow(toServer', m) /\ AllBelow(executed', m)
  <2> SUFFICES ASSUME NEW m \in Nat, AllBelow(toServer, m), AllBelow(executed, m)
               PROVE  AllBelow(toServer', m) /\ AllBelow(executed', m)
    OBVIOUS
  <2>1. AllBelow(toServer', m)
    BY <1>12 DEF AllBelow
  <2>2. c <= m
    BY <1>4, <1>5 DEF AllBelow
  <2>3. \A i \in 1..k : executed[i] <= m
    BY DEF AllBelow, k
  <2>4. \A i \in 1..k + 1 : executed'[i] <= m
    BY <1>3, <1>9, <2>2, <2>3
  <2> QED
    BY <1>9, <2>1, <2>4 DEF AllBelow
<1>18. /\ AllBelow(toServer', issued) /\ AllBelow(executed', issued)
       /\ AllBelow(toServer', failedAt) /\ AllBelow(executed', failedAt)
  <2>1. issued \in Nat /\ failedAt \in Nat
    BY DEF IInv, Typed, TypeOK
  <2> QED
    BY <1>17, <2>1 DEF IInv, Errors
<1> QED
  BY <1>1, <1>9, <1>11, <1>15, <1>16, <1>18
     DEF IInv, Typed, TypeOK, Errors, NullMeansError

LEMMA CloseStep ==
    ASSUME IInv, Close
    PROVE  IInv'
<1>1. /\ up' = FALSE /\ toServer' = << >>
      /\ UNCHANGED <<pc, obuf, err, inbuf, issued, executed, results, failedAt>>
  BY DEF Close
<1>2. toClient' \in Seq(1..MaxCommands)
  <2>1. PICK n \in 0..Len(toClient) : toClient' = SubSeq(toClient, 1, n)
    BY DEF Close
  <2>2. toClient \in Seq(1..MaxCommands)
    BY DEF IInv, Typed, TypeOK
  <2> QED
    BY <2>1, <2>2, TakeSeq
<1>3. AllBelow(toServer', issued) /\ AllBelow(toServer', failedAt)
      /\ toServer' \in Seq(1..MaxCommands)
  BY <1>1 DEF AllBelow
<1>4. Typed'
  BY <1>1, <1>2, <1>3 DEF IInv, Typed, TypeOK
<1>5. Flow'
  BY <1>1 DEF IInv, Flow, ExecutedIsPrefix
<1>6. Errors'
  BY <1>1, <1>3 DEF IInv, Errors, NullMeansError, AllBelow
<1> QED
  BY <1>4, <1>5, <1>6 DEF IInv

LEMMA StepIInv == IInv /\ [Next]_vars => IInv'
<1> SUFFICES ASSUME IInv, [Next]_vars PROVE IInv'
  OBVIOUS
<1>1. CASE redisAppendCommand \/ redisCommand
  BY <1>1, AppendSteps
<1>2. CASE redisGetReply
  BY <1>2, AskStep
<1>3. CASE redisCommandFails \/ ReadEOF \/ IOFails
  BY <1>3, FailSteps
<1>4. CASE \E n \in 1..Len(obuf) : Write(n)
  BY <1>4, WriteStep
<1>5. CASE WriteDone
  BY <1>5, WriteDoneStep
<1>6. CASE \E n \in 1..Len(toClient) : Read(n)
  BY <1>6, ReadStep
<1>7. CASE Execute
  BY <1>7, ExecuteStep
<1>8. CASE Close
  BY <1>8, CloseStep
<1>9. CASE UNCHANGED vars
  BY <1>9 DEF vars, conn, IInv, Typed, TypeOK, Errors, Flow, ExecutedIsPrefix, NullMeansError
<1> QED
  BY <1>1, <1>2, <1>3, <1>4, <1>5, <1>6, <1>7, <1>8, <1>9 DEF Next, InCall

-----------------------------------------------------------------------------
(* The replies.                                                            *)

\* The bytes of the replies the program has been given.
Given == End(Len(Answers))

\* What the reader holds and what is on the way to it continue the replies
\* given, in the order of the commands; while the context has no error and
\* the connection is up, nothing is missing.
Replies ==
    /\ Follows(inbuf, Given)
    /\ Given + Len(inbuf) <= End(Len(executed))
    /\ err = "none" =>
         /\ Follows(toClient, Given + Len(inbuf))
         /\ Given + Len(inbuf) + Len(toClient) <= End(Len(executed))
         /\ up => Given + Len(inbuf) + Len(toClient) = End(Len(executed))

RInv == IInv /\ Replies

LEMMA InitReplies == Init => Replies
<1> SUFFICES ASSUME Init PROVE Replies
  OBVIOUS
<1>1. Answers = << >>
  BY WithoutEmpty DEF Init, Answers
<1>2. Given = 0
  BY <1>1, SizeAssumption DEF Given, End
<1>3. End(Len(executed)) = 0
  BY SizeAssumption DEF Init, End
<1> QED
  BY <1>2, <1>3 DEF Init, Replies, Follows

LEMMA AnswersTyped ==
    ASSUME Typed
    PROVE  /\ Answers \in Seq(0..MaxCommands) /\ Len(Answers) \in Nat
           /\ Given \in Nat /\ Len(executed) \in Nat /\ End(Len(executed)) \in Nat
           /\ Len(inbuf) \in Nat /\ Len(toClient) \in Nat
<1>1. Answers \in Seq(0..MaxCommands)
  BY WithoutMembers DEF Typed, TypeOK, Answers
<1>2. Len(Answers) \in Nat /\ Len(executed) \in Nat /\ Len(inbuf) \in Nat /\ Len(toClient) \in Nat
  BY <1>1 DEF Typed, TypeOK
<1> QED
  BY <1>1, <1>2, EndStep DEF Given

LEMMA AnswersGrow ==
    ASSUME Typed, NEW r \in 0..MaxCommands, Return(r)
    PROVE  Answers' = IF r = NULL THEN Answers ELSE Append(Answers, r)
BY WithoutAppend DEF Typed, TypeOK, Return, Answers

\* A piece of a stream and the rest of it.
LEMMA FollowsParts ==
    ASSUME NEW buf \in Seq(1..MaxCommands), NEW off \in Nat, NEW n \in 0..Len(buf),
           Follows(buf, off)
    PROVE  Follows(SubSeq(buf, 1, n), off) /\ Follows(From(buf, n), off + n)
<1>1. /\ Len(SubSeq(buf, 1, n)) = n
      /\ \A i \in 1..n : SubSeq(buf, 1, n)[i] = buf[i]
  BY TakeSeq
<1>2. /\ Len(From(buf, n)) = Len(buf) - n
      /\ \A i \in 1..Len(buf) - n : From(buf, n)[i] = buf[n + i]
  BY FromSeq
<1>3. Len(buf) \in Nat
  BY InSeq
<1>4. Follows(SubSeq(buf, 1, n), off)
  BY <1>1, <1>3 DEF Follows
<1>5. ASSUME NEW i \in 1..Len(From(buf, n))
      PROVE  /\ End(From(buf, n)[i] - 1) < off + n + i
             /\ off + n + i <= End(From(buf, n)[i])
  <2>1. n + i \in 1..Len(buf) /\ From(buf, n)[i] = buf[n + i]
    BY <1>2, <1>3
  <2>2. End(buf[n + i] - 1) < off + (n + i) /\ off + (n + i) <= End(buf[n + i])
    BY <2>1 DEF Follows
  <2>3. off + (n + i) = off + n + i
    BY <1>3
  <2> QED
    BY <2>1, <2>2, <2>3
<1> QED
  BY <1>4, <1>5 DEF Follows

\* A stream continued.
LEMMA FollowsConcat ==
    ASSUME NEW s \in Seq(1..MaxCommands), NEW t \in Seq(1..MaxCommands), NEW off \in Nat,
           Follows(s, off), Follows(t, off + Len(s))
    PROVE  Follows(s \o t, off)
<1>1. Len(s) \in Nat /\ Len(t) \in Nat
  BY InSeq
<1>2. /\ Len(s \o t) = Len(s) + Len(t)
      /\ \A i \in 1..Len(s) : (s \o t)[i] = s[i]
      /\ \A i \in 1..Len(t) : (s \o t)[Len(s) + i] = t[i]
  BY ConcatSeq
<1> DEFINE w == s \o t
<1> HIDE DEF w
<1>3. ASSUME NEW i \in 1..Len(w)
      PROVE  End(w[i] - 1) < off + i /\ off + i <= End(w[i])
  <2>1. CASE i <= Len(s)
    BY <1>1, <1>2, <2>1 DEF Follows, w
  <2>2. CASE i > Len(s)
    <3>1. PICK j : j = i - Len(s)
      OBVIOUS
    <3>2. j \in 1..Len(t) /\ i = Len(s) + j
      BY <1>1, <1>2, <2>2, <3>1 DEF w
    <3>3. w[i] = t[j]
      BY <1>2, <3>2 DEF w
    <3>4. End(t[j] - 1) < off + Len(s) + j /\ off + Len(s) + j <= End(t[j])
      BY <3>2 DEF Follows
    <3> QED
      BY <1>1, <3>2, <3>3, <3>4
  <2> QED
    BY <1>1, <2>1, <2>2
<1> QED
  BY <1>3 DEF Follows, w

\* The reply handed out is the one the abstract stream delivers next.
LEMMA DeliverReply ==
    ASSUME Typed, ExecutedIsPrefix, NEW buf \in Seq(1..MaxCommands), ReplyThere(buf),
           Follows(buf, Given), Given + Len(buf) <= End(Len(executed)),
           Return(Head(buf)), inbuf' = From(buf, Size), UNCHANGED executed
    PROVE  /\ Stream!Deliver
           /\ Follows(inbuf', Given')
           /\ Given' + Len(inbuf') = Given + Len(buf)
<1> DEFINE a == Len(Answers)
<1>1. a \in Nat /\ Given \in Nat /\ Len(executed) \in Nat /\ Given = End(a)
      /\ Answers \in Seq(0..MaxCommands)
  BY AnswersTyped DEF Given
<1>2. Size \in 0..Len(buf) /\ Len(buf) >= 1 /\ Len(buf) \in Nat
  BY SizeAssumption DEF ReplyThere
<1>3. Head(buf) = a + 1
  BY <1>1, <1>2, FirstByte
<1>4. Head(buf) \in 1..MaxCommands
  BY <1>2, InSeq, Zenon
<1>5. Answers' = Append(Answers, a + 1)
  BY <1>3, <1>4, AnswersGrow DEF NULL
<1>6. Len(Answers') = a + 1
  BY <1>1, <1>5
<1>7. Given' = Given + Size
  BY <1>1, <1>6, EndStep DEF Given, End
<1>8. a < Len(executed)
  <2>1. Given < End(Len(executed))
    BY <1>1, <1>2, AnswersTyped
  <2>2. a # Len(executed)
    BY <1>1, <2>1, AnswersTyped
  <2>3. ~(Len(executed) < a)
    <3>1. Len(executed) < a => End(Len(executed)) < End(a)
      BY <1>1, EndMonotone
    <3> QED
      BY <1>1, <2>1, <3>1, AnswersTyped
  <2> QED
    BY <1>1, <2>2, <2>3
<1>9. executed[a + 1] = a + 1
  BY <1>1, <1>8 DEF ExecutedIsPrefix
<1>10. Stream!Deliver
  BY <1>1, <1>3, <1>4, <1>5, <1>8, <1>9 DEF Stream!Deliver
<1>11. Follows(inbuf', Given')
  BY <1>1, <1>2, <1>7, FollowsParts
<1>12. Len(inbuf') = Len(buf) - Size
  BY <1>2, FromSeq
<1> QED
  BY <1>1, <1>2, <1>7, <1>10, <1>11, <1>12, SizeAssumption

-----------------------------------------------------------------------------
(* Each step is one of the abstract stream.                                *)

StreamStep == [Stream!Next]_Stream!vars

LEMMA GetReplyStreams ==
    ASSUME RInv, GetReply, UNCHANGED <<err, conn, executed>>
    PROVE  Replies' /\ StreamStep
<1>1. CASE ReplyThere(inbuf)
  <2>1. Return(Head(inbuf)) /\ inbuf' = From(inbuf, Size)
    BY <1>1 DEF GetReply
  <2>2. inbuf \in Seq(1..MaxCommands) /\ Typed /\ ExecutedIsPrefix
    BY DEF RInv, IInv, Typed, TypeOK, Flow
  <2>3. /\ Stream!Deliver /\ Follows(inbuf', Given')
        /\ Given' + Len(inbuf') = Given + Len(inbuf)
    BY <1>1, <2>1, <2>2, DeliverReply DEF RInv, Replies
  <2> QED
    BY <2>3 DEF RInv, Replies, conn, StreamStep, Stream!Next
<1>2. CASE ~ReplyThere(inbuf) /\ err # "none"
  <2>1. Return(NULL) /\ inbuf' = inbuf
    BY <1>2 DEF GetReply
  <2>2. Answers' = Answers
    BY <2>1, AnswersGrow, SizeAssumption DEF RInv, IInv, NULL
  <2> QED
    BY <2>1, <2>2 DEF RInv, Replies, conn, Given, StreamStep, Stream!vars
<1>3. CASE ~ReplyThere(inbuf) /\ err = "none"
  <2>1. UNCHANGED <<inbuf, results>>
    BY <1>3 DEF GetReply
  <2>2. Answers' = Answers
    BY <2>1 DEF Answers
  <2> QED
    BY <2>1, <2>2 DEF RInv, Replies, conn, Given, StreamStep, Stream!vars
<1> QED
  BY <1>1, <1>2, <1>3

\* NULL is not an answer; a reader that fails drops what it has.
LEMMA FailStreams ==
    ASSUME RInv, redisCommandFails \/ ReadEOF \/ IOFails
    PROVE  Replies' /\ StreamStep
<1>1. PICK e \in {"io", "eof", "protocol", "oom", "other"} : SetError(e)
  BY DEF redisCommandFails, ReadEOF, IOFails
<1>2. Return(NULL) /\ executed' = executed /\ (inbuf' = inbuf \/ inbuf' = << >>)
  BY DEF redisCommandFails, ReadEOF, IOFails
<1>3. err' # "none"
  BY <1>1 DEF SetError
<1>4. Answers' = Answers
  BY <1>2, AnswersGrow, SizeAssumption DEF RInv, IInv, NULL
<1>5. CASE inbuf' = inbuf
  BY <1>2, <1>3, <1>4, <1>5 DEF RInv, Replies, Given, StreamStep, Stream!vars
<1>6. CASE inbuf' = << >>
  <2>1. Given + Len(inbuf') <= End(Len(executed))
    BY <1>6, AnswersTyped DEF RInv, IInv, Replies
  <2>2. Follows(inbuf', Given)
    BY <1>6 DEF Follows
  <2> QED
    BY <1>2, <1>3, <1>4, <2>1, <2>2 DEF Replies, Given, StreamStep, Stream!vars
<1> QED
  BY <1>2, <1>5, <1>6

LEMMA ReadStreams ==
    ASSUME RInv, NEW n \in 1..Len(toClient), Read(n)
    PROVE  Replies' /\ StreamStep
<1> DEFINE piece == SubSeq(toClient, 1, n)
           buf == inbuf \o piece
<1>1. /\ pc = "read" /\ toClient' = From(toClient, n)
      /\ \/ ReplyThere(buf) /\ Return(Head(buf)) /\ inbuf' = From(buf, Size)
         \/ ~ReplyThere(buf) /\ inbuf' = buf /\ UNCHANGED <<pc, results>>
      /\ UNCHANGED <<obuf, err, toServer, up, issued, executed, failedAt>>
  BY DEF Read
<1>2. /\ toClient \in Seq(1..MaxCommands) /\ inbuf \in Seq(1..MaxCommands)
      /\ Typed /\ ExecutedIsPrefix
  BY DEF RInv, IInv, Typed, TypeOK, Flow
<1>3. n \in 0..Len(toClient) /\ n \in Nat
  BY <1>2, InSeq
<1>4. /\ piece \in Seq(1..MaxCommands) /\ Len(piece) = n
      /\ toClient' \in Seq(1..MaxCommands) /\ Len(toClient') = Len(toClient) - n
  BY <1>1, <1>2, <1>3, TakeSeq, FromSeq
<1>5. buf \in Seq(1..MaxCommands) /\ Len(buf) = Len(inbuf) + n
  BY <1>2, <1>4, ConcatSeq, Zenon
<1>6. /\ Given \in Nat /\ Len(inbuf) \in Nat /\ Len(toClient) \in Nat
      /\ End(Len(executed)) \in Nat
  BY <1>2, AnswersTyped
<1>7. err = "none"
  BY <1>1 DEF RInv, IInv, Errors
<1>8. /\ Follows(inbuf, Given) /\ Follows(toClient, Given + Len(inbuf))
      /\ Given + Len(inbuf) + Len(toClient) <= End(Len(executed))
      /\ up => Given + Len(inbuf) + Len(toClient) = End(Len(executed))
  BY <1>7 DEF RInv, Replies
<1>9. Follows(piece, Given + Len(inbuf)) /\ Follows(toClient', Given + Len(inbuf) + n)
  BY <1>1, <1>2, <1>3, <1>6, <1>8, FollowsParts
<1>10. Follows(buf, Given)
  BY <1>2, <1>4, <1>6, <1>8, <1>9, FollowsConcat
<1>11. Given + Len(buf) <= End(Len(executed))
  BY <1>3, <1>5, <1>6, <1>8
<1> HIDE DEF buf, piece
<1>12. /\ StreamStep /\ Follows(inbuf', Given')
       /\ Given' + Len(inbuf') = Given + Len(buf)
  <2>1. CASE ReplyThere(buf) /\ Return(Head(buf)) /\ inbuf' = From(buf, Size)
    BY <1>1, <1>2, <1>5, <1>10, <1>11, <2>1, DeliverReply DEF StreamStep, Stream!Next
  <2>2. CASE ~ReplyThere(buf) /\ inbuf' = buf /\ UNCHANGED <<pc, results>>
    <3>1. Answers' = Answers
      BY <2>2 DEF Answers
    <3> QED
      BY <1>1, <1>10, <2>2, <3>1 DEF Given, StreamStep, Stream!vars
  <2> QED
    BY <1>1, <2>1, <2>2
<1>13. /\ Follows(toClient', Given' + Len(inbuf'))
       /\ Given' + Len(inbuf') + Len(toClient') = Given + Len(inbuf) + Len(toClient)
  <2>1. Given + Len(buf) = Given + Len(inbuf) + n
    BY <1>3, <1>5, <1>6
  <2>2. Given + Len(inbuf) + n + (Len(toClient) - n) = Given + Len(inbuf) + Len(toClient)
    BY <1>3, <1>6
  <2> QED
    BY <1>4, <1>9, <1>12, <2>1, <2>2
<1> QED
  BY <1>1, <1>7, <1>8, <1>11, <1>12, <1>13 DEF Replies

LEMMA ExecuteStreams ==
    ASSUME RInv, Execute
    PROVE  Replies' /\ StreamStep
<1> DEFINE k == Len(executed)
           c == Head(toServer)
<1>1. /\ up /\ Len(toServer) >= Size /\ executed' = Append(executed, c)
      /\ toClient' = toClient \o Bytes(c)
      /\ UNCHANGED <<pc, obuf, err, inbuf, up, issued, results, failedAt>>
  BY DEF Execute
<1>2. /\ toServer \in Seq(1..MaxCommands) /\ executed \in Seq(1..MaxCommands)
      /\ toClient \in Seq(1..MaxCommands) /\ Typed
  BY DEF RInv, IInv, Typed, TypeOK
<1>3. /\ k \in Nat /\ Given \in Nat /\ Len(inbuf) \in Nat /\ Len(toClient) \in Nat
      /\ End(k) \in Nat /\ End(k + 1) = End(k) + Size
  BY <1>2, AnswersTyped, EndStep
<1>4. Len(toServer) >= 1
  BY <1>1, <1>2, InSeq, SizeAssumption
<1>5. c = k + 1 /\ c \in 1..MaxCommands
  <2>1. Follows(toServer, End(k))
    BY <1>1 DEF RInv, IInv, Flow
  <2>2. c \in 1..MaxCommands
    BY <1>2, <1>4, InSeq, Zenon
  <2> QED
    BY <1>2, <1>3, <1>4, <2>1, <2>2, FirstByte
<1> HIDE DEF c
<1>6. Len(executed') = k + 1
  BY <1>1, <1>2, <1>5, AppendSeq
<1>7. Answers' = Answers /\ Given' = Given
  BY <1>1 DEF Answers, Given
<1>8. StreamStep
  BY <1>1, <1>5, <1>7 DEF StreamStep, Stream!Next, Stream!Send
<1>9. /\ Bytes(c) \in Seq(1..MaxCommands) /\ Len(Bytes(c)) = Size
      /\ \A i \in 1..Size : Bytes(c)[i] = c
  BY <1>5, BytesSeq, SizeAssumption DEF Bytes
<1>10. ASSUME err = "none"
       PROVE  /\ Follows(toClient', Given + Len(inbuf))
              /\ Given + Len(inbuf) + Len(toClient') = End(k + 1)
  <2>1. /\ Follows(toClient, Given + Len(inbuf))
        /\ Given + Len(inbuf) + Len(toClient) = End(k)
    BY <1>1, <1>10 DEF RInv, Replies
  <2>2. Follows(Bytes(c), End(k))
    <3>1. ASSUME NEW i \in 1..Len(Bytes(c))
          PROVE  End(Bytes(c)[i] - 1) < End(k) + i /\ End(k) + i <= End(Bytes(c)[i])
      <4>1. Bytes(c)[i] = k + 1 /\ (k + 1) - 1 = k
        BY <1>3, <1>5, <1>9
      <4>2. i \in 1..Size
        BY <1>9
      <4>3. End(k) < End(k) + i /\ End(k) + i <= End(k + 1)
        BY <1>3, <4>2, SizeAssumption
      <4> QED
        BY <4>1, <4>3
    <3> QED
      BY <3>1 DEF Follows
  <2>3. Follows(toClient', Given + Len(inbuf))
    BY <1>1, <1>2, <1>3, <1>9, <2>1, <2>2, FollowsConcat
  <2>4. Len(toClient') = Len(toClient) + Size
    BY <1>1, <1>2, <1>9, ConcatSeq, Zenon
  <2> QED
    BY <1>3, <2>1, <2>3, <2>4, SizeAssumption
<1>11. Given + Len(inbuf) <= End(k + 1)
  BY <1>3, SizeAssumption DEF RInv, Replies
<1>12. Replies'
  BY <1>1, <1>3, <1>6, <1>7, <1>10, <1>11 DEF RInv, Replies
<1> QED
  BY <1>8, <1>12

\* What a close takes away is at the end of what has not been read.
LEMMA CloseStreams ==
    ASSUME RInv, Close
    PROVE  Replies' /\ StreamStep
<1>1. /\ up' = FALSE
      /\ UNCHANGED <<err, inbuf, executed, results>>
  BY DEF Close
<1>2. PICK n \in 0..Len(toClient) : toClient' = SubSeq(toClient, 1, n)
  BY DEF Close
<1>3. toClient \in Seq(1..MaxCommands) /\ Typed
  BY DEF RInv, IInv, Typed, TypeOK
<1>4. Answers' = Answers /\ Given' = Given
  BY <1>1 DEF Answers, Given
<1>5. Len(toClient') = n
  BY <1>2, <1>3, TakeSeq
<1>6. Given + Len(inbuf) \in Nat /\ Len(toClient) \in Nat /\ End(Len(executed)) \in Nat
      /\ Given \in Nat /\ Len(inbuf) \in Nat
  BY <1>3, AnswersTyped
<1>7. ASSUME err = "none"
      PROVE  /\ Follows(toClient', Given + Len(inbuf))
             /\ Given + Len(inbuf) + n <= End(Len(executed))
  BY <1>2, <1>3, <1>6, <1>7, FollowsParts DEF RInv, Replies
<1> QED
  BY <1>1, <1>4, <1>5, <1>7 DEF RInv, Replies, StreamStep, Stream!vars

LEMMA StepStreams == RInv /\ [Next]_vars => Replies' /\ StreamStep
<1> SUFFICES ASSUME RInv, [Next]_vars PROVE Replies' /\ StreamStep
  OBVIOUS
<1>1. ASSUME UNCHANGED <<err, inbuf, toClient, up, executed, results>>
      PROVE  Replies' /\ StreamStep
  <2>1. Answers' = Answers
    BY <1>1 DEF Answers
  <2> QED
    BY <1>1, <2>1 DEF RInv, Replies, Given, StreamStep, Stream!vars
<1>2. CASE redisAppendCommand
  BY <1>1, <1>2 DEF redisAppendCommand, conn
<1>3. CASE redisGetReply \/ redisCommand
  BY <1>3, GetReplyStreams DEF redisGetReply, redisCommand
<1>4. CASE redisCommandFails \/ ReadEOF \/ IOFails
  BY <1>4, FailStreams
<1>5. CASE (\E n \in 1..Len(obuf) : Write(n)) \/ WriteDone
  BY <1>1, <1>5 DEF Write, WriteDone, conn
<1>6. CASE \E n \in 1..Len(toClient) : Read(n)
  BY <1>6, ReadStreams
<1>7. CASE Execute
  BY <1>7, ExecuteStreams
<1>8. CASE Close
  BY <1>8, CloseStreams
<1>9. CASE UNCHANGED vars
  BY <1>1, <1>9 DEF vars, conn
<1> QED
  BY <1>2, <1>3, <1>4, <1>5, <1>6, <1>7, <1>8, <1>9 DEF Next, InCall

-----------------------------------------------------------------------------
(* The buffers hold bytes of commands the program has appended, whatever is *)
(* written and read in whatever pieces.                                     *)
THEOREM ContextTypeCorrect == Spec => []TypeOK
<1>1. IInv => TypeOK
  BY DEF IInv, Typed
<1> QED
  BY <1>1, InitIInv, StepIInv, PTL DEF Spec

LEMMA IInvSafe == IInv => ExecutedIsPrefix /\ NothingAfterError /\ NullMeansError
<1> SUFFICES ASSUME IInv PROVE NothingAfterError
  BY DEF IInv, Flow, Errors
<1>1. executed \in Seq(1..MaxCommands)
  BY DEF IInv, Typed, TypeOK
<1>2. DOMAIN executed = 1..Len(executed)
  BY <1>1, InSeq, Zenon
<1> QED
  BY <1>2 DEF IInv, Errors, AllBelow, NothingAfterError

(* redisBufferWrite writes each byte once and in order, over any partial    *)
(* writes, failures and a close: what redis has executed is a prefix of     *)
(* what the program has sent.                                               *)
THEOREM PrefixExecuted == Spec => []ExecutedIsPrefix
<1>1. IInv => ExecutedIsPrefix
  BY DEF IInv, Flow
<1> QED
  BY <1>1, InitIInv, StepIInv, PTL DEF Spec

(* The error of a context is sticky: nothing appended after it reaches      *)
(* redis, so a creation of vfs.c cut off by a lost connection is not        *)
(* continued by a later call.                                               *)
THEOREM SilentAfterError == Spec => []NothingAfterError
BY IInvSafe, InitIInv, StepIInv, PTL DEF Spec

(* redisCommand returns NULL only on a context that has an error            *)
(* (hiredis.c:945).                                                         *)
THEOREM NullIsError == Spec => []NullMeansError
<1>1. IInv => NullMeansError
  BY DEF IInv, Errors
<1> QED
  BY <1>1, InitIInv, StepIInv, PTL DEF Spec

(* Replies come out of redisGetReply in the order of the commands, each     *)
(* once and whole, over partial reads, failures and a close: the context    *)
(* implements the abstract stream of replies.                               *)
THEOREM StreamImplemented == Spec => ImplementsStream
<1>1. Init => Stream!Init
  BY WithoutEmpty DEF Init, Answers, Stream!Init
<1>2. Init => RInv
  BY InitIInv, InitReplies DEF RInv
<1>3. RInv /\ [Next]_vars => RInv' /\ [Stream!Next]_Stream!vars
  BY StepIInv, StepStreams DEF RInv, StreamStep
<1> QED
  BY <1>1, <1>2, <1>3, PTL DEF Spec, ImplementsStream, Stream!Spec

-----------------------------------------------------------------------------
(* The session.                                                            *)

\* An error that a constructor or an option sets between two calls counts
\* from the commands appended by then.
ErrorNoted ==
    /\ UNCHANGED contextRest
    /\ err' \in {err, "io", "other"}
    /\ failedAt' = IF err = "none" /\ err' # "none" THEN issued ELSE failedAt

LEMMA ConstructNotes ==
    ASSUME Constructor \/ redisSetTimeout \/ redisEnableKeepAlive \/ redisFree
    PROVE  err' \in {err, "io", "other"}
<1> USE DEF Goto, FailWith, FailSilently
<1>1. CASE Resolve \/ Socket \/ redisCreateSocket \/ NoAddressLeft
  BY <1>1 DEF Resolve, Socket, redisCreateSocket, NoAddressLeft, MakeSocket
<1>2. CASE NonBlock \/ Block
  BY <1>2 DEF NonBlock, Block, SetBlocking
<1>3. CASE Bind \/ Poll \/ NoDelay
  BY <1>3 DEF Bind, Poll, NoDelay
<1>4. CASE Connect
  BY <1>4 DEF Connect, ConnectWith
<1>5. CASE redisSetTimeout \/ redisEnableKeepAlive \/ redisFree
  BY <1>5 DEF redisSetTimeout, redisEnableKeepAlive, OptionFails, redisFree
<1> QED
  BY <1>1, <1>2, <1>3, <1>4, <1>5 DEF Constructor

\* A constructor has a next system call only until it has returned.
LEMMA ConstructorRuns == Constructor => at \notin {"up", "failed", "freed"}
BY DEF Constructor, Resolve, Socket, redisCreateSocket, NoAddressLeft, NonBlock, Bind, Connect,
   ConnectWith, Poll, Block, NoDelay

\* What the invariants of RedisContext say of an error holds of one it has
\* not set itself.
LEMMA NotedStep ==
    ASSUME RInv, ErrorNoted, pc = "idle"
    PROVE  RInv' /\ StreamStep
<1>1. /\ UNCHANGED <<pc, obuf, inbuf, conn, issued, executed, results>>
      /\ err' \in {err, "io", "other"}
      /\ err' = "none" => err = "none" /\ failedAt' = failedAt
      /\ failedAt' \in {failedAt, issued}
  BY DEF ErrorNoted, contextRest
<1>2. Typed'
  BY <1>1 DEF RInv, IInv, Typed, TypeOK, conn
<1>3. Flow'
  BY <1>1 DEF RInv, IInv, Flow, ExecutedIsPrefix, conn
<1>4. Errors'
  BY <1>1 DEF RInv, IInv, Errors, NullMeansError, conn
<1>5. Answers' = Answers
  BY <1>1 DEF Answers
<1>6. Replies' /\ StreamStep
  BY <1>1, <1>5 DEF RInv, Replies, Given, StreamStep, Stream!vars, conn
<1> QED
  BY <1>2, <1>3, <1>4, <1>6 DEF RInv, IInv

\* While the constructor runs there is no call.
Waiting == at \notin {"up", "freed"} => pc = "idle"

SessionInv ==
    /\ SocketMade
    /\ ~mode.reuse => OneSocket
    /\ RInv
    /\ Waiting

LEMMA SessionStart == SessionInit => SessionInv /\ Stream!Init
<1>1. Init => Waiting
  BY DEF Init, Waiting
<1>2. Init => Stream!Init
  BY WithoutEmpty DEF Init, Answers, Stream!Init
<1> QED
  BY <1>1, <1>2, InitSocketMade, InitOneSocket, InitIInv, InitReplies
     DEF SessionInit, SessionInv, RInv

\* The calls of RedisContext and the server's steps leave the socket alone;
\* an error they set is none of a constructor's.
LEMMA UseStep ==
    ASSUME SessionInv, [Next]_vars, UNCHANGED socketVars,
           at # "failed" \/ UNCHANGED err, at \in {"up", "freed"} \/ UNCHANGED pc
    PROVE  SessionInv' /\ StreamStep
<1>1. SocketMade'
  BY DEF SessionInv, SocketMade, socketVars
<1>2. (~mode.reuse => OneSocket)'
  BY DEF SessionInv, OneSocket, socketVars
<1>3. RInv' /\ StreamStep
  BY StepIInv, StepStreams DEF SessionInv, RInv
<1>4. Waiting'
  BY DEF SessionInv, Waiting, socketVars
<1> QED
  BY <1>1, <1>2, <1>3, <1>4 DEF SessionInv

LEMMA SessionStep ==
    ASSUME SessionInv, [SessionNext]_sessionVars
    PROVE  SessionInv' /\ StreamStep
<1>1. CASE Construct \/ Configure
  <2>1. ConnectNext /\ ErrorNoted
    BY <1>1, ConstructNotes DEF Construct, Configure, ConnectNext, ErrorNoted
  <2>2. pc = "idle" /\ pc' = "idle"
    BY <1>1, ConstructorRuns DEF SessionInv, Waiting, Construct, Configure, contextRest
  <2> QED
    BY <2>1, <2>2, NotedStep, StepSocketMade, StepOneSocket DEF SessionInv, Waiting
<1>2. CASE Use
  <2>1. Next /\ UNCHANGED socketVars /\ at = "up"
    BY <1>2 DEF Use, Next, Ready
  <2> QED
    BY <2>1, UseStep
<1>3. CASE Serve
  <2>1. Next /\ UNCHANGED socketVars /\ at \in {"up", "freed"}
    BY <1>3 DEF Serve, Next
  <2> QED
    BY <2>1, UseStep
<1>4. CASE UNCHANGED sessionVars
  <2>1. UNCHANGED vars /\ UNCHANGED socketVars /\ UNCHANGED err /\ UNCHANGED pc
    BY <1>4 DEF sessionVars, connectVars, vars
  <2> QED
    BY <2>1, UseStep
<1> QED
  BY <1>1, <1>2, <1>3, <1>4 DEF SessionNext

(* From the constructor's first system call to redisFree: no path leaves a  *)
(* socket behind, what is handed out can be used or has an error, redis     *)
(* executes a prefix of the commands and none after an error, and NULL      *)
(* means an error, whichever of net.c and hiredis.c has set it.             *)
THEOREM SessionSafe ==
    SessionSpec => [](/\ NoLeak /\ UpIsUsable /\ ErrorReported
                      /\ ExecutedIsPrefix /\ NothingAfterError /\ NullMeansError)
<1>1. SessionInv => NoLeak /\ UpIsUsable /\ ErrorReported
  BY DEF SessionInv, SocketMade, UpIsUsable, OneSocket, NoLeak, ErrorReported
<1>2. SessionInv => ExecutedIsPrefix /\ NothingAfterError /\ NullMeansError
  BY IInvSafe DEF SessionInv, RInv
<1> QED
  BY <1>1, <1>2, SessionStart, SessionStep, PTL DEF SessionSpec

(* redisGetReply hands out the replies in order and each once in a session  *)
(* too, in which a constructor and redisEnableKeepAlive set the error that  *)
(* ends a call.                                                             *)
THEOREM SessionStreams == SessionSpec => ImplementsStream
<1>1. SessionInv /\ [SessionNext]_sessionVars => SessionInv' /\ [Stream!Next]_Stream!vars
  BY SessionStep DEF StreamStep
<1> QED
  BY <1>1, SessionStart, PTL DEF SessionSpec, ImplementsStream, Stream!Spec
=============================================================================
