-------------------------- MODULE RedisAsyncProofs --------------------------
(***************************************************************************)
(* Proofs about the asynchronous context, for any programs, any number of  *)
(* commands and channels, with faults or without.                          *)
(***************************************************************************)
EXTENDS RedisAsync, ListsProofs, SequenceTheorems, FiniteSetTheorems, TLAPS

-----------------------------------------------------------------------------
(* What the typing says of programs, commands and replies.                 *)

LEMMA ProgramFacts ==
    ASSUME program \in Programs
    PROVE  /\ program.calls \subseteq AllCalls /\ program.keys \subseteq Keys
           /\ program.commands \in Nat /\ program.commands <= MaxCommands
           /\ program.lines \in Nat /\ MaxCommands \in Nat /\ NoKey \notin Keys
BY ProgramsAssumption

LEMMA CommandFacts ==
    ASSUME TypedControl, TypedCommands
    PROVE  /\ Len(commands) \in Nat /\ Len(commands) <= MaxCommands /\ MaxCommands \in Nat
           /\ Number \subseteq 0..MaxCommands
           /\ \A n \in 1..Len(commands) :
                /\ commands[n] \in [kind : CommandKinds, key : Keys \union {NoKey}]
                /\ Kind(n) = commands[n].kind /\ Kind(n) \in CommandKinds
<1>1. /\ program.commands \in Nat /\ program.commands <= MaxCommands /\ MaxCommands \in Nat
      /\ Len(commands) <= program.commands
  BY ProgramFacts DEF TypedControl, TypedCommands
<1>2. Len(commands) \in Nat
  BY DEF TypedCommands
<1>3. \A n \in 1..Len(commands) : commands[n] \in [kind : CommandKinds, key : Keys \union {NoKey}]
  <2>1. commands \in Seq([kind : CommandKinds, key : Keys \union {NoKey}])
    BY DEF TypedCommands
  <2> QED
    BY <2>1, ElementOfSeq
<1> QED
  BY <1>1, <1>2, <1>3 DEF Number, Kind

LEMMA ReplyFacts ==
    ASSUME TypedControl, TypedCommands
    PROVE  /\ Complaint \in Replies /\ NULL \notin Replies /\ Part \notin Replies
           /\ Complaint.type = "error" /\ NULL.type = "null" /\ Complaint # NULL
           /\ Complaint.kind = "none" /\ Complaint # Part
BY CommandFacts DEF Complaint, NULL, Part, Reply, Replies

-----------------------------------------------------------------------------
(* What the steps do, said once.                                           *)

LEMMA Leaves ==
    ASSUME NEW fl, AsyncDisconnect(TRUE, fl)
    PROVE  err' = TRUE /\ flags' = fl \union {"DISCONNECTING"} /\ pc' = "free"
BY DEF AsyncDisconnect

(* Leaving at the program's wish. *)
LEMMA LeavesCleanly ==
    ASSUME NEW fl, AsyncDisconnect(err, fl), "DISCONNECTING" \in fl, err \in BOOLEAN
    PROVE  /\ err' = err /\ flags' = fl
           /\ \/ pc' = "free" /\ (err \/ replies = << >>)
              \/ pc' = "aborted" /\ ~err /\ replies # << >>
<1>1. fl \union {"DISCONNECTING"} = fl
  OBVIOUS
<1> QED
  BY <1>1 DEF AsyncDisconnect

(* How a callback starts: the local variable decides. *)
Starts(r, kept) ==
  \/ cb' = NoFn /\ flags' = kept /\ pc' = pc /\ ran' = ran
  \/ /\ cb' # NoFn /\ flags' = kept \union {"IN_CALLBACK"} /\ pc' = "callback"
     /\ ran' = Append(ran, [fn |-> cb', reply |-> r])
Kept(r) == IF Ended(r) /\ "SUBSCRIBED" \in flags THEN flags \ {"SUBSCRIBED"} ELSE flags

(* A reply that finds no callback pending and the context not listening, or *)
(* is an error, ends the context; any other one is handed out.              *)
LEMMA GotReplyCases ==
    ASSUME GotReply, TypedStream
    PROVE  LET r == Head(buffer) IN
           /\ pc = "process" /\ buffer # << >> /\ buffer' = Tail(buffer)
           /\ UNCHANGED <<events, obuf, server, commands, told>>
           /\ \/ /\ replies = << >> /\ r.type = "error" /\ AsyncDisconnect(TRUE, flags)
                 /\ UNCHANGED <<cb, replies, invalid, subs, ran>>
              \/ /\ replies = << >> /\ r.type # "error"
                 /\ flags \intersect {"SUBSCRIBED", "MONITORING"} = {} /\ pc' = "aborted"
                 /\ UNCHANGED <<err, flags, cb, replies, invalid, subs, ran>>
              \/ /\ replies # << >> /\ cb' = Head(replies) /\ replies' = Tail(replies)
                 /\ UNCHANGED <<err, invalid, subs>> /\ Starts(r, flags)
              \/ /\ replies = << >> /\ "SUBSCRIBED" \in flags /\ r.type = "array"
                 /\ cb' = Subscriber(r)
                 /\ subs' = IF r.kind = "unsubscribe" THEN [subs EXCEPT ![r.key] = NoFn] ELSE subs
                 /\ UNCHANGED <<err, replies, invalid>> /\ Starts(r, Kept(r))
              \/ /\ replies = << >> /\ "SUBSCRIBED" \in flags /\ r.type = "status"
                 /\ \/ invalid # << >> /\ cb' = Head(invalid) /\ invalid' = Tail(invalid)
                    \/ invalid = << >> /\ UNCHANGED <<cb, invalid>>
                 /\ UNCHANGED <<err, replies, subs>> /\ Starts(r, Kept(r))
              \/ /\ replies = << >> /\ "SUBSCRIBED" \notin flags /\ "MONITORING" \in flags
                 /\ r.type # "error"
                 /\ UNCHANGED <<err, cb, replies, invalid, subs>> /\ Starts(r, flags)
<1> DEFINE r == Head(buffer)
           listening == flags \intersect {"SUBSCRIBED", "MONITORING"} # {}
<1>1. /\ pc = "process" /\ buffer # << >> /\ buffer' = Tail(buffer)
      /\ UNCHANGED <<events, obuf, server, commands, told>>
  BY DEF GotReply
<1>2. r \in Replies /\ r.type \in {"array", "status", "error"}
  BY <1>1 DEF TypedStream, Replies
<1>3. \/ /\ replies = << >> /\ r.type = "error" /\ AsyncDisconnect(TRUE, flags)
         /\ UNCHANGED <<cb, replies, invalid, subs, ran>>
      \/ /\ replies = << >> /\ r.type # "error" /\ ~listening /\ pc' = "aborted"
         /\ UNCHANGED <<err, flags, cb, replies, invalid, subs, ran>>
      \/ /\ ~(replies = << >> /\ r.type = "error") /\ ~(replies = << >> /\ ~listening)
         /\ NextCallback(r) /\ Starts(r, Kept(r)) /\ UNCHANGED err
  BY Zenon DEF GotReply, Starts, Kept
<1> HIDE DEF r
<1>4. CASE /\ ~(replies = << >> /\ r.type = "error") /\ ~(replies = << >> /\ ~listening)
           /\ NextCallback(r) /\ Starts(r, Kept(r)) /\ UNCHANGED err
  <2>1. CASE replies # << >>
    <3>1. Kept(r) = flags
      BY <2>1 DEF Kept, Ended
    <3>2. cb' = Head(replies) /\ replies' = Tail(replies) /\ UNCHANGED <<invalid, subs>>
      BY <1>4, <2>1 DEF NextCallback, Shift
    <3> QED
      BY <1>1, <1>4, <2>1, <3>1, <3>2 DEF r
  <2>2. CASE replies = << >> /\ "SUBSCRIBED" \in flags
    BY <1>1, <1>2, <1>4, <2>2 DEF r, NextCallback, Shift
  <2>3. CASE replies = << >> /\ "SUBSCRIBED" \notin flags
    <3>1. Kept(r) = flags
      BY <2>3 DEF Kept
    <3>2. UNCHANGED <<cb, replies, invalid, subs>>
      BY <1>4, <2>3 DEF NextCallback
    <3>3. "MONITORING" \in flags /\ r.type # "error"
      BY <1>4, <2>3
    <3> QED
      BY <1>1, <1>4, <2>3, <3>1, <3>2, <3>3 DEF r
  <2> QED
    BY <2>1, <2>2, <2>3
<1> QED
  BY <1>1, <1>3, <1>4 DEF r

LEMMA Started ==
    ASSUME TypedControl, TypedCommands, TypedCallbacks, pc = "process",
           NEW r \in Replies \union {NULL}, cb' \in Number,
           NEW kept \in SUBSET flags, Starts(r, kept), UNCHANGED <<program, err, events, up, told>>
    PROVE  /\ TypedControl'
           /\ ran' \in Seq([fn : Number \ {NoFn}, reply : Replies \union {NULL}])
<1>1. CASE cb' = NoFn /\ flags' = kept /\ pc' = pc /\ ran' = ran
  <2>1. ran' \in Seq([fn : Number \ {NoFn}, reply : Replies \union {NULL}])
    BY <1>1 DEF TypedCallbacks
  <2> QED
    BY <1>1, <2>1 DEF TypedControl
<1>2. CASE /\ cb' # NoFn /\ flags' = kept \union {"IN_CALLBACK"} /\ pc' = "callback"
           /\ ran' = Append(ran, [fn |-> cb', reply |-> r])
  <2>1. [fn |-> cb', reply |-> r] \in [fn : Number \ {NoFn}, reply : Replies \union {NULL}]
    BY <1>2
  <2>2. ran' \in Seq([fn : Number \ {NoFn}, reply : Replies \union {NULL}])
    BY <1>2, <2>1 DEF TypedCallbacks
  <2> QED
    BY <1>2, <2>2 DEF TypedControl
<1> QED
  BY <1>1, <1>2 DEF Starts

(* A callback runs for an answer that no reply gave. *)
LEMMA RunCases ==
    ASSUME TypedControl, TypedCommands, TypedCallbacks, RunPending
    PROVE  /\ pc = "free" /\ UNCHANGED <<err, events, cb, obuf, buffer, server, commands, told>>
           /\ \E fn \in Number :
                /\ \/ /\ replies # << >> /\ fn = Head(replies) /\ replies' = Tail(replies)
                      /\ UNCHANGED <<invalid, subs>>
                   \/ /\ replies = << >> /\ invalid # << >> /\ fn = Head(invalid)
                      /\ invalid' = Tail(invalid) /\ UNCHANGED <<replies, subs>>
                   \/ /\ replies = << >> /\ invalid = << >>
                      /\ \E k \in Keys : /\ subs[k] # NoFn /\ fn = subs[k]
                                         /\ subs' = [subs EXCEPT ![k] = NoFn]
                      /\ UNCHANGED <<replies, invalid>>
                /\ \/ fn = NoFn /\ UNCHANGED <<pc, flags, ran>>
                   \/ /\ fn # NoFn /\ pc' = "freecb" /\ flags' = flags \union {"IN_CALLBACK"}
                      /\ ran' = Append(ran, [fn |-> fn, reply |-> NULL])
<1>1. pc = "free" /\ UNCHANGED <<err, events, cb, obuf, buffer, server, commands, told>>
  BY DEF RunPending
<1>2. ASSUME NEW fn, RunCallback(fn, NULL, "freecb")
      PROVE  \/ fn = NoFn /\ UNCHANGED <<pc, flags, ran>>
             \/ /\ fn # NoFn /\ pc' = "freecb" /\ flags' = flags \union {"IN_CALLBACK"}
                /\ ran' = Append(ran, [fn |-> fn, reply |-> NULL])
  BY <1>2 DEF RunCallback
<1>3. CASE /\ replies # << >> /\ replies' = Shift(replies)
           /\ RunCallback(Head(replies), NULL, "freecb") /\ UNCHANGED <<invalid, subs>>
  <2>1. Head(replies) \in Number
    BY <1>3 DEF TypedCallbacks
  <2> QED
    BY <1>1, <1>2, <1>3, <2>1 DEF Shift
<1>4. CASE /\ replies = << >> /\ invalid # << >> /\ invalid' = Shift(invalid)
           /\ RunCallback(Head(invalid), NULL, "freecb") /\ UNCHANGED <<replies, subs>>
  <2>1. Head(invalid) \in Number
    BY <1>4 DEF TypedCallbacks
  <2> QED
    BY <1>1, <1>2, <1>4, <2>1 DEF Shift
<1>5. CASE /\ replies = << >> /\ invalid = << >> /\ UNCHANGED <<replies, invalid>>
           /\ \E k \in Keys : /\ subs[k] # NoFn /\ subs' = [subs EXCEPT ![k] = NoFn]
                              /\ RunCallback(subs[k], NULL, "freecb")
  <2>1. PICK k \in Keys : /\ subs[k] # NoFn /\ subs' = [subs EXCEPT ![k] = NoFn]
                          /\ RunCallback(subs[k], NULL, "freecb")
    BY <1>5
  <2>2. subs[k] \in Number
    BY DEF TypedCallbacks
  <2> QED
    BY <1>1, <1>2, <1>5, <2>1, <2>2
<1> QED
  BY <1>3, <1>4, <1>5, Zenon DEF RunPending

(* A command that is accepted. *)
Accepted(n, kind, key) ==
  /\ n = Len(commands) + 1 /\ n \in 1..MaxCommands /\ n <= program.commands
  /\ kind \in program.calls /\ kind \in CommandKinds
  /\ key \in Keys \union {NoKey} /\ (key = NoKey <=> kind \notin {"subscribe", "unsubscribe"})
  /\ pc \in {"loop", "callback", "freecb"} /\ flags \intersect {"DISCONNECTING", "FREEING"} = {}
  /\ commands' = Append(commands, [kind |-> kind, key |-> key])
  /\ obuf' = Append(obuf, n) /\ events' = events \union {"write"}
  /\ \/ /\ kind = "subscribe" /\ flags' = flags \union {"SUBSCRIBED"}
        /\ subs' = [subs EXCEPT ![key] = n] /\ UNCHANGED <<replies, invalid>>
     \/ /\ kind = "unsubscribe" /\ UNCHANGED <<flags, subs, replies, invalid>>
     \/ /\ kind = "monitor" /\ flags' = flags \union {"MONITORING"}
        /\ replies' = Append(replies, n) /\ UNCHANGED <<subs, invalid>>
     \/ /\ kind \in {"get", "forget"} /\ "SUBSCRIBED" \in flags
        /\ invalid' = Append(invalid, Fn(n, kind)) /\ UNCHANGED <<flags, subs, replies>>
     \/ /\ kind \in {"get", "forget"} /\ "SUBSCRIBED" \notin flags
        /\ replies' = Append(replies, Fn(n, kind)) /\ UNCHANGED <<flags, subs, invalid>>
  /\ UNCHANGED <<pc, err, buffer, cb, server, ran, told>>

LEMMA CommandCases ==
    ASSUME TypedControl, TypedCommands, NEW c \in Commands, redisAsyncCommand(c.kind, c.key)
    PROVE  Accepted(Len(commands) + 1, c.kind, c.key)
<1> DEFINE n == Len(commands) + 1
<1>1. /\ program.calls \subseteq AllCalls /\ program.keys \subseteq Keys
      /\ program.commands \in Nat /\ program.commands <= MaxCommands /\ MaxCommands \in Nat
      /\ Len(commands) \in Nat
  BY ProgramFacts, CommandFacts DEF TypedControl
<1>2. /\ c.kind \in program.calls /\ c.kind \in CommandKinds
      /\ c.key \in Keys \union {NoKey}
  BY <1>1 DEF Commands, AllCalls, CommandKinds
<1>3. /\ c.key = NoKey <=> c.kind \notin {"subscribe", "unsubscribe"}
      /\ flags \intersect {"DISCONNECTING", "FREEING"} = {}
      /\ commands' = Append(commands, [kind |-> c.kind, key |-> c.key])
      /\ obuf' = Append(obuf, n) /\ events' = events \union {"write"}
      /\ pc \in {"loop", "callback", "freecb"} /\ UNCHANGED <<pc, err, buffer, cb, server, ran, told>>
      /\ Len(commands) < program.commands /\ Accept(c.kind, c.key)
  BY DEF redisAsyncCommand, Program, Schedule
<1>4. n \in 1..MaxCommands /\ n <= program.commands
  BY <1>1, <1>3
<1>5. \/ /\ c.kind = "subscribe" /\ flags' = flags \union {"SUBSCRIBED"}
         /\ subs' = [subs EXCEPT ![c.key] = n] /\ UNCHANGED <<replies, invalid>>
      \/ /\ c.kind = "unsubscribe" /\ UNCHANGED <<flags, subs, replies, invalid>>
      \/ /\ c.kind = "monitor" /\ flags' = flags \union {"MONITORING"}
         /\ replies' = Append(replies, n) /\ UNCHANGED <<subs, invalid>>
      \/ /\ c.kind \in {"get", "forget"} /\ "SUBSCRIBED" \in flags
         /\ invalid' = Append(invalid, Fn(n, c.kind)) /\ UNCHANGED <<flags, subs, replies>>
      \/ /\ c.kind \in {"get", "forget"} /\ "SUBSCRIBED" \notin flags
         /\ replies' = Append(replies, Fn(n, c.kind)) /\ UNCHANGED <<flags, subs, invalid>>
  BY <1>2, <1>3 DEF Accept, CommandKinds
<1> QED
  BY <1>2, <1>3, <1>4, <1>5 DEF Accepted

(* Most steps leave the callbacks and the commands alone. *)
LEMMA Frame ==
    ASSUME TypedControl, TypedCommands, [Next]_vars
    PROVE  /\ program' = program
           /\ \/ UNCHANGED <<replies, invalid, subs, commands, ran>>
              \/ RunPending \/ GotReply \/ NoReply
              \/ \E n \in 1..MaxCommands, kind \in CommandKinds, key \in Keys \union {NoKey} :
                   Accepted(n, kind, key)
<1>1. CASE UNCHANGED vars
  BY <1>1 DEF vars, context
<1>2. CASE Next
  <2>1. program' = program
    BY <1>2 DEF Next
  <2>2. CASE Calls
    <3>1. CASE redisAsyncFree
      BY <2>1, <3>1 DEF redisAsyncFree
    <3>2. CASE redisAsyncDisconnect
      BY <2>1, <3>2 DEF redisAsyncDisconnect
    <3>3. CASE \E c \in Commands : redisAsyncCommand(c.kind, c.key)
      <4>1. PICK c \in Commands : redisAsyncCommand(c.kind, c.key)
        BY <3>3
      <4>2. Accepted(Len(commands) + 1, c.kind, c.key)
        BY <4>1, CommandCases
      <4>3. /\ Len(commands) + 1 \in 1..MaxCommands /\ c.kind \in CommandKinds
            /\ c.key \in Keys \union {NoKey}
        BY <4>2 DEF Accepted
      <4> QED
        BY <2>1, <4>2, <4>3
    <3> QED
      BY <2>2, <3>1, <3>2, <3>3 DEF Calls
  <2>3. CASE Library
    BY <2>1, <2>3 DEF Library, FreeDone, ReturnFromCallback, ReaderFails
  <2>4. CASE Loop
    BY <2>1, <2>4 DEF Loop, ConnectFails, IOFails, HandleRead, HandleWrite
  <2>5. CASE Serve \/ Unasked \/ Close
    BY <2>1, <2>5 DEF Serve, Unasked, Close, Client, context
  <2> QED
    BY <1>2, <2>2, <2>3, <2>4, <2>5 DEF Next
<1> QED
  BY <1>1, <1>2

-----------------------------------------------------------------------------
(* Every step keeps the types.                                             *)

LEMMA InitTyped == Init => Typed
<1> SUFFICES ASSUME Init PROVE Typed
  OBVIOUS
<1>1. TypedControl
  <2>1. << >> \in Seq({"connect", "disconnect"} \X BOOLEAN)
    BY EmptySeq
  <2> QED
    BY <2>1 DEF Init, TypedControl
<1>2. TypedCommands
  BY <1>1, ProgramFacts DEF Init, TypedControl, TypedCommands
<1>3. Number = {NoFn}
  BY DEF Init, Number, NoFn
<1>4. TypedCallbacks
  BY <1>3 DEF Init, TypedCallbacks
<1>5. srv = [subs |-> {}, monitor |-> 0] /\ IsFiniteSet(srv.subs)
  BY FS_EmptySet DEF Init
<1>6. TypedStream
  BY <1>3, <1>5 DEF Init, TypedStream, NoFn
<1> QED
  BY <1>1, <1>2, <1>4, <1>6 DEF Typed

LEMMA SameCommands ==
    ASSUME TypedCommands, UNCHANGED <<program, commands>>
    PROVE  TypedCommands' /\ Number' = Number
BY DEF TypedCommands, Number

LEMMA SameStream ==
    ASSUME TypedStream, UNCHANGED <<commands, obuf, buffer, toServer, toClient, srv>>
    PROVE  TypedStream'
BY DEF TypedStream, Number

LEMMA SameCallbacks ==
    ASSUME TypedCallbacks, UNCHANGED <<commands, replies, invalid, subs, cb, ran>>
    PROVE  TypedCallbacks'
BY DEF TypedCallbacks, Number

LEMMA RunPendingTyped ==
    ASSUME Typed, RunPending, UNCHANGED program
    PROVE  Typed'
<1> USE DEF Typed
<1>1. PICK fn \in Number :
        /\ \/ /\ replies # << >> /\ fn = Head(replies) /\ replies' = Tail(replies)
              /\ UNCHANGED <<invalid, subs>>
           \/ /\ replies = << >> /\ invalid # << >> /\ fn = Head(invalid)
              /\ invalid' = Tail(invalid) /\ UNCHANGED <<replies, subs>>
           \/ /\ replies = << >> /\ invalid = << >>
              /\ \E k \in Keys : /\ subs[k] # NoFn /\ fn = subs[k]
                                 /\ subs' = [subs EXCEPT ![k] = NoFn]
              /\ UNCHANGED <<replies, invalid>>
        /\ \/ fn = NoFn /\ UNCHANGED <<pc, flags, ran>>
           \/ /\ fn # NoFn /\ pc' = "freecb" /\ flags' = flags \union {"IN_CALLBACK"}
              /\ ran' = Append(ran, [fn |-> fn, reply |-> NULL])
  BY RunCases
<1>2. pc = "free" /\ UNCHANGED <<err, events, cb, obuf, buffer, server, commands, told>>
  BY DEF RunPending
<1>3. TypedCommands' /\ Number' = Number
  BY <1>2, SameCommands
<1>4. TypedStream'
  BY <1>2, SameStream DEF server
<1>5. TypedControl'
  BY <1>1, <1>2 DEF TypedControl, server
<1>6. NoFn \in Number
  BY CommandFacts DEF Number, NoFn
<1>7. replies' \in Seq(Number) /\ invalid' \in Seq(Number) /\ subs' \in [Keys -> Number]
  <2>1. replies \in Seq(Number) /\ invalid \in Seq(Number) /\ subs \in [Keys -> Number]
    BY DEF TypedCallbacks
  <2>2. CASE replies # << >> /\ replies' = Tail(replies) /\ UNCHANGED <<invalid, subs>>
    <3>1. replies' \in Seq(Number)
      BY <2>1, <2>2, HeadTailProperties
    <3> QED
      BY <2>1, <2>2, <3>1
  <2>3. CASE invalid # << >> /\ invalid' = Tail(invalid) /\ UNCHANGED <<replies, subs>>
    <3>1. invalid' \in Seq(Number)
      BY <2>1, <2>3, HeadTailProperties
    <3> QED
      BY <2>1, <2>3, <3>1
  <2>4. CASE /\ UNCHANGED <<replies, invalid>>
             /\ \E k \in Keys : subs' = [subs EXCEPT ![k] = NoFn]
    BY <1>6, <2>1, <2>4
  <2> QED
    BY <1>1, <2>2, <2>3, <2>4
<1>8. ran' \in Seq([fn : Number \ {NoFn}, reply : Replies \union {NULL}])
  <2>1. CASE ran' = ran
    BY <2>1 DEF TypedCallbacks
  <2>2. CASE fn # NoFn /\ ran' = Append(ran, [fn |-> fn, reply |-> NULL])
    <3>1. [fn |-> fn, reply |-> NULL] \in [fn : Number \ {NoFn}, reply : Replies \union {NULL}]
      BY <2>2
    <3> QED
      BY <2>2, <3>1 DEF TypedCallbacks
  <2> QED
    BY <1>1, <2>1, <2>2
<1>9. TypedCallbacks'
  BY <1>2, <1>3, <1>7, <1>8 DEF TypedCallbacks
<1> QED
  BY <1>3, <1>4, <1>5, <1>9

LEMMA GotReplyTyped ==
    ASSUME Typed, GotReply, UNCHANGED program
    PROVE  Typed'
<1> USE DEF Typed
<1> DEFINE r == Head(buffer)
<1>1. /\ pc = "process" /\ buffer # << >> /\ buffer' = Tail(buffer)
      /\ UNCHANGED <<program, events, obuf, server, commands, told>>
  BY GotReplyCases
<1>2. r \in Replies
  BY <1>1 DEF TypedStream
<1>3. TypedCommands' /\ Number' = Number
  BY <1>1, SameCommands
<1>4. buffer' \in Seq(Replies)
  BY <1>1 DEF TypedStream
<1>5. TypedStream'
  BY <1>1, <1>3, <1>4 DEF TypedStream, server
<1>6. /\ NoFn \in Number /\ replies \in Seq(Number) /\ invalid \in Seq(Number)
      /\ subs \in [Keys -> Number] /\ cb \in Number
      /\ ran \in Seq([fn : Number \ {NoFn}, reply : Replies \union {NULL}])
  BY CommandFacts DEF Number, NoFn, TypedCallbacks
<1> HIDE DEF r
<1>7. CASE AsyncDisconnect(TRUE, flags) /\ UNCHANGED <<cb, replies, invalid, subs, ran>>
  <2>1. TypedControl'
    <3>1. err' = TRUE /\ flags' = flags \union {"DISCONNECTING"} /\ pc' = "free"
      BY <1>7, Leaves
    <3> QED
      BY <1>1, <3>1 DEF TypedControl, server
  <2>2. TypedCallbacks'
    BY <1>1, <1>7, SameCallbacks
  <2> QED
    BY <1>3, <1>5, <2>1, <2>2
<1>8. CASE pc' = "aborted" /\ UNCHANGED <<err, flags, cb, replies, invalid, subs, ran>>
  <2>1. TypedControl'
    BY <1>1, <1>8 DEF TypedControl, server
  <2>2. TypedCallbacks'
    BY <1>1, <1>8, SameCallbacks
  <2> QED
    BY <1>3, <1>5, <2>1, <2>2
<1>9. ASSUME NEW kept \in SUBSET flags, Starts(r, kept), err' = err, cb' \in Number,
             replies' \in Seq(Number), invalid' \in Seq(Number), subs' \in [Keys -> Number]
      PROVE  Typed'
  <2>1. UNCHANGED <<program, err, events, up, told>>
    BY <1>1, <1>9 DEF server
  <2>2. TypedControl' /\ ran' \in Seq([fn : Number \ {NoFn}, reply : Replies \union {NULL}])
    BY <1>1, <1>2, <1>9, <2>1, Started
  <2>3. TypedCallbacks'
    BY <1>3, <1>9, <2>2 DEF TypedCallbacks
  <2> QED
    BY <1>3, <1>5, <2>2, <2>3
<1>10. flags \in SUBSET flags /\ Kept(r) \in SUBSET flags
  BY DEF Kept
<1>11. CASE /\ replies # << >> /\ cb' = Head(replies) /\ replies' = Tail(replies)
            /\ UNCHANGED <<err, invalid, subs>> /\ Starts(r, flags)
  <2>1. cb' \in Number /\ replies' \in Seq(Number)
    BY <1>6, <1>11
  <2> QED
    BY <1>6, <1>9, <1>10, <1>11, <2>1
<1>12. CASE /\ r.type = "array" /\ cb' = Subscriber(r)
            /\ subs' = IF r.kind = "unsubscribe" THEN [subs EXCEPT ![r.key] = NoFn] ELSE subs
            /\ UNCHANGED <<err, replies, invalid>> /\ Starts(r, Kept(r))
  <2>1. r.key \in Keys
    BY <1>2, <1>12 DEF Replies
  <2>2. cb' \in Number
    BY <1>6, <1>12, <2>1 DEF Subscriber
  <2>3. subs' \in [Keys -> Number]
    BY <1>6, <1>12
  <2> QED
    BY <1>6, <1>9, <1>10, <1>12, <2>2, <2>3
<1>13. CASE /\ \/ invalid # << >> /\ cb' = Head(invalid) /\ invalid' = Tail(invalid)
               \/ invalid = << >> /\ UNCHANGED <<cb, invalid>>
            /\ UNCHANGED <<err, replies, subs>> /\ Starts(r, Kept(r))
  <2>1. cb' \in Number /\ invalid' \in Seq(Number)
    <3>1. CASE invalid # << >> /\ cb' = Head(invalid) /\ invalid' = Tail(invalid)
      BY <1>6, <3>1, HeadTailProperties
    <3>2. CASE invalid = << >> /\ UNCHANGED <<cb, invalid>>
      BY <1>6, <3>2
    <3> QED
      BY <1>13, <3>1, <3>2
  <2> QED
    BY <1>6, <1>9, <1>10, <1>13, <2>1
<1>14. CASE UNCHANGED <<err, cb, replies, invalid, subs>> /\ Starts(r, flags)
  BY <1>6, <1>9, <1>10, <1>14
<1> QED
  BY <1>7, <1>8, <1>11, <1>12, <1>13, <1>14, GotReplyCases DEF r

LEMMA CommandTyped ==
    ASSUME Typed, NEW n, NEW kind, NEW key, Accepted(n, kind, key), UNCHANGED program
    PROVE  Typed'
<1> USE DEF Typed
<1>1. /\ n = Len(commands) + 1 /\ n \in 1..MaxCommands /\ n <= program.commands
      /\ kind \in CommandKinds /\ key \in Keys \union {NoKey}
      /\ (key = NoKey <=> kind \notin {"subscribe", "unsubscribe"})
      /\ commands' = Append(commands, [kind |-> kind, key |-> key])
      /\ obuf' = Append(obuf, n) /\ events' = events \union {"write"}
      /\ UNCHANGED <<program, pc, err, buffer, cb, server, ran, told>>
  BY DEF Accepted
<1>2. /\ Len(commands) \in Nat /\ Len(commands') = n /\ commands'[n] = [kind |-> kind, key |-> key]
      /\ \A i \in 1..Len(commands) : commands'[i] = commands[i]
      /\ commands' \in Seq([kind : CommandKinds, key : Keys \union {NoKey}])
  <2>1. commands \in Seq([kind : CommandKinds, key : Keys \union {NoKey}])
    BY DEF TypedCommands
  <2>2. [kind |-> kind, key |-> key] \in [kind : CommandKinds, key : Keys \union {NoKey}]
    BY <1>1
  <2> QED
    BY <1>1, <2>1, <2>2, AppendProperties
<1>3. TypedCommands'
  <2>1. ASSUME NEW i \in 1..n
        PROVE  (commands'[i].key = NoKey) <=> (commands'[i].kind \notin {"subscribe", "unsubscribe"})
    <3>1. CASE i = n
      BY <1>1, <1>2, <3>1
    <3>2. CASE i # n
      <4>1. i \in 1..Len(commands)
        BY <1>1, <1>2, <3>2
      <4> QED
        BY <1>2, <4>1 DEF TypedCommands
    <3> QED
      BY <3>1, <3>2
  <2> QED
    BY <1>1, <1>2, <2>1 DEF TypedCommands
<1>4. Number \subseteq Number' /\ n \in Number' /\ n # NoFn /\ NoFn \in Number'
  BY <1>1, <1>2 DEF Number, NoFn
<1>5. Fn(n, kind) \in Number'
  BY <1>4 DEF Fn
<1>6. TypedControl'
  BY <1>1 DEF TypedControl, Accepted, server
<1>7. /\ replies \in Seq(Number') /\ invalid \in Seq(Number') /\ subs \in [Keys -> Number']
      /\ cb \in Number' /\ obuf \in Seq(Number' \ {NoFn}) /\ toServer \in Seq(Number' \ {NoFn})
      /\ ran \in Seq([fn : Number' \ {NoFn}, reply : Replies \union {NULL}])
  <2>1. /\ replies \in Seq(Number') /\ invalid \in Seq(Number') /\ subs \in [Keys -> Number']
        /\ cb \in Number'
    BY <1>4, SeqMonotonic DEF TypedCallbacks
  <2>2. Number \ {NoFn} \subseteq Number' \ {NoFn}
    BY <1>4
  <2>3. obuf \in Seq(Number' \ {NoFn}) /\ toServer \in Seq(Number' \ {NoFn})
    BY <2>2, SeqMonotonic DEF TypedStream
  <2>4. [fn : Number \ {NoFn}, reply : Replies \union {NULL}]
           \subseteq [fn : Number' \ {NoFn}, reply : Replies \union {NULL}]
    BY <2>2
  <2>5. ran \in Seq([fn : Number' \ {NoFn}, reply : Replies \union {NULL}])
    BY <2>4, SeqMonotonic DEF TypedCallbacks
  <2> QED
    BY <2>1, <2>3, <2>5
<1>8. /\ replies' \in Seq(Number') /\ invalid' \in Seq(Number') /\ subs' \in [Keys -> Number']
  <2>1. CASE subs' = [subs EXCEPT ![key] = n] /\ UNCHANGED <<replies, invalid>>
    BY <1>4, <1>7, <2>1
  <2>2. CASE \E fn \in Number' : replies' = Append(replies, fn) /\ UNCHANGED <<subs, invalid>>
    BY <1>7, <2>2, AppendProperties
  <2>3. CASE \E fn \in Number' : invalid' = Append(invalid, fn) /\ UNCHANGED <<subs, replies>>
    BY <1>7, <2>3, AppendProperties
  <2>4. CASE UNCHANGED <<subs, replies, invalid>>
    BY <1>7, <2>4
  <2> QED
    BY <1>4, <1>5, <2>1, <2>2, <2>3, <2>4 DEF Accepted
<1>9. TypedCallbacks'
  BY <1>1, <1>7, <1>8 DEF TypedCallbacks
<1>10. TypedStream'
  <2>1. obuf' \in Seq(Number' \ {NoFn})
    BY <1>1, <1>4, <1>7, AppendProperties
  <2>2. srv \in [subs : SUBSET Keys, monitor : Number'] /\ IsFiniteSet(srv.subs)
    BY <1>4 DEF TypedStream
  <2> QED
    BY <1>1, <1>7, <2>1, <2>2 DEF TypedStream, server
<1> QED
  BY <1>3, <1>6, <1>9, <1>10

LEMMA ReadTyped ==
    ASSUME Typed, NEW n \in 1..Len(toClient), HandleRead(n), UNCHANGED program
    PROVE  Typed'
<1> USE DEF Typed
<1>1. /\ pc = "loop" /\ flags' = Connected /\ Tell /\ pc' = "process" /\ cb' = NoFn
      /\ toClient' = SubSeq(toClient, n + 1, Len(toClient))
      /\ buffer' = buffer \o WholeReplies(SubSeq(toClient, 1, n))
      /\ UNCHANGED <<err, events, replies, invalid, subs, obuf, toServer, up, srv, lines,
                     commands, ran>>
  BY DEF HandleRead, Event
<1>2. TypedCommands' /\ Number' = Number
  BY <1>1, SameCommands
<1>3. TypedControl'
  <2>1. told' \in Seq({"connect", "disconnect"} \X BOOLEAN)
    <3>1. <<"connect", TRUE>> \in {"connect", "disconnect"} \X BOOLEAN
      OBVIOUS
    <3> QED
      BY <1>1, <3>1, AppendProperties DEF Tell, TypedControl
  <2> QED
    BY <1>1, <2>1 DEF Connected, TypedControl
<1>4. TypedCallbacks'
  BY <1>1, <1>2, CommandFacts DEF TypedCallbacks, Number, NoFn
<1>5. toClient \in Seq(Replies \union {Part}) /\ buffer \in Seq(Replies)
  BY DEF TypedStream
<1>6. toClient' \in Seq(Replies \union {Part}) /\ SubSeq(toClient, 1, n) \in Seq(Replies \union {Part})
  BY <1>1, <1>5
<1>7. WholeReplies(SubSeq(toClient, 1, n)) \in Seq(Replies)
  <2> DEFINE t == SubSeq(toClient, 1, n)
             w == Without(t, Part)
  <2>1. t \in Seq(Replies \union {Part})
    BY <1>6
  <2> HIDE DEF t
  <2>2. /\ w \in Seq(Replies \union {Part})
        /\ \A i \in 1..Len(w) : w[i] # Part
    BY <2>1, WithoutMembers
  <2> HIDE DEF w
  <2>3. w \in Seq(Replies)
    BY <2>2
  <2> QED
    BY <2>3 DEF w, t, WholeReplies
<1>8. buffer' \in Seq(Replies)
  BY <1>1, <1>5, <1>7, ConcatProperties
<1>9. TypedStream'
  BY <1>1, <1>2, <1>6, <1>8 DEF TypedStream
<1> QED
  BY <1>2, <1>3, <1>4, <1>9

LEMMA WriteTyped ==
    ASSUME Typed, NEW n \in 0..Len(obuf), HandleWrite(n), UNCHANGED program
    PROVE  Typed'
<1> USE DEF Typed
<1>1. /\ pc = "loop" /\ flags' = Connected /\ Tell
      /\ obuf' = SubSeq(obuf, n + 1, Len(obuf))
      /\ toServer' = IF up THEN toServer \o SubSeq(obuf, 1, n) ELSE toServer
      /\ events' = (IF obuf' = << >> THEN {} ELSE {"write"}) \union {"read"}
      /\ UNCHANGED <<pc, err, replies, invalid, subs, cb, buffer, toClient, up, srv, lines,
                     commands, ran>>
  BY DEF HandleWrite, Event
<1>2. TypedCommands' /\ Number' = Number
  BY <1>1, SameCommands
<1>3. TypedControl'
  <2>1. told' \in Seq({"connect", "disconnect"} \X BOOLEAN)
    <3>1. <<"connect", TRUE>> \in {"connect", "disconnect"} \X BOOLEAN
      OBVIOUS
    <3> QED
      BY <1>1, <3>1, AppendProperties DEF Tell, TypedControl
  <2> QED
    BY <1>1, <2>1 DEF Connected, TypedControl
<1>4. TypedCallbacks'
  BY <1>1, SameCallbacks
<1>5. obuf \in Seq(Number \ {NoFn}) /\ toServer \in Seq(Number \ {NoFn})
  BY DEF TypedStream
<1>6. obuf' \in Seq(Number \ {NoFn}) /\ SubSeq(obuf, 1, n) \in Seq(Number \ {NoFn})
  BY <1>1, <1>5
<1>7. toServer' \in Seq(Number \ {NoFn})
  BY <1>1, <1>5, <1>6, ConcatProperties
<1>8. TypedStream'
  BY <1>1, <1>2, <1>6, <1>7 DEF TypedStream
<1> QED
  BY <1>2, <1>3, <1>4, <1>8

(* A command is answered; the connection carries one more reply. *)
LEMMA ServeCases ==
    ASSUME TypedControl, TypedCommands, TypedStream, Serve
    PROVE  LET n == Head(toServer) IN
           /\ up /\ toServer # << >> /\ n \in 1..Len(commands) /\ toServer' = Tail(toServer)
           /\ UNCHANGED <<Client, up, lines>>
           /\ srv' = [subs |-> CASE commands[n].kind = "subscribe" -> srv.subs \union {commands[n].key}
                                 [] commands[n].kind = "unsubscribe" -> srv.subs \ {commands[n].key}
                                 [] OTHER -> srv.subs,
                      monitor |-> IF commands[n].kind = "monitor" THEN n ELSE srv.monitor]
           /\ srv'.subs \subseteq Keys /\ IsFiniteSet(srv'.subs)
           /\ \E r \in Replies :
                /\ Send(r) /\ r.to = n /\ r.kind = Kind(n) /\ r.key = commands[n].key
                /\ r.type = IF commands[n].key # NoKey THEN "array"
                            ELSE IF srv'.subs = {} THEN "status" ELSE "error"
<1> DEFINE n == Head(toServer)
           c == commands[n]
           now == CASE c.kind = "subscribe" -> srv.subs \union {c.key}
                    [] c.kind = "unsubscribe" -> srv.subs \ {c.key}
                    [] OTHER -> srv.subs
           r == IF c.key # NoKey THEN Reply(n, "array", c.kind, c.key, Cardinality(now))
                ELSE Reply(n, IF now = {} THEN "status" ELSE "error", c.kind, NoKey, 0)
<1>1. /\ up /\ toServer # << >> /\ toServer' = Tail(toServer) /\ UNCHANGED <<Client, up, lines>>
      /\ srv' = [subs |-> now, monitor |-> IF c.kind = "monitor" THEN n ELSE srv.monitor]
      /\ Send(r)
  BY Zenon DEF Serve
<1>2. /\ n \in Number \ {NoFn} /\ srv \in [subs : SUBSET Keys, monitor : Number]
      /\ IsFiniteSet(srv.subs)
  BY <1>1 DEF TypedStream
<1>3. n \in 1..Len(commands) /\ n \in 0..MaxCommands /\ Len(commands) \in Nat
  BY <1>2, CommandFacts DEF Number, NoFn
<1>4. /\ c \in [kind : CommandKinds, key : Keys \union {NoKey}] /\ Kind(n) = c.kind
      /\ (c.key = NoKey) <=> (c.kind \notin {"subscribe", "unsubscribe"})
  BY <1>3, CommandFacts DEF TypedCommands
<1> HIDE DEF n, c
<1>5. IsFiniteSet(srv.subs \union {c.key}) /\ IsFiniteSet(srv.subs \ {c.key})
  BY <1>2, FS_AddElement, FS_RemoveElement
<1>6. now \subseteq Keys /\ IsFiniteSet(now)
  <2>1. CASE c.kind = "subscribe"
    BY <1>2, <1>4, <1>5, <2>1
  <2>2. CASE c.kind = "unsubscribe"
    BY <1>2, <1>4, <1>5, <2>2
  <2>3. CASE c.kind \notin {"subscribe", "unsubscribe"}
    <3>1. now = srv.subs
      BY <2>3
    <3> QED
      BY <1>2, <3>1
  <2> QED
    BY <2>1, <2>2, <2>3
<1>7. Cardinality(now) \in Nat
  BY <1>6, FS_CardinalityType
<1>8. srv'.subs = now
  BY <1>1
<1>9. /\ r \in Replies /\ r.to = n /\ r.kind = c.kind /\ r.key = c.key
      /\ r.type = IF c.key # NoKey THEN "array" ELSE IF now = {} THEN "status" ELSE "error"
  <2> HIDE DEF now
  <2> USE DEF CommandKinds, AllCalls
  <2>1. CASE c.key # NoKey
    BY <1>3, <1>4, <1>7, <2>1 DEF Reply, Replies
  <2>2. CASE c.key = NoKey
    BY <1>3, <1>4, <2>2 DEF Reply, Replies
  <2> QED
    BY <2>1, <2>2
<1> HIDE DEF r, now
<1>10. \E q \in Replies :
         /\ Send(q) /\ q.to = n /\ q.kind = Kind(n) /\ q.key = c.key
         /\ q.type = IF c.key # NoKey THEN "array" ELSE IF srv'.subs = {} THEN "status" ELSE "error"
  BY <1>1, <1>4, <1>8, <1>9
<1> QED
  BY <1>1, <1>3, <1>6, <1>8, <1>10, Zenon DEF n, c, now

(* A line nobody asked for. *)
LEMMA UnaskedCases ==
    ASSUME TypedControl, TypedCommands, TypedStream, Unasked
    PROVE  /\ up /\ UNCHANGED <<Client, toServer, srv>>
           /\ \E r \in Replies :
                /\ Send(r) /\ r.kind # "unsubscribe"
                /\ r.to \in Number /\ (r.type # "status" => r.to = NoFn)
                /\ \/ r.type = "array" /\ r.key \in srv.subs /\ UNCHANGED up
                   \/ r.type = "status" /\ srv.monitor # 0 /\ UNCHANGED up
                   \/ r = Complaint /\ toClient = << >> /\ up' = FALSE
<1>1. up /\ UNCHANGED <<Client, toServer, srv>>
  BY DEF Unasked
<1>2. /\ srv.subs \subseteq Keys /\ srv.monitor \in 0..MaxCommands /\ MaxCommands \in Nat
      /\ srv.monitor \in Number /\ NoFn \in Number /\ NoFn = 0
  BY CommandFacts DEF TypedStream, Number, NoFn
<1>3. CASE \E k \in srv.subs : Send(Reply(0, "array", "message", k, 0)) /\ UNCHANGED up
  <2>1. PICK k \in srv.subs : Send(Reply(0, "array", "message", k, 0)) /\ UNCHANGED up
    BY <1>3
  <2> DEFINE r == Reply(0, "array", "message", k, 0)
  <2>2. r \in Replies /\ r.kind # "unsubscribe" /\ r.type = "array" /\ r.key \in srv.subs
        /\ r.to = NoFn
    BY <1>2 DEF Reply, Replies
  <2> HIDE DEF r
  <2>3. Send(r)
    BY <2>1 DEF r
  <2> QED
    BY <1>1, <1>2, <2>1, <2>2, <2>3
<1>4. CASE srv.monitor # 0 /\ Send(Reply(srv.monitor, "status", "line", NoKey, 0)) /\ UNCHANGED up
  <2> DEFINE r == Reply(srv.monitor, "status", "line", NoKey, 0)
  <2>1. r \in Replies /\ r.kind # "unsubscribe" /\ r.type = "status" /\ r.to \in Number
    BY <1>2 DEF Reply, Replies
  <2> HIDE DEF r
  <2>2. Send(r)
    BY <1>4 DEF r
  <2> QED
    BY <1>1, <1>4, <2>1, <2>2
<1>5. CASE Faults /\ toClient = << >> /\ Send(Complaint) /\ up' = FALSE
  <2>1. Complaint \in Replies /\ Complaint.kind # "unsubscribe" /\ Complaint.to = NoFn
    BY ReplyFacts DEF Complaint, Reply, NoFn
  <2> QED
    BY <1>1, <1>2, <1>5, <2>1
<1> QED
  BY <1>3, <1>4, <1>5 DEF Unasked

LEMMA ServerTyped ==
    ASSUME Typed, Serve \/ Unasked \/ Close, UNCHANGED program
    PROVE  Typed'
<1> USE DEF Typed
<1>1. UNCHANGED <<pc, flags, err, events, replies, invalid, subs, obuf, buffer, cb, commands, ran, told>>
  BY DEF Serve, Unasked, Close, Client, context
<1>2. TypedCommands' /\ Number' = Number
  BY <1>1, SameCommands
<1>3. TypedCallbacks'
  BY <1>1, SameCallbacks
<1>4. up' \in BOOLEAN
  BY DEF Serve, Unasked, Close, TypedControl
<1>5. TypedControl'
  BY <1>1, <1>4 DEF TypedControl
<1>6. toServer \in Seq(Number \ {NoFn}) /\ toClient \in Seq(Replies \union {Part})
  BY DEF TypedStream
<1>7. ASSUME NEW r \in Replies, Send(r)
      PROVE  toClient' \in Seq(Replies \union {Part})
  <2>1. <<Part, r>> \in Seq(Replies \union {Part})
    OBVIOUS
  <2>2. toClient' = toClient \o <<Part, r>>
    BY <1>7 DEF Send
  <2> HIDE DEF Typed
  <2> QED
    BY <1>6, <2>1, <2>2, ConcatProperties
<1>8. CASE Serve
  <2>1. PICK r \in Replies : Send(r)
    BY <1>8, ServeCases
  <2>2. /\ toServer # << >> /\ toServer' = Tail(toServer) /\ Head(toServer) \in 1..Len(commands)
        /\ srv'.subs \subseteq Keys /\ IsFiniteSet(srv'.subs)
    BY <1>8, ServeCases
  <2>3. \E S : srv' = [subs |-> S, monitor |-> IF commands[Head(toServer)].kind = "monitor"
                                               THEN Head(toServer) ELSE srv.monitor]
    BY <1>8 DEF Serve
  <2>4. Head(toServer) \in Number /\ srv.monitor \in Number
    BY <2>2, CommandFacts DEF Number, TypedStream
  <2>5. srv' \in [subs : SUBSET Keys, monitor : Number]
    <3>1. PICK S : srv' = [subs |-> S, monitor |-> IF commands[Head(toServer)].kind = "monitor"
                                                  THEN Head(toServer) ELSE srv.monitor]
      BY <2>3
    <3>2. S \subseteq Keys
      BY <2>2, <3>1
    <3> QED
      BY <2>4, <3>1, <3>2
  <2>6. toServer' \in Seq(Number \ {NoFn})
    BY <1>6, <2>2, HeadTailProperties
  <2>7. toClient' \in Seq(Replies \union {Part})
    BY <1>7, <2>1
  <2>8. TypedStream'
    BY <1>1, <1>2, <2>2, <2>5, <2>6, <2>7 DEF TypedStream
  <2> QED
    BY <1>2, <1>3, <1>5, <2>8
<1>9. CASE Unasked
  <2>1. toClient' \in Seq(Replies \union {Part})
    BY <1>7, <1>9, UnaskedCases
  <2>2. UNCHANGED <<toServer, srv>>
    BY <1>9 DEF Unasked
  <2>3. TypedStream'
    BY <1>1, <1>2, <2>1, <2>2 DEF TypedStream
  <2> QED
    BY <1>2, <1>3, <1>5, <2>3
<1>10. CASE Close
  <2>1. toServer' = << >> /\ UNCHANGED <<toClient, srv>>
    BY <1>10 DEF Close
  <2>2. TypedStream'
    BY <1>1, <1>2, <2>1 DEF TypedStream
  <2> QED
    BY <1>2, <1>3, <1>5, <2>2
<1> QED
  BY <1>8, <1>9, <1>10

(* The steps that change the context's flags, its error or its events only. *)
LEMMA ControlTyped ==
    ASSUME Typed, UNCHANGED program,
           \/ redisAsyncFree \/ redisAsyncDisconnect \/ ReturnFromCallback \/ FreeDone
           \/ ReaderFails \/ ConnectFails \/ IOFails(Broken) \/ IOFails(Fault)
    PROVE  Typed'
<1> USE DEF Typed
<1>1. UNCHANGED <<replies, invalid, subs, obuf, buffer, cb, server, commands, ran>>
  BY DEF redisAsyncFree, redisAsyncDisconnect, ReturnFromCallback, FreeDone, ReaderFails,
         ConnectFails, IOFails
<1>2. TypedCommands' /\ TypedCallbacks' /\ TypedStream'
  BY <1>1, SameCommands, SameCallbacks, SameStream DEF server
<1>3. /\ <<"connect", TRUE>> \in {"connect", "disconnect"} \X BOOLEAN
      /\ <<"connect", FALSE>> \in {"connect", "disconnect"} \X BOOLEAN
      /\ <<"disconnect", "FREEING" \in flags \/ ~err>> \in {"connect", "disconnect"} \X BOOLEAN
      /\ told \in Seq({"connect", "disconnect"} \X BOOLEAN) /\ err \in BOOLEAN
  BY DEF TypedControl
<1>4. ASSUME NEW fl, AsyncDisconnect(TRUE, fl), fl = flags \/ fl = Connected, pc \in {"loop", "process"},
             UNCHANGED events, told' \in Seq({"connect", "disconnect"} \X BOOLEAN)
      PROVE  TypedControl'
  <2>1. err' = TRUE /\ flags' = fl \union {"DISCONNECTING"} /\ pc' = "free"
    BY <1>4, Leaves
  <2> QED
    BY <1>1, <1>4, <2>1 DEF TypedControl, Connected, server
<1>5. CASE redisAsyncFree
  <2>1. /\ flags' = flags \union {"FREEING"} /\ UNCHANGED <<err, events, told, up>>
        /\ pc' = IF "IN_CALLBACK" \in flags THEN pc ELSE "free"
    BY <1>5 DEF redisAsyncFree, server
  <2> HIDE DEF Typed
  <2>2. TypedControl'
    BY <2>1 DEF TypedControl, Typed
  <2> QED
    BY <1>2, <2>2 DEF Typed
<1>6. CASE redisAsyncDisconnect
  <2> DEFINE fl == flags \union {"DISCONNECTING"}
  <2>1. CASE "IN_CALLBACK" \notin flags /\ AsyncDisconnect(err, fl)
    <3>1. pc' \in {"free", "aborted"} /\ flags' = fl /\ err' = err /\ UNCHANGED <<events, told>>
      BY <1>3, <1>6, <2>1, LeavesCleanly DEF redisAsyncDisconnect
    <3>2. up' = up
      BY <1>1 DEF server
    <3> HIDE DEF Typed
    <3>3. TypedControl'
      BY <2>1, <3>1, <3>2 DEF TypedControl, Typed
    <3> QED
      BY <1>2, <3>3 DEF Typed
  <2>2. CASE flags' = fl /\ UNCHANGED <<pc, err>>
    <3>1. UNCHANGED <<events, told, up>>
      BY <1>6 DEF redisAsyncDisconnect, server
    <3> HIDE DEF Typed
    <3>2. TypedControl'
      BY <2>2, <3>1 DEF TypedControl, Typed
    <3> QED
      BY <1>2, <3>2 DEF Typed
  <2> QED
    BY <1>6, <2>1, <2>2 DEF redisAsyncDisconnect
<1>7. CASE ReturnFromCallback
  <2>1. /\ flags' = flags \ {"IN_CALLBACK"} /\ pc' \in {"process", "free"}
        /\ UNCHANGED <<err, events, told, up>>
    BY <1>7 DEF ReturnFromCallback, server
  <2> HIDE DEF Typed
  <2>2. TypedControl'
    BY <2>1 DEF TypedControl, Typed
  <2> QED
    BY <1>2, <2>2 DEF Typed
<1>8. CASE FreeDone
  <2>1. told' \in Seq({"connect", "disconnect"} \X BOOLEAN)
    BY <1>3, <1>8, AppendProperties DEF FreeDone
  <2>2. pc = "free" /\ pc' = "freed" /\ events' = {} /\ UNCHANGED <<flags, err>>
    BY <1>8 DEF FreeDone
  <2> QED
    BY <1>1, <1>2, <2>1, <2>2 DEF TypedControl, server
<1>9. CASE ReaderFails
  BY <1>2, <1>3, <1>4, <1>9 DEF ReaderFails
<1>10. CASE ConnectFails
  <2>1. CASE AsyncDisconnect(TRUE, flags) /\ told' = Append(told, <<"connect", FALSE>>)
    <3>1. told' \in Seq({"connect", "disconnect"} \X BOOLEAN)
      BY <1>3, <2>1, AppendProperties
    <3> QED
      BY <1>2, <1>4, <1>10, <2>1, <3>1 DEF ConnectFails, Event
  <2>2. CASE err' = TRUE /\ UNCHANGED <<pc, flags, told>>
    BY <1>1, <1>2, <1>10, <2>2 DEF ConnectFails, TypedControl, server
  <2> QED
    BY <1>10, <2>1, <2>2 DEF ConnectFails
<1>11. CASE IOFails(Broken) \/ IOFails(Fault)
  <2>1. pc = "loop" /\ AsyncDisconnect(TRUE, Connected) /\ Tell /\ UNCHANGED events
    BY <1>11 DEF IOFails, Broken, Fault, Event
  <2>2. told' \in Seq({"connect", "disconnect"} \X BOOLEAN)
    BY <1>3, <2>1, AppendProperties DEF Tell
  <2> QED
    BY <1>2, <1>4, <2>1, <2>2
<1> QED
  BY <1>2, <1>5, <1>6, <1>7, <1>8, <1>9, <1>10, <1>11

LEMMA NoReplyTyped ==
    ASSUME Typed, NoReply, UNCHANGED program
    PROVE  Typed'
<1> USE DEF Typed
<1>1. /\ pc = "process"
      /\ UNCHANGED <<events, invalid, subs, obuf, buffer, cb, server, commands, ran, told>>
  BY DEF NoReply
<1>2. TypedCommands' /\ TypedStream' /\ Number' = Number
  BY <1>1, SameCommands, SameStream DEF server
<1>3. CASE "DISCONNECTING" \in flags /\ AsyncDisconnect(err, flags) /\ UNCHANGED replies
  <2>1. pc' \in {"free", "aborted"} /\ flags' = flags /\ err' = err
    BY <1>3, LeavesCleanly DEF TypedControl
  <2>2. TypedControl'
    BY <1>1, <1>2, <2>1 DEF TypedControl, server
  <2>3. TypedCallbacks'
    BY <1>1, <1>3, SameCallbacks
  <2> QED
    BY <1>2, <2>2, <2>3
<1>4. CASE /\ replies' = IF "MONITORING" \in flags THEN Append(replies, cb) ELSE replies
           /\ pc' = "loop" /\ UNCHANGED <<err, flags>>
  <2>1. TypedControl'
    BY <1>1, <1>4 DEF TypedControl, server
  <2>2. replies' \in Seq(Number)
    BY <1>4 DEF TypedCallbacks
  <2>3. TypedCallbacks'
    BY <1>1, <1>2, <2>2 DEF TypedCallbacks
  <2> QED
    BY <1>2, <2>1, <2>3
<1> QED
  BY <1>3, <1>4 DEF NoReply

LEMMA StepTyped ==
    ASSUME Typed, [Next]_vars
    PROVE  Typed'
<1> USE DEF Typed
<1>1. CASE UNCHANGED vars
  BY <1>1, SameCommands, SameCallbacks, SameStream DEF vars, context, server, TypedControl
<1>2. CASE Next
  <2>1. UNCHANGED program
    BY <1>2 DEF Next
  <2>2. CASE \E c \in Commands : redisAsyncCommand(c.kind, c.key)
    <3>1. PICK c \in Commands : redisAsyncCommand(c.kind, c.key)
      BY <2>2
    <3>2. Accepted(Len(commands) + 1, c.kind, c.key)
      BY <3>1, CommandCases
    <3> QED
      BY <2>1, <3>2, CommandTyped
  <2>3. CASE (\E n \in 1..Len(toClient) : HandleRead(n)) \/ (\E n \in 0..Len(obuf) : HandleWrite(n))
    BY <2>1, <2>3, ReadTyped, WriteTyped
  <2>4. CASE RunPending \/ GotReply \/ NoReply
    BY <2>1, <2>4, RunPendingTyped, GotReplyTyped, NoReplyTyped
  <2>5. CASE Serve \/ Unasked \/ Close
    BY <2>1, <2>5, ServerTyped
  <2>6. CASE \/ redisAsyncFree \/ redisAsyncDisconnect \/ ReturnFromCallback \/ FreeDone
             \/ ReaderFails \/ ConnectFails \/ IOFails(Broken) \/ IOFails(Fault)
    BY <2>1, <2>6, ControlTyped
  <2> QED
    BY <1>2, <2>2, <2>3, <2>4, <2>5, <2>6, Zenon DEF Next, Calls, Library, Loop
<1> QED
  BY <1>1, <1>2

(* Only the server counts the lines it sends unasked. *)
LEMMA LinesStep ==
    ASSUME [Next]_vars PROVE UNCHANGED lines \/ (Unasked /\ UNCHANGED program)
<1>1. CASE UNCHANGED vars
  BY <1>1 DEF vars, server
<1>2. CASE Calls
  BY <1>2 DEF Calls, redisAsyncFree, redisAsyncDisconnect, redisAsyncCommand, server
<1>3. CASE Library
  BY <1>3 DEF Library, RunPending, FreeDone, NoReply, GotReply, ReturnFromCallback, ReaderFails, server
<1>4. CASE Loop
  BY <1>4 DEF Loop, ConnectFails, IOFails, HandleRead, HandleWrite, server
<1>5. CASE Serve \/ Close
  BY <1>5 DEF Serve, Close
<1>6. CASE Unasked /\ UNCHANGED program
  BY <1>6
<1> QED
  BY <1>1, <1>2, <1>3, <1>4, <1>5, <1>6 DEF Next

(* The variables hold what they are declared to hold: the context, its       *)
(* queues of commands and replies, the connection, the server, and what the *)
(* program has asked for and been told.                                     *)
THEOREM AsyncTyped == Spec => []TypeOK
<1>1. Init => TypeOK
  <2> SUFFICES ASSUME Init PROVE TypeOK
    OBVIOUS
  <2>1. lines = 0 /\ program \in Programs
    BY DEF Init
  <2>2. lines \in 0..program.lines
    BY <2>1, ProgramFacts
  <2> QED
    BY <2>2, InitTyped DEF TypeOK
<1>2. TypeOK /\ [Next]_vars => TypeOK'
  <2> SUFFICES ASSUME TypeOK, [Next]_vars PROVE TypeOK'
    OBVIOUS
  <2>1. Typed /\ lines \in 0..program.lines
    BY DEF TypeOK
  <2>2. Typed'
    BY <2>1, StepTyped
  <2>3. program.lines \in Nat
    BY <2>1, ProgramFacts DEF Typed, TypedControl
  <2>4. UNCHANGED program
    BY DEF Next, vars
  <2>5. UNCHANGED lines \/ (lines < program.lines /\ lines' = lines + 1)
    BY LinesStep, Zenon DEF Unasked
  <2>6. lines' \in 0..program.lines
    BY <2>1, <2>3, <2>5
  <2> QED
    BY <2>2, <2>4, <2>6 DEF TypeOK
<1> QED
  BY <1>1, <1>2, PTL DEF Spec

LEMMA TypedAlways == Spec => []Typed
<1>1. TypeOK => Typed
  BY DEF TypeOK
<1> QED
  BY <1>1, AsyncTyped, PTL

-----------------------------------------------------------------------------
(* Who leaves is flagged: __redisAsyncCommand refuses from then on.         *)

Quiet == pc \in {"free", "freecb"} => flags \intersect {"DISCONNECTING", "FREEING"} # {}

(* The control flow of the steps that touch no flag that matters here. *)
LEMMA QuietStep ==
    ASSUME Typed, Quiet, [Next]_vars
    PROVE  Quiet'
<1> USE DEF Typed
<1>1. CASE UNCHANGED vars
  BY <1>1 DEF vars, context, Quiet
<1>2. CASE Next
  <2>1. CASE \E c \in Commands : redisAsyncCommand(c.kind, c.key)
    <3>1. PICK c \in Commands : redisAsyncCommand(c.kind, c.key)
      BY <2>1
    <3>2. Accepted(Len(commands) + 1, c.kind, c.key)
      BY <3>1, CommandCases
    <3> HIDE DEF Typed
    <3>3. UNCHANGED pc /\ flags \subseteq flags'
      BY <3>2 DEF Accepted
    <3> QED
      BY <3>3 DEF Quiet
  <2>2. CASE (\E n \in 1..Len(toClient) : HandleRead(n)) \/ (\E n \in 0..Len(obuf) : HandleWrite(n))
    BY <2>2 DEF HandleRead, HandleWrite, Event, Quiet
  <2>3. CASE RunPending
    <3>1. pc = "free" /\ flags \subseteq flags'
      BY <2>3, RunCases
    <3> QED
      BY <3>1 DEF Quiet
  <2>4. CASE GotReply
    <3>1. CASE AsyncDisconnect(TRUE, flags)
      BY <3>1, Leaves DEF Quiet
    <3>2. CASE pc' = "aborted"
      BY <3>2 DEF Quiet
    <3>3. CASE \E r, kept : Starts(r, kept)
      BY <2>4, <3>3, GotReplyCases DEF Starts, Quiet
    <3> HIDE DEF Typed
    <3> QED
      BY <2>4, <3>1, <3>2, <3>3, GotReplyCases DEF Typed
  <2>5. CASE NoReply
    <3>1. CASE "DISCONNECTING" \in flags /\ AsyncDisconnect(err, flags)
      <4>1. flags' = flags
        BY <3>1, LeavesCleanly DEF TypedControl
      <4> QED
        BY <3>1, <4>1 DEF Quiet
    <3>2. CASE pc' = "loop"
      BY <3>2 DEF Quiet
    <3> QED
      BY <2>5, <3>1, <3>2 DEF NoReply
  <2>6. CASE Serve \/ Unasked \/ Close
    BY <2>6 DEF Serve, Unasked, Close, Client, context, Quiet
  <2>7. CASE redisAsyncFree \/ ReturnFromCallback \/ FreeDone
    BY <2>7 DEF redisAsyncFree, ReturnFromCallback, FreeDone, Quiet
  <2>8. CASE redisAsyncDisconnect
    <3> DEFINE fl == flags \union {"DISCONNECTING"}
    <3>1. CASE AsyncDisconnect(err, fl)
      <4>1. flags' = fl
        BY <3>1, LeavesCleanly DEF TypedControl
      <4> QED
        BY <4>1 DEF Quiet
    <3>2. CASE flags' = fl
      BY <3>2 DEF Quiet
    <3> QED
      BY <2>8, <3>1, <3>2 DEF redisAsyncDisconnect
  <2>9. CASE ReaderFails \/ ConnectFails \/ IOFails(Broken) \/ IOFails(Fault)
    <3>1. CASE \E fl : AsyncDisconnect(TRUE, fl)
      BY <3>1, Leaves DEF Quiet
    <3>2. CASE UNCHANGED <<pc, flags>>
      BY <3>2 DEF Quiet
    <3> HIDE DEF Typed
    <3> QED
      BY <2>9, <3>1, <3>2 DEF ReaderFails, ConnectFails, IOFails
  <2> QED
    BY <1>2, <2>1, <2>2, <2>3, <2>4, <2>5, <2>6, <2>7, <2>8, <2>9, Zenon
       DEF Next, Calls, Library, Loop
<1> QED
  BY <1>1, <1>2

(* async.c:341: while an error takes the context down, whatever the callbacks *)
(* that run on the way ask for, no command is accepted.                       *)
THEOREM NothingNewWhileFreeing == Spec => QuietWhileFreeing
<1>1. Init => Quiet
  BY DEF Init, Quiet
<1>2. Typed /\ Quiet /\ [Next]_vars => Quiet'
  BY QuietStep
<1>3. ASSUME Typed, Quiet, [Next]_vars
      PROVE  [(pc \in {"free", "freecb"}) => commands' = commands]_vars
  <2> SUFFICES ASSUME pc \in {"free", "freecb"} PROVE commands' = commands
    OBVIOUS
  <2>1. \/ UNCHANGED <<replies, invalid, subs, commands, ran>>
        \/ RunPending \/ GotReply \/ NoReply
        \/ \E n \in 1..MaxCommands, kind \in CommandKinds, key \in Keys \union {NoKey} :
             Accepted(n, kind, key)
    BY <1>3, Frame DEF Typed
  <2> QED
    BY <1>3, <2>1 DEF RunPending, GotReply, NoReply, Accepted, Quiet
<1> QED
  BY <1>1, <1>2, <1>3, TypedAlways, PTL DEF Spec, QuietWhileFreeing

-----------------------------------------------------------------------------
(* The hooks of the event loop, at every control point and for commands of  *)
(* every kind: a step between two waits may not lose a hook either.         *)

In(n, s) == \E i \in 1..Len(s) : s[i] = n
Hooked ==
  pc # "freed" =>
    /\ obuf # << >> => "write" \in events
    /\ \A n \in 1..Len(commands) : "read" \in events \/ In(n, obuf)

LEMMA InAppend ==
    ASSUME NEW S, NEW s \in Seq(S), NEW e \in S
    PROVE  In(e, Append(s, e)) /\ \A n : In(n, s) => In(n, Append(s, e))
<1>1. /\ Len(s) \in Nat /\ Len(Append(s, e)) = Len(s) + 1
      /\ \A i \in 1..Len(s) : Append(s, e)[i] = s[i]
      /\ Append(s, e)[Len(s) + 1] = e
  BY AppendProperties
<1> QED
  BY <1>1 DEF In

LEMMA InTail ==
    ASSUME NEW S, NEW s \in Seq(S), s # << >>, NEW n, In(n, s), n # Head(s)
    PROVE  In(n, Tail(s))
<1>1. PICK i \in 1..Len(s) : s[i] = n
  BY DEF In
<1>2. /\ Len(s) \in Nat /\ Len(Tail(s)) = Len(s) - 1
      /\ \A j \in 1..Len(Tail(s)) : Tail(s)[j] = s[j + 1]
      /\ Head(s) = s[1]
  BY HeadTailProperties
<1>3. i # 1
  BY <1>1, <1>2
<1>4. i - 1 \in 1..Len(Tail(s)) /\ (i - 1) + 1 = i
  BY <1>1, <1>2, <1>3
<1> QED
  BY <1>1, <1>2, <1>4 DEF In

LEMMA NewCommand ==
    ASSUME TypedCommands, NEW n, NEW kind, NEW key, Accepted(n, kind, key)
    PROVE  /\ Len(commands) \in Nat /\ n = Len(commands) + 1 /\ Len(commands') = n
           /\ commands'[n] = [kind |-> kind, key |-> key] /\ Kind(n)' = kind
           /\ \A i \in 1..Len(commands) : commands'[i] = commands[i] /\ Kind(i)' = Kind(i)
<1>1. n = Len(commands) + 1 /\ commands' = Append(commands, [kind |-> kind, key |-> key])
  BY DEF Accepted
<1>2. Len(commands) \in Nat /\ \E S : commands \in Seq(S)
  BY DEF TypedCommands
<1>3. /\ Len(commands') = n /\ commands'[n] = [kind |-> kind, key |-> key]
      /\ \A i \in 1..Len(commands) : commands'[i] = commands[i]
  BY <1>1, <1>2
<1> QED
  BY <1>1, <1>2, <1>3 DEF Kind

(* Few steps touch a hook, the commands to write or the end of the context. *)
LEMMA HookCases ==
    ASSUME TypedControl, TypedCommands, [Next]_vars
    PROVE  \/ UNCHANGED <<obuf, events, commands>> /\ (pc = "freed" => pc' = "freed")
           \/ pc' = "freed"
           \/ "read" \in events' /\ (obuf' # << >> => "write" \in events') /\ pc = "loop"
              /\ UNCHANGED commands
           \/ \E n \in 1..MaxCommands, kind \in CommandKinds, key \in Keys \union {NoKey} :
                Accepted(n, kind, key)
<1>1. CASE UNCHANGED vars
  BY <1>1 DEF vars, context
<1>2. CASE Next
  <2>1. CASE Calls
    <3>1. CASE redisAsyncFree \/ redisAsyncDisconnect
      BY <3>1 DEF redisAsyncFree, redisAsyncDisconnect, Program
    <3>2. CASE \E c \in Commands : redisAsyncCommand(c.kind, c.key)
      BY <2>1, <3>2, CommandCases DEF Accepted
    <3> QED
      BY <2>1, <3>1, <3>2 DEF Calls
  <2>2. CASE Library
    BY <2>2 DEF Library, RunPending, FreeDone, NoReply, GotReply, ReturnFromCallback, ReaderFails
  <2>3. CASE Loop
    <3>1. CASE ConnectFails \/ IOFails(Broken) \/ IOFails(Fault) \/ \E n \in 1..Len(toClient) : HandleRead(n)
      <4>1. UNCHANGED <<obuf, events, commands>> /\ pc = "loop"
        BY <3>1 DEF ConnectFails, IOFails, Broken, Fault, HandleRead, Event
      <4> QED
        BY <4>1
    <3>2. CASE \E n \in 0..Len(obuf) : HandleWrite(n)
      BY <3>2 DEF HandleWrite, Event
    <3> QED
      BY <2>3, <3>1, <3>2 DEF Loop
  <2>4. CASE Serve \/ Unasked \/ Close
    BY <2>4 DEF Serve, Unasked, Close, Client, context
  <2> QED
    BY <1>2, <2>1, <2>2, <2>3, <2>4 DEF Next
<1> QED
  BY <1>1, <1>2

LEMMA HookedStep ==
    ASSUME Typed, Hooked, [Next]_vars
    PROVE  Hooked'
<1> SUFFICES ASSUME pc' # "freed"
             PROVE  /\ obuf' # << >> => "write" \in events'
                    /\ \A n \in 1..Len(commands') : "read" \in events' \/ In(n, obuf')
  BY DEF Hooked, In
<1>1. CASE UNCHANGED <<obuf, events, commands>> /\ (pc = "freed" => pc' = "freed")
  BY <1>1 DEF Hooked
<1>2. CASE "read" \in events' /\ (obuf' # << >> => "write" \in events') /\ UNCHANGED commands
  BY <1>2
<1>3. ASSUME NEW n \in 1..MaxCommands, NEW kind \in CommandKinds, NEW key \in Keys \union {NoKey},
             Accepted(n, kind, key)
      PROVE  /\ "write" \in events'
             /\ \A i \in 1..Len(commands') : "read" \in events' \/ In(i, obuf')
  <2>1. obuf' = Append(obuf, n) /\ events' = events \union {"write"} /\ pc # "freed"
    BY <1>3 DEF Accepted
  <2>2. obuf \in Seq(Nat) /\ n \in Nat
    <3>1. Number \ {NoFn} \subseteq Nat
      BY CommandFacts DEF Typed, Number
    <3> QED
      BY <3>1, SeqMonotonic DEF Typed, TypedStream
  <2>3. In(n, obuf') /\ \A i : In(i, obuf) => In(i, obuf')
    BY <2>1, <2>2, InAppend
  <2>4. Len(commands) \in Nat /\ n = Len(commands) + 1 /\ Len(commands') = n
    BY <1>3, NewCommand DEF Typed
  <2> QED
    BY <2>1, <2>3, <2>4 DEF Hooked
<1> QED
  BY <1>1, <1>2, <1>3, HookCases DEF Typed

(* While the event loop waits, every command not yet answered is in the      *)
(* buffer with the writable hook set, or has the readable hook: no order of  *)
(* partial writes, reads, callbacks and failed attempts to connect leaves a  *)
(* command that nothing will ever drive (_EL_ADD_WRITE, _EL_ADD_READ,        *)
(* _EL_DEL_WRITE).                                                          *)
THEOREM HooksAlwaysSet == Spec => []HooksSet
<1>1. Init => Hooked
  BY DEF Init, Hooked
<1>2. Typed /\ Hooked /\ [Next]_vars => Hooked'
  BY HookedStep
<1>3. Typed /\ Hooked => HooksSet
  <2> SUFFICES ASSUME Typed, Hooked, pc = "loop" PROVE HooksSet
    BY DEF HooksSet
  <2>1. DOMAIN commands = 1..Len(commands) /\ DOMAIN obuf = 1..Len(obuf)
    BY DEF Typed, TypedCommands, TypedStream
  <2> QED
    BY <2>1 DEF Hooked, HooksSet, Gets, In
<1> QED
  BY <1>1, <1>2, <1>3, TypedAlways, PTL DEF Spec

-----------------------------------------------------------------------------
(* No callback is forgotten.                                               *)

Remembered ==
  \A n \in 1..Len(commands) : Kind(n) \in {"get", "monitor"} =>
    Runs(n) # {} \/ In(n, replies) \/ In(n, invalid)

LEMMA RunsGrow ==
    ASSUME NEW S, ran \in Seq(S), NEW fn, NEW r, [fn |-> fn, reply |-> r] \in S,
           ran' = Append(ran, [fn |-> fn, reply |-> r])
    PROVE  /\ Len(ran) \in Nat /\ Len(ran') = Len(ran) + 1 /\ DOMAIN ran' = 1..Len(ran')
           /\ DOMAIN ran = 1..Len(ran)
           /\ ran'[Len(ran) + 1] = [fn |-> fn, reply |-> r]
           /\ \A i \in 1..Len(ran) : ran'[i] = ran[i]
           /\ Len(ran) + 1 \in Runs(fn)' /\ \A n : Runs(n) \subseteq Runs(n)'
<1>1. /\ Len(ran) \in Nat /\ Len(ran') = Len(ran) + 1 /\ DOMAIN ran' = 1..Len(ran')
      /\ DOMAIN ran = 1..Len(ran)
      /\ ran'[Len(ran) + 1] = [fn |-> fn, reply |-> r]
      /\ \A i \in 1..Len(ran) : ran'[i] = ran[i]
  <2>1. /\ Append(ran, [fn |-> fn, reply |-> r]) \in Seq(S)
        /\ Len(Append(ran, [fn |-> fn, reply |-> r])) = Len(ran) + 1
        /\ \A i \in 1..Len(ran) : Append(ran, [fn |-> fn, reply |-> r])[i] = ran[i]
        /\ Append(ran, [fn |-> fn, reply |-> r])[Len(ran) + 1] = [fn |-> fn, reply |-> r]
    BY AppendProperties
  <2> QED
    BY <2>1, LenProperties
<1> QED
  BY <1>1 DEF Runs

(* What a list loses at its head, a callback gets. *)
LEMMA HandedOut ==
    ASSUME Typed, NEW list, NEW list2, list \in Seq(Number), list # << >>, list2 = Tail(list),
           NEW n \in 1..Len(commands), In(n, list), NEW r \in Replies \union {NULL},
           \/ Head(list) = NoFn /\ ran' = ran
           \/ Head(list) # NoFn /\ ran' = Append(ran, [fn |-> Head(list), reply |-> r])
    PROVE  Runs(n)' # {} \/ In(n, list2)
<1>1. n # NoFn /\ Head(list) \in Number
  BY DEF NoFn
<1>2. CASE n = Head(list)
  <2> DEFINE S == [fn : Number \ {NoFn}, reply : Replies \union {NULL}]
  <2>1. ran \in Seq(S) /\ [fn |-> n, reply |-> r] \in S /\ ran' = Append(ran, [fn |-> n, reply |-> r])
    BY <1>1, <1>2 DEF Typed, TypedCallbacks
  <2> HIDE DEF S
  <2>2. Len(ran) + 1 \in Runs(n)'
    BY <2>1, RunsGrow
  <2> QED
    BY <2>2
<1>3. CASE n # Head(list)
  BY <1>3, InTail
<1> QED
  BY <1>2, <1>3

LEMMA RunsKept ==
    ASSUME Typed,
           \/ ran' = ran
           \/ \E fn \in Number \ {NoFn}, r \in Replies \union {NULL} :
                ran' = Append(ran, [fn |-> fn, reply |-> r])
    PROVE  \A n : Runs(n) \subseteq Runs(n)'
<1>1. CASE ran' = ran
  BY <1>1 DEF Runs
<1>2. ASSUME NEW fn \in Number \ {NoFn}, NEW r \in Replies \union {NULL},
             ran' = Append(ran, [fn |-> fn, reply |-> r])
      PROVE  \A n : Runs(n) \subseteq Runs(n)'
  <2> DEFINE S == [fn : Number \ {NoFn}, reply : Replies \union {NULL}]
  <2>1. ran \in Seq(S) /\ [fn |-> fn, reply |-> r] \in S
    BY DEF Typed, TypedCallbacks
  <2> HIDE DEF S
  <2> QED
    BY <1>2, <2>1, RunsGrow
<1> QED
  BY <1>1, <1>2

LEMMA RememberedStep ==
    ASSUME Typed, Remembered, [Next]_vars
    PROVE  Remembered'
<1>1. replies \in Seq(Number) /\ invalid \in Seq(Number)
  BY DEF Typed, TypedCallbacks
<1>2. ASSUME UNCHANGED commands, \A n : Runs(n) \subseteq Runs(n)',
             \A n \in 1..Len(commands) : In(n, replies) => Runs(n)' # {} \/ In(n, replies')
                                                          \/ In(n, invalid'),
             \A n \in 1..Len(commands) : In(n, invalid) => Runs(n)' # {} \/ In(n, invalid')
      PROVE  Remembered'
  <2> SUFFICES ASSUME NEW n \in 1..Len(commands'), Kind(n)' \in {"get", "monitor"}
               PROVE  Runs(n)' # {} \/ In(n, replies') \/ In(n, invalid')
    BY DEF Remembered, In
  <2>1. n \in 1..Len(commands) /\ Kind(n) \in {"get", "monitor"}
    BY <1>2 DEF Kind
  <2> QED
    BY <1>2, <2>1 DEF Remembered
<1>3. CASE UNCHANGED <<replies, invalid, subs, commands, ran>>
  BY <1>2, <1>3 DEF Runs
<1>4. CASE RunPending
  <2>1. PICK fn \in Number :
          /\ \/ /\ replies # << >> /\ fn = Head(replies) /\ replies' = Tail(replies)
                /\ UNCHANGED <<invalid, subs>>
             \/ /\ replies = << >> /\ invalid # << >> /\ fn = Head(invalid)
                /\ invalid' = Tail(invalid) /\ UNCHANGED <<replies, subs>>
             \/ UNCHANGED <<replies, invalid>>
          /\ \/ fn = NoFn /\ ran' = ran
             \/ fn # NoFn /\ ran' = Append(ran, [fn |-> fn, reply |-> NULL])
    BY <1>4, RunCases DEF Typed
  <2>2. UNCHANGED commands
    BY <1>4 DEF RunPending
  <2>3. \A n : Runs(n) \subseteq Runs(n)'
    BY <2>1, RunsKept
  <2>4. \A n \in 1..Len(commands) : In(n, replies) => Runs(n)' # {} \/ In(n, replies')
    BY <1>1, <2>1, HandedOut
  <2>5. \A n \in 1..Len(commands) : In(n, invalid) => Runs(n)' # {} \/ In(n, invalid')
    BY <1>1, <2>1, HandedOut
  <2> QED
    BY <1>2, <2>2, <2>3, <2>4, <2>5
<1>5. CASE GotReply
  <2> DEFINE r == Head(buffer)
  <2>1. UNCHANGED commands /\ r \in Replies
    <3>1. buffer # << >> /\ UNCHANGED commands
      BY <1>5 DEF GotReply
    <3> QED
      BY <3>1 DEF Typed, TypedStream
  <2>2. cb' \in Number
    BY <1>5, StepTyped, <2>1 DEF Typed, TypedCallbacks, Number
  <2>3. /\ \/ ran' = ran
           \/ cb' # NoFn /\ ran' = Append(ran, [fn |-> cb', reply |-> r])
        /\ \/ UNCHANGED <<replies, invalid>>
           \/ /\ replies # << >> /\ cb' = Head(replies) /\ replies' = Tail(replies)
              /\ UNCHANGED invalid /\ (cb' = NoFn \/ ran' = Append(ran, [fn |-> cb', reply |-> r]))
           \/ /\ invalid # << >> /\ cb' = Head(invalid) /\ invalid' = Tail(invalid)
              /\ UNCHANGED replies /\ (cb' = NoFn \/ ran' = Append(ran, [fn |-> cb', reply |-> r]))
    <3> HIDE DEF r
    <3> QED
      BY <1>5, GotReplyCases DEF Typed, Starts, r
  <2> HIDE DEF r
  <2>4. \A n : Runs(n) \subseteq Runs(n)'
    BY <2>1, <2>2, <2>3, RunsKept
  <2>5. cb' = NoFn => ran' = ran
    BY <2>3
  <2>6. \A n \in 1..Len(commands) : In(n, replies) => Runs(n)' # {} \/ In(n, replies')
    BY <1>1, <2>1, <2>3, <2>5, HandedOut
  <2>7. \A n \in 1..Len(commands) : In(n, invalid) => Runs(n)' # {} \/ In(n, invalid')
    BY <1>1, <2>1, <2>3, <2>5, HandedOut
  <2> QED
    BY <1>2, <2>1, <2>4, <2>6, <2>7
<1>6. CASE NoReply
  <2>1. UNCHANGED <<invalid, commands, ran>> /\ (UNCHANGED replies \/ replies' = Append(replies, cb))
    BY <1>6 DEF NoReply
  <2>2. cb \in Number
    BY DEF Typed, TypedCallbacks
  <2>3. \A n : In(n, replies) => In(n, replies')
    BY <1>1, <2>1, <2>2, InAppend
  <2> QED
    BY <1>2, <2>1, <2>3 DEF Runs
<1>7. ASSUME NEW n \in 1..MaxCommands, NEW kind \in CommandKinds, NEW key \in Keys \union {NoKey},
             Accepted(n, kind, key)
      PROVE  Remembered'
  <2>1. /\ Len(commands) \in Nat /\ n = Len(commands) + 1 /\ Len(commands') = n /\ Kind(n)' = kind
        /\ \A i \in 1..Len(commands) : Kind(i)' = Kind(i)
    BY <1>7, NewCommand DEF Typed
  <2>2. ran' = ran
    BY <1>7 DEF Accepted
  <2>3. replies \in Seq(Nat) /\ invalid \in Seq(Nat) /\ n \in Nat /\ Fn(n, kind) \in Nat
    <3>1. Number \subseteq Nat
      BY <2>1 DEF Number
    <3>2. replies \in Seq(Nat) /\ invalid \in Seq(Nat)
      BY <1>1, <3>1, SeqMonotonic
    <3> QED
      BY <2>1, <3>2 DEF Fn, NoFn
  <2> HIDE DEF Fn
  <2>4. \A i : In(i, replies) => In(i, replies')
    <3>1. replies' = replies \/ replies' = Append(replies, n) \/ replies' = Append(replies, Fn(n, kind))
      BY <1>7 DEF Accepted
    <3> QED
      BY <2>3, <3>1, InAppend
  <2>5. \A i : In(i, invalid) => In(i, invalid')
    <3>1. invalid' = invalid \/ invalid' = Append(invalid, Fn(n, kind))
      BY <1>7 DEF Accepted
    <3> QED
      BY <2>3, <3>1, InAppend
  <2>6. kind = "monitor" => In(n, replies')
    <3>1. kind = "monitor" => replies' = Append(replies, n)
      BY <1>7 DEF Accepted
    <3> QED
      BY <2>3, <3>1, InAppend
  <2>7. kind = "get" => In(n, replies') \/ In(n, invalid')
    <3> SUFFICES ASSUME kind = "get" PROVE In(n, replies') \/ In(n, invalid')
      OBVIOUS
    <3>1. Fn(n, kind) = n
      BY DEF Fn
    <3>2. replies' = Append(replies, n) \/ invalid' = Append(invalid, n)
      BY <1>7, <3>1 DEF Accepted
    <3> QED
      BY <2>3, <3>2, InAppend
  <2> SUFFICES ASSUME NEW i \in 1..n, Kind(i)' \in {"get", "monitor"}
               PROVE  Runs(i)' # {} \/ In(i, replies') \/ In(i, invalid')
    BY <2>1 DEF Remembered, In
  <2>8. CASE i = n
    BY <2>1, <2>6, <2>7, <2>8
  <2>9. CASE i # n
    <3>1. i \in 1..Len(commands) /\ Kind(i) \in {"get", "monitor"} /\ Runs(i)' = Runs(i)
      BY <2>1, <2>2, <2>9 DEF Runs
    <3> QED
      BY <2>4, <2>5, <3>1 DEF Remembered
  <2> QED
    BY <2>8, <2>9
<1> QED
  BY <1>3, <1>4, <1>5, <1>6, <1>7, Frame DEF Typed

(* Nothing changes any more for a context that is gone. *)
LEMMA FreedCases ==
    ASSUME TypedControl, TypedCommands, [Next]_vars, pc' = "freed"
    PROVE  \/ FreeDone
           \/ pc = "freed" /\ UNCHANGED <<replies, invalid, subs, commands, ran, told, flags, err>>
<1>1. CASE UNCHANGED vars
  BY <1>1 DEF vars, context
<1>2. CASE Next
  <2>1. CASE Calls
    <3>1. CASE redisAsyncFree
      BY <3>1 DEF redisAsyncFree, Program
    <3>2. CASE redisAsyncDisconnect
      BY <3>2 DEF redisAsyncDisconnect, Program, AsyncDisconnect
    <3>3. CASE \E c \in Commands : redisAsyncCommand(c.kind, c.key)
      BY <3>3 DEF redisAsyncCommand, Program
    <3> QED
      BY <2>1, <3>1, <3>2, <3>3 DEF Calls
  <2>2. CASE RunPending \/ ReturnFromCallback
    BY <2>2 DEF RunPending, RunCallback, ReturnFromCallback
  <2>3. CASE NoReply \/ ReaderFails
    BY <2>3 DEF NoReply, ReaderFails, AsyncDisconnect
  <2>4. CASE GotReply
    <3>1. pc = "process" /\ (AsyncDisconnect(TRUE, flags) \/ pc' \in {"aborted", "callback", "process"})
      BY <2>4 DEF GotReply
    <3> QED
      BY <3>1 DEF AsyncDisconnect
  <2>5. CASE Loop
    BY <2>5 DEF Loop, ConnectFails, IOFails, Broken, Fault, HandleRead, HandleWrite, Event,
                AsyncDisconnect
  <2>6. CASE Serve \/ Unasked \/ Close
    BY <2>6 DEF Serve, Unasked, Close, Client, context
  <2> QED
    BY <1>2, <2>1, <2>2, <2>3, <2>4, <2>5, <2>6 DEF Next, Library
<1> QED
  BY <1>1, <1>2

Emptied == pc = "freed" => replies = << >> /\ invalid = << >>

(* README.md:300: when the context is gone, the callback of every command    *)
(* that has one has run, whether an answer, an error, a disconnect or the    *)
(* program's redisAsyncFree came first (__redisAsyncFree).                   *)
THEOREM EveryCallbackRuns == Spec => []NoneForgotten
<1>1. Init => Remembered
  BY DEF Init, Remembered
<1>2. Typed /\ Remembered /\ [Next]_vars => Remembered'
  BY RememberedStep
<1>3. Init => Emptied
  BY DEF Init, Emptied
<1>4. Typed /\ Emptied /\ [Next]_vars => Emptied'
  <2> SUFFICES ASSUME Typed, Emptied, [Next]_vars, pc' = "freed"
               PROVE  replies' = << >> /\ invalid' = << >>
    BY DEF Emptied
  <2> QED
    BY FreedCases DEF Typed, FreeDone, Pending, Emptied
<1>5. Typed /\ Remembered /\ Emptied => NoneForgotten
  BY DEF Typed, TypedCommands, Remembered, Emptied, NoneForgotten, In
<1> QED
  BY <1>1, <1>2, <1>3, <1>4, <1>5, TypedAlways, PTL DEF Spec

-----------------------------------------------------------------------------
(* A clean disconnect waits for the answers.                               *)

Answered(n) == \E i \in Runs(n) : ran[i].reply # NULL
Leaving == pc \in {"free", "freecb", "freed"}
(* Leaving with commands that will not be answered. *)
Lost == Leaving /\ (err \/ "FREEING" \in flags)

Owed ==
  Kinds \subseteq {"get", "forget"} =>
    /\ invalid = << >> /\ flags \intersect {"SUBSCRIBED", "MONITORING"} = {}
    /\ \A k \in Keys : subs[k] = NoFn
    /\ Lost \/ \A n \in 1..Len(commands) : Kind(n) = "get" => Answered(n) \/ In(n, replies)
    /\ Leaving /\ ~Lost => replies = << >>

(* onDisconnect hears of the end only, and how it came. *)
Said ==
  \A i \in 1..Len(told) : told[i][1] = "disconnect" =>
    pc = "freed" /\ told[i][2] = ("FREEING" \in flags \/ ~err)

LEMMA KindsGrow ==
    ASSUME TypedControl, TypedCommands, [Next]_vars
    PROVE  Kinds \subseteq Kinds'
<1>1. CASE UNCHANGED commands
  BY <1>1 DEF Kinds, Kind
<1>2. ASSUME NEW n, NEW kind, NEW key, Accepted(n, kind, key)
      PROVE  Kinds \subseteq Kinds'
  <2>1. /\ Len(commands) \in Nat /\ n = Len(commands) + 1 /\ Len(commands') = n
        /\ \A i \in 1..Len(commands) : Kind(i)' = Kind(i)
    BY <1>2, NewCommand
  <2>2. DOMAIN commands = 1..Len(commands) /\ DOMAIN commands' = 1..n
    BY <1>2, <2>1 DEF TypedCommands, Accepted
  <2> QED
    BY <2>1, <2>2 DEF Kinds
<1> QED
  BY <1>1, <1>2, Frame DEF RunPending, GotReply, NoReply

LEMMA KindsOf ==
    ASSUME TypedCommands
    PROVE  Kinds = {Kind(n) : n \in 1..Len(commands)}
BY DEF TypedCommands, Kinds

(* What a step does to the flags, the error and the way out. *)
LEMMA LeavingCases ==
    ASSUME Typed, [Next]_vars
    PROVE  /\ (err => err') /\ ("FREEING" \in flags => "FREEING" \in flags')
           /\ Leaving => Leaving'
           /\ ~Leaving /\ Leaving' => /\ err' \/ "FREEING" \in flags' \/ replies = << >>
                                     /\ UNCHANGED <<replies, invalid, subs, commands, ran>>
           /\ \/ \A f \in {"SUBSCRIBED", "MONITORING"} : f \in flags' => f \in flags
              \/ \E n \in 1..MaxCommands, kind \in CommandKinds, key \in Keys \union {NoKey} :
                   Accepted(n, kind, key)
<1> USE DEF Typed
<1>1. CASE UNCHANGED vars
  BY <1>1 DEF vars, context, Leaving
<1>2. CASE Next
  <2>1. CASE \E c \in Commands : redisAsyncCommand(c.kind, c.key)
    <3>1. PICK c \in Commands : redisAsyncCommand(c.kind, c.key)
      BY <2>1
    <3>2. Accepted(Len(commands) + 1, c.kind, c.key)
      BY <3>1, CommandCases
    <3>3. /\ Len(commands) + 1 \in 1..MaxCommands /\ c.kind \in CommandKinds /\ c.key \in Keys \union {NoKey}
          /\ UNCHANGED <<pc, err>> /\ flags \subseteq flags'
      BY <3>2 DEF Accepted
    <3> QED
      BY <3>2, <3>3 DEF Leaving
  <2>2. CASE (\E n \in 1..Len(toClient) : HandleRead(n)) \/ (\E n \in 0..Len(obuf) : HandleWrite(n))
    BY <2>2 DEF HandleRead, HandleWrite, Event, Leaving, Connected
  <2>3. CASE RunPending
    <3>1. /\ pc = "free" /\ pc' \in {"free", "freecb"} /\ flags' \subseteq flags \union {"IN_CALLBACK"}
          /\ flags \subseteq flags' /\ err' = err
      BY <2>3, RunCases
    <3> QED
      BY <3>1 DEF Leaving
  <2>4. CASE GotReply
    <3>1. CASE AsyncDisconnect(TRUE, flags) /\ UNCHANGED <<replies, invalid, subs, ran>>
      BY <2>4, <3>1, Leaves, GotReplyCases DEF Leaving
    <3>2. CASE pc' = "aborted" /\ UNCHANGED <<err, flags>>
      BY <2>4, <3>2, GotReplyCases DEF Leaving
    <3>3. CASE (\E r : Starts(r, flags) \/ Starts(r, Kept(r))) /\ UNCHANGED err
      <4>1. PICK r : Starts(r, flags) \/ Starts(r, Kept(r))
        BY <3>3
      <4>2. pc = "process"
        BY <2>4 DEF GotReply
      <4>3. flags \ {"SUBSCRIBED"} \subseteq Kept(r) /\ Kept(r) \subseteq flags
        BY DEF Kept
      <4>4. /\ pc' \in {"process", "callback"} /\ flags' \subseteq flags \union {"IN_CALLBACK"}
            /\ flags \ {"SUBSCRIBED"} \subseteq flags'
        BY <4>1, <4>2, <4>3 DEF Starts
      <4> QED
        BY <3>3, <4>2, <4>4 DEF Leaving
    <3> HIDE DEF Typed
    <3> QED
      BY <2>4, <3>1, <3>2, <3>3, GotReplyCases DEF Typed
  <2>5. CASE NoReply
    <3>1. pc = "process" /\ UNCHANGED <<invalid, subs, commands, ran>>
      BY <2>5 DEF NoReply
    <3>2. CASE "DISCONNECTING" \in flags /\ AsyncDisconnect(err, flags) /\ UNCHANGED replies
      <4>1. flags' = flags /\ err' = err /\ (pc' = "aborted" \/ (pc' = "free" /\ (err \/ replies = << >>)))
        BY <3>2, LeavesCleanly DEF TypedControl
      <4> QED
        BY <3>1, <3>2, <4>1 DEF Leaving
    <3>3. CASE pc' = "loop" /\ UNCHANGED <<err, flags>>
      BY <3>1, <3>3 DEF Leaving
    <3> QED
      BY <2>5, <3>2, <3>3 DEF NoReply
  <2>6. CASE Serve \/ Unasked \/ Close
    BY <2>6 DEF Serve, Unasked, Close, Client, context, Leaving
  <2>7. CASE redisAsyncFree \/ ReturnFromCallback \/ FreeDone
    BY <2>7 DEF redisAsyncFree, ReturnFromCallback, FreeDone, Program, Leaving
  <2>8. CASE redisAsyncDisconnect
    <3> DEFINE fl == flags \union {"DISCONNECTING"}
    <3>1. UNCHANGED <<replies, invalid, subs, commands, ran>>
      BY <2>8 DEF redisAsyncDisconnect
    <3>2. CASE "IN_CALLBACK" \notin flags /\ pc = "loop" /\ AsyncDisconnect(err, fl)
      <4>1. flags' = fl /\ err' = err /\ (pc' = "aborted" \/ (pc' = "free" /\ (err \/ replies = << >>)))
        BY <3>2, LeavesCleanly DEF TypedControl
      <4> QED
        BY <3>1, <3>2, <4>1 DEF Leaving
    <3>3. CASE flags' = fl /\ UNCHANGED <<pc, err>>
      BY <3>1, <3>3 DEF Leaving
    <3>4. "IN_CALLBACK" \notin flags => pc = "loop"
      BY <2>8 DEF redisAsyncDisconnect, Program, TypedControl
    <3> QED
      BY <2>8, <3>2, <3>3, <3>4 DEF redisAsyncDisconnect
  <2>9. CASE ReaderFails \/ ConnectFails \/ IOFails(Broken) \/ IOFails(Fault)
    <3>1. pc \in {"loop", "process"} /\ UNCHANGED <<replies, invalid, subs, commands, ran>>
      BY <2>9 DEF ReaderFails, ConnectFails, IOFails, Broken, Fault, Event
    <3>2. CASE AsyncDisconnect(TRUE, flags) \/ AsyncDisconnect(TRUE, Connected)
      <4>1. PICK fl \in {flags, Connected} : AsyncDisconnect(TRUE, fl)
        BY <3>2
      <4>2. err' = TRUE /\ flags' = fl \union {"DISCONNECTING"} /\ pc' = "free"
        BY <4>1, Leaves
      <4> QED
        BY <3>1, <4>1, <4>2 DEF Leaving, Connected
    <3>3. CASE err' = TRUE /\ UNCHANGED <<pc, flags>>
      BY <3>1, <3>3 DEF Leaving
    <3> HIDE DEF Typed
    <3> QED
      BY <2>9, <3>2, <3>3 DEF ReaderFails, ConnectFails, IOFails
  <2> QED
    BY <1>2, <2>1, <2>2, <2>3, <2>4, <2>5, <2>6, <2>7, <2>8, <2>9, Zenon
       DEF Next, Calls, Library, Loop
<1> QED
  BY <1>1, <1>2

LEMMA AnsweredKept ==
    ASSUME Typed,
           \/ ran' = ran
           \/ \E fn \in Number \ {NoFn}, r \in Replies \union {NULL} :
                ran' = Append(ran, [fn |-> fn, reply |-> r])
    PROVE  \A n : Answered(n) => Answered(n)'
<1> SUFFICES ASSUME NEW n, Answered(n) PROVE Answered(n)'
  OBVIOUS
<1>1. PICK i \in Runs(n) : ran[i].reply # NULL
  BY DEF Answered
<1>2. i \in Runs(n)'
  BY RunsKept
<1>3. ran'[i] = ran[i]
  <2> DEFINE S == [fn : Number \ {NoFn}, reply : Replies \union {NULL}]
  <2>1. i \in 1..Len(ran) /\ ran \in Seq(S)
    BY DEF Runs, Typed, TypedCallbacks
  <2>2. ASSUME NEW fn \in Number \ {NoFn}, NEW r \in Replies \union {NULL},
               ran' = Append(ran, [fn |-> fn, reply |-> r])
        PROVE  ran'[i] = ran[i]
    <3>1. [fn |-> fn, reply |-> r] \in S
      BY <2>2
    <3> HIDE DEF S
    <3> QED
      BY <2>1, <2>2, <3>1, RunsGrow
  <2> QED
    BY <2>1, <2>2
<1> QED
  BY <1>1, <1>2, <1>3 DEF Answered

LEMMA OwedStep ==
    ASSUME Typed, Quiet, Owed, [Next]_vars
    PROVE  Owed'
<1> SUFFICES ASSUME Kinds' \subseteq {"get", "forget"} PROVE Owed'
  BY DEF Owed
<1> USE DEF Typed
<1>1. Kinds \subseteq {"get", "forget"}
  BY KindsGrow
<1>2. /\ invalid = << >> /\ flags \intersect {"SUBSCRIBED", "MONITORING"} = {}
      /\ \A k \in Keys : subs[k] = NoFn
      /\ Lost \/ \A n \in 1..Len(commands) : Kind(n) = "get" => Answered(n) \/ In(n, replies)
      /\ Leaving /\ ~Lost => replies = << >>
  BY <1>1 DEF Owed
<1>3. /\ Lost => Lost' /\ (Leaving => Leaving')
      /\ ~Leaving /\ Leaving' /\ ~Lost' => replies = << >>
      /\ ~Leaving /\ Leaving' => UNCHANGED <<replies, invalid, subs, commands, ran>>
  BY LeavingCases DEF Lost
<1>4. replies \in Seq(Number) /\ subs \in [Keys -> Number]
  BY DEF TypedCallbacks
<1> HIDE DEF Typed
<1>5. CASE UNCHANGED <<replies, invalid, subs, commands, ran>> /\ flags' \intersect {"SUBSCRIBED", "MONITORING"} = {}
  <2>1. /\ \A n : Answered(n)' = Answered(n) /\ Kind(n)' = Kind(n)
        /\ \A n : In(n, replies)' = In(n, replies)
    BY <1>5 DEF Answered, Runs, Kind, In
  <2>2. Lost' \/ \A n \in 1..Len(commands') : Kind(n)' = "get" => Answered(n)' \/ In(n, replies)'
    BY <1>2, <1>3, <1>5, <2>1
  <2>3. Leaving' /\ ~Lost' => replies' = << >>
    BY <1>2, <1>3, <1>5
  <2> QED
    BY <1>2, <1>5, <2>2, <2>3 DEF Owed
<1>6. CASE RunPending
  <2>1. pc = "free" /\ UNCHANGED commands /\ flags' \subseteq flags \union {"IN_CALLBACK"}
        /\ replies # << >> /\ UNCHANGED <<invalid, subs>>
    BY <1>2, <1>6, RunCases DEF Typed
  <2>2. Lost /\ Lost'
    BY <1>2, <1>3, <2>1 DEF Leaving
  <2>3. flags' \intersect {"SUBSCRIBED", "MONITORING"} = {}
    BY <1>2, <2>1
  <2> QED
    BY <1>2, <2>1, <2>2, <2>3 DEF Owed
<1>7. CASE GotReply
  <2> DEFINE r == Head(buffer)
  <2>1. UNCHANGED commands /\ r \in Replies /\ pc = "process"
    <3>1. buffer # << >> /\ UNCHANGED commands /\ pc = "process"
      BY <1>7 DEF GotReply
    <3> QED
      BY <3>1 DEF Typed, TypedStream
  <2> HIDE DEF r
  <2>2. \/ UNCHANGED <<replies, invalid, subs, commands, ran>> /\ flags' \intersect {"SUBSCRIBED", "MONITORING"} = {}
        \/ /\ replies # << >> /\ cb' = Head(replies) /\ replies' = Tail(replies)
           /\ UNCHANGED <<err, invalid, subs>> /\ Starts(r, flags)
    <3>1. CASE AsyncDisconnect(TRUE, flags) /\ UNCHANGED <<cb, replies, invalid, subs, ran>>
      <4>1. flags' = flags \union {"DISCONNECTING"}
        BY <3>1, Leaves
      <4> QED
        BY <1>2, <2>1, <3>1, <4>1
    <3> QED
      BY <1>2, <1>7, <2>1, <3>1, GotReplyCases DEF r, Typed
  <2>3. CASE /\ replies # << >> /\ cb' = Head(replies) /\ replies' = Tail(replies)
             /\ UNCHANGED <<err, invalid, subs>> /\ Starts(r, flags)
    <3>1. cb' \in Number
      BY <1>4, <2>3
    <3>2. \/ cb' = NoFn /\ ran' = ran
          \/ cb' # NoFn /\ ran' = Append(ran, [fn |-> cb', reply |-> r])
      BY <2>3 DEF Starts
    <3>3. \A n : Answered(n) => Answered(n)'
      BY <2>1, <3>1, <3>2, AnsweredKept
    <3>4. ASSUME NEW n \in 1..Len(commands), In(n, replies)
          PROVE  Answered(n)' \/ In(n, replies')
      <4>1. CASE n = Head(replies)
        <5> DEFINE S == [fn : Number \ {NoFn}, reply : Replies \union {NULL}]
        <5>1. n # NoFn /\ n = cb' /\ ran' = Append(ran, [fn |-> n, reply |-> r])
          BY <2>3, <3>2, <4>1 DEF NoFn
        <5>2. ran \in Seq(S) /\ [fn |-> n, reply |-> r] \in S
          BY <2>1, <3>1, <5>1 DEF Typed, TypedCallbacks
        <5> HIDE DEF S
        <5>3. Len(ran) + 1 \in Runs(n)' /\ ran'[Len(ran) + 1] = [fn |-> n, reply |-> r]
          BY <5>1, <5>2, RunsGrow
        <5>4. r # NULL
          BY <2>1, ReplyFacts DEF Typed
        <5> QED
          BY <5>3, <5>4 DEF Answered
      <4>2. CASE n # Head(replies)
        BY <1>4, <2>3, <3>4, <4>2, InTail
      <4> QED
        BY <4>1, <4>2
    <3>5. pc' \in {"process", "callback"} /\ flags' \subseteq flags \union {"IN_CALLBACK"}
      BY <2>1, <2>3 DEF Starts
    <3>6. ~Leaving /\ ~Leaving' /\ ~Lost
      BY <2>1, <3>5 DEF Leaving, Lost
    <3>7. \A n \in 1..Len(commands') : Kind(n)' = "get" => Answered(n)' \/ In(n, replies)'
      <4> SUFFICES ASSUME NEW n \in 1..Len(commands'), Kind(n)' = "get"
                   PROVE  Answered(n)' \/ In(n, replies')
        BY DEF In
      <4>1. n \in 1..Len(commands) /\ Kind(n) = "get"
        BY <2>1 DEF Kind
      <4> QED
        BY <1>2, <3>3, <3>4, <3>6, <4>1
    <3>8. flags' \intersect {"SUBSCRIBED", "MONITORING"} = {}
      BY <1>2, <3>5
    <3> QED
      BY <1>2, <2>3, <3>6, <3>7, <3>8 DEF Owed
  <2> QED
    BY <1>5, <2>2, <2>3
<1>8. CASE NoReply
  <2>1. UNCHANGED <<invalid, subs, commands, ran>>
    BY <1>8 DEF NoReply
  <2>2. CASE "DISCONNECTING" \in flags /\ AsyncDisconnect(err, flags) /\ UNCHANGED replies
    <3>1. flags' = flags
      BY <2>2, LeavesCleanly DEF Typed, TypedControl
    <3> QED
      BY <1>2, <1>5, <2>1, <2>2, <3>1
  <2>3. CASE /\ replies' = IF "MONITORING" \in flags THEN Append(replies, cb) ELSE replies
             /\ flags' = flags
    BY <1>2, <1>5, <2>1, <2>3
  <2> QED
    BY <1>8, <2>2, <2>3 DEF NoReply
<1>9. ASSUME NEW n \in 1..MaxCommands, NEW kind \in CommandKinds, NEW key \in Keys \union {NoKey},
             Accepted(n, kind, key)
      PROVE  Owed'
  <2>1. /\ Len(commands) \in Nat /\ n = Len(commands) + 1 /\ Len(commands') = n /\ Kind(n)' = kind
        /\ \A i \in 1..Len(commands) : Kind(i)' = Kind(i)
    BY <1>9, NewCommand DEF Typed
  <2>2. kind \in {"get", "forget"}
    <3>1. TypedCommands'
      BY StepTyped DEF Typed
    <3>2. n \in DOMAIN commands'
      BY <2>1, <3>1 DEF TypedCommands
    <3> QED
      BY <2>1, <3>2 DEF Kinds
  <2>3. /\ replies' = Append(replies, Fn(n, kind)) /\ UNCHANGED <<flags, subs, invalid, pc, ran>>
        /\ pc \in {"loop", "callback", "freecb"} /\ flags \intersect {"DISCONNECTING", "FREEING"} = {}
    BY <1>2, <1>9, <2>2 DEF Accepted
  <2>4. ~Leaving /\ ~Leaving' /\ ~Lost
    BY <2>3 DEF Leaving, Lost, Quiet
  <2>5. replies \in Seq(Nat) /\ Fn(n, kind) \in Nat /\ (kind = "get" => Fn(n, kind) = n)
    <3>1. Number \subseteq Nat
      BY <2>1 DEF Number
    <3>2. replies \in Seq(Nat)
      BY <1>4, <3>1, SeqMonotonic
    <3> QED
      BY <2>1, <3>2 DEF Fn, NoFn
  <2>6. In(Fn(n, kind), replies') /\ \A i : In(i, replies) => In(i, replies')
    BY <2>3, <2>5, InAppend
  <2>7. \A i : Answered(i)' = Answered(i)
    BY <2>3 DEF Answered, Runs
  <2>8. ASSUME NEW i \in 1..Len(commands'), Kind(i)' = "get"
        PROVE  Answered(i)' \/ In(i, replies')
    <3>1. CASE i = n
      BY <2>1, <2>5, <2>6, <2>8, <3>1
    <3>2. CASE i # n
      <4>1. i \in 1..Len(commands) /\ Kind(i) = "get"
        BY <2>1, <2>8, <3>2
      <4> QED
        BY <1>2, <2>4, <2>6, <2>7, <4>1
    <3> QED
      BY <3>1, <3>2
  <2> QED
    BY <1>2, <2>3, <2>4, <2>8 DEF Owed, In
<1>10. CASE /\ UNCHANGED <<replies, invalid, subs, commands, ran>>
            /\ \A f \in {"SUBSCRIBED", "MONITORING"} : f \in flags' => f \in flags
  BY <1>2, <1>5, <1>10
<1> QED
  BY <1>6, <1>7, <1>8, <1>9, <1>10, Frame, LeavingCases DEF Typed

LEMMA SaidStep ==
    ASSUME Typed, Said, [Next]_vars
    PROVE  Said'
<1> USE DEF Typed
<1>1. told \in Seq({"connect", "disconnect"} \X BOOLEAN)
  BY DEF TypedControl
<1>2. CASE FreeDone
  <2>1. /\ pc' = "freed" /\ UNCHANGED <<flags, err>> /\ pc # "freed"
        /\ \/ told' = told
           \/ told' = Append(told, <<"disconnect", "FREEING" \in flags \/ ~err>>)
    BY <1>2 DEF FreeDone
  <2>2. \A i \in 1..Len(told) : told[i][1] # "disconnect"
    BY <2>1 DEF Said
  <2>3. CASE told' = told
    BY <2>2, <2>3 DEF Said
  <2>4. CASE told' = Append(told, <<"disconnect", "FREEING" \in flags \/ ~err>>)
    <3>1. /\ Len(told) \in Nat /\ Len(told') = Len(told) + 1
          /\ \A i \in 1..Len(told) : told'[i] = told[i]
          /\ told'[Len(told) + 1] = <<"disconnect", "FREEING" \in flags \/ ~err>>
      BY <1>1, <2>4
    <3>2. \A i \in 1..Len(told') : i \in 1..Len(told) \/ i = Len(told) + 1
      BY <3>1
    <3>3. told'[Len(told) + 1][2] = ("FREEING" \in flags' \/ ~err')
      BY <2>1, <3>1
    <3> QED
      BY <2>1, <2>2, <3>1, <3>2, <3>3 DEF Said
  <2> QED
    BY <2>1, <2>3, <2>4
<1>3. CASE pc = "freed" /\ pc' = "freed" /\ UNCHANGED <<told, flags, err>>
  BY <1>3 DEF Said
<1>4. CASE pc # "freed" /\ (told' = told \/ \E b : told' = Append(told, <<"connect", b>>))
  <2>1. \A i \in 1..Len(told) : told[i][1] # "disconnect"
    BY <1>4 DEF Said
  <2>2. CASE told' = told
    BY <2>1, <2>2 DEF Said
  <2>3. ASSUME NEW b, told' = Append(told, <<"connect", b>>)
        PROVE  Said'
    <3>1. /\ Len(told) \in Nat /\ Len(told') = Len(told) + 1
          /\ \A i \in 1..Len(told) : told'[i] = told[i]
          /\ told'[Len(told) + 1] = <<"connect", b>>
      BY <1>1, <2>3
    <3>2. \A i \in 1..Len(told') : told'[i][1] # "disconnect"
      BY <2>1, <3>1
    <3> QED
      BY <3>2 DEF Said
  <2> QED
    BY <1>4, <2>2, <2>3
<1>5. pc = "freed" => pc' = "freed"
  BY HookCases DEF Accepted
<1>6. FreeDone \/ told' = told \/ \E b : told' = Append(told, <<"connect", b>>)
  <2>1. CASE UNCHANGED vars
    BY <2>1 DEF vars
  <2>2. CASE Calls \/ Library
    BY <2>2 DEF Calls, Library, redisAsyncFree, redisAsyncDisconnect, redisAsyncCommand, RunPending,
                NoReply, GotReply, ReturnFromCallback, ReaderFails
  <2>3. CASE Loop
    BY <2>3 DEF Loop, ConnectFails, IOFails, HandleRead, HandleWrite, Tell
  <2>4. CASE Serve \/ Unasked \/ Close
    BY <2>4 DEF Serve, Unasked, Close, Client
  <2> QED
    BY <2>1, <2>2, <2>3, <2>4 DEF Next
<1>7. CASE pc = "freed"
  BY <1>2, <1>3, <1>5, <1>7, FreedCases
<1> QED
  BY <1>2, <1>4, <1>6, <1>7

(* README.md:308-312: a program that only sends plain commands, asks for a    *)
(* disconnect and is told REDIS_OK has had an answer to every one of them,    *)
(* whatever was still on its way when it asked.                              *)
THEOREM CleanlyDone == Spec => []CleanMeansAnswered
<1>1. Init => Quiet /\ Owed /\ Said
  BY DEF Init, Quiet, Owed, Said, Leaving, NoFn
<1>2. Typed /\ Quiet /\ [Next]_vars => Quiet'
  BY QuietStep
<1>3. Typed /\ Quiet /\ Owed /\ [Next]_vars => Owed'
  BY OwedStep
<1>4. Typed /\ Said /\ [Next]_vars => Said'
  BY SaidStep
<1>5. ASSUME Typed, Owed, Said PROVE CleanMeansAnswered
  <2> SUFFICES ASSUME Kinds \subseteq {"get", "forget"}, "FREEING" \notin flags,
                      NEW i \in DOMAIN told, told[i] = <<"disconnect", TRUE>>
               PROVE  \A n \in Gets : \E j \in Runs(n) : ran[j].reply # NULL
    BY DEF CleanMeansAnswered
  <2>1. i \in 1..Len(told)
    BY <1>5 DEF Typed, TypedControl
  <2>2. pc = "freed" /\ TRUE = ("FREEING" \in flags \/ ~err)
    <3>1. told[i][1] = "disconnect" /\ told[i][2] = TRUE
      OBVIOUS
    <3>2. pc = "freed" /\ told[i][2] = ("FREEING" \in flags \/ ~err)
      BY <1>5, <2>1, <3>1, Zenon DEF Said
    <3> QED
      BY <3>1, <3>2
  <2>3. Leaving /\ ~Lost
    BY <2>2 DEF Leaving, Lost
  <2>4. replies = << >> /\ \A n \in 1..Len(commands) : Kind(n) = "get" => Answered(n) \/ In(n, replies)
    BY <1>5, <2>3 DEF Owed
  <2>5. \A n : ~In(n, replies)
    BY <2>4 DEF In
  <2>6. DOMAIN commands = 1..Len(commands)
    BY <1>5 DEF Typed, TypedCommands
  <2> QED
    BY <2>4, <2>5, <2>6 DEF Gets, Answered
<1> QED
  BY <1>1, <1>2, <1>3, <1>4, <1>5, TypedAlways, PTL DEF Spec

-----------------------------------------------------------------------------
(* The replies on their way, and the commands on theirs, as one queue each. *)

Incoming == buffer \o WholeReplies(toClient)
Outgoing == toServer \o obuf

LEMMA Queues ==
    ASSUME Typed
    PROVE  /\ Incoming \in Seq(Replies) /\ Len(Incoming) \in Nat
           /\ Outgoing \in Seq(Number \ {NoFn}) /\ Len(Outgoing) \in Nat
           /\ \A i \in 1..Len(Incoming) : Incoming[i] \in Replies
<1>1. /\ buffer \in Seq(Replies) /\ toClient \in Seq(Replies \union {Part})
      /\ obuf \in Seq(Number \ {NoFn}) /\ toServer \in Seq(Number \ {NoFn})
  BY DEF Typed, TypedStream
<1>2. WholeReplies(toClient) \in Seq(Replies)
  <2> DEFINE w == Without(toClient, Part)
  <2>1. w \in Seq(Replies \union {Part}) /\ \A i \in 1..Len(w) : w[i] # Part
    BY <1>1, WithoutMembers
  <2> HIDE DEF w
  <2>2. w \in Seq(Replies)
    BY <2>1
  <2> QED
    BY <2>2 DEF w, WholeReplies
<1>3. Incoming \in Seq(Replies) /\ Outgoing \in Seq(Number \ {NoFn})
  BY <1>1, <1>2, ConcatProperties DEF Incoming, Outgoing
<1> QED
  BY <1>3, ElementOfSeq

(* The server sends a reply, in two parts. *)
LEMMA IncomingGrows ==
    ASSUME Typed, NEW r \in Replies, Send(r), UNCHANGED buffer
    PROVE  Incoming' = Append(Incoming, r)
<1> DEFINE S == Replies \union {Part}
<1>1. buffer \in Seq(Replies) /\ toClient \in Seq(S) /\ Part \in S /\ r \in S
  BY DEF Typed, TypedStream
<1>2. r # Part
  BY ReplyFacts DEF Typed
<1> HIDE DEF S
<1>3. toClient' = Append(Append(toClient, Part), r)
  <2>1. toClient' = toClient \o <<Part, r>>
    BY DEF Send
  <2> QED
    BY <1>1, <2>1
<1>4. PICK t \in Seq(S) : t = Append(toClient, Part)
  <2>1. Append(toClient, Part) \in Seq(S)
    BY <1>1, AppendProperties
  <2> QED
    BY <2>1
<1>5. Without(t, Part) = Without(toClient, Part)
  BY <1>1, <1>4, WithoutAppend
<1>6. Without(toClient', Part) = Append(Without(toClient, Part), r)
  <2>1. Without(Append(t, r), Part) = IF r = Part THEN Without(t, Part) ELSE Append(Without(t, Part), r)
    BY <1>1, WithoutAppend
  <2> QED
    BY <1>2, <1>3, <1>4, <1>5, <2>1
<1>7. Without(toClient, Part) \in Seq(S)
  BY <1>1, WithoutMembers
<1>8. buffer \in Seq(S)
  BY <1>1, SeqMonotonic DEF S
<1>9. PICK w \in Seq(S) : w = Without(toClient, Part)
  BY <1>7
<1>10. buffer \o Append(w, r) = Append(buffer \o w, r)
  BY <1>1, <1>8
<1> QED
  BY <1>6, <1>9, <1>10 DEF Incoming, WholeReplies

(* Reading moves bytes from the connection into the reader. *)
LEMMA IncomingRead ==
    ASSUME Typed, NEW n \in 1..Len(toClient), HandleRead(n)
    PROVE  Incoming' = Incoming
<1> DEFINE S == Replies \union {Part}
<1>1. buffer \in Seq(Replies) /\ toClient \in Seq(S)
  BY DEF Typed, TypedStream
<1>2. buffer \in Seq(S) /\ n \in 0..Len(toClient)
  BY <1>1, SeqMonotonic
<1> HIDE DEF S
<1>3. (buffer \o Without(SubSeq(toClient, 1, n), Part))
         \o Without(SubSeq(toClient, n + 1, Len(toClient)), Part) = buffer \o Without(toClient, Part)
  BY <1>1, <1>2, WithoutMove, SMTT(60)
<1> QED
  BY <1>3 DEF HandleRead, Incoming, WholeReplies

(* A whole reply is handed out. *)
LEMMA IncomingShift ==
    ASSUME Typed, buffer # << >>, buffer' = Tail(buffer), UNCHANGED toClient
    PROVE  /\ Len(Incoming) \in Nat \ {0} /\ Incoming[1] = Head(buffer)
           /\ Len(Incoming') = Len(Incoming) - 1
           /\ \A i \in 1..Len(Incoming) - 1 : Incoming'[i] = Incoming[i + 1]
<1>1. buffer \in Seq(Replies) /\ toClient \in Seq(Replies \union {Part})
  BY DEF Typed, TypedStream
<1>2. PICK w \in Seq(Replies \union {Part}) : w = WholeReplies(toClient)
  BY <1>1, WithoutMembers DEF WholeReplies
<1>3. buffer \in Seq(Replies \union {Part})
  BY <1>1, SeqMonotonic
<1>4. Incoming = buffer \o w /\ Incoming' = Tail(buffer) \o w
  BY <1>2 DEF Incoming
<1> QED
  BY <1>2, <1>3, <1>4

(* What the program writes reaches the server's queue in order. *)
LEMMA OutgoingWrite ==
    ASSUME Typed, NEW n \in 0..Len(obuf), HandleWrite(n), up
    PROVE  Outgoing' = Outgoing
<1>1. obuf \in Seq(Number \ {NoFn}) /\ toServer \in Seq(Number \ {NoFn})
  BY DEF Typed, TypedStream
<1>2. (toServer \o SubSeq(obuf, 1, n)) \o SubSeq(obuf, n + 1, Len(obuf)) = toServer \o obuf
  BY <1>1, MoveAt
<1> QED
  BY <1>2 DEF HandleWrite, Outgoing

LEMMA OutgoingShift ==
    ASSUME Typed, toServer # << >>, toServer' = Tail(toServer), UNCHANGED obuf
    PROVE  /\ Len(Outgoing) \in Nat \ {0} /\ Outgoing[1] = Head(toServer)
           /\ Len(Outgoing') = Len(Outgoing) - 1
           /\ \A i \in 1..Len(Outgoing) - 1 : Outgoing'[i] = Outgoing[i + 1]
<1>1. obuf \in Seq(Number \ {NoFn}) /\ toServer \in Seq(Number \ {NoFn})
  BY DEF Typed, TypedStream
<1>2. Outgoing = toServer \o obuf /\ Outgoing' = Tail(toServer) \o obuf
  BY DEF Outgoing
<1> QED
  BY <1>1, <1>2

LEMMA OutgoingGrows ==
    ASSUME Typed, NEW n, NEW kind, NEW key, Accepted(n, kind, key)
    PROVE  /\ Len(Outgoing) \in Nat /\ Len(Outgoing') = Len(Outgoing) + 1
           /\ Outgoing'[Len(Outgoing) + 1] = n
           /\ \A i \in 1..Len(Outgoing) : Outgoing'[i] = Outgoing[i]
<1>1. obuf' = Append(obuf, n) /\ UNCHANGED toServer /\ n \in Nat
  BY DEF Accepted, server
<1>2. obuf \in Seq(Nat) /\ toServer \in Seq(Nat)
  <2>1. Number \ {NoFn} \subseteq Nat
    BY CommandFacts DEF Typed, Number
  <2> QED
    BY <2>1, SeqMonotonic DEF Typed, TypedStream
<1>3. Outgoing = toServer \o obuf /\ Outgoing' = toServer \o Append(obuf, n)
  BY <1>1 DEF Outgoing
<1> QED
  BY <1>1, <1>2, <1>3

-----------------------------------------------------------------------------
(* Who unsubscribes from nothing stays a listener.                         *)

Listening ==
  "unsubscribe" \notin Kinds =>
    /\ \A i \in 1..Len(Incoming) : Incoming[i].kind # "unsubscribe"
    /\ \A n \in 1..Len(commands) : /\ Kind(n) = "subscribe" => "SUBSCRIBED" \in flags
                                   /\ Kind(n) = "monitor" => "MONITORING" \in flags

(* How the stream of replies changes. *)
LEMMA IncomingCases ==
    ASSUME Typed, [Next]_vars
    PROVE  \/ Incoming' = Incoming
           \/ GotReply
           \/ Serve /\ \E r \in Replies : Incoming' = Append(Incoming, r) /\ r.kind \in Kinds
           \/ Unasked /\ \E r \in Replies : Incoming' = Append(Incoming, r) /\ r.kind # "unsubscribe"
<1> USE DEF Typed
<1>1. CASE UNCHANGED <<buffer, toClient>>
  BY <1>1 DEF Incoming
<1>2. CASE UNCHANGED vars
  BY <1>1, <1>2 DEF vars, context, server
<1>3. CASE Next
  <2>1. CASE Calls
    BY <1>1, <2>1 DEF Calls, redisAsyncFree, redisAsyncDisconnect, redisAsyncCommand, server
  <2>2. CASE Library /\ ~GotReply
    BY <1>1, <2>2 DEF Library, RunPending, FreeDone, NoReply, ReturnFromCallback, ReaderFails, server
  <2>3. CASE Loop
    <3>1. CASE \E n \in 1..Len(toClient) : HandleRead(n)
      BY <3>1, IncomingRead
    <3>2. CASE ConnectFails \/ IOFails(Broken) \/ IOFails(Fault) \/ \E n \in 0..Len(obuf) : HandleWrite(n)
      BY <1>1, <3>2 DEF ConnectFails, IOFails, HandleWrite, server
    <3> QED
      BY <2>3, <3>1, <3>2 DEF Loop
  <2>4. CASE Serve
    <3>1. PICK r \in Replies : Send(r) /\ r.kind = Kind(Head(toServer))
      BY <2>4, ServeCases
    <3>2. UNCHANGED buffer /\ Head(toServer) \in 1..Len(commands)
      BY <2>4, ServeCases DEF Client, context
    <3>3. Incoming' = Append(Incoming, r)
      BY <3>1, <3>2, IncomingGrows
    <3>4. r.kind \in Kinds
      BY <3>1, <3>2, KindsOf
    <3> QED
      BY <2>4, <3>3, <3>4
  <2>5. CASE Unasked
    <3>1. PICK r \in Replies : Send(r) /\ r.kind # "unsubscribe"
      BY <2>5, UnaskedCases
    <3>2. UNCHANGED buffer
      BY <2>5 DEF Unasked, Client, context
    <3>3. Incoming' = Append(Incoming, r)
      BY <3>1, <3>2, IncomingGrows
    <3> QED
      BY <2>5, <3>1, <3>3
  <2>6. CASE Close
    BY <1>1, <2>6 DEF Close, Client, context
  <2> QED
    BY <1>3, <2>1, <2>2, <2>3, <2>4, <2>5, <2>6 DEF Next
<1> QED
  BY <1>2, <1>3

(* SUBSCRIBED goes with the reply to an unsubscription only. *)
LEMMA ListenersStay ==
    ASSUME Typed, Listening, [Next]_vars, "unsubscribe" \notin Kinds
    PROVE  /\ "SUBSCRIBED" \in flags => "SUBSCRIBED" \in flags'
           /\ "MONITORING" \in flags => "MONITORING" \in flags'
<1> USE DEF Typed
<1>1. CASE flags \ {"IN_CALLBACK"} \subseteq flags'
  BY <1>1
<1>2. CASE UNCHANGED vars
  BY <1>1, <1>2 DEF vars, context
<1>3. CASE Next
  <2>1. CASE Calls
    <3>1. CASE redisAsyncFree
      BY <1>1, <3>1 DEF redisAsyncFree
    <3>2. CASE redisAsyncDisconnect
      BY <1>1, <3>2, LeavesCleanly DEF redisAsyncDisconnect, TypedControl
    <3>3. CASE \E c \in Commands : redisAsyncCommand(c.kind, c.key)
      BY <1>1, <3>3, CommandCases DEF Accepted
    <3> QED
      BY <2>1, <3>1, <3>2, <3>3 DEF Calls
  <2>2. CASE RunPending
    <3>1. flags \subseteq flags'
      BY <2>2, RunCases
    <3> QED
      BY <3>1
  <2>3. CASE FreeDone \/ ReturnFromCallback
    BY <1>1, <2>3 DEF FreeDone, ReturnFromCallback
  <2>4. CASE NoReply
    BY <1>1, <2>4, LeavesCleanly DEF NoReply, TypedControl
  <2>5. CASE ReaderFails \/ ConnectFails \/ IOFails(Broken) \/ IOFails(Fault)
    <3>1. \/ AsyncDisconnect(TRUE, flags) \/ AsyncDisconnect(TRUE, Connected) \/ UNCHANGED flags
      BY <2>5 DEF ReaderFails, ConnectFails, IOFails
    <3>2. flags \subseteq flags'
      <4>1. CASE AsyncDisconnect(TRUE, flags)
        BY <4>1, Leaves
      <4>2. CASE AsyncDisconnect(TRUE, Connected)
        <5>1. PICK fl : fl = Connected /\ AsyncDisconnect(TRUE, fl)
          BY <4>2
        <5>2. flags' = fl \union {"DISCONNECTING"}
          BY <5>1, Leaves
        <5>3. flags \subseteq fl
          BY <5>1 DEF Connected
        <5> QED
          BY <5>2, <5>3
      <4> QED
        BY <3>1, <4>1, <4>2
    <3> QED
      BY <3>2
  <2>6. CASE GotReply
    <3> DEFINE r == Head(buffer)
    <3>1. buffer # << >> /\ buffer' = Tail(buffer) /\ UNCHANGED toClient
      BY <2>6 DEF GotReply, server
    <3>2. Len(Incoming) \in Nat \ {0} /\ Incoming[1] = r
      BY <3>1, IncomingShift
    <3>3. r.kind # "unsubscribe"
      BY <3>2 DEF Listening
    <3>4. Kept(r) = flags
      BY <3>3 DEF Kept, Ended
    <3>5. \/ AsyncDisconnect(TRUE, flags) \/ flags' = flags
          \/ Starts(r, flags) \/ Starts(r, Kept(r))
      BY <2>6, GotReplyCases
    <3>6. flags \subseteq flags'
      BY <3>4, <3>5, Leaves DEF Starts
    <3> QED
      BY <3>6
  <2>7. CASE (\E n \in 1..Len(toClient) : HandleRead(n)) \/ (\E n \in 0..Len(obuf) : HandleWrite(n))
    BY <1>1, <2>7 DEF HandleRead, HandleWrite, Connected
  <2>8. CASE Serve \/ Unasked \/ Close
    BY <1>1, <2>8 DEF Serve, Unasked, Close, Client, context
  <2> QED
    BY <1>3, <2>1, <2>2, <2>3, <2>4, <2>5, <2>6, <2>7, <2>8, Zenon DEF Next, Library, Loop
<1> QED
  BY <1>2, <1>3

LEMMA ListeningStep ==
    ASSUME Typed, Listening, [Next]_vars
    PROVE  Listening'
<1> SUFFICES ASSUME "unsubscribe" \notin Kinds'
             PROVE  /\ \A i \in 1..Len(Incoming') : Incoming'[i].kind # "unsubscribe"
                    /\ \A n \in 1..Len(commands') :
                         /\ Kind(n)' = "subscribe" => "SUBSCRIBED" \in flags'
                         /\ Kind(n)' = "monitor" => "MONITORING" \in flags'
  BY DEF Listening
<1>1. Kinds \subseteq Kinds'
  BY KindsGrow DEF Typed
<1>2. "unsubscribe" \notin Kinds
  BY <1>1
<1>3. /\ \A i \in 1..Len(Incoming) : Incoming[i].kind # "unsubscribe"
      /\ \A n \in 1..Len(commands) : /\ Kind(n) = "subscribe" => "SUBSCRIBED" \in flags
                                     /\ Kind(n) = "monitor" => "MONITORING" \in flags
  BY <1>2 DEF Listening
<1>4. \A i \in 1..Len(Incoming') : Incoming'[i].kind # "unsubscribe"
  <2>1. CASE Incoming' = Incoming
    BY <1>3, <2>1
  <2>2. CASE GotReply
    <3>1. buffer # << >> /\ buffer' = Tail(buffer) /\ UNCHANGED toClient
      BY <2>2 DEF GotReply, server
    <3>2. /\ Len(Incoming) \in Nat \ {0} /\ Len(Incoming') = Len(Incoming) - 1
          /\ \A i \in 1..Len(Incoming) - 1 : Incoming'[i] = Incoming[i + 1]
      BY <3>1, IncomingShift
    <3>3. \A i \in 1..Len(Incoming) - 1 : i + 1 \in 1..Len(Incoming)
      BY <3>2
    <3> QED
      BY <1>3, <3>2, <3>3
  <2>3. ASSUME NEW r \in Replies, Incoming' = Append(Incoming, r), r.kind # "unsubscribe"
        PROVE  \A i \in 1..Len(Incoming') : Incoming'[i].kind # "unsubscribe"
    <3>1. /\ Len(Incoming) \in Nat /\ Len(Incoming') = Len(Incoming) + 1
          /\ \A i \in 1..Len(Incoming) : Incoming'[i] = Incoming[i]
          /\ Incoming'[Len(Incoming) + 1] = r
      BY <2>3, Queues, AppendProperties
    <3>2. \A i \in 1..Len(Incoming') : i \in 1..Len(Incoming) \/ i = Len(Incoming) + 1
      BY <3>1
    <3> QED
      BY <1>3, <2>3, <3>1, <3>2
  <2> QED
    BY <1>2, <2>1, <2>2, <2>3, IncomingCases
<1>5. CASE UNCHANGED commands
  BY <1>2, <1>3, <1>4, <1>5, ListenersStay DEF Kind
<1>6. ASSUME NEW n, NEW kind, NEW key, Accepted(n, kind, key)
      PROVE  \A i \in 1..Len(commands') :
               /\ Kind(i)' = "subscribe" => "SUBSCRIBED" \in flags'
               /\ Kind(i)' = "monitor" => "MONITORING" \in flags'
  <2>1. /\ Len(commands) \in Nat /\ n = Len(commands) + 1 /\ Len(commands') = n /\ Kind(n)' = kind
        /\ \A i \in 1..Len(commands) : Kind(i)' = Kind(i)
    BY <1>6, NewCommand DEF Typed
  <2>2. /\ kind = "subscribe" => "SUBSCRIBED" \in flags'
        /\ kind = "monitor" => "MONITORING" \in flags'
    BY <1>6 DEF Accepted
  <2>3. \A i \in 1..Len(commands') : i \in 1..Len(commands) \/ i = n
    BY <2>1
  <2> QED
    BY <1>2, <1>3, <2>1, <2>2, <2>3, ListenersStay
<1>7. UNCHANGED commands \/ \E n, kind, key : Accepted(n, kind, key)
  BY Frame DEF Typed, RunPending, GotReply, NoReply
<1> QED
  BY <1>4, <1>5, <1>6, <1>7

-----------------------------------------------------------------------------
(* Replies come in the order of the commands. While a program only sends     *)
(* plain commands and then subscribes, the commands up to the last plain one *)
(* before a subscription are answered by status replies, in order, before    *)
(* anything else arrives; the pending callbacks are those of the commands    *)
(* that are not answered.                                                    *)

Live == pc \in {"loop", "process", "callback"}

(* last: the last command before the first subscription. *)
Split(last) ==
  /\ last \in 0..Len(commands) /\ Len(replies) <= last
  /\ \A n \in 1..last : Kind(n) # "subscribe"
  /\ (last < Len(commands)) <=> "SUBSCRIBED" \in flags
  /\ last < Len(commands) => Kind(last + 1) = "subscribe"
  /\ "MONITORING" \notin flags
  /\ \A i \in 1..Len(replies) :
       replies[i] = Fn(last - Len(replies) + i, Kind(last - Len(replies) + i))

Closing(i) == Incoming[i] = Complaint /\ i = Len(Incoming) /\ ~up
Plain(last, i) ==
  i <= Len(replies) /\ Incoming[i].type = "status" /\ Incoming[i].to = last - Len(replies) + i
Pushed(i) ==
  i > Len(replies) /\ "SUBSCRIBED" \in flags /\ Incoming[i].type \in {"array", "error"}
Arriving(last) ==
  /\ \A i \in 1..Len(Incoming) : Closing(i) \/ Plain(last, i) \/ Pushed(i)
  /\ \A i \in 1..Len(Incoming) : Incoming[i].type = "array" => subs[Incoming[i].key] # NoFn

(* done: how many commands the server has carried out. *)
Serving(last) ==
  /\ srv.monitor = 0 /\ \A k \in srv.subs : subs[k] # NoFn
  /\ up => LET done == Len(commands) - Len(Outgoing) IN
       /\ done \in Nat /\ \A i \in 1..Len(Outgoing) : Outgoing[i] = done + i
       /\ done <= last => srv.subs = {} /\ Len(Incoming) = done - last + Len(replies)
       /\ done > last => srv.subs # {} /\ Len(Incoming) >= Len(replies)

(* A subscription has its callback from when the command is accepted. *)
Heard == \A n \in 1..Len(commands) : Kind(n) = "subscribe" => subs[commands[n].key] # NoFn

Aligned ==
  PlainOrSub /\ Live =>
    /\ Heard
    /\ \E last \in 0..Len(commands) : Split(last) /\ Arriving(last) /\ Serving(last)

LEMMA InitAligned == Init => Aligned
<1> SUFFICES ASSUME Init PROVE Aligned
  OBVIOUS
<1>1. /\ commands = << >> /\ replies = << >> /\ flags = {} /\ subs = [k \in Keys |-> NoFn]
      /\ buffer = << >> /\ toServer = << >> /\ obuf = << >> /\ toClient = << >>
      /\ srv = [subs |-> {}, monitor |-> 0]
  BY DEF Init
<1>2. Incoming = << >> /\ Outgoing = << >>
  BY <1>1, WithoutEmpty DEF Incoming, Outgoing, WholeReplies
<1>3. Split(0)
  BY <1>1 DEF Split
<1>4. Arriving(0)
  BY <1>2 DEF Arriving
<1>5. Serving(0) /\ Heard
  BY <1>1, <1>2 DEF Serving, Heard
<1> QED
  BY <1>1, <1>3, <1>4, <1>5 DEF Aligned

(* A step that moves nothing of it. *)
LEMMA AlignedSame ==
    ASSUME Typed, Aligned, Live, PlainOrSub, UNCHANGED <<commands, replies, subs, srv>>,
           \A f \in {"SUBSCRIBED", "MONITORING"} : f \in flags <=> f \in flags',
           Incoming' = Incoming, up' => up /\ Outgoing' = Outgoing
    PROVE  Aligned'
<1>1. PICK last \in 0..Len(commands) : Split(last) /\ Arriving(last) /\ Serving(last)
  BY DEF Aligned
<1>2. \A n : Kind(n)' = Kind(n)
  BY DEF Kind
<1>3. Split(last)'
  BY <1>1, <1>2 DEF Split
<1>4. Arriving(last)'
  BY <1>1 DEF Arriving, Closing, Plain, Pushed
<1>5. Serving(last)'
  BY <1>1 DEF Serving
<1>6. last \in 0..Len(commands')
  BY <1>1
<1>7. Heard'
  BY <1>2 DEF Aligned, Heard
<1> QED
  BY <1>3, <1>4, <1>5, <1>6, <1>7 DEF Aligned

(* A reply is added at the end. *)
LEMMA ArrivingGrows ==
    ASSUME Typed, NEW last, Arriving(last), up, NEW r \in Replies, Incoming' = Append(Incoming, r),
           UNCHANGED <<replies, subs, flags>>, last \in Nat,
           LET i == Len(Incoming) + 1 IN
             \/ r = Complaint /\ ~up'
             \/ i <= Len(replies) /\ r.type = "status" /\ r.to = last - Len(replies) + i
             \/ i > Len(replies) /\ "SUBSCRIBED" \in flags /\ r.type \in {"array", "error"},
           r.type = "array" => subs[r.key] # NoFn
    PROVE  Arriving(last)' /\ Len(Incoming') = Len(Incoming) + 1
<1>0. PICK j : j = Len(Incoming) + 1
  OBVIOUS
<1>1. /\ Len(Incoming) \in Nat /\ Len(Incoming') = j
      /\ \A i \in 1..Len(Incoming) : Incoming'[i] = Incoming[i]
      /\ Incoming'[j] = r
  BY <1>0, Queues, AppendProperties
<1>2. \A i \in 1..Len(Incoming') : i \in 1..Len(Incoming) \/ i = j
  BY <1>0, <1>1
<1>3. \A i \in 1..Len(Incoming) : Plain(last, i) \/ Pushed(i)
  BY DEF Arriving, Closing
<1>4. \A i \in 1..Len(Incoming) : Plain(last, i)' \/ Pushed(i)'
  BY <1>1, <1>3 DEF Plain, Pushed
<1>5. Closing(j)' \/ Plain(last, j)' \/ Pushed(j)'
  BY <1>0, <1>1 DEF Closing, Plain, Pushed
<1>6. \A i \in 1..Len(Incoming') : Closing(i)' \/ Plain(last, i)' \/ Pushed(i)'
  BY <1>2, <1>4, <1>5
<1>7. \A i \in 1..Len(Incoming') : Incoming'[i].type = "array" => subs'[Incoming'[i].key] # NoFn
  BY <1>1, <1>2 DEF Arriving
<1> QED
  BY <1>0, <1>1, <1>6, <1>7 DEF Arriving

LEMMA AlignedServe ==
    ASSUME Typed, Aligned, Live, PlainOrSub, Serve, UNCHANGED program
    PROVE  Aligned'
<1>1. PICK last \in 0..Len(commands) : Split(last) /\ Arriving(last) /\ Serving(last)
  BY DEF Aligned
<1> DEFINE c == commands[Head(toServer)]
<1>2. /\ up /\ up' /\ toServer # << >> /\ toServer' = Tail(toServer)
      /\ Head(toServer) \in 1..Len(commands)
      /\ UNCHANGED <<commands, replies, subs, flags, buffer, obuf>>
      /\ srv'.subs = CASE c.kind = "subscribe" -> srv.subs \union {c.key}
                       [] c.kind = "unsubscribe" -> srv.subs \ {c.key}
                       [] OTHER -> srv.subs
      /\ srv'.monitor = IF c.kind = "monitor" THEN Head(toServer) ELSE srv.monitor
  BY ServeCases DEF Typed, Client, context
<1>3. PICK r \in Replies :
        /\ Send(r) /\ r.to = Head(toServer) /\ r.kind = Kind(Head(toServer)) /\ r.key = c.key
        /\ r.type = IF c.key # NoKey THEN "array" ELSE IF srv'.subs = {} THEN "status" ELSE "error"
  BY ServeCases DEF Typed
<1>4. Incoming' = Append(Incoming, r)
  BY <1>2, <1>3, IncomingGrows
<1>5. /\ Len(Outgoing) \in Nat \ {0} /\ Outgoing[1] = Head(toServer)
      /\ Len(Outgoing') = Len(Outgoing) - 1
      /\ \A i \in 1..Len(Outgoing) - 1 : Outgoing'[i] = Outgoing[i + 1]
  BY <1>2, OutgoingShift
<1>6. PICK n : n = Head(toServer)
  OBVIOUS
<1>7. PICK done : done = Len(commands) - Len(Outgoing)
  OBVIOUS
<1>8. /\ done \in Nat /\ \A i \in 1..Len(Outgoing) : Outgoing[i] = done + i
      /\ done <= last => srv.subs = {} /\ Len(Incoming) = done - last + Len(replies)
      /\ done > last => srv.subs # {} /\ Len(Incoming) >= Len(replies)
      /\ srv.monitor = 0 /\ \A k \in srv.subs : subs[k] # NoFn
  BY <1>1, <1>2, <1>7 DEF Serving
<1>9. /\ n = done + 1 /\ n \in 1..Len(commands) /\ Len(commands) \in Nat /\ last \in Nat
      /\ Len(replies) \in Nat /\ Len(replies) <= last /\ Len(Incoming) \in Nat
  <2>1. n = Outgoing[1] /\ Outgoing[1] = done + 1
    BY <1>5, <1>6, <1>8
  <2>2. Len(commands) \in Nat /\ Len(replies) \in Nat
    BY DEF Typed, TypedCommands, TypedCallbacks
  <2> QED
    BY <1>1, <1>2, <1>6, <2>1, <2>2, Queues DEF Split
<1>10. /\ Kind(n) \in {"get", "forget", "subscribe"} /\ c.kind = Kind(n)
       /\ (c.key = NoKey <=> Kind(n) # "subscribe")
  <2>1. Kind(n) \in Kinds /\ c.kind = Kind(n)
    BY <1>6, <1>9, KindsOf DEF Kind, Typed
  <2>2. (commands[n].key = NoKey) <=> (commands[n].kind \notin {"subscribe", "unsubscribe"})
    BY <1>9 DEF Typed, TypedCommands
  <2> QED
    BY <1>6, <2>1, <2>2 DEF PlainOrSub
<1> HIDE DEF c
(* What the server's subscriptions become. *)
<1>11. /\ Kind(n) = "subscribe" => srv'.subs = srv.subs \union {c.key} /\ r.type = "array"
       /\ Kind(n) # "subscribe" => /\ srv'.subs = srv.subs
                                  /\ r.type = IF srv.subs = {} THEN "status" ELSE "error"
       /\ srv'.monitor = 0
  BY <1>2, <1>3, <1>8, <1>10
(* The channel has had its callback since the command was accepted. *)
<1>12. Kind(n) = "subscribe" => subs[c.key] # NoFn
  BY <1>6, <1>9 DEF Aligned, Heard, c
<1>13. r.type = "array" => subs[r.key] # NoFn
  BY <1>3, <1>11, <1>12
<1>14. last < Len(commands) <=> "SUBSCRIBED" \in flags
  BY <1>1 DEF Split
<1>15. LET i == Len(Incoming) + 1 IN
        \/ i <= Len(replies) /\ r.type = "status" /\ r.to = last - Len(replies) + i
        \/ i > Len(replies) /\ "SUBSCRIBED" \in flags /\ r.type \in {"array", "error"}
  <2>1. CASE done < last
    <3>1. n \in 1..last
      BY <1>8, <1>9, <2>1
    <3>2. Kind(n) # "subscribe"
      BY <1>1, <3>1 DEF Split
    <3>3. r.type = "status" /\ Len(Incoming) = done - last + Len(replies)
      BY <1>8, <1>9, <1>11, <2>1, <3>2
    <3>4. Len(Incoming) + 1 <= Len(replies) /\ n = last - Len(replies) + (Len(Incoming) + 1)
      BY <1>8, <1>9, <2>1, <3>3
    <3> QED
      BY <1>3, <1>6, <3>3, <3>4
  <2>2. CASE done = last
    <3>1. last < Len(commands) /\ n = last + 1
      BY <1>9, <2>2
    <3>2. Kind(n) = "subscribe"
      BY <1>1, <3>1 DEF Split
    <3> QED
      BY <1>8, <1>9, <1>11, <1>14, <2>2, <3>1, <3>2
  <2>3. CASE done > last
    <3>1. last < Len(commands)
      BY <1>8, <1>9, <2>3
    <3>2. r.type \in {"array", "error"} /\ Len(Incoming) >= Len(replies)
      BY <1>8, <1>11, <2>3
    <3> QED
      BY <1>9, <1>14, <3>1, <3>2
  <2> QED
    BY <1>8, <1>9, <2>1, <2>2, <2>3
<1>16. Arriving(last)' /\ Len(Incoming') = Len(Incoming) + 1
  BY <1>1, <1>2, <1>4, <1>9, <1>13, <1>15, ArrivingGrows
<1>17. \A k \in srv'.subs : subs'[k] # NoFn
  BY <1>2, <1>8, <1>10, <1>11, <1>12
<1>18. /\ Len(commands') - Len(Outgoing') = done + 1
       /\ \A i \in 1..Len(Outgoing') : Outgoing'[i] = done + 1 + i
  <2>1. \A i \in 1..Len(Outgoing) - 1 : i + 1 \in 1..Len(Outgoing) /\ done + (i + 1) = done + 1 + i
    BY <1>5, <1>8
  <2> QED
    BY <1>2, <1>5, <1>7, <1>8, <1>9, <2>1
<1>19. /\ done + 1 <= last => srv'.subs = {} /\ Len(Incoming') = done + 1 - last + Len(replies')
       /\ done + 1 > last => srv'.subs # {} /\ Len(Incoming') >= Len(replies')
  <2>1. CASE done < last
    <3>1. n \in 1..last
      BY <1>8, <1>9, <2>1
    <3>2. Kind(n) # "subscribe"
      BY <1>1, <3>1 DEF Split
    <3> QED
      BY <1>2, <1>8, <1>9, <1>11, <1>16, <2>1, <3>2
  <2>2. CASE done = last
    <3>1. last < Len(commands) /\ n = last + 1
      BY <1>9, <2>2
    <3>2. Kind(n) = "subscribe"
      BY <1>1, <3>1 DEF Split
    <3>3. srv'.subs # {}
      BY <1>11, <3>2
    <3>4. ~(done + 1 <= last) /\ Len(Incoming) = Len(replies)
      BY <1>8, <1>9, <2>2
    <3>5. Len(Incoming') >= Len(replies')
      BY <1>2, <1>9, <1>16, <3>4
    <3> QED
      BY <3>3, <3>4, <3>5
  <2>3. CASE done > last
    <3>1. srv'.subs # {}
      BY <1>8, <1>10, <1>11, <2>3
    <3> QED
      BY <1>2, <1>8, <1>9, <1>16, <2>3, <3>1
  <2> QED
    BY <1>8, <1>9, <2>1, <2>2, <2>3
<1>20. Serving(last)'
  <2>1. PICK d : d = done + 1
    OBVIOUS
  <2>2. d \in Nat /\ Len(commands') - Len(Outgoing') = d
    BY <1>8, <1>18, <2>1
  <2> QED
    <3>1. \A i \in 1..Len(Outgoing') : Outgoing'[i] = d + i
      BY <1>18, <2>1
    <3>2. Len(replies') = Len(replies) /\ Len(replies) \in Nat
      BY <1>2, <1>9
    <3>3. /\ d <= last => srv'.subs = {} /\ Len(Incoming') = d - last + Len(replies')
          /\ d > last => srv'.subs # {} /\ Len(Incoming') >= Len(replies')
      BY <1>8, <1>9, <1>19, <2>1, <2>2, <3>2
    <3> QED
      BY <3>3, <1>11, <1>17, <2>2, <3>1, <3>2 DEF Serving
<1>21. Split(last)'
  BY <1>1, <1>2 DEF Split, Kind
<1>22. last \in 0..Len(commands')
  BY <1>1, <1>2
<1>23. Heard'
  BY <1>2 DEF Aligned, Heard, Kind
<1> QED
  BY <1>16, <1>20, <1>21, <1>22, <1>23 DEF Aligned

LEMMA AlignedUnasked ==
    ASSUME Typed, Aligned, Live, PlainOrSub, Unasked, UNCHANGED program
    PROVE  Aligned'
<1>1. PICK last \in 0..Len(commands) : Split(last) /\ Arriving(last) /\ Serving(last)
  BY DEF Aligned
<1>2. /\ up /\ UNCHANGED <<commands, replies, subs, flags, buffer, obuf, toServer, srv, pc>>
      /\ Len(commands) \in Nat /\ last \in Nat /\ Len(Outgoing) \in Nat /\ Len(Incoming) \in Nat
  BY <1>1, UnaskedCases, CommandFacts, Queues DEF Typed, Client, context
<1>3. PICK r \in Replies :
        /\ Send(r)
        /\ \/ r.type = "array" /\ r.key \in srv.subs /\ UNCHANGED up
           \/ r.type = "status" /\ srv.monitor # 0 /\ UNCHANGED up
           \/ r = Complaint /\ toClient = << >> /\ up' = FALSE
  BY UnaskedCases DEF Typed
<1>4. Incoming' = Append(Incoming, r) /\ Outgoing' = Outgoing
  BY <1>2, <1>3, IncomingGrows DEF Outgoing
<1>5. PICK done : done = Len(commands) - Len(Outgoing)
  OBVIOUS
<1>6. /\ done \in Nat /\ \A i \in 1..Len(Outgoing) : Outgoing[i] = done + i
      /\ done <= last => srv.subs = {} /\ Len(Incoming) = done - last + Len(replies)
      /\ done > last => srv.subs # {} /\ Len(Incoming) >= Len(replies)
      /\ srv.monitor = 0 /\ \A k \in srv.subs : subs[k] # NoFn
  BY <1>1, <1>2, <1>5 DEF Serving
<1>7. Split(last)' /\ Heard' /\ last \in 0..Len(commands')
  BY <1>1, <1>2 DEF Split, Kind, Aligned, Heard
<1>8. CASE r = Complaint /\ up' = FALSE
  <2>1. r.type # "array"
    BY <1>8, ReplyFacts DEF Typed
  <2>2. Arriving(last)'
    BY <1>1, <1>2, <1>4, <1>8, <2>1, ArrivingGrows
  <2>3. Serving(last)'
    BY <1>2, <1>6, <1>8 DEF Serving
  <2> QED
    BY <1>7, <2>2, <2>3 DEF Aligned
<1>9. CASE r.type = "array" /\ r.key \in srv.subs /\ UNCHANGED up
  <2>1. done > last /\ Len(Incoming) >= Len(replies) /\ Len(replies) \in Nat
    BY <1>2, <1>6, <1>9 DEF Typed, TypedCallbacks
  <2>2. "SUBSCRIBED" \in flags
    BY <1>1, <1>2, <1>5, <2>1 DEF Split
  <2>3. Len(Incoming) + 1 > Len(replies) /\ subs[r.key] # NoFn
    BY <1>2, <1>6, <1>9, <2>1
  <2>4. Arriving(last)' /\ Len(Incoming') = Len(Incoming) + 1
    BY <1>1, <1>2, <1>4, <1>9, <2>2, <2>3, ArrivingGrows
  <2>5. Len(Incoming') >= Len(replies')
    BY <1>2, <2>1, <2>4
  <2>6. done = Len(commands') - Len(Outgoing') /\ \A i \in 1..Len(Outgoing') : Outgoing'[i] = done + i
    BY <1>2, <1>4, <1>5, <1>6
  <2>7. ~(done <= last) /\ srv'.subs # {} /\ srv'.monitor = 0
    BY <1>2, <1>6, <1>9, <2>1
  <2>8. \A k \in srv'.subs : subs'[k] # NoFn
    BY <1>2, <1>6
  <2>9. Serving(last)'
    BY <1>6, <2>5, <2>6, <2>7, <2>8 DEF Serving
  <2> QED
    BY <1>7, <2>4, <2>9 DEF Aligned
<1> QED
  BY <1>3, <1>6, <1>8, <1>9

(* The callback of the reply, taken off the front; a subscriber's stays. *)
LEMMA AlignedShift ==
    ASSUME Typed, Aligned, Live, PlainOrSub, buffer # << >>, buffer' = Tail(buffer),
           UNCHANGED <<commands, subs, obuf, server>>,
           \A f \in {"SUBSCRIBED", "MONITORING"} : f \in flags <=> f \in flags',
           IF replies = << >> THEN UNCHANGED replies ELSE replies' = Tail(replies)
    PROVE  Aligned'
<1>1. PICK last \in 0..Len(commands) : Split(last) /\ Arriving(last) /\ Serving(last)
  BY DEF Aligned
<1>2. /\ Len(commands) \in Nat /\ last \in Nat /\ UNCHANGED <<toServer, toClient, up, srv>>
      /\ Len(Outgoing) \in Nat /\ Outgoing' = Outgoing
  BY <1>1, CommandFacts, Queues DEF Typed, server, Outgoing
<1>3. /\ Len(Incoming) \in Nat \ {0} /\ Len(Incoming') = Len(Incoming) - 1
      /\ \A i \in 1..Len(Incoming) - 1 : Incoming'[i] = Incoming[i + 1]
  BY <1>2, IncomingShift
<1>4. /\ Len(replies) \in Nat /\ Len(replies) <= last
      /\ replies # << >> => /\ Len(replies) > 0 /\ Len(replies') = Len(replies) - 1
                            /\ \A i \in 1..Len(replies') : replies'[i] = replies[i + 1]
      /\ replies = << >> => replies' = << >> /\ Len(replies) = 0
  <2>1. replies \in Seq(Number) /\ Len(replies) \in Nat
    BY DEF Typed, TypedCallbacks
  <2>2. replies # << >> => /\ Len(replies) > 0 /\ Len(replies') = Len(replies) - 1
                          /\ \A i \in 1..Len(replies') : replies'[i] = replies[i + 1]
    BY <2>1
  <2> QED
    BY <1>1, <2>1, <2>2 DEF Split
<1>5. PICK m, w : m = Len(replies') /\ w = Len(Incoming')
  OBVIOUS
<1>6. /\ m \in Nat /\ w \in Nat /\ w + 1 = Len(Incoming) /\ m <= last
      /\ replies # << >> => m + 1 = Len(replies)
      /\ replies = << >> => m = 0 /\ Len(replies) = 0
  BY <1>2, <1>3, <1>4, <1>5
<1>7. Split(last)'
  <2>1. \A i \in 1..m : replies'[i] = Fn(last - m + i, Kind(last - m + i))
    <3>1. SUFFICES ASSUME NEW i \in 1..m PROVE replies'[i] = Fn(last - m + i, Kind(last - m + i))
      OBVIOUS
    <3>2. replies # << >>
      BY <1>6, <3>1
    <3>3. i + 1 \in 1..Len(replies) /\ last - Len(replies) + (i + 1) = last - m + i
      BY <1>2, <1>6, <3>1, <3>2
    <3>4. replies[i + 1] = Fn(last - Len(replies) + (i + 1), Kind(last - Len(replies) + (i + 1)))
      BY <1>1, <3>3 DEF Split
    <3> QED
      BY <1>4, <1>5, <3>1, <3>2, <3>3, <3>4
  <2>2. \A n : Kind(n)' = Kind(n)
    BY DEF Kind
  <2> QED
    BY <1>1, <1>5, <1>6, <2>1, <2>2 DEF Split
<1>8. \A i \in 1..w : Closing(i)' \/ Plain(last, i)' \/ Pushed(i)'
  <2>1. SUFFICES ASSUME NEW i \in 1..w PROVE Closing(i)' \/ Plain(last, i)' \/ Pushed(i)'
    OBVIOUS
  <2>2. i + 1 \in 1..Len(Incoming) /\ Incoming'[i] = Incoming[i + 1] /\ i \in Nat
    BY <1>3, <1>5, <1>6, <2>1
  <2>3. PICK j : j = i + 1
    OBVIOUS
  <2>4. Closing(j) \/ Plain(last, j) \/ Pushed(j)
    BY <1>1, <2>2, <2>3 DEF Arriving
  <2>5. CASE Closing(j)
    <3>1. i = w /\ Incoming'[i] = Complaint /\ ~up'
      BY <1>2, <1>6, <2>1, <2>2, <2>3, <2>5 DEF Closing
    <3> QED
      BY <1>5, <3>1 DEF Closing
  <2>6. CASE Plain(last, j)
    <3>1. j <= Len(replies) /\ Incoming'[i].type = "status" /\ Incoming'[i].to = last - Len(replies) + j
      BY <2>2, <2>3, <2>6 DEF Plain
    <3>2. replies # << >>
      BY <1>6, <2>2, <2>3, <3>1
    <3>3. i <= m /\ last - Len(replies) + j = last - m + i
      BY <1>2, <1>6, <2>2, <2>3, <3>1, <3>2
    <3> QED
      BY <1>5, <3>1, <3>3 DEF Plain
  <2>7. CASE Pushed(j)
    <3>1. j > Len(replies) /\ "SUBSCRIBED" \in flags' /\ Incoming'[i].type \in {"array", "error"}
      BY <2>2, <2>3, <2>7 DEF Pushed
    <3>2. i > m
      BY <1>6, <2>1, <2>2, <2>3, <3>1
    <3> QED
      BY <1>5, <3>1, <3>2 DEF Pushed
  <2> QED
    BY <2>4, <2>5, <2>6, <2>7
<1>9. \A i \in 1..w : Incoming'[i].type = "array" => subs'[Incoming'[i].key] # NoFn
  <2>1. \A i \in 1..w : i + 1 \in 1..Len(Incoming) /\ Incoming'[i] = Incoming[i + 1]
    BY <1>3, <1>5, <1>6
  <2> QED
    BY <1>1, <2>1 DEF Arriving
<1>10. Arriving(last)'
  BY <1>5, <1>8, <1>9 DEF Arriving
<1>11. Serving(last)'
  <2>1. PICK done : done = Len(commands) - Len(Outgoing)
    OBVIOUS
  <2>2. done = Len(commands') - Len(Outgoing') /\ srv' = srv /\ up' = up /\ subs' = subs
    BY <1>2, <2>1
  <2>3. CASE ~up
    BY <1>1, <2>2, <2>3 DEF Serving
  <2>4. CASE up
    <3>1. /\ done \in Nat /\ \A i \in 1..Len(Outgoing) : Outgoing[i] = done + i
          /\ done <= last => srv.subs = {} /\ Len(Incoming) = done - last + Len(replies)
          /\ done > last => srv.subs # {} /\ Len(Incoming) >= Len(replies)
          /\ srv.monitor = 0 /\ \A k \in srv.subs : subs[k] # NoFn
      BY <1>1, <2>1, <2>4 DEF Serving
    <3>2. CASE done <= last
      <4>1. replies # << >>
        BY <1>2, <1>6, <3>1, <3>2
      <4>2. srv.subs = {} /\ w = done - last + m /\ ~(done > last)
        BY <1>2, <1>6, <3>1, <3>2, <4>1
      <4> QED
        BY <1>2, <1>5, <2>2, <3>1, <3>2, <4>2 DEF Serving
    <3>3. CASE done > last
      <4>1. srv.subs # {} /\ w >= m /\ ~(done <= last)
        BY <1>2, <1>4, <1>6, <3>1, <3>3
      <4> QED
        BY <1>2, <1>5, <2>2, <3>1, <3>3, <4>1 DEF Serving
    <3> QED
      BY <1>2, <3>1, <3>2, <3>3
  <2> QED
    BY <2>3, <2>4
<1>12. Heard'
  BY DEF Aligned, Heard, Kind
<1> QED
  BY <1>1, <1>7, <1>10, <1>11, <1>12 DEF Aligned

(* What the next reply can be: that of the first pending callback, or, where *)
(* none is pending, the complaint or what a subscription brings.             *)
LEMMA NextReply ==
    ASSUME Typed, Aligned, Live, PlainOrSub, buffer # << >>
    PROVE  LET r == Head(buffer) IN
           /\ replies = << >> => r = Complaint \/ ("SUBSCRIBED" \in flags /\ r.type \in {"array", "error"})
           /\ replies # << >> => \/ r = Complaint
                                 \/ /\ r.type = "status" /\ r.to \in 1..Len(commands)
                                    /\ Head(replies) = Fn(r.to, Kind(r.to))
           /\ r.type = "array" => subs[r.key] # NoFn
<1> DEFINE r == Head(buffer)
<1>1. PICK last \in 0..Len(commands) : Split(last) /\ Arriving(last) /\ Serving(last)
  BY DEF Aligned
<1>2. Len(Incoming) \in Nat \ {0} /\ Incoming[1] = r
  <2>1. buffer \in Seq(Replies) /\ toClient \in Seq(Replies \union {Part})
    BY DEF Typed, TypedStream
  <2>2. PICK w \in Seq(Replies \union {Part}) : w = WholeReplies(toClient)
    BY <2>1, WithoutMembers DEF WholeReplies
  <2>3. buffer \in Seq(Replies \union {Part})
    BY <2>1, SeqMonotonic
  <2> QED
    BY <2>2, <2>3 DEF Incoming
<1> HIDE DEF r
<1>3. Closing(1) \/ Plain(last, 1) \/ Pushed(1)
  BY <1>1, <1>2 DEF Arriving
<1>4. Len(replies) \in Nat /\ (replies = << >> <=> Len(replies) = 0) /\ Head(replies) = replies[1]
  BY DEF Typed, TypedCallbacks
<1>5. last \in Nat /\ Len(commands) \in Nat /\ last <= Len(commands) /\ Len(replies) <= last
  BY <1>1, CommandFacts DEF Split, Typed
<1>6. replies = << >> => r = Complaint \/ ("SUBSCRIBED" \in flags /\ r.type \in {"array", "error"})
  BY <1>2, <1>3, <1>4 DEF Closing, Plain, Pushed
<1>7. ASSUME replies # << >>, r # Complaint
      PROVE  /\ r.type = "status" /\ r.to \in 1..Len(commands)
             /\ Head(replies) = Fn(r.to, Kind(r.to))
  <2>1. r.type = "status" /\ r.to = last - Len(replies) + 1 /\ 1 \in 1..Len(replies)
    BY <1>2, <1>3, <1>4, <1>7 DEF Closing, Plain, Pushed
  <2>2. r.to \in 1..Len(commands)
    BY <1>5, <2>1
  <2> QED
    BY <1>1, <1>4, <2>1, <2>2 DEF Split
<1>8. r.type = "array" => subs[r.key] # NoFn
  BY <1>1, <1>2 DEF Arriving
<1> QED
  BY <1>6, <1>7, <1>8 DEF r

LEMMA AlignedGotReply ==
    ASSUME Typed, Aligned, Listening, Live, PlainOrSub, GotReply, Live', UNCHANGED program
    PROVE  Aligned' /\ pc' # "aborted"
<1>1. PICK last \in 0..Len(commands) : Split(last) /\ Arriving(last) /\ Serving(last)
  BY DEF Aligned
<1>2. PICK r : r = Head(buffer)
  OBVIOUS
<1>3. buffer # << >> /\ buffer' = Tail(buffer) /\ UNCHANGED <<commands, obuf, server, toClient>>
  BY GotReplyCases DEF Typed, server
<1>4. Len(Incoming) \in Nat \ {0} /\ Incoming[1] = r
  BY <1>2, <1>3, IncomingShift
<1>5. r.kind # "unsubscribe"
  <2>1. "unsubscribe" \notin Kinds
    BY DEF PlainOrSub
  <2> QED
    BY <1>4, <2>1 DEF Listening
<1>6. /\ "MONITORING" \notin flags
      /\ replies = << >> => r = Complaint \/ ("SUBSCRIBED" \in flags /\ r.type \in {"array", "error"})
  BY <1>1, <1>2, <1>3, NextReply DEF Split
<1>7. r = Complaint => r.type = "error"
  BY ReplyFacts DEF Typed
<1>8. Kept(r) = flags
  BY <1>5 DEF Kept, Ended
<1>9. ASSUME Starts(r, flags)
      PROVE  \A f \in {"SUBSCRIBED", "MONITORING"} : f \in flags <=> f \in flags'
  BY <1>9 DEF Starts
<1>10. /\ Starts(r, flags)
       /\ UNCHANGED subs
       /\ IF replies = << >> THEN UNCHANGED replies ELSE replies' = Tail(replies)
  <2>1. \/ /\ replies = << >> /\ r.type = "error" /\ AsyncDisconnect(TRUE, flags)
           /\ UNCHANGED <<cb, replies, invalid, subs, ran>>
        \/ /\ replies = << >> /\ r.type # "error"
           /\ flags \intersect {"SUBSCRIBED", "MONITORING"} = {} /\ pc' = "aborted"
           /\ UNCHANGED <<err, flags, cb, replies, invalid, subs, ran>>
        \/ /\ replies # << >> /\ cb' = Head(replies) /\ replies' = Tail(replies)
           /\ UNCHANGED <<err, invalid, subs>> /\ Starts(r, flags)
        \/ /\ replies = << >> /\ "SUBSCRIBED" \in flags /\ r.type = "array"
           /\ cb' = Subscriber(r)
           /\ subs' = IF r.kind = "unsubscribe" THEN [subs EXCEPT ![r.key] = NoFn] ELSE subs
           /\ UNCHANGED <<err, replies, invalid>> /\ Starts(r, Kept(r))
        \/ replies = << >> /\ r.type = "status"
        \/ "MONITORING" \in flags
    BY <1>2, GotReplyCases DEF Typed
  <2>2. ~AsyncDisconnect(TRUE, flags) /\ pc' # "aborted"
    BY DEF Live, AsyncDisconnect
  <2>3. replies = << >> => r.type # "status"
    BY <1>6, <1>7
  <2> QED
    BY <1>5, <1>6, <1>8, <2>1, <2>2, <2>3
<1> QED
  BY <1>3, <1>9, <1>10, AlignedShift DEF Live

LEMMA AlignedCommand ==
    ASSUME Typed, Aligned, Live, PlainOrSub, NEW n, NEW kind, NEW key, Accepted(n, kind, key),
           kind \in {"get", "forget", "subscribe"}, UNCHANGED program
    PROVE  Aligned'
<1>1. PICK last \in 0..Len(commands) : Split(last) /\ Arriving(last) /\ Serving(last)
  BY DEF Aligned
<1>2. /\ Len(commands) \in Nat /\ n = Len(commands) + 1 /\ Len(commands') = n
      /\ commands'[n] = [kind |-> kind, key |-> key] /\ Kind(n)' = kind
      /\ \A i \in 1..Len(commands) : commands'[i] = commands[i] /\ Kind(i)' = Kind(i)
  BY NewCommand DEF Typed
<1>3. /\ last \in Nat /\ last <= Len(commands) /\ UNCHANGED <<buffer, server, toClient, up, srv>>
      /\ Incoming' = Incoming /\ Len(Incoming) \in Nat
  BY <1>1, <1>2, Queues DEF Accepted, server, Incoming
<1>4. /\ Len(Outgoing) \in Nat /\ Len(Outgoing') = Len(Outgoing) + 1
      /\ Outgoing'[Len(Outgoing) + 1] = n
      /\ \A i \in 1..Len(Outgoing) : Outgoing'[i] = Outgoing[i]
  BY OutgoingGrows
<1>5. \A k \in Keys : subs[k] # NoFn => subs'[k] # NoFn
  BY <1>2 DEF Accepted, NoFn, Typed, TypedCallbacks
<1>6. Heard'
  <2>1. \A i \in 1..Len(commands) : Kind(i) = "subscribe" => commands[i].key \in Keys
    BY CommandFacts DEF Typed, TypedCommands, Kind
  <2>2. kind = "subscribe" => subs'[key] # NoFn
    BY <1>2 DEF Accepted, NoFn, Typed, TypedCallbacks
  <2>3. \A i \in 1..Len(commands') : i \in 1..Len(commands) \/ i = n
    BY <1>2
  <2> QED
    BY <1>2, <1>5, <2>1, <2>2, <2>3 DEF Aligned, Heard
<1>7. srv'.monitor = 0 /\ \A k \in srv'.subs : subs'[k] # NoFn
  BY <1>1, <1>3, <1>5 DEF Serving, Typed, TypedStream
<1>8. PICK done : done = Len(commands) - Len(Outgoing)
  OBVIOUS
<1>9. done = Len(commands') - Len(Outgoing') /\ done <= Len(commands)
  BY <1>2, <1>4, <1>8
<1>10. up => /\ done \in Nat
             /\ done <= last => srv.subs = {} /\ Len(Incoming) = done - last + Len(replies)
             /\ done > last => srv.subs # {} /\ Len(Incoming) >= Len(replies)
  BY <1>1, <1>8 DEF Serving
<1>11. up => \A i \in 1..Len(Outgoing') : Outgoing'[i] = done + i
  <2>1. up => \A i \in 1..Len(Outgoing) : Outgoing[i] = done + i
    BY <1>1, <1>8 DEF Serving
  <2>2. \A i \in 1..Len(Outgoing') : i \in 1..Len(Outgoing) \/ i = Len(Outgoing) + 1
    BY <1>4
  <2>3. n = done + (Len(Outgoing) + 1)
    BY <1>2, <1>4, <1>8
  <2> QED
    BY <1>4, <2>1, <2>2, <2>3
<1>12. /\ \A i \in 1..Len(Incoming) : Closing(i) \/ Plain(last, i) \/ Pushed(i)
       /\ \A i \in 1..Len(Incoming) : Incoming[i].type = "array" => subs'[Incoming[i].key] # NoFn
  <2>1. \A i \in 1..Len(Incoming) : Incoming[i].type = "array" => Incoming[i].key \in Keys
    BY Queues DEF Replies
  <2> QED
    BY <1>1, <1>5, <2>1 DEF Arriving
<1>13. replies \in Seq(Number) /\ Len(replies) \in Nat /\ Len(replies) <= last
  BY <1>1 DEF Typed, TypedCallbacks, Split
(* A plain command before any subscription: it joins the plain ones. *)
<1>14. CASE kind # "subscribe" /\ "SUBSCRIBED" \notin flags
  <2>1. /\ replies' = Append(replies, Fn(n, kind)) /\ UNCHANGED <<flags, subs>>
    BY <1>14 DEF Accepted
  <2>2. last = Len(commands) /\ n = last + 1
    BY <1>1, <1>2, <1>3, <1>14 DEF Split
  <2>3. /\ Len(replies') = Len(replies) + 1 /\ replies'[Len(replies) + 1] = Fn(n, kind)
        /\ \A i \in 1..Len(replies) : replies'[i] = replies[i]
    BY <1>13, <2>1
  <2>4. n - Len(replies') = last - Len(replies)
    BY <1>3, <1>13, <2>2, <2>3
  <2>5. \A i \in 1..Len(replies') : \E m : /\ m = n - Len(replies') + i /\ replies'[i] = Fn(m, commands'[m].kind)
    <3>1. SUFFICES ASSUME NEW i \in 1..Len(replies')
                   PROVE  \E m : /\ m = n - Len(replies') + i /\ replies'[i] = Fn(m, commands'[m].kind)
      OBVIOUS
    <3>2. PICK m : m = last - Len(replies) + i
      OBVIOUS
    <3>3. m = n - Len(replies') + i
      BY <2>4, <3>2
    <3>4. CASE i \in 1..Len(replies)
      <4>1. replies[i] = Fn(m, Kind(m)) /\ m \in 1..Len(commands)
        BY <1>1, <1>2, <1>3, <1>13, <3>2, <3>4 DEF Split
      <4> QED
        BY <1>2, <2>3, <3>4, <3>3, <4>1 DEF Kind
    <3>5. CASE i = Len(replies) + 1
      <4>1. m = n
        BY <1>3, <1>13, <2>2, <3>2, <3>5
      <4> QED
        BY <1>2, <2>3, <3>5, <3>3, <4>1
    <3> QED
      BY <1>13, <2>3, <3>4, <3>5
  <2>6. Split(n)'
    <3>1. \A i \in 1..n : Kind(i)' # "subscribe"
      <4>1. \A i \in 1..n : i \in 1..last \/ i = n
        BY <1>3, <2>2
      <4> QED
        BY <1>1, <1>2, <1>14, <2>2, <4>1 DEF Split
    <3>2. n \in 0..Len(commands') /\ Len(replies') <= n /\ ~(n < Len(commands'))
      BY <1>2, <1>13, <2>2, <2>3
    <3> QED
      BY <1>1, <1>14, <2>1, <2>5, <3>1, <3>2 DEF Split, Kind
  <2>7. Arriving(n)'
    <3>1. \A i \in 1..Len(Incoming) : Closing(i)' \/ Plain(n, i)' \/ Pushed(i)'
      <4>1. SUFFICES ASSUME NEW i \in 1..Len(Incoming) PROVE Closing(i)' \/ Plain(n, i)' \/ Pushed(i)'
        OBVIOUS
      <4>2. Closing(i) => Closing(i)'
        BY <1>3 DEF Closing
      <4>3. Plain(last, i) => Plain(n, i)'
        BY <1>3, <1>13, <2>3, <2>4 DEF Plain
      <4>4. ~Pushed(i)
        BY <1>14 DEF Pushed
      <4> QED
        BY <1>12, <4>2, <4>3, <4>4
    <3> QED
      BY <1>3, <1>12, <3>1 DEF Arriving
  <2>8. Serving(n)'
    <3>1. up' => /\ done \in Nat /\ done <= n /\ ~(done > n) /\ srv'.subs = {}
                 /\ Len(Incoming') = done - n + Len(replies')
      <4>1. done <= last
        BY <1>9, <2>2
      <4>2. up' => done \in Nat /\ srv'.subs = {} /\ Len(Incoming') = done - last + Len(replies)
        BY <1>3, <1>10, <4>1
      <4>3. done \in Nat => /\ done <= n /\ ~(done > n)
                            /\ done - last + Len(replies) = done - n + Len(replies')
        BY <1>3, <1>13, <2>2, <2>3, <4>1
      <4> QED
        BY <4>2, <4>3
    <3> QED
      BY <1>3, <1>7, <1>9, <1>11, <3>1 DEF Serving
  <2>9. n \in 0..Len(commands')
    BY <1>2
  <2> QED
    BY <1>6, <2>6, <2>7, <2>8, <2>9 DEF Aligned
(* Afterwards, or the first subscription itself: the plain ones stay. *)
<1>15. CASE kind = "subscribe" \/ "SUBSCRIBED" \in flags
  <2>1. /\ UNCHANGED replies /\ "SUBSCRIBED" \in flags' /\ "MONITORING" \notin flags'
    BY <1>1, <1>15 DEF Accepted, Split
  <2>2. \A i \in 1..last : Kind(i)' = Kind(i)
    BY <1>2, <1>3
  <2>3. last < Len(commands') /\ last \in 0..Len(commands')
    BY <1>2, <1>3
  <2>4. Kind(last + 1)' = "subscribe"
    <3>1. CASE last < Len(commands)
      <4>1. last + 1 \in 1..Len(commands)
        BY <1>2, <1>3, <3>1
      <4> QED
        BY <1>1, <1>2, <3>1, <4>1 DEF Split
    <3>2. CASE last = Len(commands)
      <4>1. n = last + 1 /\ "SUBSCRIBED" \notin flags
        BY <1>1, <1>2, <3>2 DEF Split
      <4> QED
        BY <1>2, <1>15, <4>1
    <3> QED
      BY <1>2, <1>3, <3>1, <3>2
  <2>5. \A i \in 1..Len(replies) :
          replies[i] = Fn(last - Len(replies) + i, commands'[last - Len(replies) + i].kind)
    <3>1. \A i \in 1..Len(replies) : last - Len(replies) + i \in 1..last
      BY <1>3, <1>13
    <3> QED
      BY <1>1, <2>2, <3>1 DEF Split, Kind
  <2>6. Split(last)'
    BY <1>1, <2>1, <2>2, <2>3, <2>4, <2>5 DEF Split, Kind
  <2>7. Arriving(last)'
    <3>1. \A i \in 1..Len(Incoming) : Closing(i)' \/ Plain(last, i)' \/ Pushed(i)'
      BY <1>3, <1>12, <2>1 DEF Closing, Plain, Pushed
    <3> QED
      BY <1>3, <1>12, <3>1 DEF Arriving
  <2>8. Serving(last)'
    BY <1>3, <1>7, <1>9, <1>10, <1>11, <2>1 DEF Serving
  <2> QED
    BY <1>6, <2>3, <2>6, <2>7, <2>8 DEF Aligned
<1> QED
  BY <1>14, <1>15

LEMMA AlignedStep ==
    ASSUME Typed, Aligned, Listening, [Next]_vars
    PROVE  Aligned'
<1> SUFFICES ASSUME PlainOrSub', Live' PROVE Aligned'
  BY DEF Aligned
<1>1. Kinds \subseteq Kinds' /\ Kinds' \subseteq {"get", "forget", "subscribe"} /\ PlainOrSub
  BY KindsGrow DEF Typed, PlainOrSub
<1>2. Leaving => Leaving'
  BY LeavingCases
<1>3. ~Leaving
  BY <1>2 DEF Live, Leaving
<1>4. ASSUME Live, UNCHANGED <<commands, replies, subs, srv, up>>, Incoming' = Incoming,
             Outgoing' = Outgoing, \A f \in {"SUBSCRIBED", "MONITORING"} : f \in flags <=> f \in flags'
      PROVE  Aligned'
  BY <1>1, <1>4, AlignedSame
<1>5. ASSUME Live, UNCHANGED <<commands, replies, subs, server, buffer, obuf>>,
             \A f \in {"SUBSCRIBED", "MONITORING"} : f \in flags <=> f \in flags'
      PROVE  Aligned'
  BY <1>4, <1>5 DEF server, Incoming, Outgoing
<1>6. CASE UNCHANGED vars
  BY <1>5, <1>6 DEF vars, context, server, Live
<1>7. CASE Next
  <2>1. CASE redisAsyncFree
    BY <1>5, <2>1 DEF redisAsyncFree, Live
  <2>2. CASE redisAsyncDisconnect
    <3>1. /\ flags' = flags \union {"DISCONNECTING"} /\ pc' = pc
          /\ UNCHANGED <<commands, replies, subs, server, buffer, obuf>>
      BY <2>2, LeavesCleanly DEF redisAsyncDisconnect, Live, AsyncDisconnect
    <3> QED
      BY <1>5, <3>1 DEF Live
  <2>3. CASE \E c \in Commands : redisAsyncCommand(c.kind, c.key)
    <3>1. PICK c \in Commands : redisAsyncCommand(c.kind, c.key)
      BY <2>3
    <3>2. PICK n, kind, key : Accepted(n, kind, key)
      BY <3>1, CommandCases DEF Typed
    <3>3. Live
      BY <1>3, <3>2 DEF Accepted, Live, Leaving
    <3>4. kind \in {"get", "forget", "subscribe"}
      <4>1. n \in 1..Len(commands') /\ Kind(n)' = kind /\ Kinds' = {Kind(i)' : i \in 1..Len(commands')}
        <5>1. Len(commands) \in Nat /\ n = Len(commands) + 1 /\ Len(commands') = n /\ Kind(n)' = kind
          BY <3>2, NewCommand DEF Typed
        <5>2. DOMAIN commands' = 1..Len(commands')
          BY <3>2 DEF Accepted, Typed, TypedCommands
        <5> QED
          BY <5>1, <5>2 DEF Kinds
      <4> QED
        BY <1>1, <4>1
    <3>5. program' = program
      BY <1>7 DEF Next
    <3> QED
      BY <1>1, <3>2, <3>3, <3>4, <3>5, AlignedCommand
  <2>4. CASE RunPending \/ FreeDone
    BY <1>3, <2>4 DEF RunPending, FreeDone, Leaving
  <2>5. CASE NoReply
    <3>1. Live /\ pc' = "loop" /\ UNCHANGED <<commands, subs, flags, server, buffer, obuf>>
          /\ replies' = IF "MONITORING" \in flags THEN Append(replies, cb) ELSE replies
      BY <2>5 DEF NoReply, Live, AsyncDisconnect
    <3>2. "MONITORING" \notin flags
      BY <1>1, <3>1 DEF Aligned, Split
    <3> QED
      BY <1>5, <3>1, <3>2
  <2>6. CASE GotReply
    <3>1. Live /\ program' = program
      BY <1>7, <2>6 DEF GotReply, Live, Next
    <3> QED
      BY <1>1, <2>6, <3>1, AlignedGotReply
  <2>7. CASE ReturnFromCallback
    BY <1>5, <2>7 DEF ReturnFromCallback, Live
  <2>8. CASE ReaderFails \/ ConnectFails \/ IOFails(Broken) \/ IOFails(Fault)
    <3>1. \A fl : ~AsyncDisconnect(TRUE, fl)
      BY DEF Live, AsyncDisconnect
    <3> QED
      BY <1>5, <2>8, <3>1 DEF ReaderFails, ConnectFails, IOFails, Live, Event
  <2>9. CASE \E n \in 1..Len(toClient) : HandleRead(n)
    <3>1. PICK n \in 1..Len(toClient) : HandleRead(n)
      BY <2>9
    <3>2. Incoming' = Incoming
      BY <3>1, IncomingRead
    <3> QED
      BY <1>4, <3>1, <3>2 DEF HandleRead, Event, Connected, Live, Outgoing
  <2>10. CASE \E n \in 0..Len(obuf) : HandleWrite(n)
    <3>1. PICK n \in 0..Len(obuf) : HandleWrite(n)
      BY <2>10
    <3>2. up => Outgoing' = Outgoing
      BY <3>1, OutgoingWrite
    <3>3. Incoming' = Incoming /\ Live /\ UNCHANGED <<commands, replies, subs, srv, up>>
      BY <3>1 DEF HandleWrite, Event, Live, Incoming
    <3>4. \A f \in {"SUBSCRIBED", "MONITORING"} : f \in flags <=> f \in flags'
      BY <3>1 DEF HandleWrite, Connected
    <3> QED
      BY <1>1, <3>2, <3>3, <3>4, AlignedSame
  <2>11. CASE Serve
    <3>1. Live /\ program' = program
      BY <1>7, <2>11 DEF Serve, Client, Live, Next
    <3> QED
      BY <1>1, <2>11, <3>1, AlignedServe
  <2>12. CASE Unasked
    <3>1. Live /\ program' = program
      BY <1>7, <2>12 DEF Unasked, Client, Live, Next
    <3> QED
      BY <1>1, <2>12, <3>1, AlignedUnasked
  <2>13. CASE Close
    <3>1. /\ Live /\ UNCHANGED <<commands, replies, subs, srv, flags>> /\ ~up'
          /\ Incoming' = Incoming
      BY <2>13 DEF Close, Client, context, Live, Incoming
    <3> QED
      BY <1>1, <3>1, AlignedSame
  <2> QED
    BY <1>7, <2>1, <2>2, <2>3, <2>4, <2>5, <2>6, <2>7, <2>8, <2>9, <2>10, <2>11, <2>12, <2>13, Zenon
       DEF Next, Calls, Library, Loop
<1> QED
  BY <1>6, <1>7

LEMMA AlignedAlways == Spec => [](Typed /\ Listening /\ Aligned)
<1>1. Init => Listening
  <2> SUFFICES ASSUME Init PROVE Listening
    OBVIOUS
  <2>1. commands = << >> /\ Incoming = << >>
    BY WithoutEmpty DEF Init, Incoming, WholeReplies
  <2> QED
    BY <2>1 DEF Listening
<1>2. Init => Aligned
  BY InitAligned
<1>3. Typed /\ Listening /\ [Next]_vars => Listening'
  BY ListeningStep
<1>4. Typed /\ Listening /\ Aligned /\ [Next]_vars => Aligned'
  BY AlignedStep
<1> QED
  BY <1>1, <1>2, <1>3, <1>4, TypedAlways, PTL DEF Spec

(* async.c:339, 461: the assertions that no callback is pending when the     *)
(* context goes, and that a reply without one is a subscription's, fail only *)
(* for a program that disconnects with replies outstanding, or unsubscribes. *)
THEOREM AbortsExplained == Spec => []AbortExplained
<1>1. Init => AbortExplained
  BY DEF Init, AbortExplained
<1>2. ASSUME Typed, Listening, Aligned, AbortExplained, [Next]_vars
      PROVE  AbortExplained'
  <2> SUFFICES ASSUME pc' = "aborted" PROVE "DISCONNECTING" \in flags' \/ "unsubscribe" \in Kinds'
    BY DEF AbortExplained
  <2>1. Kinds \subseteq Kinds'
    BY <1>2, KindsGrow DEF Typed
  <2>2. CASE UNCHANGED <<pc, flags>>
    BY <1>2, <2>1, <2>2 DEF AbortExplained
  <2>3. ASSUME NEW fl, AsyncDisconnect(err, fl), "DISCONNECTING" \in fl
        PROVE  "DISCONNECTING" \in flags'
    BY <1>2, <2>3, LeavesCleanly DEF Typed, TypedControl
  <2>4. \A fl : ~AsyncDisconnect(TRUE, fl)
    BY DEF AsyncDisconnect
  <2>5. CASE UNCHANGED vars
    BY <2>2, <2>5 DEF vars, context
  <2>6. CASE Next
    <3>1. CASE redisAsyncDisconnect
      <4>1. PICK fl : fl = flags \union {"DISCONNECTING"}
        OBVIOUS
      <4> QED
        BY <2>3, <3>1, <4>1 DEF redisAsyncDisconnect
    <3>2. CASE redisAsyncFree
      BY <3>2 DEF redisAsyncFree, Program
    <3>3. CASE \E c \in Commands : redisAsyncCommand(c.kind, c.key)
      BY <3>3 DEF redisAsyncCommand, Program
    <3>4. CASE RunPending \/ FreeDone \/ ReturnFromCallback
      BY <3>4 DEF RunPending, RunCallback, FreeDone, ReturnFromCallback
    <3>5. CASE NoReply
      BY <2>3, <3>5 DEF NoReply
    <3>6. CASE GotReply
      <4>1. PICK r : r = Head(buffer)
        OBVIOUS
      <4>2. /\ replies = << >> /\ r.type # "error"
            /\ flags \intersect {"SUBSCRIBED", "MONITORING"} = {}
            /\ pc = "process" /\ buffer # << >> /\ UNCHANGED commands
        <5>1. ~Starts(r, flags) /\ ~Starts(r, Kept(r))
          BY <3>6 DEF Starts, GotReply
        <5> QED
          BY <1>2, <2>4, <3>6, <4>1, <5>1, GotReplyCases DEF Typed
      <4>3. r # Complaint
        BY <1>2, <4>2, ReplyFacts DEF Typed
      <4>4. ~PlainOrSub
        BY <1>2, <4>1, <4>2, <4>3, NextReply DEF Live
      <4>5. PICK n \in 1..Len(commands) : Kind(n) \in {"unsubscribe", "monitor"}
        <5>1. \A n \in 1..Len(commands) : Kind(n) \in CommandKinds
          BY <1>2, CommandFacts DEF Typed
        <5>2. Kinds = {Kind(n) : n \in 1..Len(commands)}
          BY <1>2, KindsOf DEF Typed
        <5> QED
          BY <4>4, <5>1, <5>2 DEF PlainOrSub, CommandKinds
      <4>6. Kind(n) \in Kinds
        BY <1>2, KindsOf DEF Typed
      <4> QED
        BY <1>2, <2>1, <4>2, <4>5, <4>6 DEF Listening
    <3>7. CASE ReaderFails \/ ConnectFails \/ IOFails(Broken) \/ IOFails(Fault)
      BY <2>2, <2>4, <3>7 DEF ReaderFails, ConnectFails, IOFails
    <3>8. CASE (\E n \in 1..Len(toClient) : HandleRead(n)) \/ \E n \in 0..Len(obuf) : HandleWrite(n)
      BY <3>8 DEF HandleRead, HandleWrite, Event
    <3>9. CASE Serve \/ Unasked \/ Close
      BY <2>2, <3>9 DEF Serve, Unasked, Close, Client, context
    <3> QED
      BY <2>6, <3>1, <3>2, <3>3, <3>4, <3>5, <3>6, <3>7, <3>8, <3>9, Zenon
         DEF Next, Calls, Library, Loop
  <2> QED
    BY <1>2, <2>5, <2>6
<1> QED
  BY <1>1, <1>2, AlignedAlways, PTL DEF Spec

-----------------------------------------------------------------------------
(* The callbacks that wait for a reply, first those that plain commands left *)
(* before a subscription, and the callbacks that have run.                  *)

Upcoming == replies \o invalid

Subscribers ==
  \A k \in Keys : subs[k] # NoFn => Kind(subs[k]) = "subscribe" /\ commands[subs[k]].key = k

(* Who waits is a plain command, later than who waits before it and than    *)
(* every one that has run.                                                  *)
Waits ==
  \A j \in 1..Len(Upcoming) : Upcoming[j] # NoFn =>
    /\ Kind(Upcoming[j]) = "get"
    /\ \A i \in 1..Len(Upcoming) : i < j /\ Upcoming[i] # NoFn => Upcoming[i] < Upcoming[j]
    /\ \A i \in 1..Len(ran) : Kind(ran[i].fn) = "get" => ran[i].fn < Upcoming[j]

RanWell ==
  \A i \in 1..Len(ran) : LET e == ran[i] IN
    /\ Kind(e.fn) = "get" =>
         /\ e.reply \in {NULL, Complaint} \/ e.reply.to = e.fn
         /\ \A h \in 1..Len(ran) : h < i /\ Kind(ran[h].fn) = "get" => ran[h].fn < e.fn
    /\ e.reply.type = "array" => Kind(e.fn) = "subscribe" /\ commands[e.fn].key = e.reply.key

Ordered ==
  PlainOrSub => /\ invalid # << >> => "SUBSCRIBED" \in flags
                /\ Waits /\ RanWell

LEMMA SubscribersStep ==
    ASSUME Typed, Subscribers, [Next]_vars
    PROVE  Subscribers'
<1>1. \A k \in Keys : subs[k] # NoFn => subs[k] \in 1..Len(commands)
  BY CommandFacts DEF Typed, TypedCallbacks, Number, NoFn
<1>2. CASE UNCHANGED commands /\ \A k \in Keys : subs'[k] \in {subs[k], NoFn}
  BY <1>2 DEF Subscribers, Kind
<1>3. CASE UNCHANGED <<subs, commands>>
  BY <1>2, <1>3
<1>4. CASE RunPending
  <2>1. UNCHANGED subs \/ \E k \in Keys : subs' = [subs EXCEPT ![k] = NoFn]
    BY <1>4 DEF RunPending
  <2>2. subs \in [Keys -> Number] /\ UNCHANGED commands
    BY <1>4 DEF RunPending, Typed, TypedCallbacks
  <2> QED
    BY <1>2, <2>1, <2>2
<1>5. CASE GotReply
  <2>1. UNCHANGED subs \/ \E k : subs' = [subs EXCEPT ![k] = NoFn]
    BY <1>5, GotReplyCases DEF Typed
  <2>2. subs \in [Keys -> Number] /\ UNCHANGED commands
    BY <1>5 DEF GotReply, Typed, TypedCallbacks
  <2> QED
    BY <1>2, <2>1, <2>2
<1>6. ASSUME NEW n, NEW kind, NEW key, Accepted(n, kind, key)
      PROVE  Subscribers'
  <2>1. /\ commands'[n] = [kind |-> kind, key |-> key] /\ Kind(n)' = kind
        /\ \A i \in 1..Len(commands) : commands'[i] = commands[i] /\ Kind(i)' = Kind(i)
    BY <1>6, NewCommand DEF Typed
  <2>2. subs \in [Keys -> Number]
    BY DEF Typed, TypedCallbacks
  <2>3. CASE UNCHANGED subs
    BY <1>1, <2>1, <2>3 DEF Subscribers, Kind
  <2>4. CASE kind = "subscribe" /\ subs' = [subs EXCEPT ![key] = n]
    <3> SUFFICES ASSUME NEW k \in Keys, subs'[k] # NoFn
                 PROVE  commands'[subs'[k]].kind = "subscribe" /\ commands'[subs'[k]].key = k
      BY DEF Subscribers, Kind
    <3>1. CASE k = key
      <4>1. subs'[k] = n
        BY <2>2, <2>4, <3>1
      <4> QED
        BY <2>1, <2>4, <3>1, <4>1
    <3>2. CASE k # key
      <4>1. subs'[k] = subs[k]
        BY <2>2, <2>4, <3>2
      <4> QED
        BY <1>1, <2>1, <4>1 DEF Subscribers, Kind
    <3> QED
      BY <3>1, <3>2
  <2> QED
    BY <1>6, <2>3, <2>4 DEF Accepted
<1>7. CASE NoReply
  BY <1>3, <1>7 DEF NoReply
<1> QED
  BY <1>3, <1>4, <1>5, <1>6, <1>7, Frame DEF Typed

LEMMA Waiting ==
    ASSUME Typed
    PROVE  /\ Upcoming \in Seq(Number) /\ Len(Upcoming) \in Nat /\ Number \subseteq Nat
           /\ \A i \in 1..Len(Upcoming) : Upcoming[i] \in Number
           /\ ran \in Seq([fn : Number \ {NoFn}, reply : Replies \union {NULL}])
           /\ Len(ran) \in Nat
           /\ \A i \in 1..Len(ran) : ran[i] \in [fn : Number \ {NoFn}, reply : Replies \union {NULL}]
<1>1. /\ replies \in Seq(Number) /\ invalid \in Seq(Number)
      /\ ran \in Seq([fn : Number \ {NoFn}, reply : Replies \union {NULL}])
  BY DEF Typed, TypedCallbacks
<1>2. Upcoming \in Seq(Number)
  BY <1>1 DEF Upcoming
<1>3. Number \subseteq Nat
  BY CommandFacts DEF Typed, Number
<1> HIDE DEF Number, Upcoming
<1>4. /\ Len(Upcoming) \in Nat /\ Len(ran) \in Nat
      /\ \A i \in 1..Len(Upcoming) : Upcoming[i] \in Number
  BY <1>1, <1>2, ElementOfSeq
<1>5. \A i \in 1..Len(ran) : ran[i] \in [fn : Number \ {NoFn}, reply : Replies \union {NULL}]
  BY <1>1, ElementOfSeq
<1> QED
  BY <1>1, <1>2, <1>3, <1>4, <1>5

(* One more callback runs; it is nobody's who waits, or the first one's. *)
LEMMA RanGrows ==
    ASSUME Typed, RanWell, UNCHANGED commands,
           NEW e \in [fn : Number \ {NoFn}, reply : Replies \union {NULL}], ran' = Append(ran, e),
           Kind(e.fn) = "get" =>
             /\ e.reply \in {NULL, Complaint} \/ e.reply.to = e.fn
             /\ \A h \in 1..Len(ran) : Kind(ran[h].fn) = "get" => ran[h].fn < e.fn,
           e.reply.type = "array" => Kind(e.fn) = "subscribe" /\ commands[e.fn].key = e.reply.key
    PROVE  RanWell'
<1>1. PICK m : m = Len(ran) + 1
  OBVIOUS
<1>2. /\ Len(ran) \in Nat /\ Len(ran') = m /\ ran'[m] = e
      /\ \A i \in 1..Len(ran) : ran'[i] = ran[i]
  BY <1>1, Waiting, AppendProperties
<1>3. \A n : Kind(n)' = Kind(n)
  BY DEF Kind
<1> SUFFICES ASSUME NEW i \in 1..Len(ran')
             PROVE  /\ Kind(ran'[i].fn) = "get" =>
                         /\ ran'[i].reply \in {NULL, Complaint} \/ ran'[i].reply.to = ran'[i].fn
                         /\ \A h \in 1..Len(ran') : h < i /\ Kind(ran'[h].fn) = "get"
                                                      => ran'[h].fn < ran'[i].fn
                    /\ ran'[i].reply.type = "array" =>
                         Kind(ran'[i].fn) = "subscribe" /\ commands[ran'[i].fn].key = ran'[i].reply.key
  BY <1>3 DEF RanWell, Kind
<1>4. CASE i = m
  <2>1. \A h \in 1..Len(ran') : h < i => h \in 1..Len(ran)
    BY <1>1, <1>2, <1>4
  <2> QED
    BY <1>2, <1>4, <2>1
<1>5. CASE i \in 1..Len(ran)
  <2>1. \A h \in 1..Len(ran') : h < i => h \in 1..Len(ran)
    BY <1>1, <1>2, <1>5
  <2> QED
    BY <1>2, <1>5, <2>1 DEF RanWell
<1> QED
  BY <1>1, <1>2, <1>4, <1>5

LEMMA WaitsSame ==
    ASSUME Typed, Waits, UNCHANGED commands, Upcoming' = Upcoming,
           \/ ran' = ran
           \/ \E e \in [fn : Number \ {NoFn}, reply : Replies \union {NULL}] :
                ran' = Append(ran, e) /\ Kind(e.fn) # "get"
    PROVE  Waits'
<1>1. \A i \in 1..Len(ran') : Kind(ran'[i].fn) = "get" => i \in 1..Len(ran) /\ ran'[i] = ran[i]
  <2>1. CASE ran' = ran
    BY <2>1
  <2>2. ASSUME NEW e \in [fn : Number \ {NoFn}, reply : Replies \union {NULL}],
               ran' = Append(ran, e), Kind(e.fn) # "get"
        PROVE  \A i \in 1..Len(ran') : Kind(ran'[i].fn) = "get" => i \in 1..Len(ran) /\ ran'[i] = ran[i]
    <3>1. /\ Len(ran) \in Nat /\ Len(ran') = Len(ran) + 1 /\ ran'[Len(ran) + 1] = e
          /\ \A i \in 1..Len(ran) : ran'[i] = ran[i]
      BY <2>2, Waiting, AppendProperties
    <3>2. \A i \in 1..Len(ran') : i \in 1..Len(ran) \/ i = Len(ran) + 1
      BY <3>1
    <3> QED
      BY <2>2, <3>1, <3>2
  <2> QED
    BY <2>1, <2>2
<1>2. \A n : Kind(n)' = Kind(n)
  BY DEF Kind
<1> SUFFICES ASSUME NEW j \in 1..Len(Upcoming), Upcoming[j] # NoFn
             PROVE  /\ Kind(Upcoming[j]) = "get"
                    /\ \A i \in 1..Len(Upcoming) : i < j /\ Upcoming[i] # NoFn => Upcoming[i] < Upcoming[j]
                    /\ \A i \in 1..Len(ran') : Kind(ran'[i].fn) = "get" => ran'[i].fn < Upcoming[j]
  BY <1>2 DEF Waits, Kind
<1> QED
  BY <1>1 DEF Waits

(* The first one has its turn. *)
LEMMA WaitsShift ==
    ASSUME Typed, Waits, UNCHANGED commands, Upcoming # << >>, Upcoming' = Tail(Upcoming),
           \/ ran' = ran
           \/ \E e \in [fn : Number \ {NoFn}, reply : Replies \union {NULL}] :
                ran' = Append(ran, e) /\ e.fn = Head(Upcoming)
    PROVE  Waits'
<1>1. /\ Len(Upcoming) \in Nat \ {0} /\ Len(Upcoming') = Len(Upcoming) - 1
      /\ \A i \in 1..Len(Upcoming') : Upcoming'[i] = Upcoming[i + 1] /\ i + 1 \in 1..Len(Upcoming)
      /\ Head(Upcoming) = Upcoming[1] /\ 1 \in 1..Len(Upcoming)
  BY Waiting, HeadTailProperties
<1>2. \A n : Kind(n)' = Kind(n)
  BY DEF Kind
<1> SUFFICES ASSUME NEW j \in 1..Len(Upcoming'), Upcoming'[j] # NoFn
             PROVE  /\ Kind(Upcoming'[j]) = "get"
                    /\ \A i \in 1..Len(Upcoming') :
                         i < j /\ Upcoming'[i] # NoFn => Upcoming'[i] < Upcoming'[j]
                    /\ \A i \in 1..Len(ran') : Kind(ran'[i].fn) = "get" => ran'[i].fn < Upcoming'[j]
  BY <1>2 DEF Waits, Kind
<1>3. PICK k : k = j + 1
  OBVIOUS
<1>4. k \in 1..Len(Upcoming) /\ Upcoming'[j] = Upcoming[k] /\ 1 < k
  BY <1>1, <1>3
<1>5. /\ Kind(Upcoming[k]) = "get"
      /\ \A i \in 1..Len(Upcoming) : i < k /\ Upcoming[i] # NoFn => Upcoming[i] < Upcoming[k]
      /\ \A i \in 1..Len(ran) : Kind(ran[i].fn) = "get" => ran[i].fn < Upcoming[k]
  BY <1>4 DEF Waits
<1>6. \A i \in 1..Len(Upcoming') : i < j => i + 1 < k
  BY <1>1, <1>3
<1>7. \A i \in 1..Len(ran') : Kind(ran'[i].fn) = "get" => ran'[i].fn < Upcoming[k]
  <2>1. CASE ran' = ran
    BY <1>5, <2>1
  <2>2. ASSUME NEW e \in [fn : Number \ {NoFn}, reply : Replies \union {NULL}],
               ran' = Append(ran, e), e.fn = Head(Upcoming)
        PROVE  \A i \in 1..Len(ran') : Kind(ran'[i].fn) = "get" => ran'[i].fn < Upcoming[k]
    <3>1. /\ Len(ran) \in Nat /\ Len(ran') = Len(ran) + 1 /\ ran'[Len(ran) + 1] = e
          /\ \A i \in 1..Len(ran) : ran'[i] = ran[i]
      BY <2>2, Waiting, AppendProperties
    <3>2. \A i \in 1..Len(ran') : i \in 1..Len(ran) \/ i = Len(ran) + 1
      BY <3>1
    <3>3. e.fn # NoFn /\ e.fn = Upcoming[1]
      BY <1>1, <2>2
    <3>4. e.fn < Upcoming[k]
      BY <1>1, <1>4, <1>5, <3>3
    <3> QED
      BY <1>5, <3>1, <3>2, <3>4
  <2> QED
    BY <2>1, <2>2
<1> QED
  BY <1>1, <1>4, <1>5, <1>6, <1>7

(* A command is accepted; its callback waits last, if it waits at all. *)
LEMMA OrderedCommand ==
    ASSUME Typed, Waits, RanWell, NEW n, NEW kind, NEW key, Accepted(n, kind, key),
           \/ Upcoming' = Upcoming
           \/ kind \in {"get", "forget"} /\ Upcoming' = Append(Upcoming, Fn(n, kind))
    PROVE  Waits' /\ RanWell'
<1>1. /\ Len(commands) \in Nat /\ n = Len(commands) + 1 /\ Kind(n)' = kind
      /\ \A i \in 1..Len(commands) : commands'[i] = commands[i] /\ Kind(i)' = Kind(i)
  BY NewCommand DEF Typed
<1>2. ran' = ran
  BY DEF Accepted
<1>3. /\ Upcoming \in Seq(Number) /\ Len(Upcoming) \in Nat
      /\ \A i \in 1..Len(Upcoming) : Upcoming[i] \in 0..Len(commands)
      /\ \A i \in 1..Len(ran) : ran[i].fn \in 1..Len(commands)
  BY <1>1, Waiting DEF Number, NoFn
<1>4. RanWell'
  <2>1. \A i \in 1..Len(ran) : /\ Kind(ran[i].fn)' = Kind(ran[i].fn)
                               /\ commands'[ran[i].fn] = commands[ran[i].fn]
    BY <1>1, <1>2, <1>3
  <2> SUFFICES ASSUME NEW i \in 1..Len(ran)
               PROVE  /\ Kind(ran[i].fn) = "get" =>
                           /\ ran[i].reply \in {NULL, Complaint} \/ ran[i].reply.to = ran[i].fn
                           /\ \A h \in 1..Len(ran) : h < i /\ Kind(ran[h].fn) = "get"
                                                       => ran[h].fn < ran[i].fn
                      /\ ran[i].reply.type = "array" =>
                           Kind(ran[i].fn) = "subscribe" /\ commands[ran[i].fn].key = ran[i].reply.key
    BY <1>2, <2>1 DEF RanWell
  <2> QED
    BY DEF RanWell
<1>5. ASSUME NEW j \in 1..Len(Upcoming), Upcoming[j] # NoFn
      PROVE  /\ commands'[Upcoming[j]].kind = "get"
             /\ \A i \in 1..Len(Upcoming) : i < j /\ Upcoming[i] # NoFn => Upcoming[i] < Upcoming[j]
             /\ \A i \in 1..Len(ran) : commands'[ran[i].fn].kind = "get" => ran[i].fn < Upcoming[j]
  <2>1. Upcoming[j] \in 1..Len(commands)
    BY <1>1, <1>3, <1>5 DEF NoFn
  <2>2. /\ Kind(Upcoming[j]) = "get"
        /\ \A i \in 1..Len(Upcoming) : i < j /\ Upcoming[i] # NoFn => Upcoming[i] < Upcoming[j]
        /\ \A i \in 1..Len(ran) : Kind(ran[i].fn) = "get" => ran[i].fn < Upcoming[j]
    BY <1>5 DEF Waits
  <2>3. \A i \in 1..Len(ran) : commands'[ran[i].fn].kind = Kind(ran[i].fn)
    BY <1>1, <1>3 DEF Kind
  <2>4. commands'[Upcoming[j]].kind = Kind(Upcoming[j])
    BY <1>1, <2>1 DEF Kind
  <2> QED
    BY <2>2, <2>3, <2>4
<1>6. SUFFICES ASSUME NEW j \in 1..Len(Upcoming'), Upcoming'[j] # NoFn
               PROVE  /\ commands'[Upcoming'[j]].kind = "get"
                      /\ \A i \in 1..Len(Upcoming') :
                           i < j /\ Upcoming'[i] # NoFn => Upcoming'[i] < Upcoming'[j]
                      /\ \A i \in 1..Len(ran') : commands'[ran'[i].fn].kind = "get" => ran'[i].fn < Upcoming'[j]
  BY <1>4 DEF Waits, Kind
<1>7. CASE Upcoming' = Upcoming
  BY <1>2, <1>5, <1>6, <1>7
<1>8. CASE kind \in {"get", "forget"} /\ Upcoming' = Append(Upcoming, Fn(n, kind))
  <2>1. PICK m : m = Len(Upcoming) + 1
    OBVIOUS
  <2>2. Fn(n, kind) # NoFn => Fn(n, kind) = n /\ kind = "get"
    BY <1>8 DEF Fn
  <2>3. /\ Len(Upcoming') = m /\ Upcoming'[m] = Fn(n, kind)
        /\ \A i \in 1..Len(Upcoming) : Upcoming'[i] = Upcoming[i]
    <3>1. Fn(n, kind) \in Nat /\ Upcoming \in Seq(Nat)
      BY <1>1, <1>3, Waiting, SeqMonotonic DEF Fn, NoFn
    <3> QED
      BY <1>8, <2>1, <3>1, AppendProperties
  <2>4. \A i \in 1..Len(Upcoming') : i < j => i \in 1..Len(Upcoming)
    BY <1>3, <1>6, <2>1, <2>3
  <2>5. CASE j = m
    <3>1. Upcoming'[j] = n /\ commands'[n].kind = "get"
      BY <1>1, <1>6, <2>2, <2>3, <2>5 DEF Kind
    <3>2. \A i \in 1..Len(Upcoming') : i < j => Upcoming'[i] < n
      BY <1>1, <1>3, <2>3, <2>4
    <3>3. \A i \in 1..Len(ran') : ran'[i].fn < n
      BY <1>1, <1>2, <1>3
    <3> QED
      BY <3>1, <3>2, <3>3
  <2>6. CASE j \in 1..Len(Upcoming)
    BY <1>2, <1>5, <1>6, <2>3, <2>4, <2>6
  <2> QED
    BY <1>3, <1>6, <2>1, <2>3, <2>5, <2>6
<1> QED
  BY <1>7, <1>8

LEMMA OrderedShift ==
    ASSUME Typed, Waits, RanWell, UNCHANGED commands, Upcoming # << >>, Upcoming' = Tail(Upcoming),
           NEW reply \in Replies \union {NULL}, reply.type # "array",
           Head(Upcoming) # NoFn => reply \in {NULL, Complaint} \/ reply.to = Head(Upcoming),
           \/ ran' = ran
           \/ Head(Upcoming) # NoFn /\ ran' = Append(ran, [fn |-> Head(Upcoming), reply |-> reply])
    PROVE  Waits' /\ RanWell'
<1>1. 1 \in 1..Len(Upcoming) /\ Head(Upcoming) = Upcoming[1] /\ Upcoming[1] \in Number
  BY Waiting
<1>2. CASE ran' = ran
  BY <1>2, WaitsShift DEF RanWell, Kind
<1>3. CASE Head(Upcoming) # NoFn /\ ran' = Append(ran, [fn |-> Head(Upcoming), reply |-> reply])
  <2>1. PICK e : e = [fn |-> Head(Upcoming), reply |-> reply]
    OBVIOUS
  <2>2. e \in [fn : Number \ {NoFn}, reply : Replies \union {NULL}]
    BY <1>1, <1>3, <2>1
  <2>3. e.fn = Head(Upcoming) /\ e.reply = reply /\ ran' = Append(ran, e)
    BY <1>3, <2>1
  <2>4. Waits'
    BY <2>2, <2>3, WaitsShift
  <2>5. \A h \in 1..Len(ran) : Kind(ran[h].fn) = "get" => ran[h].fn < e.fn
    BY <1>1, <1>3, <2>3 DEF Waits
  <2>6. e.reply \in {NULL, Complaint} \/ e.reply.to = e.fn
    BY <1>3, <2>3
  <2>7. e.reply.type # "array"
    BY <2>3
  <2>8. RanWell'
    BY <2>2, <2>3, <2>5, <2>6, <2>7, RanGrows
  <2> QED
    BY <2>4, <2>8
<1> QED
  BY <1>2, <1>3

LEMMA OrderedSubscriber ==
    ASSUME Typed, Waits, RanWell, Subscribers, UNCHANGED commands, Upcoming' = Upcoming,
           NEW k \in Keys, subs[k] # NoFn, NEW reply \in Replies \union {NULL},
           reply.type = "array" => reply.key = k,
           ran' = Append(ran, [fn |-> subs[k], reply |-> reply])
    PROVE  Waits' /\ RanWell'
<1>1. PICK e : e = [fn |-> subs[k], reply |-> reply]
  OBVIOUS
<1>2. e \in [fn : Number \ {NoFn}, reply : Replies \union {NULL}]
  BY <1>1 DEF Typed, TypedCallbacks
<1>3. e.fn = subs[k] /\ e.reply = reply /\ ran' = Append(ran, e)
  BY <1>1
<1>4. Kind(e.fn) = "subscribe" /\ commands[e.fn].key = k
  BY <1>3 DEF Subscribers
<1>5. Waits'
  BY <1>2, <1>3, <1>4, WaitsSame
<1>6. RanWell'
  BY <1>2, <1>3, <1>4, RanGrows
<1> QED
  BY <1>5, <1>6

LEMMA UpcomingCases ==
    ASSUME Typed
    PROVE  /\ replies # << >> => /\ Upcoming # << >> /\ Head(Upcoming) = Head(replies)
                                /\ Tail(Upcoming) = Tail(replies) \o invalid
           /\ replies = << >> => Upcoming = invalid
           /\ invalid = << >> => Upcoming = replies
           /\ \A e \in Nat : /\ replies \o Append(invalid, e) = Append(Upcoming, e)
                             /\ invalid = << >> => Append(replies, e) \o invalid = Append(Upcoming, e)
<1>1. replies \in Seq(Nat) /\ invalid \in Seq(Nat)
  <2>1. Number \subseteq Nat
    BY Waiting
  <2> QED
    BY <2>1, SeqMonotonic DEF Typed, TypedCallbacks
<1>2. PICK p \in Seq(Nat) : p = replies
  BY <1>1
<1>3. PICK q \in Seq(Nat) : q = invalid
  BY <1>1
<1>4. p # << >> => p \o q # << >> /\ Head(p \o q) = Head(p) /\ Tail(p \o q) = Tail(p) \o q
  OBVIOUS
<1>5. /\ p = << >> => p \o q = q
      /\ \A s \in Seq(Nat) : s \o << >> = s
  BY ConcatEmptySeq
<1>6. \A e \in Nat : p \o Append(q, e) = Append(p \o q, e)
  OBVIOUS
<1>7. \A e \in Nat : q = << >> => Append(p, e) \o q = Append(p \o q, e)
  <2>1. \A e \in Nat : Append(p, e) \in Seq(Nat)
    OBVIOUS
  <2> QED
    BY <1>5, <2>1
<1> QED
  BY <1>2, <1>3, <1>4, <1>5, <1>6, <1>7 DEF Upcoming

(* A reply is handed out. *)
LEMMA OrderedGotReply ==
    ASSUME Typed, Aligned, Listening, Subscribers, Waits, RanWell, PlainOrSub, GotReply
    PROVE  /\ Waits' /\ RanWell' /\ (invalid' # << >> => invalid # << >>)
<1>1. PICK r : r = Head(buffer)
  OBVIOUS
<1>2. Live /\ buffer # << >> /\ UNCHANGED commands
  BY DEF GotReply, Live
<1>3. r \in Replies
  BY <1>1, <1>2 DEF Typed, TypedStream
<1>4. /\ replies = << >> => r = Complaint \/ ("SUBSCRIBED" \in flags /\ r.type \in {"array", "error"})
      /\ replies # << >> => \/ r = Complaint
                            \/ /\ r.type = "status" /\ r.to \in 1..Len(commands)
                               /\ Head(replies) = Fn(r.to, Kind(r.to))
      /\ r.type = "array" => subs[r.key] # NoFn
  BY <1>1, <1>2, NextReply
<1>5. Complaint.type = "error"
  BY ReplyFacts DEF Typed
<1>6. CASE UNCHANGED <<replies, invalid, ran>>
  BY <1>2, <1>6, WaitsSame DEF Upcoming, RanWell, Kind
<1>7. CASE /\ replies # << >> /\ cb' = Head(replies) /\ replies' = Tail(replies) /\ UNCHANGED invalid
           /\ Starts(r, flags)
  <2>1. Upcoming # << >> /\ Head(Upcoming) = Head(replies) /\ Upcoming' = Tail(Upcoming)
    BY <1>7, UpcomingCases DEF Upcoming
  <2>2. r.type # "array"
    BY <1>4, <1>5, <1>7
  <2>3. Head(Upcoming) # NoFn => r \in {NULL, Complaint} \/ r.to = Head(Upcoming)
    BY <1>4, <1>7, <2>1 DEF Fn
  <2>4. \/ ran' = ran
        \/ Head(Upcoming) # NoFn /\ ran' = Append(ran, [fn |-> Head(Upcoming), reply |-> r])
    BY <1>7, <2>1 DEF Starts
  <2>5. Waits' /\ RanWell'
    BY <1>2, <1>3, <2>1, <2>2, <2>3, <2>4, OrderedShift
  <2> QED
    BY <1>7, <2>5
<1>8. CASE /\ replies = << >> /\ r.type = "array" /\ cb' = Subscriber(r)
           /\ UNCHANGED <<replies, invalid>> /\ Starts(r, Kept(r))
  <2>1. r.key \in Keys /\ subs[r.key] # NoFn /\ cb' = subs[r.key]
    BY <1>3, <1>4, <1>8 DEF Replies, Subscriber
  <2>2. ran' = Append(ran, [fn |-> subs[r.key], reply |-> r])
    BY <1>8, <2>1 DEF Starts
  <2>3. Upcoming' = Upcoming
    BY <1>8 DEF Upcoming
  <2>4. Waits' /\ RanWell'
    BY <1>2, <1>3, <2>1, <2>2, <2>3, OrderedSubscriber
  <2> QED
    BY <1>8, <2>4
<1>9. CASE replies = << >> /\ (r.type = "status" \/ ("MONITORING" \in flags /\ r.type # "error"
                                                      /\ "SUBSCRIBED" \notin flags))
  BY <1>4, <1>5, <1>9
<1> QED
  BY <1>1, <1>6, <1>7, <1>8, <1>9, GotReplyCases DEF Typed

(* The pending callbacks of a context that goes get no reply. *)
LEMMA OrderedRunPending ==
    ASSUME Typed, Subscribers, Waits, RanWell, RunPending
    PROVE  /\ Waits' /\ RanWell' /\ (invalid' # << >> => invalid # << >>)
<1>1. PICK fn \in Number :
        /\ \/ /\ replies # << >> /\ fn = Head(replies) /\ replies' = Tail(replies)
              /\ UNCHANGED <<invalid, subs>>
           \/ /\ replies = << >> /\ invalid # << >> /\ fn = Head(invalid)
              /\ invalid' = Tail(invalid) /\ UNCHANGED <<replies, subs>>
           \/ /\ replies = << >> /\ invalid = << >>
              /\ \E k \in Keys : /\ subs[k] # NoFn /\ fn = subs[k]
                                 /\ subs' = [subs EXCEPT ![k] = NoFn]
              /\ UNCHANGED <<replies, invalid>>
        /\ \/ fn = NoFn /\ UNCHANGED <<pc, flags, ran>>
           \/ /\ fn # NoFn /\ pc' = "freecb" /\ flags' = flags \union {"IN_CALLBACK"}
              /\ ran' = Append(ran, [fn |-> fn, reply |-> NULL])
  BY RunCases DEF Typed
<1>2. UNCHANGED commands
  BY DEF RunPending
<1>3. PICK reply \in Replies \union {NULL} : reply = NULL /\ reply.type # "array"
  BY ReplyFacts DEF Typed
<1>4. CASE Upcoming # << >> /\ fn = Head(Upcoming) /\ Upcoming' = Tail(Upcoming)
  <2>1. \/ ran' = ran
        \/ Head(Upcoming) # NoFn /\ ran' = Append(ran, [fn |-> Head(Upcoming), reply |-> reply])
    BY <1>1, <1>3, <1>4
  <2>2. Head(Upcoming) # NoFn => reply \in {NULL, Complaint} \/ reply.to = Head(Upcoming)
    BY <1>3
  <2>3. Waits' /\ RanWell'
    BY <1>2, <1>3, <1>4, <2>1, <2>2, OrderedShift
  <2> QED
    BY <1>1, <2>3
<1>5. CASE replies # << >> /\ fn = Head(replies) /\ replies' = Tail(replies) /\ UNCHANGED invalid
  <2>1. Upcoming # << >> /\ fn = Head(Upcoming) /\ Upcoming' = Tail(Upcoming)
    BY <1>5, UpcomingCases DEF Upcoming
  <2> QED
    BY <1>4, <1>5, <2>1
<1>6. CASE /\ replies = << >> /\ invalid # << >> /\ fn = Head(invalid)
           /\ invalid' = Tail(invalid) /\ UNCHANGED replies
  <2>1. replies' \o invalid' = invalid'
    <3>1. invalid' \in Seq(Number)
      BY <1>6 DEF Typed, TypedCallbacks
    <3>2. PICK q \in Seq(Number) : q = invalid'
      BY <3>1
    <3>3. << >> \o q = q
      BY ConcatEmptySeq
    <3> QED
      BY <1>6, <3>2, <3>3
  <2>2. Upcoming # << >> /\ fn = Head(Upcoming) /\ Upcoming' = Tail(Upcoming)
    BY <1>6, <2>1, UpcomingCases DEF Upcoming
  <2> QED
    BY <1>4, <1>6, <2>2
<1>7. CASE /\ replies = << >> /\ invalid = << >> /\ UNCHANGED <<replies, invalid>>
           /\ \E k \in Keys : subs[k] # NoFn /\ fn = subs[k]
  <2>1. PICK k \in Keys : subs[k] # NoFn /\ fn = subs[k]
    BY <1>7
  <2>2. ran' = Append(ran, [fn |-> subs[k], reply |-> reply])
    BY <1>1, <1>3, <2>1
  <2>3. Upcoming' = Upcoming
    BY <1>7 DEF Upcoming
  <2>4. Waits' /\ RanWell'
    BY <1>2, <1>3, <2>1, <2>2, <2>3, OrderedSubscriber
  <2> QED
    BY <1>7, <2>4
<1> QED
  BY <1>1, <1>5, <1>6, <1>7

LEMMA OrderedStep ==
    ASSUME Typed, Aligned, Listening, Subscribers, Ordered, [Next]_vars
    PROVE  Ordered'
<1> SUFFICES ASSUME PlainOrSub'
             PROVE  (invalid' # << >> => "SUBSCRIBED" \in flags') /\ Waits' /\ RanWell'
  BY DEF Ordered
<1>1. Kinds \subseteq Kinds'
  BY KindsGrow DEF Typed
<1>2. PlainOrSub /\ "unsubscribe" \notin Kinds
  BY <1>1 DEF PlainOrSub
<1>3. (invalid # << >> => "SUBSCRIBED" \in flags) /\ Waits /\ RanWell
  BY <1>2 DEF Ordered
<1>4. invalid # << >> => "SUBSCRIBED" \in flags'
  BY <1>2, <1>3, ListenersStay
<1>5. CASE UNCHANGED <<replies, invalid, commands, ran>>
  BY <1>3, <1>4, <1>5, WaitsSame DEF Upcoming, RanWell, Kind
<1>6. CASE RunPending
  BY <1>3, <1>4, <1>6, OrderedRunPending
<1>7. CASE GotReply
  BY <1>2, <1>3, <1>4, <1>7, OrderedGotReply
<1>8. CASE NoReply
  <2>1. "MONITORING" \notin flags
    BY <1>2, <1>8 DEF Aligned, Live, Split, NoReply
  <2>2. UNCHANGED <<replies, invalid, commands, ran>>
    BY <1>8, <2>1 DEF NoReply
  <2> QED
    BY <1>5, <2>2
<1>9. ASSUME NEW n, NEW kind, NEW key, Accepted(n, kind, key)
      PROVE  (invalid' # << >> => "SUBSCRIBED" \in flags') /\ Waits' /\ RanWell'
  <2>1. Fn(n, kind) \in Nat
    BY <1>9 DEF Accepted, Fn, NoFn
  <2>2. CASE UNCHANGED <<replies, invalid>>
    BY <1>3, <1>4, <1>9, <2>2, OrderedCommand DEF Upcoming
  <2>3. CASE /\ kind \in {"get", "forget"} /\ "SUBSCRIBED" \in flags
             /\ invalid' = Append(invalid, Fn(n, kind)) /\ UNCHANGED <<flags, replies>>
    <3>1. Upcoming' = Append(Upcoming, Fn(n, kind))
      BY <2>1, <2>3, UpcomingCases DEF Upcoming
    <3> QED
      BY <1>3, <1>9, <2>3, <3>1, OrderedCommand
  <2>4. CASE /\ kind \in {"get", "forget"} /\ "SUBSCRIBED" \notin flags
             /\ replies' = Append(replies, Fn(n, kind)) /\ UNCHANGED <<flags, invalid>>
    <3>1. invalid = << >>
      BY <1>3, <2>4
    <3>2. Upcoming' = Append(Upcoming, Fn(n, kind))
      BY <2>1, <2>4, <3>1, UpcomingCases DEF Upcoming
    <3> QED
      BY <1>3, <1>4, <1>9, <2>4, <3>2, OrderedCommand
  <2>5. kind # "monitor"
    <3>1. /\ Len(commands) \in Nat /\ n = Len(commands) + 1 /\ Len(commands') = n /\ Kind(n)' = kind
      BY <1>9, NewCommand DEF Typed
    <3>2. DOMAIN commands' = 1..Len(commands')
      BY <1>9 DEF Accepted, Typed, TypedCommands
    <3>3. Kind(n)' \in Kinds'
      BY <3>1, <3>2 DEF Kinds
    <3> QED
      BY <3>1, <3>3 DEF PlainOrSub
  <2> QED
    BY <1>9, <2>2, <2>3, <2>4, <2>5 DEF Accepted
<1> QED
  BY <1>5, <1>6, <1>7, <1>8, <1>9, Frame DEF Typed

LEMMA OrderedAlways == Spec => [](Typed /\ Ordered)
<1>1. Init => Subscribers /\ Ordered
  <2> SUFFICES ASSUME Init PROVE Subscribers /\ Ordered
    OBVIOUS
  <2>1. /\ subs = [k \in Keys |-> NoFn] /\ replies = << >> /\ invalid = << >> /\ ran = << >>
    BY DEF Init
  <2>2. Upcoming = << >>
    BY <2>1 DEF Upcoming
  <2>3. Len(Upcoming) = 0 /\ Len(ran) = 0
    BY <2>1, <2>2
  <2> QED
    BY <2>1, <2>3 DEF Subscribers, Ordered, Waits, RanWell
<1>2. Typed /\ Subscribers /\ [Next]_vars => Subscribers'
  BY SubscribersStep
<1>3. Typed /\ Listening /\ Aligned /\ Subscribers /\ Ordered /\ [Next]_vars => Ordered'
  BY OrderedStep
<1> QED
  BY <1>1, <1>2, <1>3, AlignedAlways, PTL DEF Spec

(* What a reply on its way says of its command: a message or an answer with  *)
(* a channel is not for a plain one, and a plain one is refused only when it *)
(* was sent after a subscription.                                           *)
Fits(r) ==
  /\ r.to \in Number
  /\ r.to # NoFn /\ r.type = "array" => Kind(r.to) # "get"
  /\ r.to # NoFn /\ r.type = "error" => \E m \in 1..(r.to - 1) : Kind(m) = "subscribe"
Fitting == PlainOrSub /\ Live => \A i \in 1..Len(Incoming) : Fits(Incoming[i])

LEMMA FitsStays ==
    ASSUME Typed, [Next]_vars, NEW r, Fits(r)
    PROVE  /\ r.to \in Number'
           /\ r.to # NoFn /\ r.type = "array" => Kind(r.to)' # "get"
           /\ r.to # NoFn /\ r.type = "error" => \E m \in 1..(r.to - 1) : Kind(m)' = "subscribe"
<1>1. Len(commands) \in Nat /\ (r.to # NoFn => r.to \in 1..Len(commands))
  BY CommandFacts DEF Typed, Fits, Number, NoFn
<1>2. CASE UNCHANGED commands
  BY <1>2 DEF Fits, Number, Kind
<1>3. ASSUME NEW n, NEW kind, NEW key, Accepted(n, kind, key)
      PROVE  /\ r.to \in Number'
             /\ r.to # NoFn /\ r.type = "array" => Kind(r.to)' # "get"
             /\ r.to # NoFn /\ r.type = "error" => \E m \in 1..(r.to - 1) : Kind(m)' = "subscribe"
  <2>1. /\ n = Len(commands) + 1 /\ Len(commands') = n
        /\ \A i \in 1..Len(commands) : Kind(i)' = Kind(i)
    BY <1>3, NewCommand DEF Typed
  <2>2. r.to \in Number'
    BY <1>1, <2>1 DEF Fits, Number, NoFn
  <2>3. r.to # NoFn => Kind(r.to)' = Kind(r.to) /\ \A m \in 1..(r.to - 1) : Kind(m)' = Kind(m)
    BY <1>1, <2>1
  <2> QED
    BY <2>2, <2>3 DEF Fits
<1> QED
  BY <1>2, <1>3, Frame DEF Typed, RunPending, GotReply, NoReply

(* What the server answers. *)
LEMMA ServedFits ==
    ASSUME Typed, Aligned, Live, PlainOrSub, Serve
    PROVE  \E r \in Replies : Incoming' = Append(Incoming, r) /\ Fits(r)
<1>1. PICK last \in 0..Len(commands) : Split(last) /\ Serving(last)
  BY DEF Aligned
<1>2. PICK n : n = Head(toServer)
  OBVIOUS
<1>3. /\ up /\ toServer # << >> /\ toServer' = Tail(toServer) /\ n \in 1..Len(commands)
      /\ UNCHANGED <<buffer, obuf>>
      /\ srv' = [subs |-> CASE commands[n].kind = "subscribe" -> srv.subs \union {commands[n].key}
                            [] commands[n].kind = "unsubscribe" -> srv.subs \ {commands[n].key}
                            [] OTHER -> srv.subs,
                 monitor |-> IF commands[n].kind = "monitor" THEN n ELSE srv.monitor]
  BY <1>2, ServeCases DEF Typed, Client, context
<1>4. PICK r \in Replies :
        /\ Send(r) /\ r.to = n
        /\ r.type = IF commands[n].key # NoKey THEN "array"
                    ELSE IF srv'.subs = {} THEN "status" ELSE "error"
  BY <1>2, ServeCases DEF Typed
<1>5. Incoming' = Append(Incoming, r)
  BY <1>3, <1>4, IncomingGrows
<1>6. /\ Len(commands) \in Nat /\ Kind(n) = commands[n].kind
      /\ (commands[n].key = NoKey) <=> (commands[n].kind \notin {"subscribe", "unsubscribe"})
  BY <1>3, CommandFacts DEF Typed, TypedCommands
<1>7. r.type = "array" => Kind(r.to) # "get"
  BY <1>4, <1>6
<1>8. ASSUME r.type = "error"
      PROVE  \E m \in 1..(r.to - 1) : Kind(m) = "subscribe"
  <2>1. commands[n].key = NoKey /\ srv'.subs # {}
    BY <1>4, <1>8
  <2>2. srv.subs # {}
    <3>1. srv'.subs = srv.subs
      BY <1>3, <1>6, <2>1
    <3> QED
      BY <2>1, <3>1
  <2>3. Outgoing[1] = n /\ Len(Outgoing) \in Nat \ {0}
    BY <1>2, <1>3, OutgoingShift
  <2>4. PICK done : done = Len(commands) - Len(Outgoing)
    OBVIOUS
  <2>5. /\ done \in Nat /\ \A i \in 1..Len(Outgoing) : Outgoing[i] = done + i
        /\ done <= last => srv.subs = {}
    BY <1>1, <1>3, <2>4 DEF Serving
  <2>6. last \in Nat /\ last + 1 \in 1..(n - 1) /\ last < Len(commands)
    <3>1. n = done + 1
      BY <2>3, <2>5
    <3>2. last \in Nat /\ last < done
      BY <1>1, <1>6, <2>2, <2>5
    <3> QED
      BY <1>3, <1>6, <2>5, <3>1, <3>2
  <2>7. Kind(last + 1) = "subscribe"
    BY <1>1, <2>6 DEF Split
  <2> QED
    BY <1>4, <2>6, <2>7
<1>9. r.to \in Number
  BY <1>3, <1>4, <1>6 DEF Number
<1> QED
  BY <1>5, <1>7, <1>8, <1>9 DEF Fits

(* A failed assertion ends the program. *)
LEMMA AbortedStays ==
    ASSUME pc = "aborted", [Next]_vars
    PROVE  pc' = "aborted"
<1>1. CASE UNCHANGED vars
  BY <1>1 DEF vars
<1>2. ~Calls
  BY DEF Calls, redisAsyncFree, redisAsyncDisconnect, redisAsyncCommand, Program
<1>3. ~Library
  BY DEF Library, RunPending, FreeDone, NoReply, GotReply, ReturnFromCallback, ReaderFails
<1>4. ~Loop
  BY DEF Loop, ConnectFails, IOFails, Broken, Fault, HandleRead, HandleWrite, Event
<1>5. CASE Serve \/ Unasked \/ Close
  BY <1>5 DEF Serve, Unasked, Close, Client
<1> QED
  BY <1>1, <1>2, <1>3, <1>4, <1>5 DEF Next

LEMMA FittingStep ==
    ASSUME Typed, Aligned, Fitting, [Next]_vars
    PROVE  Fitting'
<1> SUFFICES ASSUME PlainOrSub', Live', NEW i \in 1..Len(Incoming'),
                    NEW r, r = Incoming'[i]
             PROVE  /\ r.to \in Number'
                    /\ r.to # NoFn /\ r.type = "array" => Kind(r.to)' # "get"
                    /\ r.to # NoFn /\ r.type = "error" => \E m \in 1..(r.to - 1) : Kind(m)' = "subscribe"
  BY DEF Fitting, Fits, Kind
<1>1. PlainOrSub /\ Live
  <2>1. Kinds \subseteq Kinds'
    BY KindsGrow DEF Typed
  <2>2. Leaving => Leaving'
    BY LeavingCases
  <2>3. pc # "aborted"
    BY AbortedStays DEF Live
  <2>4. pc \in {"loop", "process", "callback", "free", "freecb", "freed", "aborted"}
    BY DEF Typed, TypedControl
  <2> QED
    BY <2>1, <2>2, <2>3, <2>4 DEF Live, Leaving, PlainOrSub
<1>2. \A j \in 1..Len(Incoming) : Fits(Incoming[j])
  BY <1>1 DEF Fitting
<1>3. r = Incoming'[i]
  OBVIOUS
<1>4. ASSUME NEW q \in Replies, Fits(q), Incoming' = Append(Incoming, q)
      PROVE  Fits(r)
  <2>1. /\ Len(Incoming) \in Nat /\ Len(Incoming') = Len(Incoming) + 1
        /\ \A j \in 1..Len(Incoming) : Incoming'[j] = Incoming[j]
        /\ Incoming'[Len(Incoming) + 1] = q
    BY <1>4, Queues, AppendProperties
  <2>2. i \in 1..Len(Incoming) \/ i = Len(Incoming) + 1
    BY <2>1
  <2> QED
    BY <1>2, <1>3, <1>4, <2>1, <2>2
<1>5. Fits(r)
  <2>1. CASE Incoming' = Incoming
    BY <1>2, <1>3, <2>1
  <2>2. CASE GotReply
    <3>1. buffer # << >> /\ buffer' = Tail(buffer) /\ UNCHANGED toClient
      BY <2>2 DEF GotReply, server
    <3>2. /\ Len(Incoming) \in Nat \ {0} /\ Len(Incoming') = Len(Incoming) - 1
          /\ \A j \in 1..Len(Incoming) - 1 : Incoming'[j] = Incoming[j + 1]
      BY <3>1, IncomingShift
    <3>3. i + 1 \in 1..Len(Incoming) /\ Incoming'[i] = Incoming[i + 1]
      BY <3>2
    <3> QED
      BY <1>2, <1>3, <3>3
  <2>3. CASE Serve
    BY <1>1, <1>4, <2>3, ServedFits
  <2>4. CASE Unasked
    <3>1. PICK q \in Replies : Send(q) /\ q.to \in Number /\ (q.type # "status" => q.to = NoFn)
      BY <2>4, UnaskedCases DEF Typed
    <3>2. UNCHANGED buffer
      BY <2>4 DEF Unasked, Client, context
    <3>3. Incoming' = Append(Incoming, q)
      BY <3>1, <3>2, IncomingGrows
    <3>4. Fits(q)
      BY <3>1 DEF Fits
    <3> QED
      BY <1>4, <3>3, <3>4
  <2> QED
    BY <2>1, <2>2, <2>3, <2>4, IncomingCases
<1> QED
  BY <1>5, FitsStays

LEMMA FittingAlways == Spec => [](Typed /\ Aligned /\ Fitting)
<1>1. Init => Fitting
  <2> SUFFICES ASSUME Init PROVE Fitting
    OBVIOUS
  <2>1. Incoming = << >>
    BY WithoutEmpty DEF Init, Incoming, WholeReplies
  <2> QED
    BY <2>1 DEF Fitting
<1>2. Typed /\ Aligned /\ Fitting /\ [Next]_vars => Fitting'
  BY FittingStep
<1> QED
  BY <1>1, <1>2, AlignedAlways, PTL DEF Spec

(* Only redisProcessCallbacks takes a reply from the reader. *)
LEMMA OneTaker ==
    ASSUME Typed, [Next]_vars, buffer # << >>, buffer' = Tail(buffer)
    PROVE  GotReply
<1>1. buffer \in Seq(Replies) /\ buffer' # buffer /\ Len(buffer') < Len(buffer)
  BY DEF Typed, TypedStream
<1>2. CASE UNCHANGED vars
  BY <1>1, <1>2 DEF vars, context
<1>3. CASE Calls
  BY <1>1, <1>3 DEF Calls, redisAsyncFree, redisAsyncDisconnect, redisAsyncCommand
<1>4. CASE Library /\ ~GotReply
  BY <1>1, <1>4 DEF Library, RunPending, FreeDone, NoReply, ReturnFromCallback, ReaderFails
<1>5. ASSUME NEW n \in 1..Len(toClient), HandleRead(n) PROVE FALSE
  <2>1. PICK more : buffer' = buffer \o more /\ more \in Seq(Replies)
    BY <1>5 DEF HandleRead
  <2> QED
    BY <1>1, <2>1
<1>6. CASE Loop
  BY <1>1, <1>5, <1>6 DEF Loop, ConnectFails, IOFails, HandleWrite
<1>7. CASE Serve \/ Unasked \/ Close
  BY <1>1, <1>7 DEF Serve, Unasked, Close, Client, context
<1> QED
  BY <1>2, <1>3, <1>4, <1>6, <1>7 DEF Next

(* async.c:436-438, __redisShiftCallback: the callback of a plain command    *)
(* gets that command's reply and no other, NULL when the context goes, or    *)
(* the server's complaint; callbacks run in the order of the commands; and   *)
(* a reply that is taken from the reader is handed to its command's callback *)
(* in that step, but for async.c:454, the refusal of a command sent after a  *)
(* subscription, which ends the context.                                    *)
THEOREM RepliesReachTheirCommands == Spec => OwnReplyOnce
<1>1. ASSUME Typed, Ordered PROVE OwnReplies
  <2> SUFFICES ASSUME PlainOrSub
               PROVE  /\ \A n \in Gets : \A i \in Runs(n) : ran[i].reply \in {NULL, Complaint} \/ ran[i].reply.to = n
                      /\ \A i, j \in DOMAIN ran : i < j /\ ran[i].fn \in Gets /\ ran[j].fn \in Gets
                                                  => ran[i].fn < ran[j].fn
    BY DEF OwnReplies
  <2>1. RanWell
    BY <1>1 DEF Ordered
  <2>2. DOMAIN ran = 1..Len(ran)
    BY <1>1, Waiting
  <2>3. \A n \in Gets : Kind(n) = "get"
    BY DEF Gets
  <2>4. \A n \in Gets : \A i \in Runs(n) : i \in 1..Len(ran) /\ ran[i].fn = n
    BY <2>2 DEF Runs
  <2> QED
    BY <2>1, <2>2, <2>3, <2>4 DEF RanWell
<1>2. ASSUME Typed, Aligned, Fitting, [Next]_vars PROVE RepliesPassed
  <2>1. PICK r : r = Head(buffer)
    OBVIOUS
  <2> SUFFICES ASSUME Takes(r) PROVE Passes(r) \/ EndsContext(r)
    BY <2>1 DEF RepliesPassed
  <2>2. PlainOrSub /\ buffer # << >> /\ buffer' = Tail(buffer) /\ r.to \in Gets
    BY DEF Takes
  <2>3. GotReply
    BY <1>2, <2>2, OneTaker
  <2>4. Live /\ UNCHANGED toClient
    BY <2>3 DEF GotReply, Live, server
  <2>5. Len(Incoming) \in Nat \ {0} /\ Incoming[1] = r
    BY <1>2, <2>1, <2>2, <2>4, IncomingShift
  <2>6. Fits(r)
    BY <1>2, <2>2, <2>4, <2>5 DEF Fitting
  <2>7. r.to # NoFn /\ Kind(r.to) = "get" /\ r # Complaint
    BY <1>2, <2>2 DEF Gets, NoFn, Complaint, Reply, Typed, TypedCommands
  <2>8. /\ replies = << >> => "SUBSCRIBED" \in flags /\ r.type \in {"array", "error"}
        /\ replies # << >> => Head(replies) = Fn(r.to, Kind(r.to))
    BY <1>2, <2>1, <2>2, <2>4, <2>7, NextReply
  <2>9. replies = << >> => r.type = "error"
    BY <2>6, <2>7, <2>8 DEF Fits
  <2>10. CASE replies = << >>
    <3>1. AsyncDisconnect(TRUE, flags)
      BY <1>2, <2>1, <2>3, <2>8, <2>9, <2>10, GotReplyCases DEF Typed
    <3>2. err' = TRUE
      BY <3>1, Leaves
    <3> QED
      BY <2>6, <2>7, <2>9, <2>10, <3>2 DEF EndsContext, Fits
  <2>11. CASE replies # << >>
    <3>1. cb' = Head(replies) /\ Starts(r, flags)
      BY <1>2, <2>1, <2>3, <2>11, GotReplyCases DEF Typed
    <3>2. cb' = r.to
      BY <2>7, <2>8, <2>11, <3>1 DEF Fn
    <3> QED
      BY <2>7, <3>1, <3>2 DEF Starts, Passes
  <2> QED
    BY <2>10, <2>11
<1> QED
  BY <1>1, <1>2, OrderedAlways, FittingAlways, PTL DEF Spec, OwnReplyOnce

(* __redisGetSubscribeCallback: a subscriber's callback runs for its own     *)
(* channel's messages only, and a message reaches no other callback.         *)
THEOREM MessagesReachTheirChannel == Spec => []OwnChannel
<1>1. ASSUME Typed, Ordered PROVE OwnChannel
  <2> SUFFICES ASSUME PlainOrSub, NEW i \in DOMAIN ran, ran[i].reply.type = "array"
               PROVE  Kind(ran[i].fn) = "subscribe" /\ commands[ran[i].fn].key = ran[i].reply.key
    BY DEF OwnChannel, PlainOrSub
  <2>1. i \in 1..Len(ran)
    BY <1>1, Waiting
  <2> QED
    BY <1>1, <2>1 DEF Ordered, RanWell
<1> QED
  BY <1>1, OrderedAlways, PTL

=============================================================================
