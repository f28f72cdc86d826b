------------------------------ MODULE RedisAsync ------------------------------
(***************************************************************************)
(* hiredis/async.c: a redisAsyncContext driven by an event loop. Commands  *)
(* are numbered in the order the program issues them; the number stands    *)
(* for the callback too, NoFn for a NULL one. A key is a name with the     *)
(* dictionary it belongs to, channels or patterns. The program's callbacks *)
(* may call the context again, so each function that runs one is split     *)
(* there; everything between two callbacks is one step, as the library is  *)
(* single threaded.                                                        *)
(***************************************************************************)
EXTENDS Integers, Sequences, FiniteSets, Lists

CONSTANTS Keys,        \* channels and patterns
          Programs,    \* what programs do: their calls, see AllCalls, the keys they
                       \* name, bounds on the commands they issue and on the lines
                       \* the server sends unasked
          MaxCommands, \* the largest of these bounds on commands
          Faults       \* reads, writes and the connection may fail

NoKey == "none"
AllCalls == {"get", "forget", "subscribe", "unsubscribe", "monitor",
             "redisAsyncDisconnect", "redisAsyncFree"}
ASSUME ProgramsAssumption ==
  /\ MaxCommands \in Nat /\ NoKey \notin Keys
  /\ Programs \subseteq [calls : SUBSET AllCalls, keys : SUBSET Keys,
                         commands : 0..MaxCommands, lines : Nat]

VARIABLES program,                \* which program this is
          pc,                     \* who runs, see TypeOK
          flags, err, events,     \* context: flags, error, hooks of the event loop
          replies, invalid, subs, \* its callbacks; subs is both dictionaries
          cb,                     \* local of redisProcessCallbacks
          obuf, buffer,           \* commands to write; whole replies in the reader
          toServer, toClient, up, \* the connection
          srv,                    \* the server: its subscriptions, monitor
          lines,                  \* how many lines it has sent unasked
          commands, ran, told     \* history: accepted commands, callbacks run,
                                  \* calls of onConnect and onDisconnect

context == <<flags, err, events, replies, invalid, subs, obuf, buffer>>
server == <<toServer, toClient, up, srv, lines>>
vars == <<program, pc, context, cb, server, commands, ran, told>>

NoFn == 0
Reply(to, type, kind, key, left) ==
  [to |-> to, type |-> type, kind |-> kind, key |-> key, left |-> left]
NULL == Reply(0, "null", "none", NoKey, 0)
Complaint == Reply(0, "error", "none", NoKey, 0)  \* too many clients
Part == Reply(0, "part", "none", NoKey, 0)  \* the first bytes of the reply that follows

(* redisAsyncConnect and redisAsyncInitialize; redisAsyncSetConnectCallback  *)
(* asks for a write event.                                                  *)
Init == /\ program \in Programs
        /\ pc = "loop" /\ flags = {} /\ err = FALSE /\ events \in {{}, {"write"}}
        /\ replies = << >> /\ invalid = << >> /\ subs = [k \in Keys |-> NoFn]
        /\ cb = NoFn /\ obuf = << >> /\ buffer = << >>
        /\ toServer = << >> /\ toClient = << >> /\ up = TRUE
        /\ srv = [subs |-> {}, monitor |-> 0] /\ lines = 0
        /\ commands = << >> /\ ran = << >> /\ told = << >>

-----------------------------------------------------------------------------
(* Leaving the context.                                                    *)

(* __redisAsyncDisconnect, to the first callback of __redisAsyncFree. A     *)
(* clean disconnect asserts that no callback is pending.                    *)
AsyncDisconnectUnflagged(e, fl) ==  \* Mutant
  /\ err' = e /\ flags' = fl
  /\ pc' = IF ~e /\ replies # << >> THEN "aborted" ELSE "free"
AsyncDisconnectUnchecked(e, fl) ==  \* Mutant
  /\ err' = e
  /\ flags' = IF e THEN fl \union {"DISCONNECTING"} ELSE fl
  /\ pc' = "free"
AsyncDisconnect(e, fl) ==
  /\ err' = e
  /\ flags' = IF e THEN fl \union {"DISCONNECTING"} ELSE fl
  /\ pc' = IF ~e /\ replies # << >> THEN "aborted" ELSE "free"

(* A callback runs with IN_CALLBACK set: then the program has control. *)
RunCallback(fn, reply, where) ==
  IF fn = NoFn THEN pc' = pc /\ UNCHANGED <<flags, ran>>
  ELSE /\ pc' = where
       /\ flags' = flags \union {"IN_CALLBACK"}
       /\ ran' = Append(ran, [fn |-> fn, reply |-> reply])

(* __redisShiftCallback: what is left of a list. *)
Shift(list) == Tail(list)

(* __redisAsyncFree: the callbacks that are pending get a NULL reply. *)
RunPending ==
  /\ pc = "free"
  /\ \/ /\ replies # << >>
        /\ replies' = Shift(replies) /\ RunCallback(Head(replies), NULL, "freecb")
        /\ UNCHANGED <<invalid, subs>>
     \/ /\ replies = << >> /\ invalid # << >>
        /\ invalid' = Shift(invalid) /\ RunCallback(Head(invalid), NULL, "freecb")
        /\ UNCHANGED <<replies, subs>>
     \/ /\ replies = << >> /\ invalid = << >>
        /\ \E k \in Keys : /\ subs[k] # NoFn
                           /\ subs' = [subs EXCEPT ![k] = NoFn]
                           /\ RunCallback(subs[k], NULL, "freecb")
        /\ UNCHANGED <<replies, invalid>>
  /\ UNCHANGED <<err, events, cb, obuf, buffer, server, commands, told>>

PendingReplies == replies # << >>  \* Mutant
Pending == replies # << >> \/ invalid # << >> \/ \E k \in Keys : subs[k] # NoFn
FreeDone ==
  /\ pc = "free" /\ ~Pending
  /\ pc' = "freed" /\ events' = {}
  /\ told' = IF "CONNECTED" \notin flags THEN told
             ELSE Append(told, <<"disconnect", "FREEING" \in flags \/ ~err>>)
  /\ UNCHANGED <<flags, err, replies, invalid, subs, cb, obuf, buffer, server, commands, ran>>

-----------------------------------------------------------------------------
(* Calls of the program, from the event loop or from a callback.           *)

Program == pc \in {"loop", "callback", "freecb"}

redisAsyncFree ==
  /\ Program /\ "redisAsyncFree" \in program.calls
  /\ flags' = flags \union {"FREEING"}
  /\ pc' = IF "IN_CALLBACK" \in flags THEN pc ELSE "free"
  /\ UNCHANGED <<err, events, replies, invalid, subs, obuf, buffer, cb, server, commands, ran, told>>

redisAsyncDisconnect ==
  /\ Program /\ "redisAsyncDisconnect" \in program.calls
  /\ LET fl == flags \union {"DISCONNECTING"}
     IN  IF "IN_CALLBACK" \notin flags /\ replies = << >> THEN AsyncDisconnect(err, fl)
         ELSE flags' = fl /\ UNCHANGED <<pc, err>>
  /\ UNCHANGED <<events, replies, invalid, subs, obuf, buffer, cb, server, commands, ran, told>>

(* __redisAsyncCommand, when it accepts the command. *)
Commands == [kind : program.calls \ {"redisAsyncDisconnect", "redisAsyncFree"}, key : {NoKey}]
              \union [kind : program.calls \intersect {"subscribe", "unsubscribe"}, key : program.keys]
Fn(n, kind) == IF kind = "forget" THEN NoFn ELSE n
Accept(kind, key) ==
  LET n == Len(commands) + 1
  IN  CASE kind = "subscribe" ->
             /\ flags' = flags \union {"SUBSCRIBED"}
             /\ subs' = [subs EXCEPT ![key] = n]
             /\ UNCHANGED <<replies, invalid>>
        [] kind = "unsubscribe" -> UNCHANGED <<flags, subs, replies, invalid>>
        [] kind = "monitor" -> /\ flags' = flags \union {"MONITORING"}
                               /\ replies' = Append(replies, n)
                               /\ UNCHANGED <<subs, invalid>>
        [] OTHER -> IF "SUBSCRIBED" \in flags
                    THEN /\ invalid' = Append(invalid, Fn(n, kind))
                         /\ UNCHANGED <<flags, subs, replies>>
                    ELSE /\ replies' = Append(replies, Fn(n, kind))
                         /\ UNCHANGED <<flags, subs, invalid>>
ScheduleNothing == UNCHANGED events  \* Mutant
Schedule == events' = events \union {"write"}  \* _EL_ADD_WRITE

redisAsyncCommand(kind, key) ==
  /\ Program /\ Len(commands) < program.commands
  /\ (key = NoKey) = (kind \notin {"subscribe", "unsubscribe"})
  /\ flags \intersect {"DISCONNECTING", "FREEING"} = {}
  /\ kind = "unsubscribe" => "SUBSCRIBED" \in flags
  /\ Accept(kind, key)
  /\ commands' = Append(commands, [kind |-> kind, key |-> key])
  /\ obuf' = Append(obuf, Len(commands) + 1)
  /\ Schedule
  /\ UNCHANGED <<pc, err, buffer, cb, server, ran, told>>

(* The callback returns; an answered one to redisProcessCallbacks, which    *)
(* frees the context if the program has asked for it.                       *)
ReturnFromCallback ==
  /\ pc \in {"callback", "freecb"}
  /\ flags' = flags \ {"IN_CALLBACK"}
  /\ pc' = IF pc = "callback" /\ "FREEING" \notin flags THEN "process" ELSE "free"
  /\ UNCHANGED <<err, events, replies, invalid, subs, obuf, buffer, cb, server, commands, ran, told>>

-----------------------------------------------------------------------------
(* redisProcessCallbacks: its loop.                                        *)

NoReply ==
  /\ pc = "process" /\ buffer = << >>
  /\ IF "DISCONNECTING" \in flags /\ obuf = << >>
     THEN AsyncDisconnect(err, flags) /\ UNCHANGED replies
     ELSE /\ replies' = IF "MONITORING" \in flags THEN Append(replies, cb) ELSE replies
          /\ pc' = "loop" /\ UNCHANGED <<err, flags>>
  /\ UNCHANGED <<events, invalid, subs, obuf, buffer, cb, server, commands, ran, told>>

(* The reader cannot make sense of what it has. *)
ReaderFails ==
  /\ pc = "process" /\ Faults
  /\ AsyncDisconnect(TRUE, flags)
  /\ UNCHANGED <<events, replies, invalid, subs, obuf, buffer, cb, server, commands, ran, told>>

(* dictFind, in __redisGetSubscribeCallback. *)
StaleSubscriber(r) == IF cb # NoFn THEN cb ELSE subs[r.key]  \* Mutant
Subscriber(r) == IF subs[r.key] # NoFn THEN subs[r.key] ELSE cb

(* A subscribed context asks its subscriptions first. *)
SubscriptionsFirst(r) ==  \* Mutant
  CASE "SUBSCRIBED" \in flags -> /\ cb' = IF r.type = "array" THEN Subscriber(r) ELSE cb
                                 /\ UNCHANGED <<replies, invalid, subs>>
    [] "SUBSCRIBED" \notin flags /\ replies # << >> ->
         /\ cb' = Head(replies) /\ replies' = Shift(replies)
         /\ UNCHANGED <<invalid, subs>>
    [] OTHER -> UNCHANGED <<cb, replies, invalid, subs>>

(* The callback that gets reply r, and what is left of the callbacks:       *)
(* __redisShiftCallback, __redisGetSubscribeCallback. Where none is found   *)
(* the local variable keeps the one of the reply before.                    *)
NextCallback(r) ==
  CASE replies # << >> -> /\ cb' = Head(replies) /\ replies' = Shift(replies)
                          /\ UNCHANGED <<invalid, subs>>
    [] replies = << >> /\ "SUBSCRIBED" \in flags /\ r.type = "array" ->
         /\ cb' = Subscriber(r)
         /\ subs' = IF r.kind = "unsubscribe" THEN [subs EXCEPT ![r.key] = NoFn] ELSE subs
         /\ UNCHANGED <<replies, invalid>>
    [] replies = << >> /\ "SUBSCRIBED" \in flags /\ r.type # "array" ->
         /\ cb' = IF invalid # << >> THEN Head(invalid) ELSE cb
         /\ invalid' = IF invalid # << >> THEN Shift(invalid) ELSE invalid
         /\ UNCHANGED <<replies, subs>>
    [] OTHER -> UNCHANGED <<cb, replies, invalid, subs>>

EndedByMessage(r) ==  \* Mutant
  replies = << >> /\ r.type = "array" /\ subs[r.key] # NoFn /\ r.left = 0
(* The last subscription has ended. *)
Ended(r) == /\ replies = << >> /\ r.kind = "unsubscribe" /\ subs[r.key] # NoFn /\ r.left = 0

GotReply ==
  /\ pc = "process" /\ buffer # << >>
  /\ LET r == Head(buffer)
         listening == flags \intersect {"SUBSCRIBED", "MONITORING"} # {}
     IN  CASE replies = << >> /\ r.type = "error" ->
                AsyncDisconnect(TRUE, flags) /\ UNCHANGED <<cb, replies, invalid, subs, ran>>
           [] replies = << >> /\ r.type # "error" /\ ~listening ->
                pc' = "aborted" /\ UNCHANGED <<err, flags, cb, replies, invalid, subs, ran>>
           [] OTHER ->
                /\ NextCallback(r)
                /\ LET kept == IF Ended(r) /\ "SUBSCRIBED" \in flags
                               THEN flags \ {"SUBSCRIBED"} ELSE flags
                   IN  IF cb' = NoFn THEN flags' = kept /\ UNCHANGED <<pc, ran>>
                       ELSE /\ flags' = kept \union {"IN_CALLBACK"}
                            /\ pc' = "callback"
                            /\ ran' = Append(ran, [fn |-> cb', reply |-> r])
                /\ UNCHANGED err
  /\ buffer' = Tail(buffer)
  /\ UNCHANGED <<events, obuf, server, commands, told>>

-----------------------------------------------------------------------------
(* The event loop calls redisAsyncHandleRead and redisAsyncHandleWrite.    *)

Event(e) == pc = "loop" /\ e \in events

(* __redisAsyncHandleConnect. An attempt still in progress leaves its error  *)
(* in the context all the same.                                             *)
Connected == flags \union {"CONNECTED"}
Tell == told' = IF "CONNECTED" \in flags THEN told ELSE Append(told, <<"connect", TRUE>>)
ConnectFails ==
  /\ Faults /\ Event("write") /\ "CONNECTED" \notin flags
  /\ \/ AsyncDisconnect(TRUE, flags) /\ told' = Append(told, <<"connect", FALSE>>)
     \/ err' = TRUE /\ UNCHANGED <<pc, flags, told>>
  /\ UNCHANGED <<events, replies, invalid, subs, obuf, buffer, cb, server, commands, ran>>

(* redisBufferRead and redisBufferWrite fail: the server has closed the     *)
(* socket, there is an error already, or the system call fails.             *)
Broken == \/ Event("read") /\ ~up /\ toClient = << >>
          \/ (Event("read") \/ Event("write")) /\ err
Fault == Faults /\ (Event("read") \/ Event("write"))
IOFails(cause) ==
  /\ cause
  /\ AsyncDisconnect(TRUE, Connected) /\ Tell
  /\ UNCHANGED <<events, replies, invalid, subs, obuf, buffer, cb, server, commands, ran>>

WholeReplies(s) == Without(s, Part)
HandleRead(n) ==
  /\ Event("read") /\ ~err /\ n \in 1..Len(toClient)
  /\ flags' = Connected /\ Tell
  /\ toClient' = SubSeq(toClient, n + 1, Len(toClient))
  /\ buffer' = buffer \o WholeReplies(SubSeq(toClient, 1, n))
  /\ pc' = "process" /\ cb' = NoFn
  /\ UNCHANGED <<err, events, replies, invalid, subs, obuf, toServer, up, srv, lines, commands, ran>>

(* n commands fit into the socket's buffer. *)
HandleWrite(n) ==
  /\ Event("write") /\ ~err /\ n \in 0..Len(obuf) /\ (n = 0) = (obuf = << >>)
  /\ flags' = Connected /\ Tell
  /\ obuf' = SubSeq(obuf, n + 1, Len(obuf))
  /\ toServer' = IF up THEN toServer \o SubSeq(obuf, 1, n) ELSE toServer
  /\ events' = (IF obuf' = << >> THEN {} ELSE {"write"}) \union {"read"}
  /\ UNCHANGED <<pc, err, replies, invalid, subs, cb, buffer, toClient, up, srv, lines, commands, ran>>

-----------------------------------------------------------------------------
(* The server.                                                             *)

Client == <<pc, context, cb, commands, ran, told>>
Send(r) == toClient' = toClient \o <<Part, r>>

Serve ==
  /\ up /\ toServer # << >>
  /\ toServer' = Tail(toServer)
  /\ LET n == Head(toServer)
         c == commands[n]
         now == CASE c.kind = "subscribe" -> srv.subs \union {c.key}
                  [] c.kind = "unsubscribe" -> srv.subs \ {c.key}
                  [] OTHER -> srv.subs
     IN  /\ srv' = [subs |-> now, monitor |-> IF c.kind = "monitor" THEN n ELSE srv.monitor]
         /\ Send(IF c.key # NoKey THEN Reply(n, "array", c.kind, c.key, Cardinality(now))
                 ELSE Reply(n, IF now = {} THEN "status" ELSE "error", c.kind, NoKey, 0))
  /\ UNCHANGED <<Client, up, lines>>

(* A message of a channel, a line for a monitor, or the complaint about too *)
(* many clients.                                                            *)
Unasked ==
  /\ up /\ lines < program.lines /\ lines' = lines + 1
  /\ \/ \E k \in srv.subs : Send(Reply(0, "array", "message", k, 0)) /\ UNCHANGED up
     \/ srv.monitor # 0 /\ Send(Reply(srv.monitor, "status", "line", NoKey, 0)) /\ UNCHANGED up
     \/ Faults /\ toClient = << >> /\ Send(Complaint) /\ up' = FALSE
  /\ UNCHANGED <<Client, toServer, srv>>

Close == /\ Faults /\ up /\ up' = FALSE /\ toServer' = << >>
         /\ UNCHANGED <<Client, toClient, srv, lines>>

Library == RunPending \/ FreeDone \/ NoReply \/ GotReply \/ ReturnFromCallback \/ ReaderFails
Loop == ConnectFails \/ IOFails(Broken) \/ IOFails(Fault)
          \/ (\E n \in 1..Len(toClient) : HandleRead(n)) \/ (\E n \in 0..Len(obuf) : HandleWrite(n))
Calls == redisAsyncFree \/ redisAsyncDisconnect
           \/ \E c \in Commands : redisAsyncCommand(c.kind, c.key)
Next == /\ Calls \/ Library \/ Loop \/ Serve \/ Unasked \/ Close
        /\ UNCHANGED program
Spec == Init /\ [][Next]_vars

-----------------------------------------------------------------------------
(* What the server sends. *)
Replies ==
  {r \in [to : 0..MaxCommands, type : {"array", "status", "error"},
          kind : AllCalls \union {"message", "line", "none"},
          key : Keys \union {NoKey}, left : Nat] : r.type = "array" => r.key \in Keys}

TypedControl ==
  /\ program \in Programs
  /\ pc \in {"loop", "process", "callback", "free", "freecb", "freed", "aborted"}
  /\ flags \subseteq {"CONNECTED", "DISCONNECTING", "FREEING", "IN_CALLBACK",
                      "SUBSCRIBED", "MONITORING"}
  /\ err \in BOOLEAN /\ events \subseteq {"read", "write"} /\ up \in BOOLEAN
  /\ pc \in {"callback", "freecb"} <=> "IN_CALLBACK" \in flags
  /\ told \in Seq({"connect", "disconnect"} \X BOOLEAN)

CommandKinds == {"get", "forget", "subscribe", "unsubscribe", "monitor"}
TypedCommands ==
  /\ commands \in Seq([kind : CommandKinds, key : Keys \union {NoKey}])
  /\ Len(commands) <= program.commands
  /\ \A n \in 1..Len(commands) :
       (commands[n].key = NoKey) <=> (commands[n].kind \notin {"subscribe", "unsubscribe"})

(* Of an accepted command, or NoFn. *)
Number == 0..Len(commands)
TypedCallbacks ==
  /\ replies \in Seq(Number) /\ invalid \in Seq(Number)
  /\ subs \in [Keys -> Number] /\ cb \in Number
  /\ ran \in Seq([fn : Number \ {NoFn}, reply : Replies \union {NULL}])

TypedStream ==
  /\ obuf \in Seq(Number \ {NoFn}) /\ toServer \in Seq(Number \ {NoFn})
  /\ buffer \in Seq(Replies) /\ toClient \in Seq(Replies \union {Part})
  /\ srv \in [subs : SUBSET Keys, monitor : Number] /\ IsFiniteSet(srv.subs)

Typed == TypedControl /\ TypedCommands /\ TypedCallbacks /\ TypedStream
TypeOK == Typed /\ lines \in 0..program.lines

Kind(n) == commands[n].kind
Kinds == {Kind(n) : n \in DOMAIN commands}
Gets == {n \in DOMAIN commands : Kind(n) = "get"}
Runs(n) == {i \in DOMAIN ran : ran[i].fn = n}

(* A callback of a plain command gets that command's reply, NULL, or the     *)
(* server's complaint, once, and callbacks run in the order of the commands, *)
(* subscriptions and their messages notwithstanding.                        *)
PlainOrSub == Kinds \subseteq {"get", "forget", "subscribe"}
OwnReplies ==
  PlainOrSub =>
    /\ \A n \in Gets : \A i \in Runs(n) : ran[i].reply \in {NULL, Complaint} \/ ran[i].reply.to = n
    /\ \A i, j \in DOMAIN ran : i < j /\ ran[i].fn \in Gets /\ ran[j].fn \in Gets
                                  => ran[i].fn < ran[j].fn

(* The reply to a plain command is not lost either: whoever takes it from    *)
(* the reader runs that command's callback with it. async.c:454 makes one    *)
(* exception: when every command sent before the subscription is answered,   *)
(* an error reply to one sent after it ends the context, and its callback    *)
(* runs with NULL. No step of the context breaks either.                    *)
Takes(r) == PlainOrSub /\ buffer # << >> /\ r = Head(buffer) /\ buffer' = Tail(buffer)
              /\ r.to \in Gets
Passes(r) == ran' = Append(ran, [fn |-> r.to, reply |-> r])
EndsContext(r) == /\ r.type = "error" /\ replies = << >> /\ err' = TRUE
                  /\ \E m \in 1..(r.to - 1) : Kind(m) = "subscribe"
RepliesPassed == LET r == Head(buffer) IN Takes(r) => Passes(r) \/ EndsContext(r)
OwnReplyOnce == [][OwnReplies' /\ RepliesPassed]_vars

(* async.c:632-633 knows no exception: the error reply to a plain command on *)
(* a subscribed context "needs to be received and passed to the callback".  *)
(* The code does not keep that.                                             *)
RefusalPassed == [][LET r == Head(buffer) IN Takes(r) => Passes(r)]_vars

(* A subscriber's callback runs for the messages of its own channel only.   *)
OwnChannel ==
  PlainOrSub =>
    \A i \in DOMAIN ran : LET r == ran[i].reply IN
      r.type = "array" => /\ Kind(ran[i].fn) = "subscribe" /\ commands[ran[i].fn].key = r.key

(* README.md:300: no callback is forgotten when the context goes. *)
NoneForgotten ==
  pc = "freed" => \A n \in DOMAIN commands : Kind(n) \in {"get", "monitor"} => Runs(n) # {}

(* README.md:308-312: when the program disconnects and is told REDIS_OK,     *)
(* every command it had sent has been answered.                             *)
CleanMeansAnswered ==
  /\ Kinds \subseteq {"get", "forget"} /\ "FREEING" \notin flags
  /\ \E i \in DOMAIN told : told[i] = <<"disconnect", TRUE>>
  => \A n \in Gets : \E i \in Runs(n) : ran[i].reply # NULL

(* async.c:341: "make sure that pending callbacks cannot call new commands": *)
(* what runs while an error takes the context down has nothing accepted.    *)
QuietWhileFreeing == [][(pc \in {"free", "freecb"}) => commands' = commands]_vars

(* While the event loop waits, every command that is not answered has the   *)
(* hook it needs: writable until it is sent, readable from then on.         *)
HooksSet ==
  pc = "loop" /\ commands # << >> =>
    /\ obuf # << >> => "write" \in events
    /\ \A n \in Gets : Runs(n) = {} => ("read" \in events \/ \E i \in DOMAIN obuf : obuf[i] = n)

(* async.c:339, 461: the assertions fail only for a program that            *)
(* disconnects with replies outstanding, or unsubscribes.                   *)
AbortExplained ==
  pc = "aborted" => "DISCONNECTING" \in flags \/ "unsubscribe" \in Kinds

(* What comments of async.c say and the code does not keep: the assertions,  *)
(* and (async.c:426) that in monitor mode it is the monitor's callback that *)
(* is put back, to run for the next line.                                   *)
NotAborted == pc # "aborted"
MonitorKept == \A i \in DOMAIN replies : replies[i] # NoFn
=============================================================================
