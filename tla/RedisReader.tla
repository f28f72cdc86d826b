---------------------------- MODULE RedisReader ----------------------------
(***************************************************************************)
(* hiredis/read.c: the incremental parser of redis replies, with the reply *)
(* objects hiredis.c builds from it. The server's bytes arrive in chunks   *)
(* cut anywhere; redisReaderFeed appends a chunk to the buffer and         *)
(* redisReaderGetReply takes items off it until a reply is complete or the *)
(* next item is not. An iteration of its loop is a step here.              *)
(*                                                                         *)
(* A byte of the stream is a symbol. The text of a number is one symbol    *)
(* (Number gives its value), so a chunk may end anywhere but inside a      *)
(* number. A reply is the set of its objects, each with its path: the      *)
(* indices that lead to it from the root.                                  *)
(***************************************************************************)
EXTENDS Integers, Sequences

CONSTANTS Byte,      \* the symbols of the stream
          Number,    \* the symbols that are numbers, with their values
          Depth,     \* the last index of rstack (8)
          Discard,   \* consumed bytes at which the buffer is cut (1024)
          Message,   \* what the server may send: bytes, and the objects they stand
                     \* for (none: a breach of the protocol)
          MaxSent,   \* bound on the messages sent
          MayFail    \* whether an allocation may fail

TypeByte == [c \in {"-", "+", ":", "$", "*"} |->
               CASE c = "-" -> "error"
                 [] c = "+" -> "status"
                 [] c = ":" -> "integer"
                 [] c = "$" -> "string"
                 [] c = "*" -> "array"]
CR == "\r"
LF == "\n"

ASSUME NumberAssumption == \A s \in DOMAIN Number : Number[s] \in Int
ASSUME MessageAssumption == \A m \in Message : m.bytes \in Seq(Byte)
ASSUME BoundsAssumption == Depth \in Nat /\ Discard \in Nat /\ MaxSent \in Nat

VARIABLES buf, pos, err,  \* redisReader: buffer, cursor, sticky error
          ridx, rstack,   \* the index of the top of the task stack and the stack
          reply,          \* the objects of the reply under construction
          call,           \* redisReaderGetReply is running
          wire,           \* bytes on their way from the server
          sent, got       \* messages sent and replies handed out (history)

vars == <<buf, pos, err, ridx, rstack, reply, call, wire, sent, got>>

NoType == "none"
FreshTask(i) == [type |-> NoType, elements |-> -1, idx |-> i]

Init == /\ buf = << >> /\ pos = 0 /\ err = "none"
        /\ ridx = -1 /\ rstack = [i \in 0..Depth |-> FreshTask(-1)]
        /\ reply = {} /\ call = FALSE
        /\ wire = << >> /\ sent = << >> /\ got = << >>

(* The server sends a message. *)
Send(m) == /\ Len(sent) < MaxSent
           /\ wire' = wire \o m.bytes
           /\ sent' = Append(sent, m)
           /\ UNCHANGED <<buf, pos, err, ridx, rstack, reply, call, got>>

(* __redisReaderSetError: the half-built reply and the buffer are dropped. *)
SetError(e) == /\ err' = e
               /\ reply' = {} /\ buf' = << >> /\ pos' = 0
               /\ ridx' = -1 /\ UNCHANGED rstack

(* redisReaderFeed: once the reader has failed the chunk is thrown away. *)
Feed(n) ==
  /\ ~call
  /\ n \in 1..Len(wire)
  /\ wire' = SubSeq(wire, n + 1, Len(wire))
  /\ \/ /\ err = "none"
        /\ buf' = buf \o SubSeq(wire, 1, n)
        /\ UNCHANGED <<pos, err, ridx, rstack, reply>>
     \/ /\ err = "none" /\ MayFail
        /\ SetError("oom")
     \/ /\ err # "none"
        /\ UNCHANGED <<buf, pos, err, ridx, rstack, reply>>
  /\ UNCHANGED <<call, sent, got>>

(* redisReaderGetReply up to its loop. *)
GetReply == /\ ~call
            /\ err = "none" /\ buf # << >>
            /\ call' = TRUE
            /\ \/ ridx # -1 /\ UNCHANGED <<ridx, rstack>>
               \/ /\ ridx = -1 /\ ridx' = 0
                  /\ rstack' = [rstack EXCEPT ![0] = FreshTask(-1)]
            /\ UNCHANGED <<buf, pos, err, reply, wire, sent, got>>

-----------------------------------------------------------------------------
(* Reading the item at the cursor. *)

Cur == rstack[ridx]

Least(S) == CHOOSE i \in S : \A j \in S : i <= j
Largest(S) == CHOOSE i \in S : \A j \in S : i >= j

(* seekNewline: where the next CR LF is; a lone CR is skipped. *)
AnyCR == {i \in (pos + 1)..(Len(buf) - 1) : buf[i] = CR}  \* Mutant
Newlines == {i \in (pos + 1)..(Len(buf) - 1) : buf[i] = CR /\ buf[i + 1] = LF}
LineThere == Newlines # {}
seekNewline == Least(Newlines)
Line == SubSeq(buf, pos + 1, seekNewline - 1)

(* readLongLong: the number before the next CR; an empty text is 0 and any  *)
(* other text is -1.                                                        *)
readLongLong ==
  LET text == SubSeq(buf, pos + 1, Least({i \in (pos + 1)..Len(buf) : buf[i] = CR}) - 1)
  IN  IF text = << >> THEN 0
      ELSE IF Len(text) = 1 /\ text[1] \in DOMAIN Number THEN Number[text[1]] ELSE -1

(* The bytes of the bulk item at the cursor, both CR LF included. *)
BulkLength == seekNewline + 1 - pos + IF readLongLong < 0 THEN 0 ELSE readLongLong + 2
BulkThereLate == LineThere /\ pos + BulkLength < Len(buf)  \* Mutant
BulkThere == LineThere /\ pos + BulkLength <= Len(buf)

(* An item can be taken off the buffer. *)
ItemThere == IF Cur.type = "string" THEN BulkThere ELSE LineThere
TooDeep == Cur.type = "array" /\ ridx = Depth

(* moveToNextTask: arrays of which this was the last element are finished;  *)
(* the innermost one that is not goes on with its next element.             *)
UnfinishedOneMore == {i \in 1..ridx : rstack[i].idx # rstack[i - 1].elements}  \* Mutant
Unfinished == {i \in 1..ridx : rstack[i].idx # rstack[i - 1].elements - 1}
moveToNextTask ==
  \/ Unfinished = {} /\ ridx' = -1 /\ UNCHANGED rstack
  \/ /\ Unfinished # {}
     /\ ridx' = Largest(Unfinished)
     /\ rstack' = [rstack EXCEPT ![ridx'] = FreshTask(@.idx + 1)]

(* An object goes to the place of the parent that its task stands for. *)
Path == [i \in 1..ridx |-> rstack[i].idx]
Create(type, value) == reply' = reply \cup {<<Path, type, value>>}

-----------------------------------------------------------------------------
(* processItem *)

ReadType ==
  /\ call /\ ridx >= 0
  /\ Cur.type = NoType /\ pos < Len(buf)
  /\ \/ /\ buf[pos + 1] \in DOMAIN TypeByte
        /\ pos' = pos + 1
        /\ rstack' = [rstack EXCEPT ![ridx].type = TypeByte[buf[pos + 1]]]
        /\ UNCHANGED <<buf, err, ridx, reply>>
     \/ /\ buf[pos + 1] \notin DOMAIN TypeByte
        /\ SetError("protocol")
  /\ UNCHANGED <<call, wire, sent, got>>

processLineItem ==
  /\ call /\ ridx >= 0
  /\ Cur.type \in {"error", "status", "integer"} /\ ItemThere
  /\ pos' = seekNewline + 1
  /\ Create(Cur.type, IF Cur.type = "integer" THEN <<readLongLong>> ELSE Line)
  /\ moveToNextTask
  /\ UNCHANGED <<buf, err, call, wire, sent, got>>

processBulkItem ==
  /\ call /\ ridx >= 0
  /\ Cur.type = "string" /\ ItemThere
  /\ pos' = pos + BulkLength
  /\ \/ readLongLong < 0 /\ Create("nil", << >>)
     \/ /\ readLongLong >= 0
        /\ Create("string", SubSeq(buf, seekNewline + 2, seekNewline + 1 + readLongLong))
  /\ moveToNextTask
  /\ UNCHANGED <<buf, err, call, wire, sent, got>>

(* An array with elements puts a task for its first element on the stack. *)
processMultiBulkItem ==
  /\ call /\ ridx >= 0
  /\ Cur.type = "array" /\ ~TooDeep /\ ItemThere
  /\ pos' = seekNewline + 1
  /\ \/ /\ readLongLong = -1
        /\ Create("nil", << >>)
        /\ moveToNextTask
     \/ /\ readLongLong > 0
        /\ Create("array", <<readLongLong>>)
        /\ ridx' = ridx + 1
        /\ rstack' = [rstack EXCEPT ![ridx].elements = readLongLong,
                                    ![ridx + 1] = FreshTask(0)]
     \/ /\ readLongLong <= 0 /\ readLongLong # -1
        /\ Create("array", <<readLongLong>>)
        /\ moveToNextTask
  /\ UNCHANGED <<buf, err, call, wire, sent, got>>

NestedTooDeep ==
  /\ call /\ ridx >= 0 /\ TooDeep
  /\ SetError("protocol")
  /\ UNCHANGED <<call, wire, sent, got>>

(* The object of a complete item cannot be allocated. *)
CreateFails ==
  /\ MayFail
  /\ call /\ ridx >= 0
  /\ Cur.type # NoType /\ ~TooDeep /\ ItemThere
  /\ SetError("oom")
  /\ UNCHANGED <<call, wire, sent, got>>

(* redisReaderGetReply after its loop: the reply is complete, the next item *)
(* is not there yet, or the reader has failed.                              *)
Return ==
  /\ call /\ call' = FALSE
  /\ \/ ridx = -1
     \/ ridx >= 0 /\ Cur.type = NoType /\ pos = Len(buf)
     \/ ridx >= 0 /\ Cur.type # NoType /\ ~TooDeep /\ ~ItemThere
  /\ IF err = "none" /\ pos >= Discard
     THEN buf' = SubSeq(buf, pos + 1, Len(buf)) /\ pos' = 0
     ELSE UNCHANGED <<buf, pos>>
  /\ IF err = "none" /\ ridx = -1
     THEN got' = Append(got, reply) /\ reply' = {}
     ELSE UNCHANGED <<got, reply>>
  /\ UNCHANGED <<err, ridx, rstack, wire, sent>>

Item == ReadType \/ processLineItem \/ processBulkItem \/ processMultiBulkItem
          \/ NestedTooDeep \/ CreateFails
Arrive == \E n \in 1..Len(wire) : Feed(n)
Next == (\E m \in Message : Send(m)) \/ Arrive \/ GetReply \/ Item \/ Return

Spec == Init /\ [][Next]_vars

(* The program reads from its socket after every call that gave no reply    *)
(* (redisGetReply, redisAsyncHandleRead), so what keeps being on the wire   *)
(* between its calls arrives, and it goes on asking for replies.            *)
FairSpec == Spec /\ SF_vars(Arrive) /\ WF_vars(GetReply \/ Item \/ Return)

-----------------------------------------------------------------------------
(* The cursor stays in the buffer, the stack in its array, and the two      *)
(* assertions of moveToNextTask hold: every task above the root belongs to  *)
(* an array and stands for one of its elements.                             *)
TypeOK ==
  /\ buf \in Seq(Byte) /\ wire \in Seq(Byte)
  /\ pos \in 0..Len(buf)
  /\ ridx \in -1..Depth
  /\ rstack \in [0..Depth -> [type : {NoType} \cup {TypeByte[c] : c \in DOMAIN TypeByte},
                              elements : Int, idx : Int]]
  /\ call \in BOOLEAN
StackAsserted ==
  \A i \in 1..ridx : /\ rstack[i - 1].type = "array"
                     /\ 0 <= rstack[i].idx /\ rstack[i].idx < rstack[i - 1].elements

(* The program gets the replies the server sent, in order and each once,    *)
(* however the stream is cut into chunks: the reader implements ReplyStream.*)
Objects(m) == {m.objs[i] : i \in DOMAIN m.objs}
Stream == INSTANCE ReplyStream WITH
            Reply <- {Objects(m) : m \in Message} \ {{}},
            Broken <- {{}},
            sent <- [i \in DOMAIN sent |-> Objects(sent[i])],
            failed <- err # "none"
ImplementsStream == Stream!Spec

(* A protocol error is the server's: the message after the last reply       *)
(* handed out breaks the protocol. No chunking of good replies causes one.  *)
ErrorDeserved ==
  err = "protocol" => Len(got) < Len(sent) /\ Objects(sent[Len(got) + 1]) = {}

(* No reply is withheld: what has been sent is handed out unless the reader *)
(* has failed.                                                              *)
EventuallyDelivered ==
  \A i \in 1..MaxSent : Len(sent) >= i ~> Len(got) >= i \/ err # "none"
=============================================================================
