---------------------------- MODULE RedisContext ----------------------------
(***************************************************************************)
(* hiredis.c, a blocking redisContext: commands are appended to an output  *)
(* buffer, written to the socket in pieces, executed by the server in the  *)
(* order they arrive, and answered over a stream that is read in pieces.   *)
(* The reader is what RedisReader is shown to implement: whole replies in  *)
(* order, or an error for good.                                            *)
(*                                                                         *)
(* The k-th command of the program is the number k; on the wire it and its *)
(* reply are Size bytes each. read and write may fail at any time (a       *)
(* timeout set with redisSetTimeout included) and the server may close the *)
(* connection.                                                             *)
(***************************************************************************)
EXTENDS Integers, Sequences, Lists, RedisError

CONSTANTS Size,        \* bytes of a command and of a reply
          MaxCommands, \* bound on the commands of the program
          MaxCalls,    \* bound on its calls that return a reply
          Faults       \* system calls and allocations may fail

ASSUME SizeAssumption == Size \in Nat \ {0} /\ MaxCommands \in Nat /\ MaxCalls \in Nat

VARIABLES pc,        \* "idle", or what redisGetReply is at: "write", "read"
          obuf,      \* redisContext: output buffer; err is its error
          inbuf,     \* the reader's buffer
          toServer, toClient, up, \* the connection
          issued, executed, results, \* history: commands appended, commands the
                                     \* server has executed, what the calls returned
          failedAt   \* commands appended before err was set

conn == <<toServer, toClient, up>>
vars == <<pc, obuf, err, inbuf, conn, issued, executed, results, failedAt>>

NULL == 0
Bytes(n) == [k \in 1..Size |-> n]
From(s, n) == SubSeq(s, n + 1, Len(s))

Init == /\ pc = "idle" /\ obuf = << >> /\ err = "none" /\ inbuf = << >>
        /\ toServer = << >> /\ toClient = << >> /\ up = TRUE
        /\ issued = 0 /\ executed = << >> /\ results = << >>
        /\ failedAt = MaxCommands

-----------------------------------------------------------------------------
(* Calls of the program.                                                   *)

Return(r) == pc' = "idle" /\ results' = Append(results, r)

(* __redisSetError: a later error replaces the type of an earlier one. *)
SetError(e) == /\ err' = e
               /\ failedAt' = IF err = "none" THEN issued ELSE failedAt

(* redisGetReply up to its loops: a reply the reader has already is handed  *)
(* out even after an error; otherwise redisBufferWrite, on a context with   *)
(* an error, fails before it does anything.                                 *)
ReplyThere(buf) == Len(buf) >= Size
GetReplyUnchecked ==  \* Mutant
  IF ReplyThere(inbuf)
  THEN Return(Head(inbuf)) /\ inbuf' = From(inbuf, Size)
  ELSE pc' = "write" /\ UNCHANGED <<inbuf, results>>
GetReply ==
  CASE ReplyThere(inbuf) -> Return(Head(inbuf)) /\ inbuf' = From(inbuf, Size)
    [] ~ReplyThere(inbuf) /\ err # "none" -> Return(NULL) /\ UNCHANGED inbuf
    [] OTHER -> pc' = "write" /\ UNCHANGED <<inbuf, results>>

AppendCommand == /\ issued < MaxCommands
                 /\ issued' = issued + 1
                 /\ obuf' = obuf \o Bytes(issued + 1)

redisAppendCommand ==
  /\ pc = "idle"
  /\ AppendCommand
  /\ UNCHANGED <<pc, err, inbuf, conn, executed, results, failedAt>>

(* The program asks for no more replies than it has appended commands. *)
Answers == Without(results, NULL)
redisGetReply ==
  /\ pc = "idle" /\ Len(results) < MaxCalls
  /\ Len(Answers) < issued
  /\ GetReply
  /\ UNCHANGED <<obuf, err, conn, issued, executed, failedAt>>

redisCommand ==
  /\ pc = "idle" /\ Len(results) < MaxCalls
  /\ AppendCommand
  /\ GetReply
  /\ UNCHANGED <<err, conn, executed, failedAt>>

(* The command cannot be formatted, or memory is short: nothing is appended. *)
redisCommandFails ==
  /\ Faults /\ pc = "idle" /\ Len(results) < MaxCalls
  /\ \E e \in {"oom", "other"} : SetError(e)
  /\ Return(NULL)
  /\ UNCHANGED <<obuf, inbuf, conn, issued, executed>>

-----------------------------------------------------------------------------
(* redisGetReply: write until done, then read until there is a reply.      *)

(* One call of write(2); what is written to a closed connection is lost. An *)
(* interrupted call is repeated.                                            *)
WriteForgets(n) ==  \* Mutant
  /\ pc = "write" /\ n \in 1..Len(obuf)
  /\ obuf' = << >>
  /\ toServer' = IF up THEN toServer \o SubSeq(obuf, 1, n) ELSE toServer
  /\ UNCHANGED <<pc, err, inbuf, toClient, up, issued, executed, results, failedAt>>
Write(n) ==
  /\ pc = "write" /\ n \in 1..Len(obuf)
  /\ obuf' = From(obuf, n)
  /\ toServer' = IF up THEN toServer \o SubSeq(obuf, 1, n) ELSE toServer
  /\ UNCHANGED <<pc, err, inbuf, toClient, up, issued, executed, results, failedAt>>

WriteDone ==
  /\ pc = "write" /\ obuf = << >>
  /\ pc' = "read"
  /\ UNCHANGED <<obuf, err, inbuf, conn, issued, executed, results, failedAt>>

ReadDropsRest(n) ==  \* Mutant: what follows the reply is dropped
  /\ pc = "read" /\ n \in 1..Len(toClient)
  /\ toClient' = From(toClient, n)
  /\ LET buf == inbuf \o SubSeq(toClient, 1, n)
     IN  \/ ReplyThere(buf) /\ Return(Head(buf)) /\ inbuf' = << >>
         \/ ~ReplyThere(buf) /\ inbuf' = buf /\ UNCHANGED <<pc, results>>
  /\ UNCHANGED <<obuf, err, toServer, up, issued, executed, failedAt>>
(* One call of read(2), fed to the reader. *)
Read(n) ==
  /\ pc = "read" /\ n \in 1..Len(toClient)
  /\ toClient' = From(toClient, n)
  /\ LET buf == inbuf \o SubSeq(toClient, 1, n)
     IN  \/ ReplyThere(buf) /\ Return(Head(buf)) /\ inbuf' = From(buf, Size)
         \/ ~ReplyThere(buf) /\ inbuf' = buf /\ UNCHANGED <<pc, results>>
  /\ UNCHANGED <<obuf, err, toServer, up, issued, executed, failedAt>>

ReadEOFSilent ==  \* Mutant
  /\ pc = "read" /\ ~up /\ toClient = << >>
  /\ Return(NULL)
  /\ UNCHANGED <<obuf, err, inbuf, conn, issued, executed, failedAt>>
ReadEOF ==
  /\ pc = "read" /\ ~up /\ toClient = << >>
  /\ SetError("eof") /\ Return(NULL)
  /\ UNCHANGED <<obuf, inbuf, conn, issued, executed>>

(* read or write fails or times out; or the reader fails, which drops what  *)
(* it has.                                                                  *)
IOFails ==
  /\ Faults /\ pc \in {"write", "read"}
  /\ \/ SetError("io") /\ UNCHANGED inbuf
     \/ pc = "read" /\ SetError("protocol") /\ inbuf' = << >>
  /\ Return(NULL)
  /\ UNCHANGED <<obuf, conn, issued, executed>>

-----------------------------------------------------------------------------
(* The server takes whole commands off the stream, in order; it may close   *)
(* the connection, and what has not been read by then may be lost.          *)
Execute ==
  /\ up /\ Len(toServer) >= Size
  /\ executed' = Append(executed, Head(toServer))
  /\ toServer' = From(toServer, Size)
  /\ toClient' = toClient \o Bytes(Head(toServer))
  /\ UNCHANGED <<pc, obuf, err, inbuf, up, issued, results, failedAt>>

Close ==
  /\ Faults /\ up /\ up' = FALSE
  /\ toServer' = << >>
  /\ \E n \in 0..Len(toClient) : toClient' = SubSeq(toClient, 1, n)
  /\ UNCHANGED <<pc, obuf, err, inbuf, issued, executed, results, failedAt>>

InCall == (\E n \in 1..Len(obuf) : Write(n)) \/ WriteDone
            \/ (\E n \in 1..Len(toClient) : Read(n)) \/ ReadEOF
Next == redisAppendCommand \/ redisGetReply \/ redisCommand \/ redisCommandFails
          \/ InCall \/ IOFails \/ Execute \/ Close
Spec == Init /\ [][Next]_vars
(* A call that can go on goes on, and the server serves what it has; no     *)
(* system call has to fail.                                                 *)
FairSpec == Spec /\ WF_vars(InCall) /\ WF_vars(Execute)

-----------------------------------------------------------------------------
TypeOK == /\ pc \in {"idle", "write", "read"}
          /\ err \in {"none", "io", "eof", "protocol", "oom", "other"}
          /\ issued \in 0..MaxCommands
          /\ \A buf \in {obuf, toServer, toClient, inbuf} : buf \in Seq(1..MaxCommands)
          /\ results \in Seq(0..MaxCommands) /\ executed \in Seq(1..MaxCommands)

(* The server executes the program's commands in order, none twice and none *)
(* left out: what a lost connection leaves in redis is a prefix of what the *)
(* program sent (vfs.c: no HMSET of a creation without its LPUSH).          *)
ExecutedIsPrefix == executed = [i \in 1..Len(executed) |-> i]

(* Replies come out in the order of the commands, each once: with the       *)
(* reader this is ReplyStream.                                              *)
Stream == INSTANCE ReplyStream WITH
            Reply <- 1..MaxCommands, Broken <- {},
            sent <- executed, got <- Answers, failed <- FALSE
ImplementsStream == Stream!Spec

(* A call made after the context has an error reaches nobody: the writes of *)
(* vfs.c are dropped without a word from then on.                           *)
NothingAfterError == \A i \in DOMAIN executed : executed[i] <= failedAt

(* hiredis.c:945: NULL is returned only when the context has an error. *)
NullMeansError == (\E i \in DOMAIN results : results[i] = NULL) => err # "none"

(* Every call returns: with a reply, or NULL when the connection is gone.   *)
CallReturns == pc # "idle" ~> pc = "idle"
=============================================================================
