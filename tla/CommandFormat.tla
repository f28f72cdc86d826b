---------------------------- MODULE CommandFormat ----------------------------
(***************************************************************************)
(* hiredis.c, redisvFormatCommand and the two functions for a list of      *)
(* arguments: a command is cut into arguments at the blanks of its format, *)
(* values are put in, and the protocol's bytes are written into a buffer   *)
(* whose size was computed beforehand. An element of the format is a       *)
(* character or a whole specifier; the value of each is chosen when it is  *)
(* reached.                                                                *)
(***************************************************************************)
EXTENDS Integers, SequencesExt

CONSTANTS Format, \* the formats of the program's calls
          Datum,  \* what %s and %b stand for, and the text of an integer
          MaxArgs, \* the longest list of arguments the program passes
          Faults  \* allocations may fail

Blank == "blank"
Terminator == "nul"
Specifier == {"%s", "%b", "%%", "%d",
              "%too long", \* a printf specifier that does not fit into _format
              "%?"}        \* not a specifier

VARIABLES formatter,                    \* history: the function the program called
          format, taken,                \* argument; history: what the specifiers stood for
          c, pc, curarg, touched, argv, totlen, \* locals; argc is Len(argv)
          live,                         \* the strings that have not been freed
          ret                           \* the result: bytes written, or -1, -2
formatVars == <<formatter, format, taken, c, pc, curarg, touched, argv, totlen, live, ret>>

FormatsRight == /\ \A f \in Format : f \in Seq(STRING)
                /\ \A v \in Datum : v \in Seq(STRING)
                /\ MaxArgs \in Nat

FormatInit == /\ formatter = "redisvFormatCommand"
              /\ format \in Format /\ taken = << >>
              /\ c = 1 /\ pc = "scan" /\ curarg = << >> /\ touched = FALSE
              /\ argv = << >> /\ totlen = 0 /\ live = 1 /\ ret = 0

-----------------------------------------------------------------------------
(* countDigits tries four digits in a turn of its loop. *)
UpToFour(v) == IF v < 10 THEN 1 ELSE IF v < 100 THEN 2 ELSE IF v < 1000 THEN 3 ELSE 4
NextTurn(v) == v \div 10000
countDigits(n) ==
  LET count[v \in 0..n] == IF NextTurn(v) = 0 THEN UpToFour(v) ELSE 4 + count[NextTurn(v)]
  IN  count[n]
bulklen(len) == 1 + countDigits(len) + 2 + len + 2

Here == format[c]
AddArgument == /\ argv' = Append(argv, curarg)
               /\ totlen' = totlen + bulklen(Len(curarg))

Touch == touched' = TRUE
Add(bytes) == curarg' = curarg \o bytes /\ Touch

(* A blank ends an argument that was begun; another string is started. *)
Separator ==
  /\ pc = "scan" /\ c <= Len(format) /\ Here = Blank
  /\ IF touched THEN AddArgument /\ curarg' = << >> /\ touched' = FALSE /\ live' = live + 1
     ELSE UNCHANGED <<argv, totlen, curarg, touched, live>>
  /\ c' = c + 1
  /\ UNCHANGED <<formatter, format, taken, pc, ret>>

Literal ==
  /\ pc = "scan" /\ c <= Len(format) /\ Here \notin Specifier \union {Blank}
  /\ Add(<<Here>>)
  /\ c' = c + 1
  /\ UNCHANGED <<formatter, format, taken, pc, argv, totlen, live, ret>>

(* What a specifier stands for: %s stops at the first NUL. An overlong one   *)
(* adds nothing, and its own characters are read again as text.             *)
CString(v) == SubSeq(v, 1, Min({i \in DOMAIN v : v[i] = Terminator} \union {Len(v) + 1}) - 1)
Meaning(spec, v) == CASE spec = "%s" -> CString(v)
                      [] spec \in {"%b", "%d"} -> v
                      [] spec = "%%" -> <<"%">>
                      [] spec = "%too long" -> <<"t", "o", "o">>
Valued == {"%s", "%b", "%d"}
Interpolate ==
  /\ pc = "scan" /\ c <= Len(format) /\ Here \in Specifier \ {"%?"}
  /\ \E v \in IF Here \in Valued THEN Datum ELSE {<< >>} :
       /\ Here = "%d" => ToSet(v) \subseteq {"1", "2"} /\ v # << >>
       /\ taken' = Append(taken, v)
       /\ Add(Meaning(Here, v))
  /\ c' = c + 1
  /\ UNCHANGED <<formatter, format, pc, argv, totlen, live, ret>>

(* The end of the format: the last argument, then the protocol's bytes;     *)
(* pos is where they end.                                                   *)
Decimal(n) ==
  LET text[v \in 0..n] == IF v < 10 THEN <<v>> ELSE Append(text[v \div 10], v % 10)
  IN  text[n]
CRLF == <<"\r", "\n">>
Bulk(a) == <<"$">> \o Decimal(Len(a)) \o CRLF \o a \o CRLF
Command(list) ==
  <<"*">> \o Decimal(Len(list)) \o CRLF \o FlattenSeq([i \in DOMAIN list |-> Bulk(list[i])])
Build ==
  /\ pc = "scan" /\ c > Len(format)
  /\ IF touched THEN AddArgument ELSE UNCHANGED <<argv, totlen>>
  /\ ret' = totlen' + 1 + countDigits(Len(argv')) + 2
  /\ pc' = IF Len(Command(argv')) = ret' THEN "done" ELSE "aborted"  \* assert(pos == totlen)
  /\ live' = live - Len(argv) - 1
  /\ UNCHANGED <<formatter, format, taken, c, curarg, touched>>

(* cleanup: the arguments are freed and the current one. *)
CleanupArgv(held) == Len(argv)  \* Mutant
Freed(held) == Len(argv) + held
Fail(error, held) == /\ pc' = "done" /\ ret' = error
                     /\ live' = live - Freed(held)
                     /\ UNCHANGED <<formatter, format, taken, c, curarg, touched, argv, totlen>>
FormatError == /\ pc = "scan" /\ c <= Len(format) /\ Here = "%?"
               /\ Fail(-2, 1)
(* Memory is short: for curarg or argv to grow, or for the string after it. *)
MemoryError ==
  /\ Faults /\ pc = "scan"
  /\ \/ Fail(-1, 1)
     \/ /\ c <= Len(format) /\ Here = Blank /\ touched
        /\ pc' = "done" /\ ret' = -1 /\ argv' = Append(argv, curarg)
        /\ live' = live - Len(argv')
        /\ UNCHANGED <<formatter, format, taken, c, curarg, touched, totlen>>

(* redisFormatCommandArgv and redisFormatSdsCommandArgv: as the format of a  *)
(* %b for each argument, or %s when no lengths are given. Both compute the  *)
(* size first and write the bytes into one buffer.                          *)
Formats(list, spec) == [i \in 1..2 * Len(list) |-> IF i % 2 = 1 THEN spec ELSE Blank]
Measure(list, spec) ==
  /\ pc = "scan" /\ format = << >>
  /\ format' = Formats(list, spec) /\ taken' = list
  /\ argv' = [i \in DOMAIN list |-> Meaning(spec, list[i])]
  /\ LET sum[i \in 0..Len(list)] == IF i = 0 THEN 1 + countDigits(Len(list)) + 2
                                   ELSE sum[i - 1] + bulklen(Len(argv'[i]))
     IN  totlen' = sum[Len(list)]
  /\ c' = Len(format') + 1
  /\ UNCHANGED <<curarg, touched>>
WriteBuffer == /\ ret' = totlen' /\ live' = 0
               /\ pc' = IF Len(Command(argv')) = ret' THEN "done" ELSE "aborted"
Refused(held) == Faults /\ pc' = "done" /\ ret' = -1 /\ live' = held

(* One malloc. *)
redisFormatCommandArgv(list, spec) == /\ Measure(list, spec)
                                      /\ formatter' = "redisFormatCommandArgv"
                                      /\ WriteBuffer \/ Refused(0)
(* sdsempty or sdsMakeRoomFor fails. The NULL of the second takes the place *)
(* of the first one's string, which nobody frees.                           *)
redisFormatSdsCommandArgv(list, spec) == /\ Measure(list, spec)
                                         /\ formatter' = "redisFormatSdsCommandArgv"
                                         /\ WriteBuffer \/ Refused(0) \/ Refused(1)

FormatNext == Separator \/ Literal \/ Interpolate \/ Build \/ FormatError \/ MemoryError
           \/ \E list \in BoundedSeq(Datum, MaxArgs), spec \in {"%s", "%b"} :
                redisFormatCommandArgv(list, spec) \/ redisFormatSdsCommandArgv(list, spec)
FormatSpec == FormatInit /\ [][FormatNext]_formatVars

-----------------------------------------------------------------------------
(* How many arguments a command has is up to its format alone: a value with *)
(* blanks or line ends in it, or an empty one, is one argument or a part of *)
(* one (vfs.c: names and URLs).                                             *)
Words == {i \in DOMAIN format : format[i] # Blank /\ (i > 1 => format[i - 1] = Blank)}
WordOf(i) == Cardinality({k \in Words : k <= i})
TextAt(i) == IF format[i] \in Specifier
             THEN Meaning(format[i], taken[Cardinality({k \in 1..i : format[k] \in Specifier})])
             ELSE <<format[i]>>
Expected ==
  [w \in 1..Cardinality(Words) |->
     FlattenSeq([i \in DOMAIN format |->
                   IF format[i] # Blank /\ WordOf(i) = w THEN TextAt(i) ELSE << >>])]
ArgumentsByFormat == (pc = "done" /\ ret > 0) => argv = Expected

(* hiredis.c: assert(pos == totlen): the buffer is as large as what is       *)
(* written.                                                                 *)
LengthRight == pc # "aborted"

(* When the call returns, nothing it allocated for itself is left: AllFreed, *)
(* which the code breaks, and NoLeak, which grants redisFormatSdsCommandArgv *)
(* the string it loses.                                                     *)
AllFreed == pc = "done" => live = 0
Lost == formatter = "redisFormatSdsCommandArgv" /\ ret = -1 /\ live = 1
NoLeak == pc = "done" => live = 0 \/ Lost

(* redisvFormatCommand, redisFormatCommandArgv, redisFormatSdsCommandArgv:   *)
(* all three, whatever blanks or line ends a value holds and whichever      *)
(* allocation of the first two fails; in the third a failed sdsMakeRoomFor  *)
(* (hiredis.c:500) loses one string.                                        *)
FormatRight == ArgumentsByFormat /\ LengthRight /\ NoLeak
=============================================================================
