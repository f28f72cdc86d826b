------------------------------- MODULE SdsArgs -------------------------------
(***************************************************************************)
(* hiredis/sds.c, sdssplitargs and sdscatrepr: a line is split into        *)
(* arguments that may be quoted, and a string is written as a quoted one.  *)
(* A character is a name; "n" is a letter and the escape of "lf", the      *)
(* blanks are " " and "lf", "0" and "1" are the hex digits, "nul" and "hi" *)
(* the bytes 00 and 01, neither of them printable.                         *)
(***************************************************************************)
EXTENDS Integers, SequencesExt

CONSTANTS Character, \* what lines and strings are made of
          Line,      \* lines to split
          Args       \* sequences of arguments, written with sdscatrepr

VARIABLES args, line,            \* args is NoArgs for a line that was just typed
          pc, mode, p, current, vector, \* locals; mode is inq and insq
          live                   \* how many strings have not been freed
vars == <<args, line, pc, mode, p, current, vector, live>>

Space == {" ", "lf"}
Unprintable == {"lf", "nul", "hi"}
HexDigit == {"0", "1"}
HexByte == [d \in {<<"0", "0">>, <<"0", "1">>} |-> IF d[2] = "0" THEN "nul" ELSE "hi"]
Escaped(c) == IF c = "n" THEN "lf" ELSE c

-----------------------------------------------------------------------------
(* sdscatrepr *)
ReprOf(c) == CASE c \in {"\\", "\""} -> <<"\\", c>>
               [] c = "lf" -> <<"\\", "n">>
               [] c = "nul" -> <<"\\", "x", "0", "0">>
               [] c = "hi" -> <<"\\", "x", "0", "1">>
               [] OTHER -> <<c>>
sdscatrepr(s) == <<"\"">> \o FlattenSeq([i \in DOMAIN s |-> ReprOf(s[i])]) \o <<"\"">>
Joined(as) == FlattenSeq([i \in DOMAIN as |-> sdscatrepr(as[i]) \o <<" ">>])

NoArgs == << >>
Init == /\ \/ args = NoArgs /\ line \in Line
           \/ args \in Args /\ line = Joined(args)
        /\ pc = "blanks" /\ mode = "plain" /\ p = 1 /\ current = << >> /\ vector = << >> /\ live = 0

-----------------------------------------------------------------------------
End == "end"  \* the terminator of the line
At(i) == IF i <= Len(line) THEN line[i] ELSE End
LinesRight == /\ End \notin Character
              /\ Line \subseteq Seq(Character) /\ Args \subseteq Seq(Seq(Character))

Blank == /\ pc = "blanks" /\ At(p) \in Space
         /\ p' = p + 1
         /\ UNCHANGED <<args, line, pc, mode, current, vector, live>>
Start == /\ pc = "blanks" /\ At(p) \notin Space \union {End}
         /\ pc' = "token" /\ mode' = "plain" /\ current' = << >> /\ live' = live + 1
         /\ UNCHANGED <<args, line, p, vector>>
Return == /\ pc = "blanks" /\ At(p) = End
          /\ pc' = "vector"
          /\ UNCHANGED <<args, line, mode, p, current, vector, live>>

(* One turn of the inner loop: m is the mode after it, n characters are     *)
(* passed over, the last one unless it is the end of the line.              *)
Turn(m, add, n) ==
  /\ mode' = m /\ current' = current \o add
  /\ p' = IF At(p + n - 1) = End THEN p + n - 1 ELSE p + n
  /\ UNCHANGED <<args, line, pc, vector, live>>
TokenDone ==
  /\ vector' = Append(vector, current)
  /\ p' = IF At(p) = End THEN p ELSE p + 1
  /\ pc' = "blanks"
  /\ UNCHANGED <<args, line, mode, current, live>>
ErrForgets ==  \* Mutant
  /\ pc' = "NULL" /\ vector' = << >> /\ live' = live - Len(vector)
  /\ UNCHANGED <<args, line, mode, p, current>>
Err == /\ pc' = "NULL" /\ vector' = << >> /\ live' = live - Len(vector) - 1
       /\ UNCHANGED <<args, line, mode, p, current>>
(* A closing quote must be followed by a blank or nothing at all. *)
Close == IF At(p + 1) \in Space \union {End} THEN TokenDone ELSE Err

HexHere == /\ At(p + 1) = "x" /\ At(p + 2) \in HexDigit /\ At(p + 3) \in HexDigit
InQuotes ==
  /\ pc = "token" /\ mode = "quotes"
  /\ CASE At(p) = "\\" /\ HexHere ->
            LET digits == <<At(p + 2), At(p + 3)>>
            IN  Turn(mode, <<IF digits \in DOMAIN HexByte THEN HexByte[digits] ELSE "byte">>, 4)
       [] At(p) = "\\" /\ ~HexHere /\ At(p + 1) # End -> Turn(mode, <<Escaped(At(p + 1))>>, 2)
       [] At(p) = "\"" -> Close
       [] At(p) = End -> Err
       [] OTHER -> Turn(mode, <<At(p)>>, 1)

InSingleQuotes ==
  /\ pc = "token" /\ mode = "single"
  /\ CASE At(p) = "\\" /\ At(p + 1) = "'" -> Turn(mode, <<"'">>, 2)
       [] At(p) = "'" -> Close
       [] At(p) = End -> Err
       [] OTHER -> Turn(mode, <<At(p)>>, 1)

Plain ==
  /\ pc = "token" /\ mode = "plain"
  /\ CASE At(p) \in Space \union {End} -> TokenDone
       [] At(p) = "\"" -> Turn("quotes", << >>, 1)
       [] At(p) = "'" -> Turn("single", << >>, 1)
       [] OTHER -> Turn(mode, <<At(p)>>, 1)

Next == Blank \/ Start \/ Return \/ InQuotes \/ InSingleQuotes \/ Plain
Spec == Init /\ [][Next]_vars

-----------------------------------------------------------------------------
(* sds.c: "sdscatrepr() is able to convert back a string into a quoted      *)
(* string in the same format sdssplitargs() is able to parse".              *)
RoundTrip == pc \in {"vector", "NULL"} /\ args # NoArgs => pc = "vector" /\ vector = args

(* A line without quotes is its runs of characters between blanks, in their *)
(* order.                                                                   *)
Starts == {i \in DOMAIN line : line[i] \notin Space /\ (i > 1 => line[i - 1] \in Space)}
Run(i) == SubSeq(line, i, Min({j \in i..Len(line) + 1 : At(j) \in Space \union {End}}) - 1)
PlainTokens ==
  pc = "vector" /\ {"\"", "'"} \intersect ToSet(line) = {} =>
    /\ Len(vector) = Cardinality(Starts)
    /\ \A i \in Starts : vector[Cardinality({j \in Starts : j <= i})] = Run(i)

(* The scan never passes the end of the line, and NULL leaves nothing behind. *)
InBounds == p <= Len(line) + 1
NoLeak == live = IF pc = "NULL" THEN 0 ELSE Len(vector) + (IF pc = "token" THEN 1 ELSE 0)

ArgsRight == RoundTrip /\ PlainTokens /\ InBounds /\ NoLeak
=============================================================================
