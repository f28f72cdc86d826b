------------------------------- MODULE SdsSplit -------------------------------
(***************************************************************************)
(* hiredis/sds.c, sdssplitlen and sdsjoin: cutting a string at a separator *)
(* and putting it together again. One step is one turn of the loop.        *)
(***************************************************************************)
EXTENDS Integers, SequencesExt

CONSTANTS Byte,
          MaxLen, \* bound on the length of the string
          Faults  \* allocations may fail

VARIABLES string, sep,                    \* arguments
          pc, j, start, tokens, slots,    \* locals; elements is Len(tokens)
          live                            \* how many allocations have not been freed
vars == <<string, sep, pc, j, start, tokens, slots, live>>

Strings(n) == BoundedSeq(Byte, n)
Init == /\ string \in Strings(MaxLen) /\ sep \in Strings(2)
        /\ pc = "call" /\ j = 0 /\ start = 0 /\ tokens = << >> /\ slots = 5 /\ live = 0

Stop(how, freed) == pc' = how /\ live' = live - freed
Piece(a, b) == SubSeq(string, a + 1, b)
Cleanup == Stop("NULL", Len(tokens) + 1)

sdssplitlen ==
  /\ pc = "call"
  /\ \/ sep = << >> /\ Stop("NULL", 0)
     \/ Faults /\ sep # << >> /\ Stop("NULL", 0)
     \/ sep # << >> /\ live' = 1 /\ pc' = IF string = << >> THEN "tokens" ELSE "loop"
  /\ UNCHANGED <<string, sep, j, start, tokens, slots>>

AfterSep == j' = j + Len(sep) /\ start' = j + Len(sep)
Skip == j' = j + 1
(* The array of tokens grows ahead of the token after the next. *)
Full == slots < Len(tokens) + 2
Grown == IF Full THEN 2 * slots ELSE slots

Here == Piece(j, j + Len(sep)) = sep
More == j < Len(string) - (Len(sep) - 1)
Search ==
  /\ pc = "loop" /\ More
  /\ slots' = Grown
  /\ IF Here
     THEN /\ tokens' = Append(tokens, Piece(start, j)) /\ live' = live + 1
          /\ AfterSep
     ELSE Skip /\ UNCHANGED <<tokens, live, start>>
  /\ UNCHANGED <<string, sep, pc>>

Final ==
  /\ pc = "loop" /\ ~More
  /\ tokens' = Append(tokens, Piece(start, Len(string)))
  /\ Stop("tokens", -1)
  /\ UNCHANGED <<string, sep, j, start, slots>>

(* realloc or sdsnewlen returns NULL: what there is is freed. *)
OutOfMemory ==
  /\ Faults /\ pc = "loop" /\ (More => Full \/ Here)
  /\ Cleanup
  /\ tokens' = << >>
  /\ UNCHANGED <<string, sep, j, start, slots>>

(* sdsfreesplitres *)
Free == /\ pc = "tokens" /\ Stop("freed", Len(tokens) + 1)
        /\ UNCHANGED <<string, sep, j, start, tokens, slots>>

Next == sdssplitlen \/ Search \/ Final \/ OutOfMemory \/ Free
Spec == Init /\ [][Next]_vars

-----------------------------------------------------------------------------
sdsjoinsds(ts, with) ==
  LET join[n \in 0..Len(ts)] ==
        IF n = 0 THEN << >>
        ELSE join[n - 1] \o ts[n] \o (IF n # Len(ts) THEN with ELSE << >>)
  IN  join[Len(ts)]

(* Joining the tokens gives the string back, and no token holds a separator. *)
HasSep(t) == \E i \in 0..Len(t) - Len(sep) : SubSeq(t, i + 1, i + Len(sep)) = sep
JoinInverse ==
  pc = "tokens" => /\ sdsjoinsds(tokens, sep) = string
                   /\ \A i \in DOMAIN tokens : ~HasSep(tokens[i])

(* sds.c:690: "We are sure there is room in the tokens array." *)
RoomForFinal == Len(tokens) <= slots /\ (pc = "loop" => Len(tokens) < slots)

(* A call that returns NULL has freed what it had allocated, and so has     *)
(* sdsfreesplitres.                                                         *)
NoLeak == pc \in {"NULL", "freed"} => live = 0

SplitRight == JoinInverse /\ RoomForFinal /\ NoLeak

(* sds.c:646: "On [...] zero length string [...] NULL is returned." *)
EmptyGivesNULL == string = << >> => pc # "tokens"
=============================================================================
