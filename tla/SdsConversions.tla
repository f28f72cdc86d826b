--------------------------- MODULE SdsConversions ---------------------------
(***************************************************************************)
(* What hiredis/sds.c takes apart or writes and can put together again:    *)
(* splitting a string at a separator, splitting a line into arguments, and *)
(* writing a number. They share no state.                                  *)
(***************************************************************************)
EXTENDS Integers

CONSTANTS Letter, StringLength,       \* of the strings that are split
          Character, Lines, Arguments,
          LLONG_MAX, SDS_LLSTR_SIZE

VARIABLES string, sep, splitAt, splitJ, splitStart, tokens, slots, splitLive,
          args, line, argsAt, mode, argsP, current, vector, argsLive,
          number, numberAt, numberV, numberS, numberLo, numberHi
splitVars  == <<string, sep, splitAt, splitJ, splitStart, tokens, slots, splitLive>>
argsVars   == <<args, line, argsAt, mode, argsP, current, vector, argsLive>>
numberVars == <<number, numberAt, numberV, numberS, numberLo, numberHi>>

Cut == INSTANCE SdsSplit WITH Byte <- Letter, MaxLen <- StringLength, Faults <- TRUE,
                              pc <- splitAt, j <- splitJ, start <- splitStart, live <- splitLive
Arg == INSTANCE SdsArgs WITH Line <- Lines, Args <- Arguments,
                             pc <- argsAt, p <- argsP, live <- argsLive
Num == INSTANCE SdsNumber WITH value <- number, pc <- numberAt, v <- numberV, s <- numberS,
                               lo <- numberLo, hi <- numberHi

ConversionsAssumed == StringLength \in Nat /\ Arg!LinesRight /\ Num!NumberRight

-----------------------------------------------------------------------------
(* sdssplitlen: joining the tokens gives the string back and no token      *)
(* holds a separator; the array has room for the final token (sds.c:690:   *)
(* "We are sure there is room"). sdssplitargs: it reads back what          *)
(* sdscatrepr writes (sds.c:807) and splits an unquoted line at its        *)
(* blanks; it never passes the end of the line. Either returns NULL only   *)
(* with everything freed. sdsll2str: the number reads back, the least one  *)
(* included, in the shortest form.                                         *)
ConversionsRight == Cut!SplitRight /\ Arg!ArgsRight /\ Num!ReadsBack

(* sds.c:646 says of a string of length zero "NULL is returned"; the code  *)
(* gives an array of no tokens.                                            *)
EmptyGivesNULL == Cut!EmptyGivesNULL
=============================================================================
