--------------------------- MODULE MCHiredisParts ---------------------------
(***************************************************************************)
(* The parts of hiredis that share no state, side by side: the reply       *)
(* parser, the hash table, the strings and the command formatter. A        *)
(* behaviour exercises one of them, part, with its small instance; the     *)
(* others stay in one of their initial states. (async.c uses the hash      *)
(* table, hiredis.c the parser and the formatter, on data of their own.)   *)
(* The properties are those of the parts' modules, each of them true while *)
(* another part is exercised.                                              *)
(***************************************************************************)
EXTENDS MCRedisReader, CommandFormat, Dict, Sds, SdsConversions

CONSTANTS k1, k2, k3, v1, v2 \* keys and values of the hash table

VARIABLE part
allVars == <<part, vars, hashVars, sdsVars, splitVars, argsVars, numberVars, formatVars>>

-----------------------------------------------------------------------------
(* Keys that share a slot before and after an expansion. *)
MCKeys == {k1, k2, k3}
MCValues == {v1, v2}
MCHash == (k1 :> 1) @@ (k2 :> 3) @@ (k3 :> 5)
ASSUME HashAssumption == HashRight

(* NUL, a letter and its capital. *)
MCText == {<< >>, <<0>>, <<2>>, <<1, 2>>}
MCLower(b) == IF b = 2 THEN 1 ELSE b
MCEnds == {-4, -1, 0, 1, 3}
ASSUME SdsAssumption == SdsRight

(* Strings of two letters, up to seven of them: more tokens than the array *)
(* of them has at first. Short lines of every kind of character, and pairs  *)
(* of short arguments. An eight-bit long long: four characters and the      *)
(* terminator.                                                              *)
Typed == {"n", "x", "0", " ", "\"", "'", "\\"}
MCCharacter == Typed \union {"lf", "nul", "hi"}
MCLines == BoundedSeq(Typed, 4) \union
             {<<"\"", "\\">> \o t : t \in BoundedSeq({"x", "0", "\""}, 4)}
Short == BoundedSeq(MCCharacter, 2)
MCArguments == {<<x>> : x \in Short} \union
                 {<<x, <<y>>>> : x \in Short, y \in {"nul", "\\", "\"", " "}}
ASSUME ConversionsAssumption == ConversionsAssumed

(* Formats of up to three elements, also with two blanks between them; a    *)
(* value of ten bytes needs two digits.                                    *)
MCFormat == LET Sp == "blank"
            IN  BoundedSeq({"a", Sp, "%s", "%b", "%d", "%?"}, 3)
                  \union BoundedSeq({"a", Sp, "%%", "%too long"}, 3)
                  \union {<<x, Sp, Sp, y>> : x, y \in {"a", "%s", "%?"}}
MCDatum == {<< >>, <<"a", "blank">>, <<"a", "nul", "a">>, <<"1">>, <<"1", "2">>,
            [i \in 1..10 |-> "a"]}
ASSUME FormatsAssumption == FormatsRight

-----------------------------------------------------------------------------
PartsInit ==
  /\ part \in {"reader", "dict", "string", "split", "args", "number", "format"}
  /\ Init /\ HashInit
  /\ (part # "string" => s = sdsnewlen(<< >>))          /\ SdsInit
  /\ (part # "split" => string = << >> /\ sep = << >>)  /\ Cut!Init
  /\ (part # "args" => line = << >> /\ args = << >>)    /\ Arg!Init
  /\ (part # "number" => number = 0)                    /\ Num!Init
  /\ (part # "format" => format = << >>)                /\ FormatInit

Only(name, step, others) == part = name /\ step /\ UNCHANGED <<part, others>>

Reader(step) ==
  Only("reader", step, <<hashVars, sdsVars, splitVars, argsVars, numberVars, formatVars>>)

PartsNext ==
  \/ Reader(Next)
  \/ Only("dict", HashNext, <<vars, sdsVars, splitVars, argsVars, numberVars, formatVars>>)
  \/ Only("string", SdsNext, <<vars, hashVars, splitVars, argsVars, numberVars, formatVars>>)
  \/ Only("split", Cut!Next, <<vars, hashVars, sdsVars, argsVars, numberVars, formatVars>>)
  \/ Only("args", Arg!Next, <<vars, hashVars, sdsVars, splitVars, numberVars, formatVars>>)
  \/ Only("number", Num!Next, <<vars, hashVars, sdsVars, splitVars, argsVars, formatVars>>)
  \/ Only("format", FormatNext, <<vars, hashVars, sdsVars, splitVars, argsVars, numberVars>>)

(* The fairness of FairSpec of RedisReader. *)
PartsSpec ==
  /\ PartsInit /\ [][PartsNext]_allVars
  /\ SF_allVars(Reader(Arrive)) /\ WF_allVars(Reader(GetReply \/ Item \/ Return))

=============================================================================
