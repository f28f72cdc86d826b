----------------------------- MODULE ByteString -----------------------------
(***************************************************************************)
(* What the calls of hiredis/sds.c do to the string they are given, without *)
(* a buffer: value is the string, call the last call with its arguments.   *)
(***************************************************************************)
EXTENDS Integers, Sequences, FiniteSetsExt

CONSTANTS NUL, Lower(_)
VARIABLES value, call

At(v, i) == IF i < 0 THEN Max({0, Len(v) + i}) ELSE i
Kept(v, cset) == {i \in DOMAIN v : v[i] \notin cset \union {NUL}}
Span(v, S) == IF S = {} THEN << >> ELSE SubSeq(v, Min(S), Max(S))
Mapped(v, from, to) ==
  [i \in DOMAIN v |-> LET hits == {j \in DOMAIN from : from[j] = v[i]}
                      IN  IF hits = {} THEN v[i] ELSE to[Min(hits)]]

Apply(v, op, x, y) ==
  CASE op = "cat" -> v \o x
    [] op = "cpy" -> x
    [] op = "clear" -> << >>
    [] op = "growzero" -> v \o [i \in 1..x - Len(v) |-> NUL]
    [] op = "range" -> Span(v, {i \in DOMAIN v : At(v, x) < i /\ i <= At(v, y) + 1})
    [] op = "trim" -> Span(v, Kept(v, x))
    [] op = "cut" -> SubSeq(v, 1, Len(v) - x)
    [] op = "cstring" -> SubSeq(v, 1, Min({i \in DOMAIN v : v[i] = NUL} \union {Len(v) + 1}) - 1)
    [] op = "lower" -> [i \in DOMAIN v |-> Lower(v[i])]
    [] op = "map" -> Mapped(v, x, y)
    [] op = "room" -> v

Init == value \in Seq(Int) /\ call = <<"new", 0, 0>>
Next == call'[1] # "new" /\ value' = Apply(value, call'[1], call'[2], call'[3])
Spec == Init /\ [][Next]_<<value, call>>
=============================================================================
