--------------------------- MODULE MCRedisReader ---------------------------
(***************************************************************************)
(* Instances of RedisReader: a redis server with a few replies, among them *)
(* nested and empty arrays, nils, strings that contain line ends, and what *)
(* breaks the protocol.                                                    *)
(***************************************************************************)
EXTENDS RedisReader, SequencesExt

MCByte == {"-", "+", ":", "$", "*", CR, LF, "a", "n-1", "n0", "n1", "n2"}
MCNumber == [s \in {"n-1", "n0", "n1", "n2"} |->
               CASE s = "n-1" -> -1 [] s = "n0" -> 0 [] s = "n1" -> 1 [] s = "n2" -> 2]
Symbol(n) == CHOOSE s \in DOMAIN MCNumber : MCNumber[s] = n

(* The bytes redis sends for an object. *)
Encode(o) ==
  CASE o[2] = "array" -> <<"*", Symbol(o[3][1]), CR, LF>>
    [] o[2] = "nil" -> <<"$", "n-1", CR, LF>>
    [] o[2] = "integer" -> <<":", Symbol(o[3][1]), CR, LF>>
    [] o[2] = "status" -> <<"+">> \o o[3] \o <<CR, LF>>
    [] o[2] = "error" -> <<"-">> \o o[3] \o <<CR, LF>>
    [] o[2] = "string" -> <<"$", Symbol(Len(o[3])), CR, LF>> \o o[3] \o <<CR, LF>>
Good(objs) == [objs |-> objs, bytes |-> FlattenSeq([i \in DOMAIN objs |-> Encode(objs[i])])]
Bad(bytes) == [objs |-> << >>, bytes |-> bytes]

Status == Good(<< << << >>, "status", <<"a">> >> >>)
Err == Good(<< << << >>, "error", <<CR>> >> >>)
LineEnd == Good(<< << << >>, "string", <<CR, LF>> >> >>)
Empty == Good(<< << << >>, "string", << >> >> >>)
Nil == Good(<< << << >>, "nil", << >> >> >>)
NilArray == [objs |-> Nil.objs, bytes |-> <<"*", "n-1", CR, LF>>]
NoElements == Good(<< << << >>, "array", <<0>> >> >>)
Pair == Good(<< << << >>, "array", <<2>> >>, << <<0>>, "integer", <<1>> >>,
                << <<1>>, "nil", << >> >> >>)
Nested == Good(<< << << >>, "array", <<2>> >>, << <<0>>, "array", <<2>> >>,
                  << <<0, 0>>, "string", <<"a">> >>, << <<0, 1>>, "array", <<0>> >>,
                  << <<1>>, "status", <<"a">> >> >>)
BadType == Bad(<<"a">>)
Deep == Bad(<<"*", "n1", CR, LF, "*", "n1", CR, LF, "*", "n1", CR, LF, "*">>)

Wellformed == {Status, Err, LineEnd, Empty, Nil, NilArray, NoElements, Pair, Nested}
AllMessages == Wellformed \cup {BadType, Deep}

=============================================================================
