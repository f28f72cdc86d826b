------------------------------- MODULE KeyMap -------------------------------
(***************************************************************************)
(* What hiredis/dict.c promises: a map from keys to values. answer is what *)
(* the last call returned.                                                 *)
(***************************************************************************)
EXTENDS Functions

CONSTANTS Keys, Values, NotFound
VARIABLES map, answer

Init == map = << >> /\ answer = TRUE

(* dictAdd refuses a key that is there; dictReplace updates it. *)
Add(k, v) ==
  /\ map' = IF k \in DOMAIN map THEN map ELSE [x \in DOMAIN map \union {k} |-> IF x = k THEN v ELSE map[x]]
  /\ answer' = (k \notin DOMAIN map)
Replace(k, v) ==
  /\ map' = [x \in DOMAIN map \union {k} |-> IF x = k THEN v ELSE map[x]]
  /\ answer' = (k \notin DOMAIN map)
Delete(k) == map' = Restrict(map, DOMAIN map \ {k}) /\ answer' = (k \in DOMAIN map)
Find(k) == map' = map /\ answer' = IF k \in DOMAIN map THEN map[k] ELSE NotFound
Clear == map' = << >> /\ answer' = TRUE

Next == \/ \E k \in Keys : Delete(k) \/ Find(k) \/ \E v \in Values : Add(k, v) \/ Replace(k, v)
        \/ Clear
Spec == Init /\ [][Next]_<<map, answer>>
=============================================================================
