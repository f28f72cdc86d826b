-------------------------------- MODULE Lists --------------------------------
(* What is left of a list when every occurrence of an element is taken out:  *)
(* the reply of redis's LREM key 0 element, as a recursive function.         *)
EXTENDS Integers, Sequences

Without(s, e) ==
    LET kept[i \in 0..Len(s)] ==
            IF i = 0 THEN << >>
            ELSE IF s[i] = e THEN kept[i - 1]
            ELSE Append(kept[i - 1], s[i])
    IN  kept[Len(s)]
=============================================================================
