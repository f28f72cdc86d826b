------------------------------ MODULE SdsNumber ------------------------------
(***************************************************************************)
(* hiredis/sds.c, sdsll2str and sdsull2str: digits are written last first  *)
(* and then turned around, in a buffer of the caller. s[1] is its first    *)
(* byte; LLONG_MAX is the largest long long.                               *)
(***************************************************************************)
EXTENDS Integers, Sequences

CONSTANTS LLONG_MAX, SDS_LLSTR_SIZE

TenTo(n) == LET power[i \in 0..n] == IF i = 0 THEN 1 ELSE 10 * power[i - 1]
            IN  power[n]
(* A buffer of SDS_LLSTR_SIZE bytes is meant for a sign, the digits of the   *)
(* largest magnitude, and a terminator; 21 for 64 bits.                     *)
NumberRight == /\ LLONG_MAX \in Nat /\ SDS_LLSTR_SIZE \in Nat /\ SDS_LLSTR_SIZE >= 3
               /\ LLONG_MAX + 1 < TenTo(SDS_LLSTR_SIZE - 2)
               /\ 2 * LLONG_MAX + 1 < TenTo(SDS_LLSTR_SIZE - 1)

VARIABLES value, pc, v, s, lo, hi
vars == <<value, pc, v, s, lo, hi>>

Minus == -1
NUL == -2

(* -value wraps for the least number, whose magnitude the unsigned v holds. *)
Magnitude(n) == IF n < 0 THEN (-n) % (2 * LLONG_MAX + 2) ELSE n
Init == /\ value \in -LLONG_MAX - 1..2 * LLONG_MAX + 1  \* either type's numbers
        /\ pc = "digits" /\ v = Magnitude(value) /\ s = << >> /\ lo = 1 /\ hi = 0

Digit == /\ pc = "digits"
         /\ s' = Append(s, v % 10) /\ v' = v \div 10
         /\ pc' = IF v' = 0 THEN "sign" ELSE pc
         /\ UNCHANGED <<value, lo, hi>>
Sign == /\ pc = "sign"
        /\ LET t == IF value < 0 THEN Append(s, Minus) ELSE s
           IN  s' = Append(t, NUL) /\ hi' = Len(t)
        /\ pc' = "reverse"
        /\ UNCHANGED <<value, v, lo>>
Swap == /\ pc = "reverse" /\ lo < hi
        /\ s' = [s EXCEPT ![lo] = s[hi], ![hi] = s[lo]]
        /\ lo' = lo + 1 /\ hi' = hi - 1
        /\ UNCHANGED <<value, pc, v>>
Return == pc = "reverse" /\ lo >= hi /\ pc' = "done" /\ UNCHANGED <<value, v, s, lo, hi>>

Next == Digit \/ Sign \/ Swap \/ Return
Spec == Init /\ [][Next]_vars

-----------------------------------------------------------------------------
(* What is written reads back as the number, least number included, in the  *)
(* shortest form, and SDS_LLSTR_SIZE bytes hold it with its terminator.     *)
Read(digits) ==
  LET number[i \in 0..Len(digits)] == IF i = 0 THEN 0 ELSE 10 * number[i - 1] + digits[i]
  IN  number[Len(digits)]
Written == SubSeq(s, IF value < 0 THEN 2 ELSE 1, Len(s) - 1)
ReadsBack == pc = "done" =>
  /\ value < 0 => s[1] = Minus
  /\ s[Len(s)] = NUL
  /\ Written # << >> /\ \A i \in DOMAIN Written : Written[i] \in 0..9
  /\ Read(Written) = IF value < 0 THEN -value ELSE value
  /\ Len(Written) > 1 => Written[1] # 0
  /\ Len(s) <= SDS_LLSTR_SIZE
=============================================================================
