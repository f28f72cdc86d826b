--------------------------------- MODULE Sds ---------------------------------
(***************************************************************************)
(* hiredis/sds.c: a string in a buffer that grows, with the calls that     *)
(* change it. s is the header and the buffer: mem[1] is the first byte.    *)
(* What lies behind the terminator is Junk: no caller may depend on it.    *)
(***************************************************************************)
EXTENDS Integers, SequencesExt

CONSTANTS SdsByte, \* the bytes of strings, NUL among them
          Text,    \* the strings of the program's calls
          Lower(_), \* tolower
          SDS_MAX_PREALLOC,
          MaxLen,  \* bound on the length of s
          Ends     \* what sdsrange is given

NUL == 0
Junk == -1

SdsRight == /\ SdsByte \in SUBSET Nat /\ NUL \in SdsByte /\ Text \in SUBSET Seq(SdsByte)
            /\ \A b \in SdsByte : Lower(b) \in SdsByte
            /\ SDS_MAX_PREALLOC \in Nat /\ MaxLen \in Nat /\ Ends \in SUBSET Int

VARIABLES s, sdsCall
sdsVars == <<s, sdsCall>>

Fill(n, b) == [i \in 1..n |-> b]

(* sdsnewlen: malloc and a copy, or calloc. *)
sdsnewlen(t) == [mem |-> t \o <<NUL>>, len |-> Len(t), free |-> 0, alloc |-> Len(t) + 1]
SdsInit == /\ s \in {sdsnewlen(t) : t \in Text \union {Fill(n, NUL) : n \in 0..MaxLen}}
           /\ sdsCall = <<"new", 0, 0>>

-----------------------------------------------------------------------------
(* Writing at an offset, even past the end of the buffer. *)
Write(r, at, t) ==
  [r EXCEPT !.mem = [i \in 1..Max({Len(@), at + Len(t)}) |->
                       IF i > at /\ i <= at + Len(t) THEN t[i - at] ELSE @[i]]]
SetLen(r, n) == [r EXCEPT !.len = n, !.free = r.len + r.free - n]
(* A new length with the terminator behind it. *)
EndAt(r, n) == SetLen(Write(r, n, <<NUL>>), n)

Realloc(r, n) == [r EXCEPT !.mem = [i \in 1..n |-> IF i \in DOMAIN @ THEN @[i] ELSE Junk],
                           !.alloc = n, !.free = n - 1 - r.len]
Preallocated(n) == IF n < SDS_MAX_PREALLOC THEN 2 * n ELSE n + SDS_MAX_PREALLOC
sdsMakeRoomForLess(r, n) ==  \* Mutant
  IF r.free + 1 >= n THEN r ELSE Realloc(r, Preallocated(r.len + n) + 1)
sdsMakeRoomFor(r, n) ==
  IF r.free >= n THEN r ELSE Realloc(r, Preallocated(r.len + n) + 1)
sdsRemoveFreeSpace(r) == Realloc(r, r.len + 1)

sdscatlen(r, t) ==
  EndAt(Write(sdsMakeRoomFor(r, Len(t)), r.len, t), r.len + Len(t))
sdscpylen(r, t) ==
  LET roomy == IF r.free + r.len < Len(t) THEN sdsMakeRoomFor(r, Len(t) - r.len) ELSE r
  IN  EndAt(Write(roomy, 0, t), Len(t))
sdsgrowzero(r, n) ==
  IF n <= r.len THEN r
  ELSE SetLen(Write(sdsMakeRoomFor(r, n - r.len), r.len, Fill(n - r.len + 1, NUL)), n)

(* sdscatfmt: a piece is a byte of the format or what a specifier stands    *)
(* for. The terminator is written at the end only.                          *)
Piece(r, t) == LET r1 == IF r.free = 0 THEN sdsMakeRoomFor(r, 1) ELSE r
                   r2 == IF r1.free < Len(t) THEN sdsMakeRoomFor(r1, Len(t)) ELSE r1
               IN  SetLen(Write(r2, r2.len, t), r2.len + Len(t))
sdscatfmt(r, pieces) ==
  LET after[i \in 0..Len(pieces)] == IF i = 0 THEN r ELSE Piece(after[i - 1], pieces[i])
      all == after[Len(pieces)]
  IN  EndAt(all, all.len)

(* sdsrange: negative ends count from the back. *)
FromBack(r, i) == IF i < 0 THEN Max({0, r.len + i}) ELSE i
sdsrangePast(r, a, b) ==  \* Mutant
  LET start == FromBack(r, a)
      end == FromBack(r, b)
      n == IF start > end THEN 0 ELSE end - start + 1
  IN  IF r.len = 0 THEN r ELSE EndAt(Write(r, 0, SubSeq(r.mem, start + 1, start + n)), n)
sdsrange(r, a, b) ==
  LET start == FromBack(r, a)
      end == IF FromBack(r, b) >= r.len THEN r.len - 1 ELSE FromBack(r, b)
      n == IF start > end THEN 0 ELSE end - start + 1
  IN  IF r.len = 0 THEN r ELSE EndAt(Write(r, 0, SubSeq(r.mem, start + 1, start + n)), n)

(* sdstrim: strchr finds the terminator of cset too, so NUL is trimmed.     *)
Trimmed(r, cset, i) == r.mem[i] \in cset \union {NUL}
sdstrim(r, cset) ==
  LET sp == Min({i \in 1..r.len : ~Trimmed(r, cset, i)} \union {r.len + 1})
      ep == Max({i \in 2..r.len : ~Trimmed(r, cset, i)} \union {IF r.len = 0 THEN 0 ELSE 1})
      n == IF sp > ep THEN 0 ELSE ep - sp + 1
  IN  EndAt(Write(r, 0, SubSeq(r.mem, sp, sp + n - 1)), n)

(* sdsupdatelen, after the program has written a terminator into s. *)
sdsupdatelen(r) == SetLen(r, SelectInSeq(r.mem, LAMBDA b : b = NUL) - 1)

(* sdstolower, sdsmapchars: byte by byte. *)
Each(r, F(_)) == [r EXCEPT !.mem = [i \in DOMAIN @ |-> IF i <= r.len THEN F(@[i]) ELSE @[i]]]
sdsmapchars(r, from, to) ==
  Each(r, LAMBDA b : LET i == SelectInSeq(from, LAMBDA f : f = b)
                     IN  IF i = 0 THEN b ELSE to[i])

-----------------------------------------------------------------------------
Value(r) == SubSeq(r.mem, 1, r.len)
Settle(r) == [r EXCEPT !.mem = [i \in DOMAIN @ |-> IF i > r.len + 1 THEN Junk ELSE @[i]]]
Call(op, x, y, result) ==
  /\ result.len <= MaxLen
  /\ s' = Settle(result)
  /\ sdsCall' = <<op, x, y>>

cat == \E t \in Text : Call("cat", t, 0, sdscatlen(s, t))
catfmt == \E t, u \in Text :
  Call("cat", t \o u, 0, sdscatfmt(s, [i \in DOMAIN t |-> <<t[i]>>] \o <<u>>))
cpy == \E t \in Text : Call("cpy", t, 0, sdscpylen(s, t))
clear == Call("clear", 0, 0, EndAt(s, 0))
growzero == \E n \in 0..MaxLen : Call("growzero", n, 0, sdsgrowzero(s, n))
range == \E a, b \in Ends : Call("range", a, b, sdsrange(s, a, b))
trim == \E cset \in SUBSET (SdsByte \ {NUL}) : Call("trim", cset, 0, sdstrim(s, cset))
updatelen == Call("cstring", 0, 0, sdsupdatelen(s))
lower == Call("lower", 0, 0, Each(s, Lower))
mapchars == \E from \in Text : \E to \in Text :
  Len(from) = Len(to) /\ Call("map", from, to, sdsmapchars(s, from, to))
room == \/ \E n \in 1..MaxLen : Call("room", n, 0, sdsMakeRoomFor(s, n))
        \/ Call("room", 0, 0, sdsRemoveFreeSpace(s))

(* sdsIncrLen: room is asked for, bytes are written behind the string by    *)
(* hand, then counted; or the string is cut.                                *)
incrLen ==
  \/ \E t \in Text : LET r == sdsMakeRoomFor(s, Len(t))
                     IN  Call("cat", t, 0, EndAt(Write(r, r.len, t), r.len + Len(t)))
  \/ \E n \in 1..s.len : Call("cut", n, 0, EndAt(s, s.len - n))

SdsNext == \/ cat \/ catfmt \/ cpy \/ clear \/ growzero \/ range \/ trim \/ updatelen
           \/ lower \/ mapchars \/ room \/ incrLen
SdsSpec == SdsInit /\ [][SdsNext]_sdsVars

-----------------------------------------------------------------------------
(* The header accounts for the whole buffer, nothing was written outside of *)
(* it, and the string is terminated.                                        *)
HeaderRight == /\ s.len + s.free + 1 = s.alloc /\ s.free >= 0
               /\ Len(s.mem) = s.alloc
               /\ s.mem[s.len + 1] = NUL

(* The string never shows what was in the buffer by chance. *)
NoJunk == \A i \in 1..s.len : s.mem[i] \in SdsByte

(* Both, after every call that changes a string.                            *)
BufferRight == HeaderRight /\ NoJunk

(* Every call has the effect its comment states, whatever the buffer was. *)
String == INSTANCE ByteString WITH value <- Value(s), call <- sdsCall
ImplementsByteString == String!Spec
=============================================================================
