------------------------------ MODULE SdsProofs ------------------------------
(***************************************************************************)
(* hiredis/sds.c keeps its header, its terminator and its string right for *)
(* every set of bytes and strings, and implements ByteString. A string is  *)
(* followed through a call as Buffer (the header accounts for the buffer   *)
(* and the string is bytes) and Shows (which string it is); each primitive *)
(* has one lemma, each call one that adds them up.                         *)
(* The second half is about SdsConversions: splitting at a separator,      *)
(* writing a number, and splitting a line into arguments.                  *)
(***************************************************************************)
EXTENDS Sds, SdsConversions, ListsProofs

Cells == SdsByte \cup {Junk}

Shape(r) ==
    /\ r \in [mem : Seq(Cells), len : Nat, free : Int, alloc : Nat]
    /\ Len(r.mem) = r.alloc
    /\ r.len + r.free + 1 = r.alloc

Buffer(r) == /\ Shape(r) /\ r.free >= 0
             /\ \A i \in 1..r.len : r.mem[i] \in SdsByte

Shows(r, v) == r.len = Len(v) /\ \A i \in 1..Len(v) : r.mem[i] = v[i]

Ended(r) == r.mem[r.len + 1] = NUL

\* What every state keeps.
IInv == Buffer(s) /\ Ended(s)

-----------------------------------------------------------------------------
(* Largest and least members.                                               *)

LEMMA LargestIs ==
    ASSUME NEW S \in SUBSET Int, NEW m \in S, \A i \in S : i <= m
    PROVE  Max(S) = m
<1>1. \E x \in S : \A y \in S : x >= y
  BY SMT
<1>2. Max(S) \in S /\ \A y \in S : Max(S) >= y
  BY <1>1, Zenon DEF Max
<1>3. PICK x \in S : x = Max(S) /\ \A y \in S : x >= y
  BY <1>2, Zenon
<1>4. x = m
  <2>1. x \in Int /\ m \in Int
    OBVIOUS
  <2> QED
    BY <1>3, <2>1
<1> QED
  BY <1>3, <1>4

LEMMA LeastIs ==
    ASSUME NEW S \in SUBSET Int, NEW m \in S, \A i \in S : m <= i
    PROVE  Min(S) = m
<1>1. \E x \in S : \A y \in S : x =< y
  BY SMT
<1>2. Min(S) \in S /\ \A y \in S : Min(S) =< y
  BY <1>1, Zenon DEF Min
<1>3. PICK x \in S : x = Min(S) /\ \A y \in S : x =< y
  BY <1>2, Zenon
<1>4. x = m
  <2>1. x \in Int /\ m \in Int
    OBVIOUS
  <2> QED
    BY <1>3, <2>1
<1> QED
  BY <1>3, <1>4

LEMMA MaxOfTwo ==
    ASSUME NEW a \in Int, NEW b \in Int
    PROVE  Max({a, b}) = IF a >= b THEN a ELSE b
<1>1. CASE a >= b
  <2>1. Max({a, b}) = a
    BY <1>1, LargestIs
  <2> QED
    BY <1>1, <2>1
<1>2. CASE ~(a >= b)
  <2>1. Max({a, b}) = b
    BY <1>2, LargestIs
  <2> QED
    BY <1>2, <2>1
<1> QED
  BY <1>1, <1>2

\* A set of places in a string has a least and a largest member.
LEMMA FirstAndLast ==
    ASSUME NEW n \in Nat, NEW S \in SUBSET (1..n), S # {}
    PROVE  /\ Min(S) \in S /\ \A i \in S : Min(S) <= i
           /\ Max(S) \in S /\ \A i \in S : i <= Max(S)
<1>1. PICK a \in S : \A i \in S : a <= i
  <2>1. S \in SUBSET Nat
    OBVIOUS
  <2> QED
    BY <2>1, LeastMember
<1>2. PICK b \in S : \A i \in S : i <= b
  <2> DEFINE T == {n - i : i \in S}
  <2>1. T \in SUBSET Nat /\ T # {}
    OBVIOUS
  <2>2. PICK c \in T : \A i \in T : c <= i
    <3> HIDE DEF T
    <3> QED
      BY <2>1, LeastMember
  <2>3. PICK b \in S : c = n - b
    BY <2>2
  <2>4. ASSUME NEW i \in S PROVE i <= b
    <3>1. n - i \in T
      OBVIOUS
    <3>2. c <= n - i
      BY <2>2, <3>1
    <3> QED
      BY <2>3, <3>2
  <2> QED
    BY <2>4
<1>3. S \in SUBSET Int
  OBVIOUS
<1>4. Min(S) = a
  BY <1>1, <1>3, LeastIs
<1>5. Max(S) = b
  BY <1>2, <1>3, LargestIs
<1> QED
  BY <1>1, <1>2, <1>4, <1>5

-----------------------------------------------------------------------------
(* The primitives.                                                          *)

\* A function on 1..n is a list of length n.
LEMMA ShapeOf ==
    ASSUME NEW q, q \in [mem : Seq(Cells), len : Nat, free : Int, alloc : Nat],
           Len(q.mem) = q.alloc, q.len + q.free + 1 = q.alloc
    PROVE  Shape(q)
  BY DEF Shape

LEMMA WriteAt ==
    ASSUME SdsRight, NEW r, Shape(r), NEW at \in Nat, NEW t \in Seq(Cells),
           at + Len(t) <= r.alloc
    PROVE  /\ Shape(Write(r, at, t))
           /\ Write(r, at, t).len = r.len /\ Write(r, at, t).free = r.free
           /\ Write(r, at, t).alloc = r.alloc
           /\ \A i \in 1..r.alloc :
                 Write(r, at, t).mem[i] =
                    IF i > at /\ i <= at + Len(t) THEN t[i - at] ELSE r.mem[i]
<1> DEFINE n == r.alloc
           m == [i \in 1..n |-> IF i > at /\ i <= at + Len(t) THEN t[i - at] ELSE r.mem[i]]
<1>1. n \in Nat /\ Len(r.mem) = n /\ Len(t) \in Nat
  BY DEF Shape
<1>2. Max({Len(r.mem), at + Len(t)}) = n
  BY <1>1, MaxOfTwo
<1>3. Write(r, at, t) = [r EXCEPT !.mem = m]
  BY <1>2 DEF Write
<1>4. m \in Seq(Cells) /\ Len(m) = n
  <2>1. ASSUME NEW i \in 1..n PROVE m[i] \in Cells
    <3>1. CASE i > at /\ i <= at + Len(t)
      <4>1. i - at \in 1..Len(t)
        BY <1>1, <3>1
      <4>2. t[i - at] \in Cells
        BY <4>1
      <4> QED
        BY <3>1, <4>2
    <3>2. CASE ~(i > at /\ i <= at + Len(t))
      BY <1>1, <3>2 DEF Shape
    <3> QED
      BY <3>1, <3>2
  <2>2. m \in [1..n -> Cells]
    BY <2>1
  <2> HIDE DEF m
  <2> QED
    BY <1>1, <2>2, ListOf
<1> HIDE DEF m
<1>5. Write(r, at, t).mem = m
  BY <1>3 DEF Shape
<1>6. Shape(Write(r, at, t))
  BY <1>3, <1>4, <1>5 DEF Shape
<1>7. \A i \in 1..n : m[i] = IF i > at /\ i <= at + Len(t) THEN t[i - at] ELSE r.mem[i]
  BY DEF m
<1> QED
  BY <1>3, <1>5, <1>6, <1>7 DEF Shape

LEMMA LengthSet ==
    ASSUME NEW r, Shape(r), NEW n \in Nat
    PROVE  /\ Shape(SetLen(r, n)) /\ SetLen(r, n).len = n /\ SetLen(r, n).mem = r.mem
           /\ SetLen(r, n).alloc = r.alloc /\ SetLen(r, n).free = r.alloc - n - 1
<1>1. r \in [mem : Seq(Cells), len : Nat, free : Int, alloc : Nat] /\ Len(r.mem) = r.alloc
  BY DEF Shape
<1>2. PICK f \in Int : f = r.len + r.free - n
  BY <1>1
<1>3. f = r.alloc - n - 1
  BY <1>1, <1>2 DEF Shape
<1>4. SetLen(r, n) = [r EXCEPT !.len = n, !.free = f]
  BY <1>2 DEF SetLen
<1>5. SetLen(r, n) \in [mem : Seq(Cells), len : Nat, free : Int, alloc : Nat]
  BY <1>1, <1>4
<1>6. /\ SetLen(r, n).len = n /\ SetLen(r, n).mem = r.mem /\ SetLen(r, n).alloc = r.alloc
      /\ SetLen(r, n).free = f
  BY <1>1, <1>4
<1>7. Shape(SetLen(r, n))
  <2>1. PICK q \in [mem : Seq(Cells), len : Nat, free : Int, alloc : Nat] : q = SetLen(r, n)
    BY <1>5
  <2>2. Len(q.mem) = q.alloc
    BY <1>1, <1>6, <2>1
  <2>3. q.len + q.free + 1 = q.alloc
    BY <1>1, <1>3, <1>6, <2>1
  <2> QED
    BY <2>1, <2>2, <2>3, ShapeOf
<1> QED
  BY <1>3, <1>6, <1>7

LEMMA EndedAt ==
    ASSUME SdsRight, NEW r, Shape(r), NEW n \in Nat, n + 1 <= r.alloc,
           \A i \in 1..n : r.mem[i] \in SdsByte
    PROVE  /\ Buffer(EndAt(r, n)) /\ Ended(EndAt(r, n)) /\ EndAt(r, n).len = n
           /\ \A i \in 1..n : EndAt(r, n).mem[i] = r.mem[i]
<1>1. <<NUL>> \in Seq(Cells) /\ Len(<<NUL>>) = 1 /\ <<NUL>>[1] = NUL
  BY DEF SdsRight, Cells
<1> DEFINE w == Write(r, n, <<NUL>>)
<1>2. /\ Shape(w) /\ w.len = r.len /\ w.free = r.free /\ w.alloc = r.alloc
      /\ \A i \in 1..r.alloc : w.mem[i] = IF i > n /\ i <= n + 1 THEN <<NUL>>[i - n] ELSE r.mem[i]
  <2>1. n + Len(<<NUL>>) <= r.alloc
    BY <1>1
  <2> QED
    BY <1>1, <2>1, WriteAt
<1>3. ASSUME NEW i \in 1..n PROVE w.mem[i] = r.mem[i]
  <2>1. i \in 1..r.alloc /\ ~(i > n)
    BY DEF Shape
  <2> HIDE DEF w
  <2> QED
    BY <1>2, <2>1
<1>4. w.mem[n + 1] = NUL
  <2>1. n + 1 \in 1..r.alloc /\ (n + 1) - n = 1
    BY DEF Shape
  <2> QED
    BY <1>1, <1>2, <2>1
<1> HIDE DEF w
<1>5. EndAt(r, n) = SetLen(w, n)
  BY DEF EndAt, w
<1>6. PICK q : q = SetLen(w, n)
  OBVIOUS
<1>7. Shape(q) /\ q.len = n /\ q.mem = w.mem /\ q.alloc = w.alloc /\ q.free = w.alloc - n - 1
  BY <1>2, <1>6, LengthSet
<1>8. q.free >= 0
  BY <1>2, <1>7 DEF Shape
<1>9. Buffer(q) /\ Ended(q)
  BY <1>3, <1>4, <1>7, <1>8 DEF Buffer, Ended
<1> QED
  BY <1>3, <1>5, <1>6, <1>7, <1>9

LEMMA Reallocated ==
    ASSUME SdsRight, NEW r, Buffer(r), NEW n \in Nat, r.len + 1 <= n
    PROVE  /\ Buffer(Realloc(r, n)) /\ Realloc(r, n).len = r.len
           /\ Realloc(r, n).free = n - 1 - r.len /\ Realloc(r, n).alloc = n
           /\ \A i \in 1..r.len + 1 : Realloc(r, n).mem[i] = r.mem[i]
<1> DEFINE m == [i \in 1..n |-> IF i \in DOMAIN r.mem THEN r.mem[i] ELSE Junk]
<1>1. r.mem \in Seq(Cells) /\ DOMAIN r.mem = 1..r.alloc /\ r.len + 1 <= r.alloc
      /\ r.len \in Nat /\ r.alloc \in Nat
  BY DEF Buffer, Shape
<1>2. m \in Seq(Cells) /\ Len(m) = n
  <2>1. \A i \in 1..n : m[i] \in Cells
    BY <1>1 DEF Cells
  <2> QED
    BY <2>1
<1>3. \A i \in 1..r.len + 1 : m[i] = r.mem[i]
  BY <1>1
<1> HIDE DEF m
<1>4. Realloc(r, n) = [r EXCEPT !.mem = m, !.alloc = n, !.free = n - 1 - r.len]
  BY DEF Realloc, m
<1>5. r \in [mem : Seq(Cells), len : Nat, free : Int, alloc : Nat]
  BY DEF Buffer, Shape
<1>6. PICK f \in Int : f = n - 1 - r.len
  BY <1>1
<1>7. PICK q \in [mem : Seq(Cells), len : Nat, free : Int, alloc : Nat] :
         /\ q = Realloc(r, n) /\ q.mem = m /\ q.len = r.len /\ q.free = f /\ q.alloc = n
  BY <1>2, <1>4, <1>5, <1>6
<1>8. Shape(q) /\ q.free >= 0
  <2>1. Len(q.mem) = q.alloc
    BY <1>2, <1>7
  <2>2. q.len + q.free + 1 = q.alloc /\ q.free >= 0
    BY <1>1, <1>6, <1>7
  <2> QED
    BY <1>7, <2>1, <2>2, ShapeOf
<1>9. \A i \in 1..q.len : q.mem[i] \in SdsByte
  BY <1>1, <1>3, <1>7 DEF Buffer
<1> QED
  BY <1>3, <1>6, <1>7, <1>8, <1>9 DEF Buffer

LEMMA RoomMade ==
    ASSUME SdsRight, NEW r, Buffer(r), NEW n \in Nat
    PROVE  /\ Buffer(sdsMakeRoomFor(r, n)) /\ sdsMakeRoomFor(r, n).len = r.len
           /\ sdsMakeRoomFor(r, n).free >= n
           /\ \A i \in 1..r.len + 1 : sdsMakeRoomFor(r, n).mem[i] = r.mem[i]
<1>1. CASE r.free >= n
  BY <1>1 DEF sdsMakeRoomFor
<1>2. CASE ~(r.free >= n)
  <2>1. r.len \in Nat
    BY DEF Buffer, Shape
  <2>2. Preallocated(r.len + n) \in Nat /\ Preallocated(r.len + n) >= r.len + n
    BY <2>1 DEF Preallocated, SdsRight
  <2>3. PICK k \in Nat : k = Preallocated(r.len + n) + 1
    BY <2>2
  <2>4. sdsMakeRoomFor(r, n) = Realloc(r, k) /\ r.len + 1 <= k
    BY <1>2, <2>1, <2>2, <2>3 DEF sdsMakeRoomFor
  <2> QED
    BY <2>1, <2>2, <2>3, <2>4, Reallocated
<1> QED
  BY <1>1, <1>2

-----------------------------------------------------------------------------
(* Which string a buffer shows.                                             *)

LEMMA ValueShown ==
    ASSUME NEW r, Buffer(r)
    PROVE  Value(r) \in Seq(SdsByte) /\ Shows(r, Value(r))
<1>1. r.len \in Nat /\ 1 \in Int /\ \A i \in 1..r.len : r.mem[i] \in SdsByte
  BY DEF Buffer, Shape
<1>2. Value(r) \in Seq(SdsByte) /\ Len(Value(r)) = r.len
  <2>1. /\ SubSeq(r.mem, 1, r.len) \in Seq(SdsByte)
        /\ Len(SubSeq(r.mem, 1, r.len)) = IF 1 <= r.len THEN r.len - 1 + 1 ELSE 0
    BY <1>1, SubSeqProperties
  <2> QED
    BY <1>1, <2>1 DEF Value
<1>3. \A i \in 1..r.len : Value(r)[i] = r.mem[i]
  <2>1. r.mem \in Seq(Cells) /\ r.len <= Len(r.mem)
    BY DEF Buffer, Shape
  <2> QED
    BY <1>1, <2>1 DEF Value
<1> QED
  BY <1>1, <1>2, <1>3 DEF Shows

LEMMA ShownIsValue ==
    ASSUME NEW r, Buffer(r), NEW v \in Seq(SdsByte), Shows(r, v)
    PROVE  Value(r) = v
<1>1. PICK u \in Seq(SdsByte) : u = Value(r) /\ Shows(r, u)
  BY ValueShown
<1>2. Len(u) = Len(v) /\ \A i \in 1..Len(u) : u[i] = v[i]
  BY <1>1 DEF Shows
<1> QED
  BY <1>1, <1>2, SeqEqual

\* A string laid at an offset of the string there is, and ended: the front
\* stays, the string follows.
LEMMA PutAt ==
    ASSUME SdsRight, NEW r, Buffer(r), NEW v \in Seq(SdsByte), Shows(r, v),
           NEW at \in 0..Len(v), NEW t \in Seq(SdsByte), at + Len(t) + 1 <= r.alloc
    PROVE  LET q == EndAt(Write(r, at, t), at + Len(t))
           IN  Buffer(q) /\ Ended(q) /\ Shows(q, SubSeq(v, 1, at) \o t)
<1> DEFINE w == Write(r, at, t)
           q == EndAt(w, at + Len(t))
<1>1. /\ at \in Nat /\ Len(t) \in Nat /\ t \in Seq(Cells) /\ Shape(r) /\ at <= r.len
      /\ r.alloc \in Nat /\ r.len = Len(v)
  BY SeqMonotonic DEF Buffer, Shape, Shows, Cells
<1>2. /\ Shape(w) /\ w.alloc = r.alloc
      /\ \A i \in 1..r.alloc : w.mem[i] = IF i > at /\ i <= at + Len(t) THEN t[i - at] ELSE r.mem[i]
  <2>1. at + Len(t) <= r.alloc
    BY <1>1
  <2> QED
    BY <1>1, <2>1, WriteAt
<1> HIDE DEF w
<1>3. \A i \in 1..at : i \in 1..r.alloc /\ w.mem[i] = v[i] /\ v[i] \in SdsByte
  BY <1>1, <1>2 DEF Shows
<1>4. ASSUME NEW i \in 1..Len(t) PROVE w.mem[at + i] = t[i] /\ t[i] \in SdsByte
  <2>1. at + i \in 1..r.alloc /\ at + i > at /\ at + i <= at + Len(t) /\ (at + i) - at = i
    BY <1>1
  <2> QED
    BY <1>2, <2>1
<1>5. ASSUME NEW i \in 1..at + Len(t)
      PROVE  w.mem[i] \in SdsByte
  <2>1. CASE i <= at
    BY <1>3, <2>1
  <2>2. CASE i > at
    <3>1. i - at \in 1..Len(t) /\ at + (i - at) = i
      BY <1>1, <2>2
    <3>2. w.mem[at + (i - at)] = t[i - at] /\ t[i - at] \in SdsByte
      BY <1>4, <3>1
    <3> QED
      BY <3>1, <3>2
  <2> QED
    BY <1>1, <2>1, <2>2
<1>6. /\ Buffer(q) /\ Ended(q) /\ q.len = at + Len(t)
      /\ \A i \in 1..at + Len(t) : q.mem[i] = w.mem[i]
  <2>1. at + Len(t) \in Nat /\ (at + Len(t)) + 1 <= w.alloc
    BY <1>1, <1>2
  <2> QED
    BY <1>2, <1>5, <2>1, EndedAt
<1> HIDE DEF q
<1>7. PICK u \in Seq(SdsByte) : /\ u = SubSeq(v, 1, at) /\ Len(u) = at
                             /\ \A i \in 1..at : u[i] = v[i]
  <2>1. /\ SubSeq(v, 1, at) \in Seq(SdsByte)
        /\ Len(SubSeq(v, 1, at)) = IF 1 <= at THEN at - 1 + 1 ELSE 0
    <3>1. at \in Int /\ 1 \in Int /\ \A i \in 1..at : v[i] \in SdsByte
      BY <1>1, <1>3
    <3> QED
      BY <3>1, SubSeqProperties
  <2>2. \A i \in 1..at : SubSeq(v, 1, at)[i] = v[i]
    BY <1>1
  <2>3. Len(SubSeq(v, 1, at)) = at
    BY <1>1, <2>1
  <2> QED
    BY <2>1, <2>2, <2>3, Zenon
<1>8. /\ Len(u \o t) = at + Len(t)
      /\ \A i \in 1..at + Len(t) : (u \o t)[i] = IF i <= at THEN u[i] ELSE t[i - at]
  <2>1. u \in Seq(SdsByte) /\ t \in Seq(SdsByte)
    BY <1>7
  <2>2. /\ Len(u \o t) = Len(u) + Len(t)
        /\ \A i \in 1..Len(u) + Len(t) : (u \o t)[i] = IF i <= Len(u) THEN u[i] ELSE t[i - Len(u)]
    BY <2>1, ConcatProperties
  <2> QED
    BY <1>7, <2>2
<1>9. ASSUME NEW i \in 1..at + Len(t)
      PROVE  q.mem[i] = (u \o t)[i]
  <2>1. CASE i <= at
    <3>1. i \in 1..at
      BY <1>1, <2>1
    <3> QED
      BY <1>3, <1>6, <1>7, <1>8, <2>1, <3>1
  <2>2. CASE i > at
    <3>1. i - at \in 1..Len(t) /\ at + (i - at) = i /\ ~(i <= at)
      BY <1>1, <2>2
    <3>2. w.mem[at + (i - at)] = t[i - at]
      BY <1>4, <3>1
    <3> QED
      BY <1>6, <1>8, <3>1, <3>2
  <2>3. i <= at \/ i > at
    BY <1>1
  <2> QED
    BY <2>1, <2>2, <2>3
<1>10. Shows(q, u \o t)
  BY <1>6, <1>8, <1>9 DEF Shows
<1> QED
  BY <1>6, <1>7, <1>10 DEF q, w

\* A buffer with room made shows the same string.
LEMMA RoomShows ==
    ASSUME SdsRight, NEW r, Buffer(r), NEW v \in Seq(SdsByte), Shows(r, v), NEW n \in Nat
    PROVE  /\ Buffer(sdsMakeRoomFor(r, n)) /\ Shows(sdsMakeRoomFor(r, n), v)
           /\ sdsMakeRoomFor(r, n).len = Len(v)
           /\ sdsMakeRoomFor(r, n).alloc >= Len(v) + n + 1
<1>1. PICK q : q = sdsMakeRoomFor(r, n)
  OBVIOUS
<1>2. Buffer(q) /\ q.len = r.len /\ q.free >= n /\ \A i \in 1..r.len + 1 : q.mem[i] = r.mem[i]
  BY <1>1, RoomMade
<1>3. Shows(q, v) /\ q.len = Len(v)
  BY <1>2 DEF Shows
<1>4. q.alloc >= Len(v) + n + 1
  BY <1>2, <1>3 DEF Buffer, Shape
<1> QED
  BY <1>1, <1>2, <1>3, <1>4

-----------------------------------------------------------------------------
(* The calls.                                                               *)

Right(r, v) == Buffer(r) /\ Ended(r) /\ Shows(r, v) /\ v \in Seq(SdsByte)

LEMMA BytesAssociative ==
    ASSUME NEW x \in Seq(SdsByte), NEW y \in Seq(SdsByte), NEW z \in Seq(SdsByte)
    PROVE  (x \o y) \o z = x \o (y \o z)
  BY ConcatAssociative

LEMMA WholeFront ==
    ASSUME NEW S, NEW v \in Seq(S)
    PROVE  SubSeq(v, 1, Len(v)) = v /\ SubSeq(v, 1, 0) = << >>
  OBVIOUS

LEMMA CatRight ==
    ASSUME SdsRight, NEW r, Buffer(r), NEW v \in Seq(SdsByte), Shows(r, v),
           NEW t \in Seq(SdsByte)
    PROVE  LET q == sdsMakeRoomFor(r, Len(t))
           IN  /\ Right(EndAt(Write(q, q.len, t), q.len + Len(t)), v \o t)
               /\ Right(sdscatlen(r, t), v \o t)
<1>1. PICK q : q = sdsMakeRoomFor(r, Len(t))
  OBVIOUS
<1>2. Len(t) \in Nat /\ Len(v) \in Nat /\ r.len = Len(v)
  BY DEF Shows
<1>3. Buffer(q) /\ Shows(q, v) /\ q.len = Len(v) /\ q.alloc >= Len(v) + Len(t) + 1
  BY <1>1, <1>2, RoomShows
<1>4. Len(v) \in 0..Len(v) /\ Len(v) + Len(t) + 1 <= q.alloc
  BY <1>2, <1>3 DEF Buffer, Shape
<1>5. LET p == EndAt(Write(q, Len(v), t), Len(v) + Len(t))
      IN  Buffer(p) /\ Ended(p) /\ Shows(p, SubSeq(v, 1, Len(v)) \o t)
  BY <1>3, <1>4, PutAt
<1>6. Right(EndAt(Write(q, Len(v), t), Len(v) + Len(t)), v \o t)
  <2>1. v \o t \in Seq(SdsByte)
    BY ConcatProperties
  <2> QED
    BY <1>5, <2>1, WholeFront, Zenon DEF Right
<1> QED
  BY <1>1, <1>2, <1>3, <1>6, Zenon DEF sdscatlen

LEMMA CpyRight ==
    ASSUME SdsRight, NEW r, Buffer(r), NEW t \in Seq(SdsByte)
    PROVE  Right(sdscpylen(r, t), t)
<1>1. PICK v \in Seq(SdsByte) : Shows(r, v)
  BY ValueShown
<1>2. Len(t) \in Nat /\ Len(v) \in Nat /\ r.len = Len(v)
  BY <1>1 DEF Shows
<1>3. PICK q : /\ sdscpylen(r, t) = EndAt(Write(q, 0, t), Len(t))
               /\ Buffer(q) /\ Shows(q, v) /\ Len(t) + 1 <= q.alloc
  <2>1. CASE r.free + r.len < Len(t)
    <3>1. PICK n \in Nat : n = Len(t) - r.len
      BY <1>2, <2>1 DEF Buffer, Shape
    <3>2. PICK q : q = sdsMakeRoomFor(r, n)
      OBVIOUS
    <3>3. Buffer(q) /\ Shows(q, v) /\ q.alloc >= Len(v) + n + 1
      BY <1>1, <3>2, RoomShows
    <3>4. Len(t) + 1 <= q.alloc
      BY <1>2, <3>1, <3>3 DEF Buffer, Shape
    <3>5. sdscpylen(r, t) = EndAt(Write(q, 0, t), Len(t))
      BY <2>1, <3>1, <3>2 DEF sdscpylen
    <3> QED
      BY <3>3, <3>4, <3>5
  <2>2. CASE ~(r.free + r.len < Len(t))
    <3>1. sdscpylen(r, t) = EndAt(Write(r, 0, t), Len(t))
      BY <2>2 DEF sdscpylen
    <3>2. Len(t) + 1 <= r.alloc
      BY <1>2, <2>2 DEF Buffer, Shape
    <3> QED
      BY <1>1, <3>1, <3>2
  <2> QED
    BY <2>1, <2>2
<1>4. 0 \in 0..Len(v) /\ 0 + Len(t) + 1 <= q.alloc /\ 0 + Len(t) = Len(t)
  BY <1>2, <1>3
<1>5. LET p == EndAt(Write(q, 0, t), 0 + Len(t))
      IN  Buffer(p) /\ Ended(p) /\ Shows(p, SubSeq(v, 1, 0) \o t)
  BY <1>3, <1>4, PutAt
<1>6. SubSeq(v, 1, 0) \o t = t
  BY WholeFront, ConcatEmptySeq
<1> QED
  BY <1>3, <1>4, <1>5, <1>6, Zenon DEF Right

\* Cut at n: sdsclear and sdsIncrLen with a negative increment.
LEMMA CutRight ==
    ASSUME SdsRight, NEW r, Buffer(r), NEW v \in Seq(SdsByte), Shows(r, v),
           NEW n \in 0..Len(v)
    PROVE  Right(EndAt(r, n), SubSeq(v, 1, n))
<1>1. PICK q : q = EndAt(r, n)
  OBVIOUS
<1>2. n \in Nat /\ n + 1 <= r.alloc /\ Shape(r) /\ \A i \in 1..n : r.mem[i] \in SdsByte
  BY DEF Buffer, Shape, Shows
<1>3. Buffer(q) /\ Ended(q) /\ q.len = n /\ \A i \in 1..n : q.mem[i] = r.mem[i]
  BY <1>1, <1>2, EndedAt
<1>4. Len(SubSeq(v, 1, n)) = n /\ \A i \in 1..n : SubSeq(v, 1, n)[i] = v[i]
  OBVIOUS
<1>5. \A i \in 1..n : r.mem[i] = v[i]
  BY DEF Shows
<1> QED
  BY <1>1, <1>3, <1>4, <1>5 DEF Right, Shows

\* The bytes from a + 1 to a + n move to the front: sdsrange and sdstrim.
LEMMA SliceRight ==
    ASSUME SdsRight, NEW r, Buffer(r), NEW v \in Seq(SdsByte), Shows(r, v),
           NEW a \in Nat, NEW n \in Nat, a + n <= Len(v)
    PROVE  Right(EndAt(Write(r, 0, SubSeq(r.mem, a + 1, a + n)), n), SubSeq(v, a + 1, a + n))
<1> DEFINE t == SubSeq(v, a + 1, a + n)
           m == SubSeq(r.mem, a + 1, a + n)
<1>1. /\ r.mem \in Seq(Cells) /\ Len(v) \in Nat /\ Len(v) = r.len
      /\ Len(v) + 1 <= r.alloc /\ r.alloc \in Nat
  BY DEF Buffer, Shape, Shows
<1>2. /\ a + 1 \in Int /\ a + n \in Int
      /\ \A i \in a + 1..a + n : i \in 1..Len(v) /\ v[i] \in SdsByte /\ r.mem[i] = v[i]
  BY <1>1 DEF Shows
<1>3. t \in Seq(SdsByte) /\ Len(t) = n /\ \A i \in 1..n : t[i] = v[a + i]
  <2>1. \A i \in a + 1..a + n : v[i] \in SdsByte
    BY <1>2
  <2>2. /\ t \in Seq(SdsByte) /\ Len(t) = IF a + 1 <= a + n THEN (a + n) - (a + 1) + 1 ELSE 0
        /\ \A i \in 1..(a + n) - (a + 1) + 1 : t[i] = v[a + 1 + i - 1]
    BY <1>2, <2>1, SubSeqProperties
  <2> HIDE DEF t
  <2>3. Len(t) = n
    BY <2>2
  <2>4. ASSUME NEW i \in 1..n PROVE t[i] = v[a + i]
    <3>1. i \in 1..(a + n) - (a + 1) + 1 /\ a + 1 + i - 1 = a + i
      OBVIOUS
    <3> QED
      BY <2>2, <3>1
  <2> QED
    BY <2>2, <2>3, <2>4
<1>4. m \in Seq(SdsByte) /\ Len(m) = n /\ \A i \in 1..n : m[i] = r.mem[a + i]
  <2>1. \A i \in a + 1..a + n : r.mem[i] \in SdsByte
    BY <1>2
  <2>2. /\ m \in Seq(SdsByte) /\ Len(m) = IF a + 1 <= a + n THEN (a + n) - (a + 1) + 1 ELSE 0
        /\ \A i \in 1..(a + n) - (a + 1) + 1 : m[i] = r.mem[a + 1 + i - 1]
    BY <1>2, <2>1, SubSeqProperties
  <2> HIDE DEF m
  <2>3. Len(m) = n
    BY <2>2
  <2>4. ASSUME NEW i \in 1..n PROVE m[i] = r.mem[a + i]
    <3>1. i \in 1..(a + n) - (a + 1) + 1 /\ a + 1 + i - 1 = a + i
      OBVIOUS
    <3> QED
      BY <2>2, <3>1
  <2> QED
    BY <2>2, <2>3, <2>4
<1> HIDE DEF t, m
<1>5. m = t
  <2>1. ASSUME NEW i \in 1..n PROVE m[i] = t[i]
    <3>1. a + i \in a + 1..a + n
      OBVIOUS
    <3> QED
      BY <1>2, <1>3, <1>4, <3>1
  <2> QED
    BY <1>3, <1>4, <2>1, SeqEqual
<1>6. 0 \in 0..Len(v) /\ 0 + Len(t) + 1 <= r.alloc /\ 0 + Len(t) = n
  BY <1>1, <1>3
<1>7. LET p == EndAt(Write(r, 0, t), 0 + Len(t))
      IN  Buffer(p) /\ Ended(p) /\ Shows(p, SubSeq(v, 1, 0) \o t)
  BY <1>3, <1>6, PutAt
<1>8. SubSeq(v, 1, 0) \o t = t
  BY <1>3, WholeFront, ConcatEmptySeq
<1>9. Right(EndAt(Write(r, 0, m), n), t)
  BY <1>3, <1>5, <1>6, <1>7, <1>8, Zenon DEF Right
<1> QED
  BY <1>9 DEF m, t

\* A string laid behind the one there is, the first m bytes of it counted:
\* sdscatfmt (all of them) and sdsgrowzero (all but the terminator).
LEMMA Counted ==
    ASSUME SdsRight, NEW r, Buffer(r), NEW v \in Seq(SdsByte), Shows(r, v),
           NEW t \in Seq(SdsByte), r.len + Len(t) <= r.alloc,
           NEW m \in 0..Len(t), r.len + m + 1 <= r.alloc
    PROVE  LET q == SetLen(Write(r, r.len, t), r.len + m)
           IN  /\ Buffer(q) /\ Shows(q, v \o SubSeq(t, 1, m))
               /\ m < Len(t) => q.mem[q.len + 1] = t[m + 1]
<1> DEFINE w == Write(r, r.len, t)
           q == SetLen(w, r.len + m)
<1>1. /\ r.len \in Nat /\ Len(t) \in Nat /\ t \in Seq(Cells) /\ Shape(r) /\ m \in Nat
      /\ r.alloc \in Nat /\ r.len = Len(v) /\ r.len + m \in Nat
  BY SeqMonotonic DEF Buffer, Shape, Shows, Cells
<1>2. /\ Shape(w) /\ w.alloc = r.alloc
      /\ \A i \in 1..r.alloc : w.mem[i] = IF i > r.len /\ i <= r.len + Len(t) THEN t[i - r.len] ELSE r.mem[i]
  BY <1>1, WriteAt
<1> HIDE DEF w
<1>3. /\ Shape(q) /\ q.len = r.len + m /\ q.mem = w.mem /\ q.free = w.alloc - (r.len + m) - 1
      /\ q.alloc = w.alloc
  BY <1>1, <1>2, LengthSet
<1> HIDE DEF q
<1>4. /\ SubSeq(t, 1, m) \in Seq(SdsByte) /\ Len(SubSeq(t, 1, m)) = m
      /\ \A i \in 1..m : SubSeq(t, 1, m)[i] = t[i]
  BY <1>1
<1>5. PICK u \in Seq(SdsByte) : u = SubSeq(t, 1, m)
  BY <1>4
<1>6. /\ Len(v \o u) = r.len + m
      /\ \A i \in 1..r.len + m : (v \o u)[i] = IF i <= r.len THEN v[i] ELSE t[i - r.len]
  <2>1. /\ Len(v \o u) = Len(v) + Len(u)
        /\ \A i \in 1..Len(v) + Len(u) : (v \o u)[i] = IF i <= Len(v) THEN v[i] ELSE u[i - Len(v)]
    BY ConcatProperties
  <2>2. ASSUME NEW i \in 1..r.len + m, i > r.len PROVE u[i - r.len] = t[i - r.len]
    <3>1. i - r.len \in 1..m
      BY <1>1, <2>2
    <3> QED
      BY <1>4, <1>5, <3>1
  <2> QED
    BY <1>1, <1>4, <1>5, <2>1, <2>2
<1>7. ASSUME NEW i \in 1..r.len + m
      PROVE  q.mem[i] = (v \o u)[i] /\ q.mem[i] \in SdsByte
  <2>1. i \in 1..r.alloc /\ i \in Int /\ i <= r.len + Len(t)
    BY <1>1
  <2>2. CASE i <= r.len
    <3>1. i \in 1..r.len /\ i \in 1..Len(v) /\ ~(i > r.len)
      BY <1>1, <2>1, <2>2
    <3>2. q.mem[i] = v[i] /\ v[i] \in SdsByte
      BY <1>2, <1>3, <2>1, <3>1 DEF Shows
    <3> QED
      BY <1>6, <2>2, <3>2
  <2>3. CASE ~(i <= r.len)
    <3>1. i > r.len /\ i - r.len \in 1..Len(t)
      BY <1>1, <2>1, <2>3
    <3>2. q.mem[i] = t[i - r.len] /\ t[i - r.len] \in SdsByte
      BY <1>2, <1>3, <2>1, <3>1
    <3> QED
      BY <1>6, <2>3, <3>2
  <2> QED
    BY <2>2, <2>3
<1>8. Buffer(q) /\ Shows(q, v \o u)
  <2>1. q.free >= 0
    BY <1>1, <1>2, <1>3
  <2> QED
    BY <1>3, <1>6, <1>7, <2>1 DEF Buffer, Shows
<1>9. ASSUME m < Len(t) PROVE q.mem[q.len + 1] = t[m + 1]
  <2>1. /\ r.len + m + 1 \in 1..r.alloc /\ r.len + m + 1 > r.len
        /\ r.len + m + 1 <= r.len + Len(t) /\ (r.len + m + 1) - r.len = m + 1
    BY <1>1, <1>9
  <2> QED
    BY <1>2, <1>3, <2>1
<1> QED
  BY <1>5, <1>8, <1>9 DEF q, w

LEMMA FillIs ==
    ASSUME SdsRight, NEW n \in Nat
    PROVE  /\ Fill(n, NUL) \in Seq(SdsByte) /\ Len(Fill(n, NUL)) = n
           /\ \A i \in 1..n : Fill(n, NUL)[i] = NUL
<1>1. PICK f \in [1..n -> SdsByte] : f = Fill(n, NUL) /\ \A i \in 1..n : f[i] = NUL
  <2>1. NUL \in SdsByte
    BY DEF SdsRight
  <2>2. [i \in 1..n |-> NUL] \in [1..n -> SdsByte] /\ \A i \in 1..n : [k \in 1..n |-> NUL][i] = NUL
    BY <2>1
  <2> QED
    BY <2>2, Zenon DEF Fill
<1> QED
  BY <1>1, ListOf

LEMMA GrowRight ==
    ASSUME SdsRight, NEW r, Buffer(r), Ended(r), NEW v \in Seq(SdsByte), Shows(r, v),
           NEW n \in Nat
    PROVE  Right(sdsgrowzero(r, n), v \o Fill(n - Len(v), NUL))
<1>1. r.len \in Nat /\ r.len = Len(v)
  BY DEF Buffer, Shape, Shows
<1>2. CASE n <= r.len
  <2>1. Fill(n - Len(v), NUL) = << >>
    <3>1. 1..n - Len(v) = {}
      BY <1>1, <1>2
    <3>2. PICK f : f = [i \in 1..0 |-> NUL]
      OBVIOUS
    <3>3. f \in [1..0 -> Nat]
      BY <3>2
    <3>4. f \in Seq(Nat) /\ Len(f) = 0
      BY <3>3, ListOf
    <3>5. f = << >>
      BY <3>4, EmptySeq
    <3>6. 1..n - Len(v) = 1..0
      BY <3>1
    <3>7. Fill(n - Len(v), NUL) = f
      BY <3>2, <3>6, Zenon DEF Fill
    <3> QED
      BY <3>5, <3>7
  <2>2. v \o << >> = v
    BY ConcatEmptySeq
  <2> QED
    BY <1>2, <2>1, <2>2 DEF Right, sdsgrowzero
<1>3. CASE ~(n <= r.len)
  <2>1. PICK k \in Nat : k = n - r.len
    BY <1>1, <1>3
  <2>2. PICK q : q = sdsMakeRoomFor(r, k)
    OBVIOUS
  <2>3. Buffer(q) /\ Shows(q, v) /\ q.len = r.len /\ q.alloc >= r.len + k + 1 /\ q.alloc \in Nat
    <3>1. Buffer(q) /\ Shows(q, v) /\ q.len = Len(v) /\ q.alloc >= Len(v) + k + 1
      BY <2>2, RoomShows
    <3> QED
      BY <1>1, <3>1 DEF Buffer, Shape
  <2>4. PICK t \in Seq(SdsByte) : t = Fill(k + 1, NUL) /\ Len(t) = k + 1 /\ \A i \in 1..k + 1 : t[i] = NUL
    BY FillIs
  <2>5. k \in 0..Len(t) /\ q.len + Len(t) <= q.alloc /\ q.len + k + 1 <= q.alloc /\ k < Len(t)
        /\ q.len + k = n
    BY <1>1, <2>1, <2>3, <2>4
  <2>6. LET p == SetLen(Write(q, q.len, t), q.len + k)
        IN  /\ Buffer(p) /\ Shows(p, v \o SubSeq(t, 1, k))
            /\ k < Len(t) => p.mem[p.len + 1] = t[k + 1]
    BY <2>3, <2>5, Counted
  <2>7. SubSeq(t, 1, k) = Fill(k, NUL)
    <3>1. PICK u \in Seq(SdsByte) : u = Fill(k, NUL) /\ Len(u) = k /\ \A i \in 1..k : u[i] = NUL
      BY FillIs
    <3>2. /\ SubSeq(t, 1, k) \in Seq(SdsByte) /\ Len(SubSeq(t, 1, k)) = k
          /\ \A i \in 1..k : SubSeq(t, 1, k)[i] = t[i]
      BY <2>4, <2>5
    <3>3. \A i \in 1..k : SubSeq(t, 1, k)[i] = u[i]
      BY <2>4, <3>1, <3>2
    <3> QED
      BY <3>1, <3>2, <3>3, SeqEqual
  <2>8. t[k + 1] = NUL
    BY <2>4
  <2>9. sdsgrowzero(r, n) = SetLen(Write(q, q.len, t), q.len + k)
    BY <1>3, <2>1, <2>2, <2>3, <2>4, <2>5, Zenon DEF sdsgrowzero
  <2>10. Right(SetLen(Write(q, q.len, t), q.len + k), v \o Fill(k, NUL))
    <3>1. Fill(k, NUL) \in Seq(SdsByte)
      BY FillIs
    <3>2. v \o Fill(k, NUL) \in Seq(SdsByte)
      BY <3>1, ConcatProperties
    <3> QED
      BY <2>5, <2>6, <2>7, <2>8, <3>2, Zenon DEF Right, Ended
  <2> QED
    BY <1>1, <2>1, <2>9, <2>10
<1> QED
  BY <1>2, <1>3

\* A piece of sdscatfmt is laid behind what is there and counted; there is
\* room for a terminator behind it, which is not written yet.
LEMMA PieceRight ==
    ASSUME SdsRight, NEW r, Buffer(r), NEW v \in Seq(SdsByte), Shows(r, v),
           NEW t \in Seq(SdsByte)
    PROVE  Buffer(Piece(r, t)) /\ Shows(Piece(r, t), v \o t)
<1> DEFINE r1 == IF r.free = 0 THEN sdsMakeRoomFor(r, 1) ELSE r
           r2 == IF r1.free < Len(t) THEN sdsMakeRoomFor(r1, Len(t)) ELSE r1
<1>1. Buffer(r1) /\ Shows(r1, v)
  BY RoomShows
<1> HIDE DEF r1
<1>2. Len(t) \in Nat
  OBVIOUS
<1>3. Buffer(r2) /\ Shows(r2, v) /\ r2.len + Len(t) + 1 <= r2.alloc
  <2>1. CASE r1.free < Len(t)
    <3>1. PICK q : q = sdsMakeRoomFor(r1, Len(t))
      OBVIOUS
    <3>2. Buffer(q) /\ Shows(q, v) /\ q.len = Len(v) /\ q.alloc >= Len(v) + Len(t) + 1
      BY <1>1, <1>2, <3>1, RoomShows
    <3>3. q.len + Len(t) + 1 <= q.alloc
      BY <1>2, <3>2 DEF Buffer, Shape
    <3> QED
      BY <2>1, <3>1, <3>2, <3>3
  <2>2. CASE ~(r1.free < Len(t))
    <3>1. r1.len + Len(t) + 1 <= r1.alloc
      BY <1>1, <1>2, <2>2 DEF Buffer, Shape
    <3> QED
      BY <1>1, <2>2, <3>1
  <2> QED
    BY <2>1, <2>2
<1>4. Piece(r, t) = SetLen(Write(r2, r2.len, t), r2.len + Len(t))
  BY Zenon DEF Piece, r1
<1> HIDE DEF r2
<1>5. Len(t) \in 0..Len(t) /\ r2.len + Len(t) <= r2.alloc
  BY <1>2, <1>3 DEF Buffer, Shape
<1>6. LET q == SetLen(Write(r2, r2.len, t), r2.len + Len(t))
      IN  /\ Buffer(q) /\ Shows(q, v \o SubSeq(t, 1, Len(t)))
          /\ Len(t) < Len(t) => q.mem[q.len + 1] = t[Len(t) + 1]
  BY <1>3, <1>5, Counted
<1>7. SubSeq(t, 1, Len(t)) = t
  BY WholeFront
<1> QED
  BY <1>4, <1>6, <1>7, Zenon

\* g is what sdscatfmt makes of r, piece by piece.
Formats(g, r, pieces, n) ==
    g = [i \in 0..n |-> IF i = 0 THEN r ELSE Piece(g[i - 1], pieces[i])]

LEMMA FormatsExists ==
    ASSUME NEW r, NEW pieces, NEW n \in Nat
    PROVE  \E g : Formats(g, r, pieces, n)
<1> DEFINE Bad == {m \in Nat : ~\E g : Formats(g, r, pieces, m)}
<1> SUFFICES ASSUME n \in Bad PROVE FALSE
  OBVIOUS
<1>1. PICK m \in Bad : \A j \in Bad : m <= j
  <2>1. Bad \in SUBSET Nat /\ Bad # {}
    OBVIOUS
  <2> HIDE DEF Bad
  <2> QED
    BY LeastMember, <2>1, Zenon
<1>2. CASE m = 0
  <2>1. Formats([i \in 0..0 |-> r], r, pieces, 0)
    BY DEF Formats
  <2> QED
    BY <1>2, <2>1
<1>3. CASE m # 0
  <2>1. m - 1 \in Nat /\ m - 1 \notin Bad
    BY <1>1, <1>3
  <2>2. PICK k : Formats(k, r, pieces, m - 1)
    BY <2>1
  <2> DEFINE g == [i \in 0..m |-> IF i < m THEN k[i] ELSE Piece(k[m - 1], pieces[m])]
  <2>3. ASSUME NEW i \in 0..m
        PROVE  g[i] = IF i = 0 THEN r ELSE Piece(g[i - 1], pieces[i])
    <3>1. CASE i < m
      <4>1. i \in 0..m - 1
        BY <2>1, <3>1
      <4>2. k[i] = IF i = 0 THEN r ELSE Piece(k[i - 1], pieces[i])
        BY <2>2, <4>1, Zenon DEF Formats
      <4> QED
        BY <3>1, <4>1, <4>2
    <3>2. CASE i = m
      BY <1>3, <3>2
    <3> QED
      BY <3>1, <3>2
  <2>4. Formats(g, r, pieces, m)
    BY <2>3, Zenon DEF Formats
  <2> QED
    BY <2>4
<1> QED
  BY <1>2, <1>3

\* sdscatfmt with the bytes of t one by one and u in one piece.
LEMMA CatfmtRight ==
    ASSUME SdsRight, NEW r, Buffer(r), NEW v \in Seq(SdsByte), Shows(r, v),
           NEW t \in Seq(SdsByte), NEW u \in Seq(SdsByte)
    PROVE  Right(sdscatfmt(r, [i \in DOMAIN t |-> <<t[i]>>] \o <<u>>), v \o (t \o u))
<1> DEFINE bytes == [i \in DOMAIN t |-> <<t[i]>>]
           pieces == bytes \o <<u>>
           n == Len(t)
<1>1. n \in Nat /\ DOMAIN t = 1..n
  BY LenProperties
<1>2. bytes \in Seq(Seq(SdsByte)) /\ Len(bytes) = n /\ \A i \in 1..n : bytes[i] = <<t[i]>>
  <2>1. \A i \in 1..n : <<t[i]>> \in Seq(SdsByte)
    BY <1>1
  <2>2. bytes \in [1..n -> Seq(SdsByte)] /\ \A i \in 1..n : bytes[i] = <<t[i]>>
    BY <1>1, <2>1, Zenon
  <2> HIDE DEF bytes
  <2> QED
    BY <1>1, <2>2, ListOf
<1> HIDE DEF bytes
<1>3. /\ Len(pieces) = n + 1
      /\ \A i \in 1..n + 1 : pieces[i] = IF i <= n THEN <<t[i]>> ELSE u
  <2>1. <<u>> \in Seq(Seq(SdsByte)) /\ Len(<<u>>) = 1 /\ <<u>>[1] = u
    OBVIOUS
  <2>2. /\ Len(pieces) = Len(bytes) + Len(<<u>>)
        /\ \A i \in 1..Len(bytes) + Len(<<u>>) :
              pieces[i] = IF i <= Len(bytes) THEN bytes[i] ELSE <<u>>[i - Len(bytes)]
    BY <1>2, <2>1, ConcatProperties
  <2> HIDE DEF pieces, n
  <2>3. ASSUME NEW i \in 1..n + 1 PROVE pieces[i] = IF i <= n THEN <<t[i]>> ELSE u
    <3>1. CASE i <= n
      BY <1>1, <1>2, <2>1, <2>2, <3>1
    <3>2. CASE ~(i <= n)
      <4>1. i = n + 1 /\ i - n = 1
        BY <1>1, <3>2
      <4> QED
        BY <1>1, <1>2, <2>1, <2>2, <3>2, <4>1
    <3> QED
      BY <3>1, <3>2
  <2> QED
    BY <1>2, <2>1, <2>2, <2>3
<1> HIDE DEF pieces
<1>4. PICK g : Formats(g, r, pieces, n + 1) /\ sdscatfmt(r, pieces) = EndAt(g[n + 1], g[n + 1].len)
  <2>1. n + 1 \in Nat
    BY <1>1
  <2>2. \E g : Formats(g, r, pieces, n + 1)
    BY <2>1, FormatsExists
  <2>3. Formats(CHOOSE g : Formats(g, r, pieces, n + 1), r, pieces, n + 1)
    BY <2>2, Zenon
  <2>4. PICK g : g = CHOOSE h : Formats(h, r, pieces, n + 1)
    OBVIOUS
  <2>5. sdscatfmt(r, pieces) = EndAt(g[n + 1], g[n + 1].len)
    BY <1>3, <2>4, Zenon DEF sdscatfmt, Formats
  <2> QED
    BY <2>3, <2>4, <2>5
<1>5. /\ g[0] = r
      /\ \A i \in 1..n + 1 : g[i] = Piece(g[i - 1], pieces[i])
  <2>1. ASSUME NEW i \in 0..n + 1
        PROVE  g[i] = IF i = 0 THEN r ELSE Piece(g[i - 1], pieces[i])
    BY <1>4, Zenon DEF Formats
  <2>2. 0 \in 0..n + 1 /\ \A i \in 1..n + 1 : i \in 0..n + 1 /\ i # 0
    BY <1>1
  <2> QED
    BY <2>1, <2>2
<1> DEFINE Fine(i) == Buffer(g[i]) /\ Shows(g[i], v \o SubSeq(t, 1, i))
           Bad == {i \in 0..n : ~Fine(i)}
<1>6. Fine(0)
  <2>1. SubSeq(t, 1, 0) = << >> /\ v \o << >> = v
    BY WholeFront, ConcatEmptySeq
  <2> QED
    BY <1>5, <2>1, Zenon
<1>7. ASSUME NEW i \in 1..n, Fine(i - 1) PROVE Fine(i)
  <2>1. i \in 1..n + 1 /\ i <= n /\ i - 1 \in 0..n
    BY <1>1
  <2>2. PICK w \in Seq(SdsByte) : w = SubSeq(t, 1, i - 1)
    BY <2>1, SplitAt
  <2>3. PICK x \in Seq(SdsByte) : x = <<t[i]>>
    <3>1. PICK b \in SdsByte : b = t[i]
      BY <1>1
    <3>2. <<b>> \in Seq(SdsByte)
      OBVIOUS
    <3> QED
      BY <3>1, <3>2
  <2>4. g[i] = Piece(g[i - 1], x)
    BY <1>3, <1>5, <2>1, <2>3
  <2>5. v \o w \in Seq(SdsByte) /\ (v \o w) \o x = v \o (w \o x)
    <3>1. v \o w \in Seq(SdsByte)
      BY ConcatProperties
    <3>2. (v \o w) \o x = v \o (w \o x)
      BY BytesAssociative
    <3> QED
      BY <3>1, <3>2
  <2>6. Buffer(g[i]) /\ Shows(g[i], (v \o w) \o x)
    BY <1>7, <2>2, <2>4, <2>5, PieceRight
  <2>7. w \o x = SubSeq(t, 1, i)
    BY <1>1, <2>2, <2>3
  <2> QED
    BY <2>5, <2>6, <2>7
<1> HIDE DEF Fine
<1>8. ASSUME Bad # {} PROVE FALSE
  <2>1. PICK i \in Bad : \A j \in Bad : i <= j
    <3>1. Bad \in SUBSET Nat
      BY <1>1
    <3> HIDE DEF Bad
    <3> QED
      BY LeastMember, <3>1, <1>8, Zenon
  <2>2. i \in 0..n /\ ~Fine(i) /\ i # 0
    BY <1>6, <2>1
  <2>3. i \in 1..n /\ i - 1 \in 0..n /\ i - 1 \notin Bad
    BY <1>1, <2>1, <2>2
  <2>4. Fine(i - 1)
    BY <2>3
  <2> QED
    BY <1>7, <2>2, <2>3, <2>4
<1>9. Fine(n)
  BY <1>1, <1>8
<1>10. Buffer(g[n]) /\ Shows(g[n], v \o t)
  BY <1>9, WholeFront, Zenon DEF Fine
<1>11. g[n + 1] = Piece(g[n], u)
  <2>1. n + 1 \in 1..n + 1 /\ ~(n + 1 <= n) /\ (n + 1) - 1 = n
    BY <1>1
  <2> QED
    BY <1>3, <1>5, <2>1
<1>12. v \o t \in Seq(SdsByte) /\ (v \o t) \o u = v \o (t \o u) /\ v \o (t \o u) \in Seq(SdsByte)
  BY ConcatProperties, ConcatAssociative
<1>13. Buffer(g[n + 1]) /\ Shows(g[n + 1], v \o (t \o u))
  BY <1>10, <1>11, <1>12, PieceRight
<1>14. PICK x \in Seq(SdsByte) : x = v \o (t \o u)
  BY <1>12
<1>15. PICK q : q = g[n + 1] /\ Buffer(q) /\ Shows(q, x) /\ q.len = Len(x)
  BY <1>13, <1>14 DEF Shows
<1>16. Right(EndAt(q, Len(x)), SubSeq(x, 1, Len(x)))
  <2>1. Len(x) \in 0..Len(x)
    OBVIOUS
  <2> QED
    BY <1>15, <2>1, CutRight
<1>17. SubSeq(x, 1, Len(x)) = x
  BY WholeFront
<1> QED
  BY <1>4, <1>14, <1>15, <1>16, <1>17, Zenon DEF pieces, bytes

-----------------------------------------------------------------------------
(* sdsrange and sdstrim.                                                    *)

LEMMA SpanIs ==
    ASSUME NEW v, NEW S \in SUBSET Int, NEW a \in S, NEW b \in S,
           \A i \in S : a <= i /\ i <= b
    PROVE  String!Span(v, S) = SubSeq(v, a, b)
<1>1. Min(S) = a /\ Max(S) = b
  BY LeastIs, LargestIs
<1> QED
  BY <1>1 DEF String!Span, String!Min, String!Max, Min, Max

LEMMA FromBackIs ==
    ASSUME NEW r, r.len \in Nat, NEW v, Len(v) = r.len, NEW i \in Int
    PROVE  FromBack(r, i) \in Nat /\ String!At(v, i) = FromBack(r, i)
<1>1. CASE i < 0
  <2>1. Max({0, r.len + i}) = IF 0 >= r.len + i THEN 0 ELSE r.len + i
    BY MaxOfTwo
  <2>2. Max({0, Len(v) + i}) = String!Max({0, Len(v) + i})
    BY Zenon DEF Max, String!Max
  <2>3. FromBack(r, i) = Max({0, r.len + i}) /\ String!At(v, i) = String!Max({0, Len(v) + i})
    BY <1>1 DEF FromBack, String!At
  <2> QED
    BY <2>1, <2>2, <2>3
<1>2. CASE ~(i < 0)
  BY <1>2 DEF FromBack, String!At
<1> QED
  BY <1>1, <1>2

LEMMA RangeRight ==
    ASSUME SdsRight, NEW r, Buffer(r), Ended(r), NEW v \in Seq(SdsByte), Shows(r, v),
           NEW a \in Int, NEW b \in Int
    PROVE  Right(sdsrange(r, a, b),
                 String!Span(v, {i \in DOMAIN v : String!At(v, a) < i /\ i <= String!At(v, b) + 1}))
<1> DEFINE start == FromBack(r, a)
           past == FromBack(r, b)
           end == IF past >= r.len THEN r.len - 1 ELSE past
           n == IF start > end THEN 0 ELSE end - start + 1
           S == {i \in DOMAIN v : String!At(v, a) < i /\ i <= String!At(v, b) + 1}
<1>1. r.len \in Nat /\ Len(v) = r.len /\ DOMAIN v = 1..r.len
  BY DEF Buffer, Shape, Shows
<1>2. start \in Nat /\ past \in Nat /\ String!At(v, a) = start /\ String!At(v, b) = past
  BY <1>1, FromBackIs
<1> HIDE DEF start, past
<1>3. S = {i \in 1..r.len : start < i /\ i <= past + 1}
  BY <1>1, <1>2
<1>4. CASE r.len = 0
  <2>1. S = {} /\ v = << >>
    BY <1>1, <1>3, <1>4
  <2>2. sdsrange(r, a, b) = r
    BY <1>4 DEF sdsrange
  <2> QED
    BY <2>1, <2>2 DEF Right, String!Span
<1>5. CASE r.len # 0
  <2>1. n \in Nat /\ sdsrange(r, a, b) = EndAt(Write(r, 0, SubSeq(r.mem, start + 1, start + n)), n)
    <3>1. n \in Nat
      BY <1>1, <1>2
    <3>2. sdsrange(r, a, b) = EndAt(Write(r, 0, SubSeq(r.mem, start + 1, start + n)), n)
      BY <1>5, Zenon DEF sdsrange, start, past
    <3> QED
      BY <3>1, <3>2
  <2>2. CASE start > end
    <3>1. S = {}
      BY <1>1, <1>2, <1>3, <2>2
    <3>2. String!Span(v, S) = << >>
      BY <3>1 DEF String!Span
    <3>3. n = 0 /\ 0 \in Nat /\ 0 + 0 <= Len(v)
      BY <1>1, <2>2
    <3>4. SubSeq(r.mem, start + 1, start + 0) = SubSeq(r.mem, 0 + 1, 0 + 0)
      BY <1>2, SubSeqEmpty
    <3>5. Right(EndAt(Write(r, 0, SubSeq(r.mem, 0 + 1, 0 + 0)), 0), SubSeq(v, 0 + 1, 0 + 0))
      BY <3>3, SliceRight
    <3>6. SubSeq(v, 0 + 1, 0 + 0) = << >>
      BY SubSeqEmpty
    <3> QED
      BY <2>1, <3>2, <3>3, <3>4, <3>5, <3>6
  <2>3. CASE ~(start > end)
    <3>1. n = end - start + 1 /\ start + n = end + 1 /\ start + n <= Len(v)
      BY <1>1, <1>2, <2>3
    <3>2. /\ start + 1 \in S /\ end + 1 \in S /\ S \in SUBSET Int
          /\ \A i \in S : start + 1 <= i /\ i <= end + 1
      BY <1>1, <1>2, <1>3, <2>3
    <3>3. String!Span(v, S) = SubSeq(v, start + 1, start + n)
      <4> HIDE DEF S, n, end
      <4> QED
        BY <3>1, <3>2, SpanIs
    <3>4. Right(EndAt(Write(r, 0, SubSeq(r.mem, start + 1, start + n)), n), SubSeq(v, start + 1, start + n))
      <4> HIDE DEF n
      <4> QED
        BY <1>2, <2>1, <3>1, SliceRight
    <3> QED
      BY <2>1, <3>3, <3>4
  <2> QED
    BY <2>2, <2>3
<1> QED
  BY <1>4, <1>5

LEMMA TrimRight ==
    ASSUME SdsRight, NEW r, Buffer(r), NEW v \in Seq(SdsByte), Shows(r, v), NEW cset
    PROVE  Right(sdstrim(r, cset), String!Span(v, String!Kept(v, cset)))
<1> DEFINE K == String!Kept(v, cset)
           P == {i \in 1..r.len : ~Trimmed(r, cset, i)} \union {r.len + 1}
           Q == {i \in 2..r.len : ~Trimmed(r, cset, i)} \union {IF r.len = 0 THEN 0 ELSE 1}
           sp == Min(P)
           ep == Max(Q)
           n == IF sp > ep THEN 0 ELSE ep - sp + 1
<1>1. r.len \in Nat /\ Len(v) = r.len /\ DOMAIN v = 1..r.len /\ \A i \in 1..r.len : r.mem[i] = v[i]
  BY DEF Buffer, Shape, Shows
<1>2. K \in SUBSET (1..r.len) /\ \A i \in 1..r.len : i \in K <=> ~Trimmed(r, cset, i)
  BY <1>1 DEF String!Kept, Trimmed
<1>3. sdstrim(r, cset) = EndAt(Write(r, 0, SubSeq(r.mem, sp, sp + n - 1)), n)
  BY Zenon DEF sdstrim
<1>4. P \in SUBSET Int /\ Q \in SUBSET Int
  BY <1>1
<1>5. CASE K = {}
  <2>1. r.len + 1 \in P /\ \A i \in P : r.len + 1 <= i
    BY <1>1, <1>2, <1>5
  <2>2. sp = r.len + 1
    <3> HIDE DEF P
    <3> QED
      BY <1>4, <2>1, LeastIs
  <2>3. PICK e \in Q : e = (IF r.len = 0 THEN 0 ELSE 1) /\ \A i \in Q : i <= e
    BY <1>1, <1>2, <1>5
  <2>4. ep = e
    <3> HIDE DEF Q
    <3> QED
      BY <1>4, <2>3, LargestIs
  <2>5. n = 0
    <3> HIDE DEF P, Q, sp, ep
    <3> QED
      BY <1>1, <2>2, <2>3, <2>4
  <2> HIDE DEF sp, n
  <2>6. SubSeq(r.mem, sp, sp + n - 1) = SubSeq(r.mem, 0 + 1, 0 + 0)
    BY <1>1, <2>2, <2>5, SubSeqEmpty
  <2>7. Right(EndAt(Write(r, 0, SubSeq(r.mem, 0 + 1, 0 + 0)), 0), SubSeq(v, 0 + 1, 0 + 0))
    <3>1. 0 \in Nat /\ 0 + 0 <= Len(v)
      BY <1>1
    <3> QED
      BY <3>1, SliceRight
  <2>8. SubSeq(v, 0 + 1, 0 + 0) = << >> /\ String!Span(v, K) = << >>
    BY <1>5, SubSeqEmpty DEF String!Span
  <2> QED
    BY <1>3, <2>5, <2>6, <2>7, <2>8
<1>6. CASE K # {}
  <2>1. PICK a \in K, b \in K : \A i \in K : a <= i /\ i <= b
    <3> HIDE DEF K
    <3> QED
      BY <1>1, <1>2, <1>6, FirstAndLast
  <2>2. a \in 1..r.len /\ b \in 1..r.len /\ a <= b
    BY <1>2, <2>1
  <2>3. sp = a
    <3>1. a \in P /\ \A i \in P : a <= i
      BY <1>1, <1>2, <2>1, <2>2
    <3> HIDE DEF P
    <3> QED
      BY <1>4, <3>1, LeastIs
  <2>4. ep = b
    <3>1. b \in Q /\ \A i \in Q : i <= b
      BY <1>1, <1>2, <2>1, <2>2
    <3> HIDE DEF Q
    <3> QED
      BY <1>4, <3>1, LargestIs
  <2> HIDE DEF sp, ep
  <2>5. PICK c \in Nat : c = a - 1
    BY <2>2
  <2>6. n = b - a + 1 /\ n \in Nat /\ sp = c + 1 /\ sp + n - 1 = c + n /\ c + n <= Len(v) /\ c + n = b
    <3>1. n = b - a + 1
      BY <2>2, <2>3, <2>4
    <3> HIDE DEF n
    <3> QED
      BY <1>1, <2>2, <2>3, <2>4, <2>5, <3>1
  <2> HIDE DEF n
  <2>7. Right(EndAt(Write(r, 0, SubSeq(r.mem, c + 1, c + n)), n), SubSeq(v, c + 1, c + n))
    BY <2>6, SliceRight
  <2>8. String!Span(v, K) = SubSeq(v, a, b)
    <3>1. K \in SUBSET Int
      BY <1>2
    <3> HIDE DEF K
    <3> QED
      BY <2>1, <3>1, SpanIs
  <2> QED
    BY <1>3, <2>3, <2>6, <2>7, <2>8
<1> QED
  BY <1>5, <1>6

-----------------------------------------------------------------------------
(* sdsupdatelen and the calls that go byte by byte.                         *)

LEMMA UpdateRight ==
    ASSUME SdsRight, NEW r, Buffer(r), Ended(r), NEW v \in Seq(SdsByte), Shows(r, v)
    PROVE  Right(sdsupdatelen(r),
                 SubSeq(v, 1, String!Min({i \in DOMAIN v : v[i] = NUL} \union {Len(v) + 1}) - 1))
<1> DEFINE I == {i \in 1..Len(r.mem) : r.mem[i] = NUL}
           J == {i \in DOMAIN v : v[i] = NUL} \union {Len(v) + 1}
<1>1. /\ r.len \in Nat /\ Len(v) = r.len /\ DOMAIN v = 1..r.len
      /\ \A i \in 1..r.len : r.mem[i] = v[i]
      /\ Len(r.mem) = r.alloc /\ r.alloc \in Nat /\ r.len + 1 <= r.alloc /\ Shape(r)
      /\ r.mem[r.len + 1] = NUL
  BY DEF Buffer, Shape, Shows, Ended
<1>2. J \in SUBSET (1..r.len + 1) /\ r.len + 1 \in J /\ J # {} /\ r.len + 1 \in Nat
  BY <1>1
<1>3. PICK m \in J : \A i \in J : m <= i
  <2>1. J \in SUBSET Nat
    BY <1>1, <1>2
  <2> HIDE DEF J
  <2> QED
    BY <1>2, <2>1, LeastMember
<1>4. m \in 1..r.len + 1 /\ r.mem[m] = NUL
  BY <1>1, <1>2, <1>3
<1>5. m \in I /\ \A i \in I : m <= i
  <2>1. m \in I
    BY <1>1, <1>4
  <2>2. ASSUME NEW i \in I PROVE m <= i
    <3>1. CASE i \in J
      BY <1>3, <3>1
    <3>2. CASE i \notin J
      BY <1>1, <1>4, <3>2
    <3> QED
      BY <3>1, <3>2
  <2> QED
    BY <2>1, <2>2
<1>6. Min(I) = m /\ String!Min(J) = m
  <2>1. I \in SUBSET Int /\ J \in SUBSET Int
    BY <1>1
  <2> HIDE DEF I, J
  <2>2. Min(I) = m /\ Min(J) = m
    BY <1>3, <1>5, <2>1, LeastIs
  <2>3. String!Min(J) = Min(J)
    BY Zenon DEF Min, String!Min
  <2> QED
    BY <2>2, <2>3
<1>7. SelectInSeq(r.mem, LAMBDA b : b = NUL) = Min(I)
  <2>1. I # {}
    BY <1>5
  <2> QED
    BY <2>1, Zenon DEF SelectInSeq
<1>8. PICK n \in 0..Len(v) : n = m - 1
  BY <1>1, <1>4
<1>9. sdsupdatelen(r) = SetLen(r, n) /\ n \in Nat /\ n <= r.len /\ n + 1 = m
  BY <1>1, <1>4, <1>6, <1>7, <1>8 DEF sdsupdatelen
<1>10. PICK q : q = SetLen(r, n)
  OBVIOUS
<1>11. Shape(q) /\ q.len = n /\ q.mem = r.mem /\ q.free = r.alloc - n - 1
  BY <1>1, <1>9, <1>10, LengthSet
<1>12. Buffer(q) /\ Ended(q)
  <2>1. q.free >= 0
    BY <1>1, <1>9, <1>11
  <2>2. \A i \in 1..n : i \in 1..r.len /\ r.mem[i] \in SdsByte
    BY <1>1, <1>9 DEF Buffer
  <2> QED
    BY <1>4, <1>9, <1>11, <2>1, <2>2 DEF Buffer, Ended
<1>13. /\ Len(SubSeq(v, 1, n)) = n /\ \A i \in 1..n : SubSeq(v, 1, n)[i] = v[i]
       /\ SubSeq(v, 1, n) \in Seq(SdsByte)
  OBVIOUS
<1>14. Shows(q, SubSeq(v, 1, n))
  BY <1>1, <1>9, <1>11, <1>13 DEF Shows
<1> HIDE DEF I, J
<1>15. SubSeq(v, 1, String!Min(J) - 1) = SubSeq(v, 1, n)
  BY <1>6, <1>8
<1> QED
  BY <1>9, <1>10, <1>12, <1>13, <1>14, <1>15, Zenon DEF Right, J

LEMMA EachRight ==
    ASSUME NEW r, Buffer(r), Ended(r), NEW w \in Seq(SdsByte), Len(w) = r.len
    PROVE  Right([r EXCEPT !.mem = [i \in DOMAIN @ |-> IF i <= r.len THEN w[i] ELSE @[i]]], w)
<1>1. /\ r \in [mem : Seq(Cells), len : Nat, free : Int, alloc : Nat] /\ Len(r.mem) = r.alloc
      /\ r.len + 1 <= r.alloc /\ DOMAIN r.mem = 1..r.alloc /\ r.free >= 0
      /\ r.len + r.free + 1 = r.alloc
  BY DEF Buffer, Shape
<1> DEFINE m == [i \in DOMAIN r.mem |-> IF i <= r.len THEN w[i] ELSE r.mem[i]]
<1>2. m \in Seq(Cells) /\ Len(m) = r.alloc
  <2>1. ASSUME NEW i \in 1..r.alloc PROVE m[i] \in Cells
    <3>1. CASE i <= r.len
      <4>1. i \in 1..Len(w)
        BY <1>1, <3>1
      <4> QED
        BY <1>1, <3>1, <4>1 DEF Cells
    <3>2. CASE ~(i <= r.len)
      BY <1>1, <3>2
    <3> QED
      BY <3>1, <3>2
  <2>2. m \in [1..r.alloc -> Cells]
    BY <1>1, <2>1
  <2> HIDE DEF m
  <2> QED
    BY <1>1, <2>2, ListOf
<1>3. /\ \A i \in 1..r.len : m[i] = w[i] /\ w[i] \in SdsByte
      /\ m[r.len + 1] = r.mem[r.len + 1]
  <2>1. \A i \in 1..r.len : i \in DOMAIN r.mem /\ i <= r.len /\ i \in 1..Len(w)
    BY <1>1
  <2>2. r.len + 1 \in DOMAIN r.mem /\ ~(r.len + 1 <= r.len)
    BY <1>1
  <2>3. \A i \in DOMAIN r.mem : m[i] = IF i <= r.len THEN w[i] ELSE r.mem[i]
    BY Zenon
  <2> HIDE DEF m
  <2> QED
    BY <2>1, <2>2, <2>3
<1> HIDE DEF m
<1>4. PICK q \in [mem : Seq(Cells), len : Nat, free : Int, alloc : Nat] :
         q = [r EXCEPT !.mem = m] /\ q.mem = m /\ q.len = r.len /\ q.free = r.free /\ q.alloc = r.alloc
  <2>1. PICK q : q = [r EXCEPT !.mem = m]
    OBVIOUS
  <2>2. q \in [mem : Seq(Cells), len : Nat, free : Int, alloc : Nat]
    BY <1>1, <1>2, <2>1
  <2>3. q.mem = m /\ q.len = r.len /\ q.free = r.free /\ q.alloc = r.alloc
    BY <1>1, <2>1
  <2> QED
    BY <2>1, <2>2, <2>3
<1>5. Shape(q)
  <2>1. Len(q.mem) = q.alloc /\ q.len + q.free + 1 = q.alloc
    BY <1>1, <1>2, <1>4
  <2> QED
    BY <1>4, <2>1, ShapeOf
<1>6. Buffer(q) /\ Ended(q)
  BY <1>1, <1>3, <1>4, <1>5 DEF Buffer, Ended
<1>7. Shows(q, w)
  BY <1>3, <1>4 DEF Shows
<1>8. q = [r EXCEPT !.mem = [i \in DOMAIN @ |-> IF i <= r.len THEN w[i] ELSE @[i]]]
  BY <1>4, Zenon DEF m
<1> QED
  BY <1>6, <1>7, <1>8, Zenon DEF Right

LEMMA LowerRight ==
    ASSUME SdsRight, NEW r, Buffer(r), Ended(r), NEW v \in Seq(SdsByte), Shows(r, v)
    PROVE  Right(Each(r, Lower), [i \in DOMAIN v |-> Lower(v[i])])
<1>1. r.len \in Nat /\ Len(v) = r.len /\ DOMAIN v = 1..r.len /\ \A i \in 1..r.len : r.mem[i] = v[i]
  BY DEF Buffer, Shape, Shows
<1> DEFINE w == [i \in DOMAIN v |-> Lower(v[i])]
<1>2. w \in Seq(SdsByte) /\ Len(w) = r.len
  <2>1. \A i \in 1..r.len : v[i] \in SdsByte
    BY <1>1
  <2>2. w \in [1..r.len -> SdsByte]
    BY <1>1, <2>1 DEF SdsRight
  <2> HIDE DEF w
  <2> QED
    BY <1>1, <2>2, ListOf
<1>3. DOMAIN r.mem = 1..r.alloc /\ r.alloc \in Nat
  BY DEF Buffer, Shape
<1>4. \A i \in DOMAIN r.mem : i <= r.len => Lower(r.mem[i]) = w[i]
  BY <1>1, <1>3
<1>5. [i \in DOMAIN r.mem |-> IF i <= r.len THEN Lower(r.mem[i]) ELSE r.mem[i]]
        = [i \in DOMAIN r.mem |-> IF i <= r.len THEN w[i] ELSE r.mem[i]]
  <2> HIDE DEF w
  <2> QED
    BY <1>4, Zenon
<1> HIDE DEF w
<1>6. Each(r, Lower) = [r EXCEPT !.mem = [i \in DOMAIN @ |-> IF i <= r.len THEN w[i] ELSE @[i]]]
  BY <1>5, Zenon DEF Each
<1> QED
  BY <1>2, <1>6, EachRight DEF w

\* The lookup of sdsmapchars is the one of the abstract map.
LEMMA LookedUp ==
    ASSUME NEW b, NEW from \in Seq(SdsByte), NEW to \in Seq(SdsByte), Len(from) = Len(to)
    PROVE  LET i == SelectInSeq(from, LAMBDA f : f = b)
               hits == {j \in DOMAIN from : from[j] = b}
           IN  /\ (IF i = 0 THEN b ELSE to[i]) = (IF hits = {} THEN b ELSE to[String!Min(hits)])
               /\ b \in SdsByte => (IF i = 0 THEN b ELSE to[i]) \in SdsByte
<1> DEFINE i == SelectInSeq(from, LAMBDA f : f = b)
           hits == {j \in DOMAIN from : from[j] = b}
<1>1. Len(from) \in Nat /\ DOMAIN from = 1..Len(from)
  BY LenProperties
<1>2. i = IF hits # {} THEN Min(hits) ELSE 0
  BY <1>1, Zenon DEF SelectInSeq
<1>3. String!Min(hits) = Min(hits)
  BY Zenon DEF Min, String!Min
<1>4. hits # {} => Min(hits) \in 1..Len(from)
  <2>1. hits \in SUBSET (1..Len(from))
    BY <1>1
  <2> HIDE DEF hits
  <2> QED
    BY <1>1, <2>1, FirstAndLast
<1> HIDE DEF i, hits
<1>5. hits # {} => i # 0 /\ to[i] \in SdsByte
  BY <1>1, <1>2, <1>4
<1>6. /\ (IF i = 0 THEN b ELSE to[i]) = (IF hits = {} THEN b ELSE to[String!Min(hits)])
      /\ b \in SdsByte => (IF i = 0 THEN b ELSE to[i]) \in SdsByte
  BY <1>2, <1>3, <1>5, Zenon
<1> QED
  BY <1>6 DEF i, hits

LEMMA MapRight ==
    ASSUME SdsRight, NEW r, Buffer(r), Ended(r), NEW v \in Seq(SdsByte), Shows(r, v),
           NEW from \in Seq(SdsByte), NEW to \in Seq(SdsByte), Len(from) = Len(to)
    PROVE  Right(sdsmapchars(r, from, to), String!Mapped(v, from, to))
<1> DEFINE w == String!Mapped(v, from, to)
           Look(b) == LET i == SelectInSeq(from, LAMBDA f : f = b) IN IF i = 0 THEN b ELSE to[i]
<1>1. r.len \in Nat /\ Len(v) = r.len /\ DOMAIN v = 1..r.len /\ \A i \in 1..r.len : r.mem[i] = v[i]
  BY DEF Buffer, Shape, Shows
<1>2. w = [i \in 1..r.len |-> LET hits == {j \in DOMAIN from : from[j] = v[i]}
                               IN  IF hits = {} THEN v[i] ELSE to[String!Min(hits)]]
  BY <1>1, Zenon DEF String!Mapped
<1>3. \A i \in 1..r.len : w[i] = Look(v[i]) /\ Look(v[i]) \in SdsByte
  <2> SUFFICES ASSUME NEW i \in 1..r.len
               PROVE  w[i] = Look(v[i]) /\ Look(v[i]) \in SdsByte
    OBVIOUS
  <2>1. v[i] \in SdsByte
    BY <1>1
  <2>2. w[i] = LET hits == {j \in DOMAIN from : from[j] = v[i]}
               IN  IF hits = {} THEN v[i] ELSE to[String!Min(hits)]
    BY <1>2, Zenon
  <2> HIDE DEF w
  <2>3. PICK b \in SdsByte : b = v[i]
    BY <2>1
  <2>4. LET hits == {j \in DOMAIN from : from[j] = b}
        IN  /\ Look(b) = (IF hits = {} THEN b ELSE to[String!Min(hits)])
            /\ b \in SdsByte => Look(b) \in SdsByte
    BY LookedUp, Zenon
  <2> HIDE DEF Look
  <2> QED
    BY <2>2, <2>3, <2>4, Zenon
<1> HIDE DEF Look
<1>4. w \in Seq(SdsByte) /\ Len(w) = r.len
  <2>1. w \in [1..r.len -> SdsByte]
    <3>1. w = [i \in 1..r.len |-> w[i]]
      BY <1>2
    <3> HIDE DEF w
    <3> QED
      BY <1>3, <3>1
  <2> HIDE DEF w
  <2> QED
    BY <1>1, <2>1, ListOf
<1> HIDE DEF w
<1>5. DOMAIN r.mem = 1..r.alloc /\ r.alloc \in Nat
  BY DEF Buffer, Shape
<1>6. \A i \in DOMAIN r.mem : i <= r.len => Look(r.mem[i]) = w[i]
  <2> SUFFICES ASSUME NEW i \in DOMAIN r.mem, i <= r.len PROVE Look(r.mem[i]) = w[i]
    OBVIOUS
  <2>1. i \in 1..r.len
    BY <1>1, <1>5
  <2> QED
    BY <1>1, <1>3, <2>1
<1>7. [i \in DOMAIN r.mem |-> IF i <= r.len THEN Look(r.mem[i]) ELSE r.mem[i]]
        = [i \in DOMAIN r.mem |-> IF i <= r.len THEN w[i] ELSE r.mem[i]]
  BY <1>6, Zenon
<1>8. sdsmapchars(r, from, to) = [r EXCEPT !.mem = [i \in DOMAIN @ |-> IF i <= r.len THEN w[i] ELSE @[i]]]
  BY <1>7, Zenon DEF sdsmapchars, Each, Look
<1> QED
  BY <1>4, <1>8, EachRight DEF w

-----------------------------------------------------------------------------
(* The theorems.                                                            *)

LEMMA SettleKeeps ==
    ASSUME SdsRight, NEW r, NEW v, Right(r, v)
    PROVE  Right(Settle(r), v)
<1>1. /\ r \in [mem : Seq(Cells), len : Nat, free : Int, alloc : Nat] /\ Len(r.mem) = r.alloc
      /\ r.len + 1 <= r.alloc /\ DOMAIN r.mem = 1..r.alloc /\ r.free >= 0
      /\ r.len + r.free + 1 = r.alloc
  BY DEF Right, Buffer, Shape
<1> DEFINE m == [i \in DOMAIN r.mem |-> IF i > r.len + 1 THEN Junk ELSE r.mem[i]]
<1>2. m \in Seq(Cells) /\ Len(m) = r.alloc
  <2>1. m \in [1..r.alloc -> Cells]
    BY <1>1 DEF Cells
  <2> HIDE DEF m
  <2> QED
    BY <1>1, <2>1, ListOf
<1>3. \A i \in 1..r.len + 1 : m[i] = r.mem[i]
  <2>1. \A i \in 1..r.len + 1 : i \in DOMAIN r.mem /\ ~(i > r.len + 1)
    BY <1>1
  <2> QED
    BY <2>1
<1> HIDE DEF m
<1>4. PICK q : q = [r EXCEPT !.mem = m]
  OBVIOUS
<1>5. q \in [mem : Seq(Cells), len : Nat, free : Int, alloc : Nat]
  BY <1>1, <1>2, <1>4
<1>6. q.mem = m /\ q.len = r.len /\ q.free = r.free /\ q.alloc = r.alloc
  BY <1>1, <1>4
<1>7. Shape(q)
  <2>1. Len(q.mem) = q.alloc /\ q.len + q.free + 1 = q.alloc
    BY <1>1, <1>2, <1>6
  <2> QED
    BY <1>5, <2>1, ShapeOf
<1>8. \A i \in 1..r.len : q.mem[i] = r.mem[i]
  BY <1>1, <1>3, <1>6
<1>9. q.mem[r.len + 1] = r.mem[r.len + 1]
  <2>1. r.len + 1 \in 1..r.len + 1
    BY <1>1
  <2> QED
    BY <1>3, <1>6, <2>1
<1>10. Right(q, v)
  BY <1>1, <1>6, <1>7, <1>8, <1>9 DEF Right, Buffer, Ended, Shows
<1> QED
  BY <1>4, <1>10, Zenon DEF Settle, m

\* A call whose result is right leaves the state right and shows its effect.
LEMMA Called ==
    ASSUME SdsRight, NEW CONSTANT op, op # "new", NEW CONSTANT x, NEW CONSTANT y,
           NEW STATE result, NEW STATE v, Value(s) = v,
           Right(result, String!Apply(v, op, x, y)), Call(op, x, y, result)
    PROVE  IInv' /\ String!Next
<1>1. s' = Settle(result) /\ sdsCall' = <<op, x, y>>
  BY DEF Call
<1>2. PICK w \in Seq(SdsByte) : w = String!Apply(v, op, x, y) /\ Right(result, w)
  BY DEF Right
<1>3. PICK q : q = Settle(result)
  OBVIOUS
<1>4. Right(q, w)
  BY <1>2, <1>3, SettleKeeps
<1>5. Buffer(q) /\ Ended(q) /\ Value(q) = w
  BY <1>2, <1>4, ShownIsValue DEF Right
<1>6. s' = q
  BY <1>1, <1>3
<1>7. IInv'
  BY <1>5, <1>6 DEF IInv
<1>8. Value(s)' = w
  BY <1>5, <1>6
<1>9. sdsCall'[1] = op /\ sdsCall'[2] = x /\ sdsCall'[3] = y
  BY <1>1
<1> QED
  BY <1>2, <1>7, <1>8, <1>9 DEF String!Next

LEMMA InitRight ==
    ASSUME SdsRight, SdsInit
    PROVE  IInv /\ String!Init
<1>1. PICK t \in Seq(SdsByte) : s = sdsnewlen(t)
  <2>1. \A n \in 0..MaxLen : Fill(n, NUL) \in Seq(SdsByte)
    BY FillIs DEF SdsRight
  <2>2. Text \in SUBSET Seq(SdsByte)
    BY DEF SdsRight
  <2> QED
    BY <2>1, <2>2 DEF SdsInit
<1>2. NUL \in SdsByte /\ SdsByte \in SUBSET Nat /\ Len(t) \in Nat /\ NUL = 0
  BY DEF SdsRight, NUL
<1>3. PICK n \in Nat : n = Len(t)
  BY <1>2
<1>4. PICK m \in Seq(Cells) : m = t \o <<NUL>> /\ Len(m) = n + 1
                               /\ (\A i \in 1..n : m[i] = t[i]) /\ m[n + 1] = NUL
  <2>1. t \in Seq(Cells) /\ <<NUL>> \in Seq(Cells) /\ Len(<<NUL>>) = 1 /\ <<NUL>>[1] = NUL
    BY <1>2, SeqMonotonic DEF Cells
  <2>2. /\ t \o <<NUL>> \in Seq(Cells) /\ Len(t \o <<NUL>>) = Len(t) + Len(<<NUL>>)
        /\ \A i \in 1..Len(t) + Len(<<NUL>>) :
              (t \o <<NUL>>)[i] = IF i <= Len(t) THEN t[i] ELSE <<NUL>>[i - Len(t)]
    BY <2>1, ConcatProperties
  <2>3. PICK u : u = t \o <<NUL>>
    OBVIOUS
  <2>4. \A i \in 1..n + 1 : u[i] = IF i <= n THEN t[i] ELSE <<NUL>>[i - n]
    BY <1>3, <2>1, <2>2, <2>3
  <2>5. u[n + 1] = NUL
    BY <1>3, <2>1, <2>4
  <2>6. \A i \in 1..n : u[i] = t[i]
    BY <1>3, <2>4
  <2> QED
    BY <1>3, <2>1, <2>2, <2>3, <2>5, <2>6
<1>5. s = [mem |-> m, len |-> n, free |-> 0, alloc |-> n + 1]
  BY <1>1, <1>3, <1>4 DEF sdsnewlen
<1>6. Shape(s) /\ s.len = n /\ s.free = 0 /\ s.mem = m
  BY <1>4, <1>5 DEF Shape
<1>7. Buffer(s) /\ Ended(s) /\ Shows(s, t)
  BY <1>3, <1>4, <1>6 DEF Buffer, Ended, Shows
<1>8. Value(s) = t
  BY <1>7, ShownIsValue
<1>9. Value(s) \in Seq(Int)
  <2>1. SdsByte \subseteq Int
    BY <1>2
  <2>2. t \in Seq(Int)
    BY <2>1, SeqMonotonic
  <2> QED
    BY <1>8, <2>2
<1> QED
  BY <1>7, <1>9 DEF IInv, SdsInit, String!Init

LEMMA StepRight ==
    ASSUME SdsRight, IInv, [SdsNext]_sdsVars
    PROVE  IInv' /\ [String!Next]_<<Value(s), sdsCall>>
<1> DEFINE v == Value(s)
<1>1. v \in Seq(SdsByte) /\ Shows(s, v) /\ Buffer(s) /\ Ended(s) /\ Len(v) \in Nat
  BY ValueShown DEF IInv
<1>2. /\ \A t \in Text : t \in Seq(SdsByte)
      /\ Ends \in SUBSET Int /\ s.len = Len(v)
  BY <1>1 DEF SdsRight, Shows
<1>3. CASE cat
  <2>1. PICK t \in Seq(SdsByte) : Call("cat", t, 0, sdscatlen(s, t))
    BY <1>2, <1>3 DEF cat
  <2>2. Right(sdscatlen(s, t), v \o t)
    BY <1>1, CatRight
  <2>3. String!Apply(v, "cat", t, 0) = v \o t
    BY DEF String!Apply
  <2> HIDE DEF v
  <2> QED
    BY <2>1, <2>2, <2>3, Called DEF v
<1>4. CASE catfmt
  <2>1. PICK t \in Seq(SdsByte), u \in Seq(SdsByte) :
           Call("cat", t \o u, 0, sdscatfmt(s, [i \in DOMAIN t |-> <<t[i]>>] \o <<u>>))
    BY <1>2, <1>4, Zenon DEF catfmt
  <2>2. Right(sdscatfmt(s, [i \in DOMAIN t |-> <<t[i]>>] \o <<u>>), v \o (t \o u))
    BY <1>1, CatfmtRight
  <2>3. String!Apply(v, "cat", t \o u, 0) = v \o (t \o u)
    BY DEF String!Apply
  <2> HIDE DEF v
  <2> QED
    BY <2>1, <2>2, <2>3, Called DEF v
<1>5. CASE cpy
  <2>1. PICK t \in Seq(SdsByte) : Call("cpy", t, 0, sdscpylen(s, t))
    BY <1>2, <1>5 DEF cpy
  <2>2. Right(sdscpylen(s, t), t)
    BY <1>1, CpyRight
  <2>3. String!Apply(v, "cpy", t, 0) = t
    BY DEF String!Apply
  <2> HIDE DEF v
  <2> QED
    BY <2>1, <2>2, <2>3, Called DEF v
<1>6. CASE clear
  <2>1. Call("clear", 0, 0, EndAt(s, 0))
    BY <1>6 DEF clear
  <2>2. Right(EndAt(s, 0), SubSeq(v, 1, 0))
    <3>1. 0 \in 0..Len(v)
      BY <1>1
    <3> QED
      BY <1>1, <3>1, CutRight
  <2>3. String!Apply(v, "clear", 0, 0) = << >> /\ SubSeq(v, 1, 0) = << >>
    BY <1>1, WholeFront DEF String!Apply
  <2> HIDE DEF v
  <2> QED
    BY <2>1, <2>2, <2>3, Called DEF v
<1>7. CASE growzero
  <2>1. PICK n \in Nat : Call("growzero", n, 0, sdsgrowzero(s, n))
    BY <1>7 DEF growzero, SdsRight
  <2>2. Right(sdsgrowzero(s, n), v \o Fill(n - Len(v), NUL))
    BY <1>1, GrowRight
  <2>3. String!Apply(v, "growzero", n, 0) = v \o Fill(n - Len(v), NUL)
    BY DEF String!Apply, Fill
  <2> HIDE DEF v
  <2> QED
    BY <2>1, <2>2, <2>3, Called DEF v
<1>8. CASE range
  <2>1. PICK a \in Int, b \in Int : Call("range", a, b, sdsrange(s, a, b))
    BY <1>2, <1>8 DEF range
  <2>2. Right(sdsrange(s, a, b),
              String!Span(v, {i \in DOMAIN v : String!At(v, a) < i /\ i <= String!At(v, b) + 1}))
    BY <1>1, RangeRight
  <2>3. String!Apply(v, "range", a, b)
          = String!Span(v, {i \in DOMAIN v : String!At(v, a) < i /\ i <= String!At(v, b) + 1})
    BY DEF String!Apply
  <2> HIDE DEF v
  <2> QED
    BY <2>1, <2>2, <2>3, Called DEF v
<1>9. CASE trim
  <2>1. PICK cset \in SUBSET (SdsByte \ {NUL}) : Call("trim", cset, 0, sdstrim(s, cset))
    BY <1>9 DEF trim
  <2>2. Right(sdstrim(s, cset), String!Span(v, String!Kept(v, cset)))
    BY <1>1, TrimRight
  <2>3. String!Apply(v, "trim", cset, 0) = String!Span(v, String!Kept(v, cset))
    BY DEF String!Apply
  <2> HIDE DEF v
  <2> QED
    BY <2>1, <2>2, <2>3, Called DEF v
<1>10. CASE updatelen
  <2>1. Call("cstring", 0, 0, sdsupdatelen(s))
    BY <1>10 DEF updatelen
  <2>2. Right(sdsupdatelen(s),
              SubSeq(v, 1, String!Min({i \in DOMAIN v : v[i] = NUL} \union {Len(v) + 1}) - 1))
    BY <1>1, UpdateRight
  <2>3. String!Apply(v, "cstring", 0, 0)
          = SubSeq(v, 1, String!Min({i \in DOMAIN v : v[i] = NUL} \union {Len(v) + 1}) - 1)
    BY DEF String!Apply
  <2> HIDE DEF v
  <2> QED
    BY <2>1, <2>2, <2>3, Called DEF v
<1>11. CASE lower
  <2>1. Call("lower", 0, 0, Each(s, Lower))
    BY <1>11 DEF lower
  <2>2. Right(Each(s, Lower), [i \in DOMAIN v |-> Lower(v[i])])
    BY <1>1, LowerRight
  <2>3. String!Apply(v, "lower", 0, 0) = [i \in DOMAIN v |-> Lower(v[i])]
    BY DEF String!Apply
  <2> HIDE DEF v
  <2> QED
    BY <2>1, <2>2, <2>3, Called DEF v
<1>12. CASE mapchars
  <2>1. PICK from \in Seq(SdsByte), to \in Seq(SdsByte) :
           Len(from) = Len(to) /\ Call("map", from, to, sdsmapchars(s, from, to))
    BY <1>2, <1>12 DEF mapchars
  <2>2. Right(sdsmapchars(s, from, to), String!Mapped(v, from, to))
    BY <1>1, <2>1, MapRight
  <2>3. String!Apply(v, "map", from, to) = String!Mapped(v, from, to)
    BY DEF String!Apply
  <2> HIDE DEF v
  <2> QED
    BY <2>1, <2>2, <2>3, Called DEF v
<1>13. CASE room
  <2>1. PICK n, r : Call("room", n, 0, r) /\ Right(r, v)
    <3>1. CASE \E n \in 1..MaxLen : Call("room", n, 0, sdsMakeRoomFor(s, n))
      <4>1. PICK n \in Nat : Call("room", n, 0, sdsMakeRoomFor(s, n))
        BY <3>1 DEF SdsRight
      <4>2. /\ Buffer(sdsMakeRoomFor(s, n)) /\ Shows(sdsMakeRoomFor(s, n), v)
            /\ Ended(sdsMakeRoomFor(s, n))
        <5>1. /\ sdsMakeRoomFor(s, n).len = s.len
              /\ \A i \in 1..s.len + 1 : sdsMakeRoomFor(s, n).mem[i] = s.mem[i]
          BY <1>1, RoomMade
        <5>2. s.len + 1 \in 1..s.len + 1
          BY <1>1, <1>2
        <5>3. Ended(sdsMakeRoomFor(s, n))
          BY <1>1, <5>1, <5>2 DEF Ended
        <5>4. Buffer(sdsMakeRoomFor(s, n)) /\ Shows(sdsMakeRoomFor(s, n), v)
          BY <1>1, RoomShows
        <5> QED
          BY <5>3, <5>4
      <4> QED
        BY <1>1, <4>1, <4>2 DEF Right
    <3>2. CASE Call("room", 0, 0, sdsRemoveFreeSpace(s))
      <4>1. PICK k \in Nat : k = s.len + 1
        BY <1>1, <1>2
      <4>2. PICK r : r = Realloc(s, k) /\ r = sdsRemoveFreeSpace(s)
        BY <4>1 DEF sdsRemoveFreeSpace
      <4>3. Buffer(r) /\ r.len = s.len /\ \A i \in 1..s.len + 1 : r.mem[i] = s.mem[i]
        BY <1>1, <1>2, <4>1, <4>2, Reallocated
      <4>4. s.len + 1 \in 1..s.len + 1 /\ \A i \in 1..Len(v) : i \in 1..s.len + 1
        BY <1>1, <1>2
      <4>5. Ended(r) /\ Shows(r, v)
        BY <1>1, <4>3, <4>4 DEF Ended, Shows
      <4> QED
        BY <1>1, <3>2, <4>2, <4>3, <4>5 DEF Right
    <3> QED
      BY <1>13, <3>1, <3>2 DEF room
  <2>2. String!Apply(v, "room", n, 0) = v
    BY DEF String!Apply
  <2> HIDE DEF v
  <2> QED
    BY <2>1, <2>2, Called DEF v
<1>14. CASE incrLen
  <2>1. CASE \E t \in Text : LET r == sdsMakeRoomFor(s, Len(t))
                            IN  Call("cat", t, 0, EndAt(Write(r, r.len, t), r.len + Len(t)))
    <3>0. PICK t \in Seq(SdsByte) :
            Call("cat", t, 0, EndAt(Write(sdsMakeRoomFor(s, Len(t)), sdsMakeRoomFor(s, Len(t)).len, t),
                                    sdsMakeRoomFor(s, Len(t)).len + Len(t)))
      BY <1>2, <2>1, Zenon
    <3>1. PICK r : /\ r = sdsMakeRoomFor(s, Len(t))
                   /\ Call("cat", t, 0, EndAt(Write(r, r.len, t), r.len + Len(t)))
      BY <3>0, Zenon
    <3>2. Right(EndAt(Write(r, r.len, t), r.len + Len(t)), v \o t)
      BY <1>1, <3>1, CatRight
    <3>3. String!Apply(v, "cat", t, 0) = v \o t
      BY DEF String!Apply
    <3> HIDE DEF v
    <3> QED
      BY <3>1, <3>2, <3>3, Called DEF v
  <2>2. CASE \E n \in 1..s.len : Call("cut", n, 0, EndAt(s, s.len - n))
    <3>1. PICK n \in 1..s.len : Call("cut", n, 0, EndAt(s, s.len - n))
      BY <2>2
    <3>2. PICK k \in 0..Len(v) : k = s.len - n /\ k = Len(v) - n
      <4>1. PICK m \in Nat : m = Len(v) /\ m = s.len
        BY <1>1, <1>2
      <4>2. n \in 1..m /\ m - n \in 0..m
        BY <3>1, <4>1
      <4> QED
        BY <4>1, <4>2
    <3>3. Right(EndAt(s, k), SubSeq(v, 1, k))
      BY <1>1, CutRight
    <3>4. String!Apply(v, "cut", n, 0) = SubSeq(v, 1, k)
      BY <3>2 DEF String!Apply
    <3>5. Call("cut", n, 0, EndAt(s, k))
      BY <3>1, <3>2
    <3> HIDE DEF v
    <3> QED
      BY <3>3, <3>4, <3>5, Called DEF v
  <2> QED
    BY <1>14, <2>1, <2>2 DEF incrLen
<1>15. CASE UNCHANGED sdsVars
  BY <1>15 DEF sdsVars, IInv, Buffer, Shape, Ended, Value
<1> QED
  BY <1>3, <1>4, <1>5, <1>6, <1>7, <1>8, <1>9, <1>10, <1>11, <1>12, <1>13, <1>14, <1>15 DEF SdsNext

LEMMA IInvSafe ==
    ASSUME IInv
    PROVE  BufferRight
  BY DEF IInv, Buffer, Shape, Ended, BufferRight, HeaderRight, NoJunk

\* Whatever calls are made on it, the header of a string accounts for the
\* whole buffer, no call has written outside of it, the string is ended by a
\* NUL and never shows what lay in the buffer by chance (sdsMakeRoomFor,
\* sdsIncrLen, sdsgrowzero and every call that ends a string).
THEOREM BufferKept ==
    ASSUME SdsRight
    PROVE  SdsSpec => []BufferRight
<1>1. SdsInit => IInv
  BY InitRight
<1>2. IInv /\ [SdsNext]_sdsVars => IInv'
  BY StepRight
<1>3. IInv => BufferRight
  BY IInvSafe
<1> QED
  BY <1>1, <1>2, <1>3, PTL DEF SdsSpec

\* Every call of sds.c does to the string what its comment says, whatever
\* the length, the room and the remains in the buffer.
THEOREM ByteStringImplemented ==
    ASSUME SdsRight
    PROVE  SdsSpec => ImplementsByteString
<1>1. SdsInit => IInv /\ String!Init
  BY InitRight
<1>2. IInv /\ [SdsNext]_sdsVars => IInv' /\ [String!Next]_<<Value(s), sdsCall>>
  BY StepRight
<1> QED
  BY <1>1, <1>2, PTL DEF SdsSpec, ImplementsByteString, String!Spec

-----------------------------------------------------------------------------
(* sdssplitlen: the tokens found so far are the string up to the start of   *)
(* the next one.                                                            *)

\* What the tokens before the last are joined to.
Trails(g, ts, sp, n) == g[0] = << >> /\ \A i \in 1..n : g[i] = g[i - 1] \o ts[i] \o sp
Glued(ts, sp, str, m) == \E g : Trails(g, ts, sp, Len(ts)) /\ g[Len(ts)] = SubSeq(str, 1, m)
Joins(f, ts, sp, n) ==
    f = [i \in 0..n |-> IF i = 0 THEN << >>
                        ELSE f[i - 1] \o ts[i] \o (IF i # Len(ts) THEN sp ELSE << >>)]
NoneFrom(str, sp, a, b) == \A k \in a..b - 1 : SubSeq(str, k + 1, k + Len(sp)) # sp

Cutting ==
    /\ string \in Seq(Letter) /\ sep \in Seq(Letter) /\ Len(sep) > 0
    /\ tokens \in Seq(Seq(Letter)) /\ slots \in Nat /\ slots >= 5
    /\ splitStart \in Nat /\ splitJ \in Nat /\ splitStart <= splitJ /\ splitJ <= Len(string)
    /\ Glued(tokens, sep, string, splitStart)
    /\ \A i \in DOMAIN tokens : ~Cut!HasSep(tokens[i])
    /\ NoneFrom(string, sep, splitStart, splitJ)
    /\ splitLive = Len(tokens) + 1 /\ Len(tokens) < slots

CutInv ==
    CASE splitAt = "call" -> /\ string \in Seq(Letter) /\ sep \in Seq(Letter)
                             /\ splitJ = 0 /\ splitStart = 0 /\ tokens = << >> /\ slots = 5
                             /\ splitLive = 0
      [] splitAt = "loop" -> Cutting
      [] splitAt = "tokens" -> /\ tokens \in Seq(Seq(Letter)) /\ slots \in Nat
                               /\ Cut!sdsjoinsds(tokens, sep) = string
                               /\ \A i \in DOMAIN tokens : ~Cut!HasSep(tokens[i])
                               /\ Len(tokens) <= slots /\ splitLive = Len(tokens) + 1
      [] splitAt \in {"NULL", "freed"} -> splitLive = 0 /\ Len(tokens) <= slots
      [] OTHER -> FALSE

LEMMA Ahead ==
    ASSUME NEW S, NEW str \in Seq(S), NEW a \in Nat, NEW b \in Nat, a <= b, b <= Len(str)
    PROVE  /\ SubSeq(str, 1, a) \o SubSeq(str, a + 1, b) = SubSeq(str, 1, b)
           /\ SubSeq(str, a + 1, b) \in Seq(S) /\ Len(SubSeq(str, a + 1, b)) = b - a
           /\ \A i \in 1..b - a : SubSeq(str, a + 1, b)[i] = str[a + i]
<1>1. SubSeq(str, a + 1, b) \in Seq(S) /\ Len(SubSeq(str, a + 1, b)) = b - a
      /\ \A i \in 1..b - a : SubSeq(str, a + 1, b)[i] = str[a + i]
  OBVIOUS
<1>2. SubSeq(str, 1, a) \in Seq(S) /\ Len(SubSeq(str, 1, a)) = a
      /\ \A i \in 1..a : SubSeq(str, 1, a)[i] = str[i]
  OBVIOUS
<1>3. SubSeq(str, 1, b) \in Seq(S) /\ Len(SubSeq(str, 1, b)) = b
      /\ \A i \in 1..b : SubSeq(str, 1, b)[i] = str[i]
  OBVIOUS
<1> DEFINE x == SubSeq(str, 1, a)
           y == SubSeq(str, a + 1, b)
           z == SubSeq(str, 1, b)
<1>4. /\ x \in Seq(S) /\ Len(x) = a /\ y \in Seq(S) /\ Len(y) = b - a
      /\ z \in Seq(S) /\ Len(z) = b
      /\ \A i \in 1..a : x[i] = str[i]
      /\ \A i \in 1..b - a : y[i] = str[a + i]
      /\ \A i \in 1..b : z[i] = str[i]
  BY <1>1, <1>2, <1>3
<1> HIDE DEF x, y, z
<1>5. /\ x \o y \in Seq(S) /\ Len(x \o y) = b
      /\ \A i \in 1..b : (x \o y)[i] = IF i <= a THEN x[i] ELSE y[i - a]
  <2>1. /\ x \o y \in Seq(S) /\ Len(x \o y) = Len(x) + Len(y)
        /\ \A i \in 1..Len(x) + Len(y) : (x \o y)[i] = IF i <= Len(x) THEN x[i] ELSE y[i - Len(x)]
    <3>1. x \in Seq(S) /\ y \in Seq(S)
      BY <1>4
    <3> QED
      BY <3>1, ConcatProperties, Zenon
  <2>2. Len(x) + Len(y) = b
    BY <1>4
  <2> QED
    BY <1>4, <2>1, <2>2
<1>6. ASSUME NEW i \in 1..b PROVE (x \o y)[i] = z[i]
  <2>1. CASE i <= a
    <3>1. i \in 1..a
      BY <2>1
    <3> QED
      BY <1>4, <1>5, <2>1, <3>1
  <2>2. CASE ~(i <= a)
    <3>1. i - a \in 1..b - a /\ a + (i - a) = i
      BY <2>2
    <3>2. (x \o y)[i] = y[i - a]
      BY <1>5, <2>2
    <3>3. y[i - a] = str[i] /\ z[i] = str[i]
      BY <1>4, <3>1
    <3> QED
      BY <3>2, <3>3
  <2> QED
    BY <2>1, <2>2
<1>7. x \o y = z
  BY <1>4, <1>5, <1>6
<1> QED
  BY <1>1, <1>7 DEF x, y, z

LEMMA GluedNone ==
    ASSUME NEW S, NEW str \in Seq(S), NEW sp PROVE Glued(<< >>, sp, str, 0)
<1> DEFINE g == [i \in 0..0 |-> << >>]
<1>1. g[0] = << >> /\ SubSeq(str, 1, 0) = << >> /\ Len(<< >>) = 0 /\ 1..0 = {}
  OBVIOUS
<1>2. Trails(g, << >>, sp, Len(<< >>)) /\ g[Len(<< >>)] = SubSeq(str, 1, 0)
  BY <1>1 DEF Trails
<1> QED
  BY <1>2, Zenon DEF Glued

LEMMA GluedMore ==
    ASSUME NEW S, NEW str \in Seq(S), NEW sp \in Seq(S), NEW ts \in Seq(Seq(S)), NEW a \in Nat,
           NEW b \in Nat, a <= b, b + Len(sp) <= Len(str),
           Glued(ts, sp, str, a), SubSeq(str, b + 1, b + Len(sp)) = sp
    PROVE  Glued(Append(ts, SubSeq(str, a + 1, b)), sp, str, b + Len(sp))
<1> DEFINE n == Len(ts)
           t == SubSeq(str, a + 1, b)
           us == Append(ts, t)
<1>1. PICK g : Trails(g, ts, sp, n) /\ g[n] = SubSeq(str, 1, a)
  BY Zenon DEF Glued
<1>2. n \in Nat /\ Len(sp) \in Nat
  OBVIOUS
<1>3. t \in Seq(S) /\ SubSeq(str, 1, a) \o t = SubSeq(str, 1, b)
  BY <1>2, Ahead
<1>4. SubSeq(str, 1, b) \o sp = SubSeq(str, 1, b + Len(sp))
  BY <1>2, Ahead
<1> HIDE DEF t
<1>5. us \in Seq(Seq(S)) /\ Len(us) = n + 1 /\ us[n + 1] = t /\ \A i \in 1..n : us[i] = ts[i]
  BY <1>2, <1>3
<1> HIDE DEF us, n
<1> DEFINE h == [i \in 0..n + 1 |-> IF i = n + 1 THEN g[n] \o t \o sp ELSE g[i]]
<1>6. h[n + 1] = g[n] \o t \o sp /\ \A i \in 0..n : h[i] = g[i]
  <2>1. n + 1 \in 0..n + 1 /\ \A i \in 0..n : i \in 0..n + 1 /\ i # n + 1
    BY <1>2
  <2> QED
    BY <2>1, Zenon
<1> HIDE DEF h
<1>7. h[0] = << >>
  BY <1>1, <1>2, <1>6 DEF Trails
<1>8. ASSUME NEW i \in 1..n + 1 PROVE h[i] = h[i - 1] \o us[i] \o sp
  <2>1. CASE i = n + 1
    <3>1. i - 1 = n /\ n \in 0..n
      BY <1>2, <2>1
    <3> QED
      BY <1>5, <1>6, <2>1, <3>1
  <2>2. CASE i # n + 1
    <3>1. i \in 1..n /\ i \in 0..n /\ i - 1 \in 0..n
      BY <1>2, <2>2
    <3>2. g[i] = g[i - 1] \o ts[i] \o sp
      BY <1>1, <3>1, Zenon DEF Trails
    <3> QED
      BY <1>5, <1>6, <3>1, <3>2
  <2> QED
    BY <2>1, <2>2
<1>9. Trails(h, us, sp, Len(us)) /\ h[Len(us)] = SubSeq(str, 1, b + Len(sp))
  BY <1>1, <1>3, <1>4, <1>5, <1>6, <1>7, <1>8 DEF Trails
<1>10. Glued(us, sp, str, b + Len(sp))
  BY <1>9, Zenon DEF Glued
<1> QED
  BY <1>10, Zenon DEF us, t

LEMMA JoinsExist ==
    ASSUME NEW ts, NEW sp, NEW n \in Nat PROVE \E f : Joins(f, ts, sp, n)
<1> DEFINE Bad == {m \in Nat : ~\E f : Joins(f, ts, sp, m)}
<1> SUFFICES ASSUME n \in Bad PROVE FALSE
  OBVIOUS
<1>1. PICK m \in Bad : \A j \in Bad : m <= j
  <2>1. Bad \in SUBSET Nat /\ Bad # {}
    OBVIOUS
  <2> HIDE DEF Bad
  <2> QED
    BY LeastMember, <2>1, Zenon
<1>2. CASE m = 0
  <2> DEFINE g == [i \in 0..0 |-> << >>]
  <2>1. g = [i \in 0..0 |-> IF i = 0 THEN << >> ELSE g[i - 1] \o ts[i] \o (IF i # Len(ts) THEN sp ELSE << >>)]
    <3>1. \A i \in 0..0 : i = 0
      OBVIOUS
    <3> QED
      BY <3>1, Zenon
  <2>2. Joins(g, ts, sp, 0)
    BY <2>1, Zenon DEF Joins
  <2> QED
    BY <1>2, <2>2, Zenon
<1>3. CASE m # 0
  <2>1. m \in Nat /\ m - 1 \in Nat /\ m - 1 \notin Bad
    BY <1>1, <1>3
  <2>2. PICK k : Joins(k, ts, sp, m - 1)
    BY <2>1
  <2> DEFINE g == [i \in 0..m |-> IF i < m THEN k[i] ELSE k[m - 1] \o ts[m] \o (IF m # Len(ts) THEN sp ELSE << >>)]
  <2>3. ASSUME NEW i \in 0..m
        PROVE  g[i] = IF i = 0 THEN << >> ELSE g[i - 1] \o ts[i] \o (IF i # Len(ts) THEN sp ELSE << >>)
    <3>1. CASE i < m
      <4>1. i \in 0..m - 1
        BY <2>1, <3>1
      <4>2. k[i] = IF i = 0 THEN << >> ELSE k[i - 1] \o ts[i] \o (IF i # Len(ts) THEN sp ELSE << >>)
        BY <2>2, <4>1, Zenon DEF Joins
      <4>3. i # 0 => i - 1 \in 0..m /\ i - 1 < m
        BY <2>1, <4>1
      <4> QED
        BY <3>1, <4>1, <4>2, <4>3
    <3>2. CASE i = m
      <4>1. m - 1 \in 0..m /\ m - 1 < m /\ m \in 0..m /\ ~(m < m)
        BY <2>1
      <4> QED
        BY <1>3, <3>2, <4>1
    <3> QED
      BY <2>1, <3>1, <3>2
  <2>4. Joins(g, ts, sp, m)
    BY <2>3, Zenon DEF Joins
  <2> QED
    BY <2>4
<1> QED
  BY <1>2, <1>3

LEMMA JoinIs ==
    ASSUME NEW S, NEW str \in Seq(S), NEW sp \in Seq(S), NEW ts \in Seq(Seq(S)), NEW a \in Nat,
           a <= Len(str), Glued(ts, sp, str, a)
    PROVE  Cut!sdsjoinsds(Append(ts, SubSeq(str, a + 1, Len(str))), sp) = str
<1> DEFINE n == Len(ts)
           t == SubSeq(str, a + 1, Len(str))
           us == Append(ts, t)
<1>1. PICK g : Trails(g, ts, sp, n) /\ g[n] = SubSeq(str, 1, a)
  BY Zenon DEF Glued
<1>2. n \in Nat /\ Len(str) \in Nat
  OBVIOUS
<1>3. t \in Seq(S) /\ SubSeq(str, 1, a) \o t = str
  <2>1. t \in Seq(S) /\ SubSeq(str, 1, a) \o t = SubSeq(str, 1, Len(str))
    <3>1. Len(str) \in Nat /\ Len(str) <= Len(str)
      BY <1>2
    <3> QED
      BY <3>1, Ahead
  <2>2. SubSeq(str, 1, Len(str)) = str
    BY <1>2
  <2> QED
    BY <2>1, <2>2
<1> HIDE DEF t
<1>4. us \in Seq(Seq(S)) /\ Len(us) = n + 1 /\ us[n + 1] = t /\ \A i \in 1..n : us[i] = ts[i]
  BY <1>2, <1>3
<1> HIDE DEF us
<1>5. PICK f : Joins(f, us, sp, Len(us)) /\ Cut!sdsjoinsds(us, sp) = f[Len(us)]
  <2>1. Joins(CHOOSE f : Joins(f, us, sp, Len(us)), us, sp, Len(us))
    <3>1. Len(us) \in Nat
      BY <1>2, <1>4
    <3> QED
      BY <3>1, JoinsExist
  <2>2. Cut!sdsjoinsds(us, sp) = (CHOOSE f : Joins(f, us, sp, Len(us)))[Len(us)]
    BY Zenon DEF Cut!sdsjoinsds, Joins
  <2> QED
    BY <2>1, <2>2, Zenon
<1>6. \A i \in 0..Len(us) : f[i] = IF i = 0 THEN << >>
                                    ELSE f[i - 1] \o us[i] \o (IF i # Len(us) THEN sp ELSE << >>)
  BY <1>5, Zenon DEF Joins
<1> HIDE DEF n
<1> DEFINE Bad == {i \in 0..n : f[i] # g[i]}
<1>7. ASSUME Bad # {} PROVE FALSE
  <2>1. PICK i \in Bad : \A k \in Bad : i <= k
    <3>1. Bad \in SUBSET Nat
      BY <1>2
    <3> HIDE DEF Bad
    <3> QED
      BY LeastMember, <3>1, <1>7, Zenon
  <2>2. i \in 0..n /\ i \in 0..Len(us) /\ f[i] # g[i] /\ i # Len(us)
    BY <1>2, <1>4, <2>1
  <2>3. i # 0
    <3>1. f[0] = << >>
      BY <1>2, <1>4, <1>6
    <3> QED
      BY <1>1, <2>2, <3>1 DEF Trails
  <2>4. i \in 1..n /\ i - 1 \in 0..n /\ i - 1 \notin Bad
    BY <1>2, <2>1, <2>2, <2>3
  <2>5. f[i] = f[i - 1] \o us[i] \o sp
    BY <1>6, <2>2, <2>3, Zenon
  <2>6. g[i] = g[i - 1] \o ts[i] \o sp
    BY <1>1, <2>4, Zenon DEF Trails
  <2>7. f[i - 1] = g[i - 1] /\ us[i] = ts[i]
    BY <1>4, <2>4
  <2> QED
    BY <2>2, <2>5, <2>6, <2>7
<1>8. f[n] = SubSeq(str, 1, a)
  <2>1. n \in 0..n
    BY <1>2
  <2>2. f[n] = g[n]
    BY <1>7, <2>1
  <2> QED
    BY <1>1, <2>2
<1>9. f[Len(us)] = f[n] \o t \o << >>
  <2>1. Len(us) \in 0..Len(us) /\ Len(us) # 0 /\ Len(us) - 1 = n
    BY <1>2, <1>4
  <2>2. f[Len(us)] = f[Len(us) - 1] \o us[Len(us)] \o << >>
    BY <1>6, <2>1, Zenon
  <2> QED
    BY <1>4, <2>1, <2>2
<1>10. f[Len(us)] = str
  <2>1. f[n] \o t = str /\ str \o << >> = str
    BY <1>3, <1>8, ConcatEmptySeq
  <2> QED
    BY <1>9, <2>1
<1> QED
  BY <1>5, <1>10 DEF us, t

\* A piece between a and b holds no separator when none begins before c, and
\* none can begin after it and end by b.
LEMMA PieceHasNone ==
    ASSUME NEW S, string \in Seq(S), sep \in Seq(S), Len(sep) > 0,
           NEW a \in Nat, NEW b \in Nat, NEW c \in Nat, a <= b, b <= Len(string),
           b - Len(sep) < c, NoneFrom(string, sep, a, c)
    PROVE  ~Cut!HasSep(SubSeq(string, a + 1, b))
<1> SUFFICES ASSUME Cut!HasSep(SubSeq(string, a + 1, b)) PROVE FALSE
  OBVIOUS
<1> DEFINE t == SubSeq(string, a + 1, b)
<1>1. /\ t \in Seq(S) /\ Len(t) = b - a /\ \A i \in 1..b - a : t[i] = string[a + i]
  BY Ahead
<1>2. PICK i \in 0..Len(t) - Len(sep) : SubSeq(t, i + 1, i + Len(sep)) = sep
  BY Zenon DEF Cut!HasSep
<1> HIDE DEF t
<1>3. PICK n \in Nat \ {0} : n = Len(sep)
  OBVIOUS
<1>4. i \in Nat /\ i + n <= b - a /\ a + i \in a..c - 1
  BY <1>1, <1>2, <1>3
<1>5. SubSeq(string, a + i + 1, a + i + n) # sep
  BY <1>3, <1>4 DEF NoneFrom
<1>6. /\ SubSeq(t, i + 1, i + n) \in Seq(S) /\ Len(SubSeq(t, i + 1, i + n)) = n
      /\ \A k \in 1..n : SubSeq(t, i + 1, i + n)[k] = t[i + k]
  <2>1. i + n <= Len(t) /\ i <= i + n /\ i + n \in Nat
    BY <1>1, <1>4
  <2>2. /\ SubSeq(t, i + 1, i + n) \in Seq(S) /\ Len(SubSeq(t, i + 1, i + n)) = i + n - i
        /\ \A k \in 1..i + n - i : SubSeq(t, i + 1, i + n)[k] = t[i + k]
    BY <1>1, <1>4, <2>1, Ahead
  <2>3. i + n - i = n
    BY <1>4
  <2> QED
    BY <2>2, <2>3
<1>7. /\ SubSeq(string, a + i + 1, a + i + n) \in Seq(S)
      /\ Len(SubSeq(string, a + i + 1, a + i + n)) = n
      /\ \A k \in 1..n : SubSeq(string, a + i + 1, a + i + n)[k] = string[a + i + k]
  <2>1. PICK d \in Nat : d = a + i
    BY <1>4
  <2>2. d + n <= Len(string) /\ d <= d + n /\ d + n \in Nat
    BY <1>4, <2>1
  <2>3. /\ SubSeq(string, d + 1, d + n) \in Seq(S) /\ Len(SubSeq(string, d + 1, d + n)) = d + n - d
        /\ \A k \in 1..d + n - d : SubSeq(string, d + 1, d + n)[k] = string[d + k]
    BY <2>2, Ahead
  <2>4. d + n - d = n
    OBVIOUS
  <2> QED
    BY <2>1, <2>3, <2>4
<1>8. ASSUME NEW k \in 1..n
      PROVE  SubSeq(t, i + 1, i + n)[k] = SubSeq(string, a + i + 1, a + i + n)[k]
  <2>1. i + k \in 1..b - a /\ a + (i + k) = a + i + k
    BY <1>4
  <2> QED
    BY <1>1, <1>6, <1>7, <2>1
<1>9. SubSeq(t, i + 1, i + n) = SubSeq(string, a + i + 1, a + i + n)
  BY <1>6, <1>7, <1>8, SeqEqual
<1> QED
  BY <1>2, <1>3, <1>5, <1>9

LEMMA JoinNone ==
    ASSUME NEW sp PROVE Cut!sdsjoinsds(<< >>, sp) = << >>
<1>1. Len(<< >>) = 0 /\ 0 \in Nat
  OBVIOUS
<1>2. PICK f : Joins(f, << >>, sp, 0) /\ Cut!sdsjoinsds(<< >>, sp) = f[0]
  <2>1. Joins(CHOOSE f : Joins(f, << >>, sp, 0), << >>, sp, 0)
    BY <1>1, JoinsExist
  <2>2. Cut!sdsjoinsds(<< >>, sp) = (CHOOSE f : Joins(f, << >>, sp, Len(<< >>)))[Len(<< >>)]
    BY Zenon DEF Cut!sdsjoinsds, Joins
  <2>3. Cut!sdsjoinsds(<< >>, sp) = (CHOOSE f : Joins(f, << >>, sp, 0))[0]
    BY <1>1, <2>2
  <2> QED
    BY <2>1, <2>3, Zenon
<1>3. 0 \in 0..0
  OBVIOUS
<1>4. f[0] = << >>
  BY <1>2, <1>3, Zenon DEF Joins
<1> QED
  BY <1>2, <1>4

LEMMA SplitStart ==
    ASSUME StringLength \in Nat PROVE Cut!Init => CutInv
<1> SUFFICES ASSUME Cut!Init PROVE CutInv
  OBVIOUS
<1>1. ASSUME NEW n \in Nat, NEW t \in Cut!BoundedSeq(Letter, n) PROVE t \in Seq(Letter)
  <2>1. PICK m \in 0..n : t \in [1..m -> Letter]
    BY <1>1 DEF Cut!BoundedSeq, Cut!SeqOf
  <2> QED
    BY <2>1
<1>2. string \in Seq(Letter) /\ sep \in Seq(Letter)
  <2>1. string \in Cut!BoundedSeq(Letter, StringLength) /\ sep \in Cut!BoundedSeq(Letter, 2)
    BY DEF Cut!Init, Cut!Strings
  <2> QED
    BY <1>1, <2>1
<1> QED
  BY <1>2 DEF Cut!Init, CutInv

LEMMA CallStep ==
    CutInv /\ Cut!sdssplitlen => CutInv'
<1> SUFFICES ASSUME CutInv, Cut!sdssplitlen PROVE CutInv'
  OBVIOUS
<1>1. /\ splitAt = "call" /\ string \in Seq(Letter) /\ sep \in Seq(Letter)
      /\ splitJ = 0 /\ splitStart = 0 /\ tokens = << >> /\ slots = 5 /\ splitLive = 0
      /\ UNCHANGED <<string, sep, splitJ, splitStart, tokens, slots>>
  BY DEF CutInv, Cut!sdssplitlen
<1>2. Len(<< >>) = 0 /\ << >> \in Seq(Seq(Letter)) /\ DOMAIN << >> = {}
  OBVIOUS
<1>3. CASE splitAt' = "NULL" /\ splitLive' = 0
  BY <1>1, <1>2, <1>3 DEF CutInv
<1>4. CASE sep # << >> /\ string = << >> /\ splitLive' = 1 /\ splitAt' = "tokens"
  <2>1. Cut!sdsjoinsds(<< >>, sep) = << >>
    BY JoinNone
  <2>2. (Cut!sdsjoinsds(tokens, sep) = string)'
    BY <1>1, <1>4, <2>1, Zenon
  <2>3. (\A i \in DOMAIN tokens : ~Cut!HasSep(tokens[i]))'
    BY <1>1, <1>2
  <2> QED
    BY <1>1, <1>2, <1>4, <2>2, <2>3 DEF CutInv
<1>5. CASE sep # << >> /\ string # << >> /\ splitLive' = 1 /\ splitAt' = "loop"
  <2>1. Glued(<< >>, sep, string, 0)
    BY <1>1, GluedNone
  <2>2. Len(sep) > 0 /\ 0 <= Len(string)
    BY <1>1, <1>5
  <2>3. NoneFrom(string, sep, 0, 0)
    BY DEF NoneFrom
  <2>4. Glued(tokens, sep, string, splitStart)' /\ NoneFrom(string, sep, splitStart, splitJ)'
    BY <1>1, <2>1, <2>3, Zenon
  <2>5. (\A i \in DOMAIN tokens : ~Cut!HasSep(tokens[i]))'
    BY <1>1, <1>2
  <2>6. Cutting'
    BY <1>1, <1>2, <1>5, <2>2, <2>4, <2>5 DEF Cutting
  <2> QED
    BY <1>5, <2>6 DEF CutInv
<1> QED
  BY <1>1, <1>3, <1>4, <1>5 DEF Cut!sdssplitlen, Cut!Stop

LEMMA SearchStep ==
    CutInv /\ Cut!Search => CutInv'
<1> SUFFICES ASSUME CutInv, Cut!Search PROVE CutInv'
  OBVIOUS
<1>1. /\ Cutting /\ Cut!More /\ slots' = Cut!Grown /\ splitAt' = "loop"
      /\ UNCHANGED <<string, sep>>
  BY DEF CutInv, Cut!Search
<1>2. /\ string \in Seq(Letter) /\ sep \in Seq(Letter) /\ Len(sep) > 0
      /\ tokens \in Seq(Seq(Letter)) /\ slots \in Nat /\ slots >= 5
      /\ splitStart \in Nat /\ splitJ \in Nat /\ splitStart <= splitJ
      /\ Glued(tokens, sep, string, splitStart)
      /\ \A i \in DOMAIN tokens : ~Cut!HasSep(tokens[i])
      /\ NoneFrom(string, sep, splitStart, splitJ)
      /\ splitLive = Len(tokens) + 1 /\ Len(tokens) < slots
  BY <1>1 DEF Cutting
<1>3. splitJ + Len(sep) \in Nat /\ splitJ + 1 \in Nat
      /\ splitJ + Len(sep) <= Len(string) /\ splitJ + 1 <= Len(string)
  BY <1>1, <1>2 DEF Cut!More
<1>4. slots' \in Nat /\ slots' >= 5 /\ Len(tokens) + 1 < slots'
  BY <1>1, <1>2 DEF Cut!Grown, Cut!Full
<1>5. CASE Cut!Here
  <2> DEFINE t == SubSeq(string, splitStart + 1, splitJ)
  <2>1. /\ tokens' = Append(tokens, t) /\ splitLive' = splitLive + 1
        /\ splitJ' = splitJ + Len(sep) /\ splitStart' = splitJ + Len(sep)
    BY <1>5 DEF Cut!Search, Cut!Piece, Cut!AfterSep
  <2>2. SubSeq(string, splitJ + 1, splitJ + Len(sep)) = sep
    BY <1>5 DEF Cut!Here, Cut!Piece
  <2>3. Glued(Append(tokens, t), sep, string, splitJ + Len(sep))
    BY <1>2, <1>3, <2>2, GluedMore
  <2>4. ~Cut!HasSep(t) /\ t \in Seq(Letter)
    <3>1. splitJ - Len(sep) < splitJ /\ splitJ <= Len(string)
      BY <1>2, <1>3
    <3>2. ~Cut!HasSep(t)
      BY <1>2, <3>1, PieceHasNone
    <3>3. t \in Seq(Letter)
      BY <1>2, <3>1, Ahead
    <3> QED
      BY <3>2, <3>3
  <2> HIDE DEF t
  <2>5. /\ tokens' \in Seq(Seq(Letter)) /\ Len(tokens') = Len(tokens) + 1
        /\ DOMAIN tokens' = DOMAIN tokens \union {Len(tokens) + 1}
        /\ tokens'[Len(tokens) + 1] = t /\ \A i \in DOMAIN tokens : tokens'[i] = tokens[i]
    <3>1. tokens \in Seq(Seq(Letter)) /\ t \in Seq(Letter)
      BY <1>2, <2>4
    <3>2. /\ Append(tokens, t) \in Seq(Seq(Letter)) /\ Len(Append(tokens, t)) = Len(tokens) + 1
          /\ Append(tokens, t)[Len(tokens) + 1] = t
          /\ \A i \in 1..Len(tokens) : Append(tokens, t)[i] = tokens[i]
      BY <3>1, AppendIs
    <3>3. PICK x \in Seq(Seq(Letter)) : x = Append(tokens, t)
      BY <3>2
    <3>4. PICK n \in Nat : n = Len(tokens) /\ DOMAIN tokens = 1..n
      BY <3>1
    <3>5. DOMAIN x = 1..n + 1 /\ 1..n + 1 = 1..n \union {n + 1}
      BY <3>2, <3>3, <3>4
    <3> QED
      BY <2>1, <3>2, <3>3, <3>4, <3>5
  <2>6. ASSUME NEW i \in DOMAIN tokens' PROVE ~Cut!HasSep(tokens'[i])
    BY <1>2, <2>4, <2>5
  <2>7. (\A i \in DOMAIN tokens : ~Cut!HasSep(tokens[i]))'
    BY <1>1, <2>6 DEF Cut!HasSep
  <2>8. NoneFrom(string, sep, splitJ + Len(sep), splitJ + Len(sep))
    BY <1>3 DEF NoneFrom
  <2>9. Glued(tokens, sep, string, splitStart)' /\ NoneFrom(string, sep, splitStart, splitJ)'
    BY <1>1, <2>1, <2>3, <2>8, Zenon
  <2>10. /\ (string \in Seq(Letter) /\ sep \in Seq(Letter) /\ Len(sep) > 0)'
         /\ (tokens \in Seq(Seq(Letter)) /\ slots \in Nat /\ slots >= 5)'
         /\ (splitStart \in Nat /\ splitJ \in Nat /\ splitStart <= splitJ /\ splitJ <= Len(string))'
         /\ (splitLive = Len(tokens) + 1 /\ Len(tokens) < slots)'
    BY <1>1, <1>2, <1>3, <1>4, <2>1, <2>5
  <2>11. Cutting'
    BY <2>7, <2>9, <2>10, Zenon DEF Cutting
  <2> QED
    BY <1>1, <2>11 DEF CutInv
<1>6. CASE ~Cut!Here
  <2>1. splitJ' = splitJ + 1 /\ UNCHANGED <<tokens, splitLive, splitStart>>
    BY <1>6 DEF Cut!Search, Cut!Skip
  <2>2. SubSeq(string, splitJ + 1, splitJ + Len(sep)) # sep
    BY <1>6 DEF Cut!Here, Cut!Piece
  <2>3. NoneFrom(string, sep, splitStart, splitJ + 1)
    <3>1. ASSUME NEW k \in splitStart..(splitJ + 1) - 1
          PROVE  SubSeq(string, k + 1, k + Len(sep)) # sep
      <4>1. k = splitJ \/ k \in splitStart..splitJ - 1
        BY <1>2
      <4> QED
        BY <1>2, <2>2, <4>1 DEF NoneFrom
    <3> QED
      BY <3>1, Zenon DEF NoneFrom
  <2>4. Glued(tokens, sep, string, splitStart)' /\ NoneFrom(string, sep, splitStart, splitJ)'
    BY <1>1, <1>2, <2>1, <2>3, Zenon
  <2>5. (\A i \in DOMAIN tokens : ~Cut!HasSep(tokens[i]))'
    BY <1>1, <1>2, <2>1 DEF Cut!HasSep
  <2>6. /\ (string \in Seq(Letter) /\ sep \in Seq(Letter) /\ Len(sep) > 0)'
        /\ (tokens \in Seq(Seq(Letter)) /\ slots \in Nat /\ slots >= 5)'
        /\ (splitStart \in Nat /\ splitJ \in Nat /\ splitStart <= splitJ /\ splitJ <= Len(string))'
        /\ (splitLive = Len(tokens) + 1 /\ Len(tokens) < slots)'
    BY <1>1, <1>2, <1>3, <1>4, <2>1
  <2>7. Cutting'
    BY <2>4, <2>5, <2>6, Zenon DEF Cutting
  <2> QED
    BY <1>1, <2>7 DEF CutInv
<1> QED
  BY <1>5, <1>6

LEMMA FinalStep ==
    CutInv /\ Cut!Final => CutInv'
<1> SUFFICES ASSUME CutInv, Cut!Final PROVE CutInv'
  OBVIOUS
<1> DEFINE t == SubSeq(string, splitStart + 1, Len(string))
<1>1. /\ Cutting /\ ~Cut!More /\ splitAt' = "tokens" /\ splitLive' = splitLive + 1
      /\ tokens' = Append(tokens, t) /\ UNCHANGED <<string, sep, splitJ, splitStart, slots>>
  <2>1. splitAt = "loop" /\ splitLive' = splitLive - (-1)
    BY DEF Cut!Final, Cut!Stop
  <2>2. Cutting
    BY <2>1 DEF CutInv
  <2>3. splitLive' = splitLive + 1
    BY <2>1, <2>2 DEF Cutting
  <2> QED
    BY <2>2, <2>3 DEF Cut!Final, Cut!Stop, Cut!Piece
<1>2. /\ string \in Seq(Letter) /\ sep \in Seq(Letter) /\ Len(sep) > 0
      /\ tokens \in Seq(Seq(Letter)) /\ slots \in Nat
      /\ splitStart \in Nat /\ splitJ \in Nat /\ splitStart <= splitJ /\ splitJ <= Len(string)
      /\ Glued(tokens, sep, string, splitStart)
      /\ \A i \in DOMAIN tokens : ~Cut!HasSep(tokens[i])
      /\ NoneFrom(string, sep, splitStart, splitJ)
      /\ splitLive = Len(tokens) + 1 /\ Len(tokens) < slots
  BY <1>1 DEF Cutting
<1>3. splitStart <= Len(string) /\ Len(string) \in Nat /\ Len(string) - Len(sep) < splitJ
      /\ Len(string) <= Len(string)
  BY <1>1, <1>2 DEF Cut!More
<1>4. Cut!sdsjoinsds(Append(tokens, t), sep) = string
  BY <1>2, <1>3, JoinIs
<1>5. ~Cut!HasSep(t)
  BY <1>2, <1>3, PieceHasNone
<1>6. t \in Seq(Letter)
  BY <1>2, <1>3, Ahead
<1> HIDE DEF t
<1>7. /\ tokens' \in Seq(Seq(Letter)) /\ Len(tokens') = Len(tokens) + 1
      /\ DOMAIN tokens' = DOMAIN tokens \union {Len(tokens) + 1}
      /\ tokens'[Len(tokens) + 1] = t /\ \A i \in DOMAIN tokens : tokens'[i] = tokens[i]
  BY <1>1, <1>2, <1>6
<1>8. ASSUME NEW i \in DOMAIN tokens' PROVE ~Cut!HasSep(tokens'[i])
  BY <1>2, <1>5, <1>7
<1>9. (\A i \in DOMAIN tokens : ~Cut!HasSep(tokens[i]))'
  BY <1>1, <1>8 DEF Cut!HasSep
<1>10. (Cut!sdsjoinsds(tokens, sep) = string)'
  BY <1>1, <1>4, Zenon
<1>11. /\ (tokens \in Seq(Seq(Letter)) /\ slots \in Nat /\ Len(tokens) <= slots)'
       /\ (splitLive = Len(tokens) + 1)'
  BY <1>1, <1>2, <1>7
<1> QED
  BY <1>1, <1>9, <1>10, <1>11 DEF CutInv

LEMMA FreeStep ==
    CutInv /\ (Cut!OutOfMemory \/ Cut!Free) => CutInv'
<1> SUFFICES ASSUME CutInv, Cut!OutOfMemory \/ Cut!Free PROVE CutInv'
  OBVIOUS
<1>1. Len(<< >>) = 0
  OBVIOUS
<1>2. CASE Cut!OutOfMemory
  <2>1. /\ splitAt = "loop" /\ splitAt' = "NULL" /\ splitLive' = splitLive - (Len(tokens) + 1)
        /\ tokens' = << >> /\ slots' = slots
    BY <1>2 DEF Cut!OutOfMemory, Cut!Cleanup, Cut!Stop
  <2>2. Len(tokens) \in Nat /\ slots \in Nat /\ splitLive = Len(tokens) + 1
    BY <2>1 DEF CutInv, Cutting
  <2> QED
    BY <1>1, <2>1, <2>2 DEF CutInv
<1>3. CASE Cut!Free
  <2>1. /\ splitAt = "tokens" /\ splitAt' = "freed" /\ splitLive' = splitLive - (Len(tokens) + 1)
        /\ tokens' = tokens /\ slots' = slots
    BY <1>3 DEF Cut!Free, Cut!Stop
  <2>2. Len(tokens) \in Nat /\ Len(tokens) <= slots /\ splitLive = Len(tokens) + 1
    BY <2>1 DEF CutInv
  <2> QED
    BY <2>1, <2>2 DEF CutInv
<1> QED
  BY <1>2, <1>3

\* sdssplitlen, sdsjoin: joining the tokens gives the string back and no token
\* holds a separator; there is room for the final token (sds.c:690); a call
\* that returns NULL has freed what it had allocated.
THEOREM SplitsRight ==
    ASSUME StringLength \in Nat PROVE Cut!Spec => []Cut!SplitRight
<1>1. Cut!Init => CutInv
  BY SplitStart
<1>2. CutInv /\ [Cut!Next]_Cut!vars => CutInv'
  <2> SUFFICES ASSUME CutInv, [Cut!Next]_Cut!vars PROVE CutInv'
    OBVIOUS
  <2>1. CASE UNCHANGED Cut!vars
    BY <2>1 DEF Cut!vars, CutInv, Cutting, Cut!HasSep
  <2>2. CASE Cut!Next
    BY <2>2, CallStep, SearchStep, FinalStep, FreeStep DEF Cut!Next
  <2> QED
    BY <2>1, <2>2
<1>3. CutInv => Cut!SplitRight
  <2> SUFFICES ASSUME CutInv PROVE Cut!SplitRight
    OBVIOUS
  <2>1. Cut!JoinInverse
    BY DEF CutInv, Cut!JoinInverse
  <2>2. Cut!RoomForFinal
    BY DEF CutInv, Cutting, Cut!RoomForFinal
  <2>3. Cut!NoLeak
    BY DEF CutInv, Cut!NoLeak
  <2> QED
    BY <2>1, <2>2, <2>3 DEF Cut!SplitRight
<1> QED
  BY <1>1, <1>2, <1>3, PTL DEF Cut!Spec

-----------------------------------------------------------------------------
(* sdsll2str. A number is peeled digit by digit: g is what is left of it,   *)
(* q the digits, the last one first.                                        *)

Peeled(g, q, m) ==
    /\ q \in Seq(0..9) /\ g \in [0..Len(q) -> Nat] /\ g[0] = m
    /\ \A i \in 1..Len(q) : g[i - 1] = 10 * g[i] + q[i]
    /\ \A i \in 1..Len(q) - 1 : g[i] # 0
Digits(q, m) == Len(q) > 0 /\ \E g : Peeled(g, q, m) /\ g[Len(q)] = 0

Absolute(x) == IF x < 0 THEN -x ELSE x
Signed(q, x) == IF x < 0 THEN Append(q, -1) ELSE q

\* The first and the last of the bytes u have changed places up to l and h.
Turned(t, u, l, h) ==
    /\ l \in Nat /\ h \in Nat /\ l >= 1 /\ l + h = Len(u) + 1
    /\ t \in Seq(Int) /\ Len(t) = Len(u) + 1 /\ t[Len(t)] = -2
    /\ \A i \in 1..Len(u) : t[i] = IF i < l \/ i > h THEN u[Len(u) + 1 - i] ELSE u[i]

NumInv ==
    /\ number \in Int /\ numberV \in Nat
    /\ -LLONG_MAX - 1 <= number /\ number <= 2 * LLONG_MAX + 1
    /\ CASE numberAt = "digits" ->
              /\ \E g : Peeled(g, numberS, Absolute(number)) /\ g[Len(numberS)] = numberV
              /\ Len(numberS) > 0 => numberV # 0
              /\ numberLo = 1
         [] numberAt = "sign" -> Digits(numberS, Absolute(number)) /\ numberLo = 1
         [] numberAt \in {"reverse", "done"} ->
              \E q : /\ Digits(q, Absolute(number))
                     /\ Turned(numberS, Signed(q, number), numberLo, numberHi)
                     /\ numberAt = "done" => numberLo >= numberHi
         [] OTHER -> FALSE

LEMMA PeeledNone ==
    ASSUME NEW m \in Nat PROVE \E g : Peeled(g, << >>, m) /\ g[Len(<< >>)] = m
<1> DEFINE g == [i \in 0..0 |-> m]
<1>1. Len(<< >>) = 0 /\ << >> \in Seq(0..9)
  OBVIOUS
<1>2. g \in [0..0 -> Nat] /\ g[0] = m
  OBVIOUS
<1> HIDE DEF g
<1>3. Peeled(g, << >>, m)
  BY <1>1, <1>2 DEF Peeled
<1> QED
  BY <1>1, <1>2, <1>3

LEMMA PeeledMore ==
    ASSUME NEW g, NEW q, NEW m, Peeled(g, q, m), NEW x \in Nat, x = g[Len(q)],
           Len(q) > 0 => x # 0
    PROVE  /\ Append(q, x % 10) \in Seq(0..9) /\ x \div 10 \in Nat
           /\ Len(Append(q, x % 10)) = Len(q) + 1
           /\ \E f : Peeled(f, Append(q, x % 10), m) /\ f[Len(Append(q, x % 10))] = x \div 10
<1>1. PICK d \in 0..9 : d = x % 10
  OBVIOUS
<1>2. PICK r \in Nat : r = x \div 10 /\ x = 10 * r + d
  <2>1. PICK r \in Nat : r = x \div 10
    OBVIOUS
  <2>2. x = 10 * r + d
    BY <1>1, <2>1
  <2> QED
    BY <2>1, <2>2
<1>3. PICK n \in Nat : n = Len(q)
  BY DEF Peeled
<1>4. PICK u \in Seq(0..9) : u = Append(q, d)
  <2>1. q \in Seq(0..9)
    BY DEF Peeled
  <2>2. Append(q, d) \in Seq(0..9)
    BY <2>1, AppendIs
  <2> QED
    BY <2>2
<1>5. Len(u) = n + 1 /\ u[n + 1] = d /\ \A i \in 1..n : u[i] = q[i]
  BY <1>1, <1>3, <1>4, AppendIs DEF Peeled
<1> DEFINE f == [i \in 0..n + 1 |-> IF i = n + 1 THEN r ELSE g[i]]
<1>6. \A i \in 0..n : g[i] \in Nat
  BY <1>3 DEF Peeled
<1>7. f \in [0..n + 1 -> Nat]
  <2>1. \A i \in 0..n + 1 : i # n + 1 => i \in 0..n
    BY <1>3
  <2> QED
    BY <1>6, <2>1
<1>8. f[n + 1] = r /\ \A i \in 0..n : f[i] = g[i]
  <2>1. n + 1 \in 0..n + 1 /\ \A i \in 0..n : i \in 0..n + 1 /\ i # n + 1
    BY <1>3
  <2> QED
    BY <2>1, Zenon
<1> HIDE DEF f
<1>9. f[0] = m
  BY <1>3, <1>8 DEF Peeled
<1>10. ASSUME NEW i \in 1..n + 1 PROVE f[i - 1] = 10 * f[i] + u[i]
  <2>1. CASE i = n + 1
    <3>1. i - 1 = n /\ n \in 0..n
      BY <1>3, <2>1
    <3> QED
      BY <1>2, <1>3, <1>5, <1>8, <2>1, <3>1
  <2>2. CASE i # n + 1
    <3>1. i \in 1..n /\ i \in 0..n /\ i - 1 \in 0..n
      BY <1>3, <2>2
    <3>2. g[i - 1] = 10 * g[i] + q[i]
      BY <1>3, <3>1 DEF Peeled
    <3> QED
      BY <1>5, <1>8, <3>1, <3>2
  <2> QED
    BY <2>1, <2>2
<1>11. ASSUME NEW i \in 1..n PROVE f[i] # 0
  <2>1. CASE i = n
    BY <1>3, <1>8, <2>1
  <2>2. CASE i # n
    <3>1. i \in 1..n - 1 /\ i \in 0..n
      BY <1>3, <2>2
    <3> QED
      BY <1>3, <1>8, <3>1 DEF Peeled
  <2> QED
    BY <2>1, <2>2
<1>12. Peeled(f, u, m)
  <2>1. n + 1 - 1 = n
    BY <1>3
  <2>2. /\ u \in Seq(0..9) /\ f \in [0..Len(u) -> Nat] /\ f[0] = m
        /\ \A i \in 1..Len(u) : f[i - 1] = 10 * f[i] + u[i]
    BY <1>5, <1>7, <1>9, <1>10
  <2>3. \A i \in 1..Len(u) - 1 : f[i] # 0
    BY <1>5, <1>11, <2>1
  <2> QED
    BY <2>2, <2>3, Zenon DEF Peeled
<1>13. f[Len(u)] = r
  BY <1>5, <1>8
<1> QED
  BY <1>1, <1>2, <1>3, <1>4, <1>5, <1>12, <1>13

-----------------------------------------------------------------------------
(* Powers of ten, and what digits read as.                                  *)

Powers(f, n) == f = [i \in 0..n |-> IF i = 0 THEN 1 ELSE 10 * f[i - 1]]
Reads(f, q, n) == f = [i \in 0..n |-> IF i = 0 THEN 0 ELSE 10 * f[i - 1] + q[i]]

LEMMA PowersExist ==
    ASSUME NEW n \in Nat PROVE \E f : Powers(f, n)
<1> DEFINE Bad == {m \in Nat : ~\E f : Powers(f, m)}
<1> SUFFICES ASSUME n \in Bad PROVE FALSE
  OBVIOUS
<1>1. PICK m \in Bad : \A j \in Bad : m <= j
  <2>1. Bad \in SUBSET Nat /\ Bad # {}
    OBVIOUS
  <2> HIDE DEF Bad
  <2> QED
    BY LeastMember, <2>1, Zenon
<1>2. CASE m = 0
  <2> DEFINE g == [i \in 0..0 |-> 1]
  <2>1. g = [i \in 0..0 |-> IF i = 0 THEN 1 ELSE 10 * g[i - 1]]
    <3>1. \A i \in 0..0 : i = 0
      OBVIOUS
    <3> QED
      BY <3>1, Zenon
  <2>2. Powers(g, 0)
    BY <2>1, Zenon DEF Powers
  <2> QED
    BY <1>2, <2>2, Zenon
<1>3. CASE m # 0
  <2>1. m \in Nat /\ m - 1 \in Nat /\ m - 1 \notin Bad
    BY <1>1, <1>3
  <2>2. PICK k : Powers(k, m - 1)
    BY <2>1
  <2> DEFINE g == [i \in 0..m |-> IF i < m THEN k[i] ELSE 10 * k[m - 1]]
  <2>3. ASSUME NEW i \in 0..m
        PROVE  g[i] = IF i = 0 THEN 1 ELSE 10 * g[i - 1]
    <3>1. CASE i < m
      <4>1. i \in 0..m - 1
        BY <2>1, <3>1
      <4>2. k[i] = IF i = 0 THEN 1 ELSE 10 * k[i - 1]
        BY <2>2, <4>1, Zenon DEF Powers
      <4>3. i # 0 => i - 1 \in 0..m /\ i - 1 < m
        BY <2>1, <4>1
      <4> QED
        BY <3>1, <4>1, <4>2, <4>3
    <3>2. CASE i = m
      <4>1. m - 1 \in 0..m /\ m - 1 < m /\ m \in 0..m /\ ~(m < m)
        BY <2>1
      <4> QED
        BY <1>3, <3>2, <4>1
    <3> QED
      BY <2>1, <3>1, <3>2
  <2>4. Powers(g, m)
    BY <2>3, Zenon DEF Powers
  <2> QED
    BY <2>4
<1> QED
  BY <1>2, <1>3

LEMMA ReadsExist ==
    ASSUME NEW q, NEW n \in Nat PROVE \E f : Reads(f, q, n)
<1> DEFINE Bad == {m \in Nat : ~\E f : Reads(f, q, m)}
<1> SUFFICES ASSUME n \in Bad PROVE FALSE
  OBVIOUS
<1>1. PICK m \in Bad : \A j \in Bad : m <= j
  <2>1. Bad \in SUBSET Nat /\ Bad # {}
    OBVIOUS
  <2> HIDE DEF Bad
  <2> QED
    BY LeastMember, <2>1, Zenon
<1>2. CASE m = 0
  <2> DEFINE g == [i \in 0..0 |-> 0]
  <2>1. g = [i \in 0..0 |-> IF i = 0 THEN 0 ELSE 10 * g[i - 1] + q[i]]
    <3>1. \A i \in 0..0 : i = 0
      OBVIOUS
    <3> QED
      BY <3>1, Zenon
  <2>2. Reads(g, q, 0)
    BY <2>1, Zenon DEF Reads
  <2> QED
    BY <1>2, <2>2, Zenon
<1>3. CASE m # 0
  <2>1. m \in Nat /\ m - 1 \in Nat /\ m - 1 \notin Bad
    BY <1>1, <1>3
  <2>2. PICK k : Reads(k, q, m - 1)
    BY <2>1
  <2> DEFINE g == [i \in 0..m |-> IF i < m THEN k[i] ELSE 10 * k[m - 1] + q[m]]
  <2>3. ASSUME NEW i \in 0..m
        PROVE  g[i] = IF i = 0 THEN 0 ELSE 10 * g[i - 1] + q[i]
    <3>1. CASE i < m
      <4>1. i \in 0..m - 1
        BY <2>1, <3>1
      <4>2. k[i] = IF i = 0 THEN 0 ELSE 10 * k[i - 1] + q[i]
        BY <2>2, <4>1, Zenon DEF Reads
      <4>3. i # 0 => i - 1 \in 0..m /\ i - 1 < m
        BY <2>1, <4>1
      <4> QED
        BY <3>1, <4>1, <4>2, <4>3
    <3>2. CASE i = m
      <4>1. m - 1 \in 0..m /\ m - 1 < m /\ m \in 0..m /\ ~(m < m)
        BY <2>1
      <4> QED
        BY <1>3, <3>2, <4>1
    <3> QED
      BY <2>1, <3>1, <3>2
  <2>4. Reads(g, q, m)
    BY <2>3, Zenon DEF Reads
  <2> QED
    BY <2>4
<1> QED
  BY <1>2, <1>3

LEMMA TenToIs ==
    ASSUME NEW n \in Nat
    PROVE  \E f : Powers(f, n) /\ Num!TenTo(n) = f[n]
<1>1. Powers(CHOOSE f : Powers(f, n), n)
  BY PowersExist
<1>2. Num!TenTo(n) = (CHOOSE f : Powers(f, n))[n]
  BY Zenon DEF Num!TenTo, Powers
<1> QED
  BY <1>1, <1>2, Zenon

LEMMA TenToNat ==
    ASSUME NEW n \in Nat PROVE Num!TenTo(n) \in Nat
<1>1. PICK f : Powers(f, n) /\ Num!TenTo(n) = f[n]
  BY TenToIs
<1> DEFINE Bad == {i \in 0..n : f[i] \notin Nat}
<1>2. Bad = {}
  <2> SUFFICES ASSUME Bad # {} PROVE FALSE
    OBVIOUS
  <2>1. PICK i \in Bad : \A j \in Bad : i <= j
    <3>1. Bad \in SUBSET Nat
      OBVIOUS
    <3> HIDE DEF Bad
    <3> QED
      BY LeastMember, <3>1, Zenon
  <2>2. f[i] = IF i = 0 THEN 1 ELSE 10 * f[i - 1]
    BY <1>1, <2>1, Zenon DEF Powers
  <2>3. i \in 0..n /\ f[i] \notin Nat
    BY <2>1
  <2>4. i # 0 => f[i - 1] \in Nat
    <3>1. i # 0 => i - 1 \in 0..n /\ ~(i <= i - 1)
      BY <2>3
    <3> QED
      BY <2>1, <3>1
  <2> QED
    BY <2>2, <2>3, <2>4
<1> QED
  BY <1>1, <1>2

LEMMA ReadIs ==
    ASSUME NEW q, Len(q) \in Nat
    PROVE  \E f : Reads(f, q, Len(q)) /\ Num!Read(q) = f[Len(q)]
<1>1. Reads(CHOOSE f : Reads(f, q, Len(q)), q, Len(q))
  BY ReadsExist
<1>2. Num!Read(q) = (CHOOSE f : Reads(f, q, Len(q)))[Len(q)]
  BY Zenon DEF Num!Read, Reads
<1> QED
  BY <1>1, <1>2, Zenon

\* A number of which something is left after n digits is not below the n-th
\* power of ten.
LEMMA PowerBelow ==
    ASSUME NEW g, NEW q, NEW m, Peeled(g, q, m), NEW n \in Nat \ {0}, n < Len(q)
    PROVE  Num!TenTo(n) <= m /\ m \in Nat
<1>1. PICK f : Powers(f, n) /\ Num!TenTo(n) = f[n]
  BY TenToIs
<1>2. \A i \in 0..n : f[i] = IF i = 0 THEN 1 ELSE 10 * f[i - 1]
  BY <1>1, Zenon DEF Powers
<1>3. PICK l \in Nat : l = Len(q)
  BY DEF Peeled
<1>4. \A i \in 0..l : g[i] \in Nat
  BY <1>3 DEF Peeled
<1>5. \A i \in 1..l : g[i - 1] >= 10 * g[i]
  <2>1. ASSUME NEW i \in 1..l PROVE g[i - 1] >= 10 * g[i]
    <3>1. q[i] \in 0..9 /\ g[i - 1] = 10 * g[i] + q[i]
      BY <1>3 DEF Peeled
    <3>2. i \in 0..l
      BY <1>3
    <3>3. PICK a \in Nat : a = g[i]
      BY <1>4, <3>2
    <3>4. PICK b \in 0..9 : b = q[i]
      BY <3>1
    <3>5. g[i - 1] = 10 * a + b
      BY <3>1, <3>3, <3>4
    <3> QED
      BY <3>3, <3>5
  <2> QED
    BY <2>1
<1>6. g[n] >= 1
  <2>1. n \in 1..l - 1 /\ n \in 0..l
    BY <1>3
  <2>2. g[n] # 0
    BY <1>3, <2>1 DEF Peeled
  <2> QED
    BY <1>4, <2>1, <2>2
<1> DEFINE P(i) == f[i] \in Nat /\ f[i] <= g[n - i]
           Bad == {i \in 0..n : ~P(i)}
<1>7. ASSUME Bad # {} PROVE FALSE
  <2>1. PICK i \in Bad : \A k \in Bad : i <= k
    <3>1. Bad \in SUBSET Nat
      OBVIOUS
    <3> HIDE DEF Bad
    <3> QED
      BY LeastMember, <1>7, <3>1, Zenon
  <2>2. i \in 0..n /\ ~P(i)
    BY <2>1
  <2>3. i # 0
    <3>1. 0 \in 0..n /\ n - 0 = n /\ n \in 0..l
      BY <1>3
    <3>2. f[0] = 1
      BY <1>2, <3>1
    <3> QED
      BY <1>4, <1>6, <1>7, <2>2, <3>1, <3>2
  <2>4. i - 1 \in 0..n /\ i - 1 \notin Bad
    BY <2>1, <2>2, <2>3
  <2>5. f[i - 1] \in Nat /\ f[i - 1] <= g[n - (i - 1)]
    BY <2>4
  <2>6. f[i] = 10 * f[i - 1]
    BY <1>2, <2>2, <2>3
  <2>7. PICK k \in 1..l : k = n - (i - 1)
    BY <1>3, <2>2, <2>3
  <2>8. k - 1 = n - i /\ k \in 0..l /\ k - 1 \in 0..l
    BY <1>3, <2>2, <2>7
  <2>9. g[k - 1] >= 10 * g[k]
    BY <1>5
  <2>10. g[k] \in Nat /\ g[k - 1] \in Nat
    BY <1>4, <2>8
  <2>11. P(i)
    BY <2>5, <2>6, <2>7, <2>8, <2>9, <2>10
  <2> QED
    BY <2>2, <2>11
<1>8. P(n)
  BY <1>7
<1> QED
  BY <1>1, <1>8 DEF Peeled

\* Digits read from the last one peeled off to the first give the number.
LEMMA ReadAgain ==
    ASSUME NEW q, NEW m, Digits(q, m), NEW r \in Seq(0..9), Len(r) = Len(q),
           \A i \in 1..Len(q) : r[i] = q[Len(q) + 1 - i]
    PROVE  /\ Num!Read(r) = m
           /\ Len(r) > 0 /\ (Len(r) > 1 => r[1] # 0)
<1>1. PICK g : Peeled(g, q, m) /\ g[Len(q)] = 0
  BY DEF Digits
<1>2. PICK n \in Nat : n = Len(q) /\ n > 0
  BY <1>1 DEF Digits, Peeled
<1>3. /\ \A i \in 0..n : g[i] \in Nat
      /\ \A i \in 1..n : g[i - 1] = 10 * g[i] + q[i]
      /\ \A i \in 1..n - 1 : g[i] # 0
      /\ \A i \in 1..n : q[i] \in 0..9
      /\ g[0] = m /\ g[n] = 0
  <2>1. q \in Seq(0..9) /\ g \in [0..n -> Nat]
    BY <1>1, <1>2 DEF Peeled
  <2>2. /\ \A i \in 1..n : g[i - 1] = 10 * g[i] + q[i]
        /\ \A i \in 1..n - 1 : g[i] # 0
        /\ g[0] = m /\ g[n] = 0
    BY <1>1, <1>2, Zenon DEF Peeled
  <2>3. \A i \in 1..n : q[i] \in 0..9
    BY <1>2, <2>1
  <2> QED
    BY <2>1, <2>2, <2>3
<1>4. PICK f : Reads(f, r, n) /\ Num!Read(r) = f[n]
  BY <1>2, ReadIs
<1>5. \A i \in 0..n : f[i] = IF i = 0 THEN 0 ELSE 10 * f[i - 1] + r[i]
  BY <1>4, Zenon DEF Reads
<1> DEFINE Bad == {i \in 0..n : f[i] # g[n - i]}
<1>6. ASSUME Bad # {} PROVE FALSE
  <2>1. PICK i \in Bad : \A k \in Bad : i <= k
    <3>1. Bad \in SUBSET Nat
      OBVIOUS
    <3> HIDE DEF Bad
    <3> QED
      BY LeastMember, <1>6, <3>1, Zenon
  <2>2. i \in 0..n /\ f[i] # g[n - i]
    BY <2>1
  <2>3. i # 0
    <3>1. f[0] = 0 /\ n - 0 = n
      BY <1>5
    <3> QED
      BY <1>3, <2>2, <3>1
  <2>4. i - 1 \in 0..n /\ i - 1 \notin Bad
    BY <2>1, <2>2, <2>3
  <2>5. f[i - 1] = g[n - (i - 1)]
    BY <2>4
  <2>6. f[i] = 10 * f[i - 1] + r[i]
    BY <1>5, <2>2, <2>3
  <2>7. PICK k \in 1..n : k = n - (i - 1) /\ k = n + 1 - i /\ k - 1 = n - i
    BY <2>2, <2>3
  <2>8. r[i] = q[k]
    BY <1>2, <2>2, <2>3, <2>7
  <2>9. g[k - 1] = 10 * g[k] + q[k]
    BY <1>3
  <2> QED
    BY <2>2, <2>5, <2>6, <2>7, <2>8, <2>9
<1>7. f[n] = g[0]
  <2>1. n \in 0..n /\ n - n = 0
    OBVIOUS
  <2> QED
    BY <1>6, <2>1
<1>8. ASSUME n > 1 PROVE r[1] # 0
  <2>1. n \in 1..n /\ n - 1 \in 1..n - 1 /\ 1 \in 1..n /\ n + 1 - 1 = n
    BY <1>8
  <2>2. r[1] = q[n]
    BY <1>2, <2>1
  <2>3. g[n - 1] = 10 * g[n] + q[n] /\ g[n - 1] # 0
    BY <1>3, <2>1
  <2>4. q[n] \in 0..9
    BY <1>3, <2>1
  <2> QED
    BY <1>3, <2>2, <2>3, <2>4
<1> QED
  BY <1>2, <1>3, <1>4, <1>7, <1>8

-----------------------------------------------------------------------------

LEMMA NumStart ==
    ASSUME Num!NumberRight, Num!Init PROVE NumInv
<1>1. /\ LLONG_MAX \in Nat
      /\ number \in -LLONG_MAX - 1..2 * LLONG_MAX + 1
      /\ numberAt = "digits" /\ numberV = Num!Magnitude(number) /\ numberS = << >>
      /\ numberLo = 1
  BY DEF Num!Init, Num!NumberRight
<1>2. number \in Int /\ -LLONG_MAX - 1 <= number /\ number <= 2 * LLONG_MAX + 1
  BY <1>1
<1>3. Absolute(number) \in Nat /\ numberV = Absolute(number)
  <2>1. CASE number < 0
    <3>1. PICK a \in Nat : a = -number /\ a <= LLONG_MAX + 1
      BY <1>1, <1>2, <2>1
    <3>2. PICK b \in Nat : b = 2 * LLONG_MAX + 2 /\ a < b
      BY <1>1, <3>1
    <3>3. a % b = a
      BY <3>2
    <3> QED
      BY <1>1, <2>1, <3>1, <3>2, <3>3 DEF Absolute, Num!Magnitude
  <2>2. CASE ~(number < 0)
    BY <1>1, <1>2, <2>2 DEF Absolute, Num!Magnitude
  <2> QED
    BY <2>1, <2>2
<1>4. \E g : Peeled(g, numberS, Absolute(number)) /\ g[Len(numberS)] = numberV
  BY <1>1, <1>3, PeeledNone
<1>5. ~(Len(numberS) > 0)
  BY <1>1
<1> QED
  BY <1>1, <1>2, <1>3, <1>4, <1>5 DEF NumInv

LEMMA DigitStep ==
    ASSUME NumInv, Num!Digit PROVE NumInv'
<1>1. PICK g : Peeled(g, numberS, Absolute(number)) /\ g[Len(numberS)] = numberV
  BY DEF NumInv, Num!Digit
<1>2. /\ numberV \in Nat /\ (Len(numberS) > 0 => numberV # 0) /\ numberLo = 1
      /\ numberAt = "digits"
      /\ numberS' = Append(numberS, numberV % 10) /\ numberV' = numberV \div 10
      /\ numberAt' = (IF numberV' = 0 THEN "sign" ELSE numberAt)
      /\ number' = number /\ numberLo' = numberLo
  BY DEF NumInv, Num!Digit
<1>3. /\ numberV' \in Nat /\ Len(numberS') > 0
      /\ \E f : Peeled(f, numberS', Absolute(number)) /\ f[Len(numberS')] = numberV'
  <2>1. numberS \in Seq(0..9)
    BY <1>1 DEF Peeled
  <2>2. Len(numberS) + 1 > 0
    BY <2>1
  <2> QED
    BY <1>1, <1>2, <2>2, PeeledMore
<1>4. Absolute(number)' = Absolute(number)
  BY <1>2 DEF Absolute
<1>5. CASE numberV' = 0
  <2>1. Digits(numberS, Absolute(number))'
    BY <1>3, <1>4, <1>5 DEF Digits
  <2> QED
    BY <1>2, <1>3, <1>5, <2>1 DEF NumInv
<1>6. CASE numberV' # 0
  BY <1>2, <1>3, <1>4, <1>6 DEF NumInv
<1> QED
  BY <1>5, <1>6

LEMMA SignedIs ==
    ASSUME NEW x \in Int, NEW q \in Seq(0..9), Len(q) > 0
    PROVE  /\ Signed(q, x) \in Seq(Int)
           /\ Len(Signed(q, x)) = IF x < 0 THEN Len(q) + 1 ELSE Len(q)
           /\ \A i \in 1..Len(q) : Signed(q, x)[i] = q[i]
           /\ x < 0 => Signed(q, x)[Len(q) + 1] = -1
<1>1. q \in Seq(Int)
  <2>1. q \in [1..Len(q) -> 0..9] /\ Len(q) \in Nat
    OBVIOUS
  <2>2. q \in [1..Len(q) -> Int]
    BY <2>1
  <2> QED
    BY <2>1, <2>2, IsASeq
<1>2. -1 \in Int
  OBVIOUS
<1> QED
  BY <1>1, <1>2, AppendIs DEF Signed

LEMMA SignStep ==
    ASSUME NumInv, Num!Sign PROVE NumInv'
<1>1. /\ Digits(numberS, Absolute(number)) /\ numberLo = 1 /\ number \in Int
      /\ numberV \in Nat /\ numberV' = numberV /\ number' = number /\ numberLo' = numberLo
      /\ numberAt' = "reverse"
      /\ -LLONG_MAX - 1 <= number /\ number <= 2 * LLONG_MAX + 1
  BY DEF NumInv, Num!Sign
<1>2. PICK u : u = Signed(numberS, number)
  OBVIOUS
<1>3. numberS' = Append(u, -2) /\ numberHi' = Len(u)
  BY <1>2 DEF Num!Sign, Num!Minus, Num!NUL, Signed
<1>4. numberS \in Seq(0..9) /\ Len(numberS) > 0
  BY <1>1 DEF Digits, Peeled
<1>5. u \in Seq(Int) /\ Len(u) \in Nat /\ Len(u) >= 1
  <2>1. Len(numberS) \in Nat /\ Len(u) = IF number < 0 THEN Len(numberS) + 1 ELSE Len(numberS)
    BY <1>1, <1>2, <1>4, SignedIs
  <2> QED
    BY <1>1, <1>2, <1>4, <2>1, SignedIs
<1>6. /\ numberS' \in Seq(Int) /\ Len(numberS') = Len(u) + 1 /\ numberS'[Len(u) + 1] = -2
      /\ \A i \in 1..Len(u) : numberS'[i] = u[i]
  <2>1. -2 \in Int
    OBVIOUS
  <2> QED
    BY <1>3, <1>5, <2>1, AppendIs
<1>7. Turned(numberS', u, numberLo', numberHi')
  <2>1. \A i \in 1..Len(u) : ~(i < 1 \/ i > Len(u))
    BY <1>5
  <2>2. numberLo' = 1 /\ numberHi' \in Nat /\ numberLo' + numberHi' = Len(u) + 1
    BY <1>1, <1>3, <1>5
  <2>3. \A i \in 1..Len(u) : ~(i < numberLo' \/ i > numberHi')
    BY <1>3, <2>1, <2>2
  <2> QED
    BY <1>6, <2>2, <2>3 DEF Turned
<1>8. Absolute(number)' = Absolute(number)
  BY <1>1 DEF Absolute
<1>9. \E q : Digits(q, Absolute(number)') /\ Turned(numberS', Signed(q, number'), numberLo', numberHi')
  BY <1>1, <1>2, <1>7, <1>8
<1> QED
  BY <1>1, <1>9 DEF NumInv

LEMMA SwapTurns ==
    ASSUME NEW t, NEW u, NEW l, NEW h, Turned(t, u, l, h), Len(u) \in Nat, l < h
    PROVE  Turned([t EXCEPT ![l] = t[h], ![h] = t[l]], u, l + 1, h - 1)
<1>1. PICK n \in Nat : n = Len(u)
  OBVIOUS
<1>2. /\ l \in Nat /\ h \in Nat /\ l >= 1 /\ l + h = n + 1
      /\ t \in Seq(Int) /\ Len(t) = n + 1 /\ t[n + 1] = -2
      /\ \A i \in 1..n : t[i] = IF i < l \/ i > h THEN u[n + 1 - i] ELSE u[i]
  BY <1>1 DEF Turned
<1>3. t \in [1..n + 1 -> Int]
  <2>1. t \in [1..Len(t) -> Int]
    BY <1>2
  <2> QED
    BY <1>2, <2>1
<1>4. l \in 1..n /\ h \in 1..n /\ l \in 1..n + 1 /\ h \in 1..n + 1 /\ l # h
      /\ n + 1 - l = h /\ n + 1 - h = l /\ n + 1 # l /\ n + 1 # h /\ h - 1 \in Nat
  BY <1>2
<1>5. t[l] = u[l] /\ t[h] = u[h]
  BY <1>2, <1>4
<1>6. PICK w : w = [t EXCEPT ![l] = t[h], ![h] = t[l]]
  OBVIOUS
<1>7. /\ w \in [1..n + 1 -> Int]
      /\ \A i \in 1..n + 1 : w[i] = IF i = h THEN t[l] ELSE IF i = l THEN t[h] ELSE t[i]
  BY <1>3, <1>4, <1>6
<1>8. w \in Seq(Int) /\ Len(w) = n + 1
  <2>1. n + 1 \in Nat
    OBVIOUS
  <2>2. w \in Seq(Int)
    BY <1>7, <2>1, IsASeq
  <2>3. DOMAIN w = 1..n + 1
    BY <1>7
  <2> QED
    BY <2>1, <2>2, <2>3, LenProperties
<1>9. w[n + 1] = -2
  BY <1>2, <1>4, <1>7
<1>10. ASSUME NEW i \in 1..n
       PROVE  w[i] = IF i < l + 1 \/ i > h - 1 THEN u[n + 1 - i] ELSE u[i]
  <2>1. CASE i = h
    <3>1. w[i] = u[l] /\ u[n + 1 - i] = u[l]
      BY <1>4, <1>5, <1>7, <2>1
    <3>2. i > h - 1
      BY <1>2, <2>1
    <3> QED
      BY <3>1, <3>2, Zenon
  <2>2. CASE i = l
    <3>1. w[i] = u[h] /\ u[n + 1 - i] = u[h]
      BY <1>4, <1>5, <1>7, <2>2
    <3>2. i < l + 1
      BY <1>2, <2>2
    <3> QED
      BY <3>1, <3>2, Zenon
  <2>3. CASE i # l /\ i # h
    <3>1. w[i] = t[i]
      <4>1. i \in 1..n + 1
        BY <1>1
      <4> QED
        BY <1>7, <2>3, <4>1
    <3>2. (i < l + 1 <=> i < l) /\ (i > h - 1 <=> i > h)
      BY <1>2, <2>3
    <3> QED
      BY <1>2, <3>1, <3>2
  <2> QED
    BY <2>1, <2>2, <2>3
<1>11. l + 1 \in Nat /\ h - 1 \in Nat /\ l + 1 >= 1 /\ (l + 1) + (h - 1) = n + 1
  BY <1>2, <1>4
<1>12. Turned(w, u, l + 1, h - 1)
  BY <1>1, <1>8, <1>9, <1>10, <1>11 DEF Turned
<1> QED
  BY <1>6, <1>12

LEMMA TurnStep ==
    ASSUME NumInv, Num!Swap \/ Num!Return PROVE NumInv'
<1>1. PICK q : /\ Digits(q, Absolute(number))
               /\ Turned(numberS, Signed(q, number), numberLo, numberHi)
  BY DEF NumInv, Num!Swap, Num!Return
<1>2. /\ number \in Int /\ number' = number /\ numberV' = numberV /\ numberV \in Nat
      /\ -LLONG_MAX - 1 <= number /\ number <= 2 * LLONG_MAX + 1
      /\ numberAt' \in {"reverse", "done"}
  BY DEF NumInv, Num!Swap, Num!Return
<1>3. Absolute(number)' = Absolute(number)
  BY <1>2 DEF Absolute
<1>4. Turned(numberS', Signed(q, number), numberLo', numberHi')
  <2>1. CASE Num!Swap
    <3>1. q \in Seq(0..9) /\ Len(q) > 0
      BY <1>1 DEF Digits, Peeled
    <3>2. Len(Signed(q, number)) \in Nat
      BY <1>2, <3>1, SignedIs
    <3>3. /\ numberLo < numberHi /\ numberLo' = numberLo + 1 /\ numberHi' = numberHi - 1
          /\ numberS' = [numberS EXCEPT ![numberLo] = numberS[numberHi],
                                        ![numberHi] = numberS[numberLo]]
      BY <2>1 DEF Num!Swap
    <3> QED
      BY <1>1, <3>2, <3>3, SwapTurns
  <2>2. CASE Num!Return
    BY <1>1, <2>2 DEF Num!Return
  <2> QED
    BY <2>1, <2>2
<1>5. numberAt' = "done" => numberLo' >= numberHi'
  BY DEF Num!Swap, Num!Return
<1> QED
  BY <1>1, <1>2, <1>3, <1>4, <1>5 DEF NumInv

LEMMA NumSafe ==
    ASSUME Num!NumberRight, NumInv PROVE Num!ReadsBack
<1> SUFFICES ASSUME numberAt = "done"
             PROVE  /\ number < 0 => numberS[1] = -1
                    /\ numberS[Len(numberS)] = -2
                    /\ Num!Written # << >> /\ \A i \in DOMAIN Num!Written : Num!Written[i] \in 0..9
                    /\ Num!Read(Num!Written) = Absolute(number)
                    /\ Len(Num!Written) > 1 => Num!Written[1] # 0
                    /\ Len(numberS) <= SDS_LLSTR_SIZE
  BY DEF Num!ReadsBack, Num!Minus, Num!NUL, Absolute
<1>1. PICK q : /\ Digits(q, Absolute(number))
               /\ Turned(numberS, Signed(q, number), numberLo, numberHi)
               /\ numberLo >= numberHi
  BY DEF NumInv
<1>2. /\ number \in Int /\ LLONG_MAX \in Nat
      /\ -LLONG_MAX - 1 <= number /\ number <= 2 * LLONG_MAX + 1
  BY DEF NumInv, Num!NumberRight
<1>3. PICK k \in Nat : k = Len(q) /\ k > 0 /\ q \in Seq(0..9)
  BY <1>1 DEF Digits, Peeled
<1>4. PICK u \in Seq(Int) :
         /\ u = Signed(q, number) /\ Len(u) = IF number < 0 THEN k + 1 ELSE k
         /\ \A i \in 1..k : u[i] = q[i]
         /\ number < 0 => u[k + 1] = -1
  BY <1>2, <1>3, SignedIs
<1>5. PICK n \in Nat : n = Len(u) /\ n >= 1 /\ n = IF number < 0 THEN k + 1 ELSE k
  BY <1>2, <1>3, <1>4
<1>6. PICK t \in Seq(Int) : t = numberS /\ Turned(t, u, numberLo, numberHi)
  BY <1>1, <1>4 DEF Turned
<1>7. Len(t) = n + 1 /\ t[n + 1] = -2 /\ \A i \in 1..n : t[i] = u[n + 1 - i]
  <2>1. /\ numberLo \in Nat /\ numberHi \in Nat /\ numberLo + numberHi = n + 1
        /\ Len(t) = n + 1 /\ t[n + 1] = -2
        /\ \A i \in 1..n : t[i] = IF i < numberLo \/ i > numberHi THEN u[n + 1 - i] ELSE u[i]
    BY <1>5, <1>6 DEF Turned
  <2>2. ASSUME NEW i \in 1..n PROVE t[i] = u[n + 1 - i]
    <3>1. i < numberLo \/ i > numberHi \/ i = n + 1 - i
      BY <1>1, <2>1
    <3> QED
      BY <2>1, <3>1
  <2> QED
    BY <2>1, <2>2
<1>8. PICK o \in {0, 1} : o = n - k /\ (number < 0 <=> o = 1)
  BY <1>3, <1>5
<1>9. PICK r \in Seq(Int) : /\ r = Num!Written /\ Len(r) = k
                            /\ \A i \in 1..k : r[i] = q[k + 1 - i]
  <2>1. Num!Written = SubSeq(t, o + 1, n)
    <3>1. (IF number < 0 THEN 2 ELSE 1) = o + 1 /\ Len(t) - 1 = n
      BY <1>7, <1>8
    <3> QED
      BY <1>6, <3>1, Zenon DEF Num!Written
  <2>2. o \in Nat /\ o <= n /\ n <= Len(t)
    BY <1>3, <1>5, <1>7, <1>8
  <2>3. /\ SubSeq(t, o + 1, n) \in Seq(Int) /\ Len(SubSeq(t, o + 1, n)) = n - o
        /\ \A i \in 1..n - o : SubSeq(t, o + 1, n)[i] = t[o + i]
    BY <2>2
  <2>4. ASSUME NEW i \in 1..k PROVE t[o + i] = q[k + 1 - i]
    <3>1. o + i \in 1..n /\ n + 1 - (o + i) = k + 1 - i /\ k + 1 - i \in 1..k
      BY <1>3, <1>8, <2>2
    <3> QED
      BY <1>4, <1>7, <3>1
  <2>5. n - o = k
    BY <1>3, <1>8
  <2> QED
    BY <2>1, <2>3, <2>4, <2>5
<1>10. r \in Seq(0..9)
  <2>1. \A i \in 1..k : r[i] \in 0..9
    <3>1. \A i \in 1..k : k + 1 - i \in 1..k /\ q[k + 1 - i] \in 0..9
      BY <1>3
    <3> QED
      BY <1>9, <3>1
  <2>2. r \in [1..k -> 0..9]
    BY <1>9, <2>1
  <2> QED
    BY <1>3, <2>2, ListOf, Zenon
<1>11. Num!Read(r) = Absolute(number) /\ (Len(r) > 1 => r[1] # 0)
  BY <1>1, <1>3, <1>9, <1>10, ReadAgain
<1>12. number < 0 => numberS[1] = -1
  <2>1. CASE number < 0
    <3>1. n = k + 1 /\ 1 \in 1..n /\ n + 1 - 1 = k + 1
      BY <1>3, <1>5, <2>1
    <3> QED
      BY <1>4, <1>6, <1>7, <2>1, <3>1
  <2> QED
    BY <2>1
<1>13. Len(numberS) <= SDS_LLSTR_SIZE
  <2>1. /\ SDS_LLSTR_SIZE \in Nat /\ SDS_LLSTR_SIZE >= 3
        /\ LLONG_MAX + 1 < Num!TenTo(SDS_LLSTR_SIZE - 2)
        /\ 2 * LLONG_MAX + 1 < Num!TenTo(SDS_LLSTR_SIZE - 1)
    BY DEF Num!NumberRight
  <2>2. PICK g : Peeled(g, q, Absolute(number))
    BY <1>1 DEF Digits
  <2>3. \A m \in Nat \ {0} : m < k => Num!TenTo(m) <= Absolute(number) /\ Absolute(number) \in Nat
    BY <1>3, <2>2, PowerBelow
  <2>4. PICK a \in Nat : a = SDS_LLSTR_SIZE
    BY <2>1
  <2>5. CASE number < 0
    <3>1. Absolute(number) = -number /\ -number <= LLONG_MAX + 1 /\ n = k + 1
      BY <1>2, <1>5, <2>5 DEF Absolute
    <3>2. ~(a - 2 < k)
      <4>1. ASSUME a - 2 < k PROVE FALSE
        <5>1. a - 2 \in Nat \ {0}
          BY <2>1, <2>4
        <5>2. PICK b : b = Num!TenTo(a - 2)
          OBVIOUS
        <5>3. b <= -number /\ LLONG_MAX + 1 < b
          BY <2>1, <2>3, <2>4, <3>1, <4>1, <5>1, <5>2
        <5>4. b \in Nat
          BY <5>1, <5>2, TenToNat
        <5> QED
          BY <1>2, <3>1, <5>3, <5>4
      <4> QED
        BY <4>1
    <3> QED
      BY <1>3, <1>6, <1>7, <2>4, <3>1, <3>2
  <2>6. CASE ~(number < 0)
    <3>1. Absolute(number) = number /\ n = k
      BY <1>2, <1>5, <2>6 DEF Absolute
    <3>2. ~(a - 1 < k)
      <4>1. ASSUME a - 1 < k PROVE FALSE
        <5>1. a - 1 \in Nat \ {0}
          BY <2>1, <2>4
        <5>2. PICK b : b = Num!TenTo(a - 1)
          OBVIOUS
        <5>3. b <= number /\ 2 * LLONG_MAX + 1 < b
          BY <2>1, <2>3, <2>4, <3>1, <4>1, <5>1, <5>2
        <5>4. b \in Nat
          BY <5>1, <5>2, TenToNat
        <5> QED
          BY <1>2, <5>3, <5>4
      <4> QED
        BY <4>1
    <3> QED
      BY <1>3, <1>6, <1>7, <2>4, <3>1, <3>2
  <2> QED
    BY <2>5, <2>6
<1>14. Num!Written # << >> /\ \A i \in DOMAIN Num!Written : Num!Written[i] \in 0..9
  <2>1. r # << >> /\ \A i \in DOMAIN r : r[i] \in 0..9
    BY <1>3, <1>9, <1>10
  <2> QED
    BY <1>9, <2>1
<1>15. numberS[Len(numberS)] = -2
  BY <1>6, <1>7
<1> QED
  BY <1>9, <1>11, <1>12, <1>13, <1>14, <1>15

\* sdsll2str, sdsull2str: what is written reads back as the number, the least
\* one included, in the shortest form, and fits into SDS_LLSTR_SIZE bytes.
THEOREM NumbersReadBack ==
    ASSUME Num!NumberRight PROVE Num!Spec => []Num!ReadsBack
<1>1. Num!Init => NumInv
  BY NumStart
<1>2. NumInv /\ [Num!Next]_Num!vars => NumInv'
  <2> SUFFICES ASSUME NumInv, [Num!Next]_Num!vars PROVE NumInv'
    OBVIOUS
  <2>1. CASE UNCHANGED Num!vars
    BY <2>1 DEF Num!vars, NumInv, Absolute, Signed
  <2>2. CASE Num!Next
    BY <2>2, DigitStep, SignStep, TurnStep DEF Num!Next
  <2> QED
    BY <2>1, <2>2
<1>3. NumInv => Num!ReadsBack
  BY NumSafe
<1> QED
  BY <1>1, <1>2, <1>3, PTL DEF Num!Spec

-----------------------------------------------------------------------------
(* sdscatrepr and sdssplitargs. Ch are the characters of lines, those that  *)
(* sdscatrepr writes included, Out those of arguments.                      *)

Ch == Character \union {"\\", "\"", "n", "x", "0", "1", " "}
Out == Ch \union {"lf", "nul", "hi", "byte", "'"}

\* Where the quoted form of the i-th character ends behind the opening quote.
Spelled(w, t, q) ==
    /\ w \in [0..Len(t) -> Nat] /\ w[0] = 0 /\ Len(q) = w[Len(t)] + 3
    /\ q[1] = "\"" /\ q[w[Len(t)] + 2] = "\"" /\ q[w[Len(t)] + 3] = " "
    /\ \A i \in 1..Len(t) :
         /\ w[i] = w[i - 1] + Len(Arg!ReprOf(t[i]))
         /\ \A k \in 1..Len(Arg!ReprOf(t[i])) : q[w[i - 1] + 1 + k] = Arg!ReprOf(t[i])[k]

PartsOf(list) == [i \in DOMAIN list |-> Arg!sdscatrepr(list[i]) \o <<" ">>]

LEMMA EndNotWritten ==
    ASSUME Arg!LinesRight PROVE Arg!End \notin Ch
  BY DEF Ch, Arg!LinesRight, Arg!End

LEMMA ShortLists ==
    ASSUME NEW S, NEW a \in S, NEW b \in S, NEW c \in S, NEW d \in S
    PROVE  /\ <<a>> \in Seq(S) /\ Len(<<a>>) = 1
           /\ <<a, b>> \in Seq(S) /\ Len(<<a, b>>) = 2
           /\ <<a, b, c, d>> \in Seq(S) /\ Len(<<a, b, c, d>>) = 4
  OBVIOUS

LEMMA ReprCases ==
    ASSUME NEW c
    PROVE  /\ c \in {"\\", "\""} => Arg!ReprOf(c) = <<"\\", c>>
           /\ c = "lf" => Arg!ReprOf(c) = <<"\\", "n">>
           /\ c = "nul" => Arg!ReprOf(c) = <<"\\", "x", "0", "0">>
           /\ c = "hi" => Arg!ReprOf(c) = <<"\\", "x", "0", "1">>
           /\ c \notin {"\\", "\"", "lf", "nul", "hi"} => Arg!ReprOf(c) = <<c>>
  BY DEF Arg!ReprOf

LEMMA ReprIs ==
    ASSUME NEW c \in Character
    PROVE  Arg!ReprOf(c) \in Seq(Ch) /\ Len(Arg!ReprOf(c)) \in 1..4
<1>1. c \in Ch /\ "\\" \in Ch /\ "n" \in Ch /\ "x" \in Ch /\ "0" \in Ch /\ "1" \in Ch
  BY DEF Ch
<1>2. CASE c \in {"\\", "\""}
  <2>1. Arg!ReprOf(c) = <<"\\", c>>
    BY <1>2, ReprCases
  <2>2. <<"\\", c>> \in Seq(Ch) /\ Len(<<"\\", c>>) = 2
    BY <1>1, ShortLists, Zenon
  <2> QED
    BY <2>1, <2>2
<1>3. CASE c = "lf"
  <2>1. Arg!ReprOf(c) = <<"\\", "n">>
    BY <1>3, ReprCases
  <2>2. <<"\\", "n">> \in Seq(Ch) /\ Len(<<"\\", "n">>) = 2
    BY <1>1, ShortLists, Zenon
  <2> QED
    BY <2>1, <2>2
<1>4. CASE c = "nul"
  <2>1. Arg!ReprOf(c) = <<"\\", "x", "0", "0">>
    BY <1>4, ReprCases
  <2>2. <<"\\", "x", "0", "0">> \in Seq(Ch) /\ Len(<<"\\", "x", "0", "0">>) = 4
    BY <1>1, ShortLists, Zenon
  <2> QED
    BY <2>1, <2>2
<1>5. CASE c = "hi"
  <2>1. Arg!ReprOf(c) = <<"\\", "x", "0", "1">>
    BY <1>5, ReprCases
  <2>2. <<"\\", "x", "0", "1">> \in Seq(Ch) /\ Len(<<"\\", "x", "0", "1">>) = 4
    BY <1>1, ShortLists, Zenon
  <2> QED
    BY <2>1, <2>2
<1>6. CASE c \notin {"\\", "\"", "lf", "nul", "hi"}
  <2>1. Arg!ReprOf(c) = <<c>>
    BY <1>6, ReprCases
  <2>2. <<c>> \in Seq(Ch) /\ Len(<<c>>) = 1
    BY <1>1, ShortLists, Zenon
  <2> QED
    BY <2>1, <2>2
<1> QED
  BY <1>2, <1>3, <1>4, <1>5, <1>6

LEMMA Between ==
    ASSUME NEW S, NEW t \in Seq(S), NEW a \in S, NEW b \in S, NEW c \in S, NEW n \in Nat, n = Len(t),
           NEW x, x = (<<a>> \o t \o <<b>>) \o <<c>>
    PROVE  /\ x \in Seq(S) /\ Len(x) = n + 3 /\ x[1] = a /\ x[n + 2] = b /\ x[n + 3] = c
           /\ \A i \in 1..n : x[1 + i] = t[i]
<1>1. PICK u \in Seq(S) : u = <<a>> \o t /\ Len(u) = n + 1 /\ u[1] = a /\ \A i \in 1..n : u[1 + i] = t[i]
  <2>1. <<a>> \in Seq(S) /\ Len(<<a>>) = 1 /\ <<a>>[1] = a
    OBVIOUS
  <2>2. PICK z \in Seq(S) : z = <<a>>
    BY <2>1
  <2>3. z \o t \in Seq(S) /\ Len(z \o t) = n + 1 /\ (z \o t)[1] = a
        /\ \A i \in 1..n : (z \o t)[1 + i] = t[i]
    BY <2>1, <2>2
  <2> QED
    BY <2>2, <2>3
<1>2. PICK y \in Seq(S) : y = u \o <<b>> /\ Len(y) = n + 2 /\ y[n + 2] = b /\ \A i \in 1..n + 1 : y[i] = u[i]
  <2>1. <<b>> \in Seq(S) /\ Len(<<b>>) = 1 /\ <<b>>[1] = b
    OBVIOUS
  <2>2. PICK z \in Seq(S) : z = <<b>>
    BY <2>1
  <2>3. u \o z \in Seq(S) /\ Len(u \o z) = n + 2 /\ (u \o z)[n + 2] = b
        /\ \A i \in 1..n + 1 : (u \o z)[i] = u[i]
    <3>1. u \in Seq(S) /\ Len(u) = n + 1 /\ z \in Seq(S) /\ Len(z) = 1 /\ z[1] = b
      BY <1>1, <2>1, <2>2
    <3>2. (n + 2) - (n + 1) = 1 /\ (n + 1) + 1 = n + 2 /\ n + 2 \in 1..n + 2 /\ ~(n + 2 <= n + 1)
      OBVIOUS
    <3>3. /\ u \o z \in Seq(S) /\ Len(u \o z) = Len(u) + Len(z)
          /\ \A i \in 1..Len(u) + Len(z) : (u \o z)[i] = IF i <= Len(u) THEN u[i] ELSE z[i - Len(u)]
      BY <3>1, ConcatProperties, Zenon
    <3> QED
      BY <3>1, <3>2, <3>3
  <2> QED
    BY <2>2, <2>3
<1>3. PICK q \in Seq(S) : q = y \o <<c>> /\ Len(q) = n + 3 /\ q[n + 3] = c /\ \A i \in 1..n + 2 : q[i] = y[i]
  <2>1. <<c>> \in Seq(S) /\ Len(<<c>>) = 1 /\ <<c>>[1] = c
    OBVIOUS
  <2>2. PICK z \in Seq(S) : z = <<c>>
    BY <2>1
  <2>3. y \o z \in Seq(S) /\ Len(y \o z) = n + 3 /\ (y \o z)[n + 3] = c
        /\ \A i \in 1..n + 2 : (y \o z)[i] = y[i]
    BY <1>2, <2>1, <2>2
  <2> QED
    BY <2>2, <2>3
<1>4. q[1] = a /\ q[n + 2] = b /\ \A i \in 1..n : q[1 + i] = t[i]
  BY <1>1, <1>2, <1>3
<1> QED
  BY <1>1, <1>2, <1>3, <1>4

LEMMA SpelledOut ==
    ASSUME NEW t \in Seq(Character)
    PROVE  \E w : /\ Spelled(w, t, Arg!sdscatrepr(t) \o <<" ">>)
                  /\ Arg!sdscatrepr(t) \o <<" ">> \in Seq(Ch)
<1> DEFINE rs == [i \in DOMAIN t |-> Arg!ReprOf(t[i])]
<1>1. PICK n \in Nat : n = Len(t) /\ DOMAIN t = 1..n
  OBVIOUS
<1>2. rs \in Seq(Seq(Ch)) /\ Len(rs) = n /\ \A i \in 1..n : rs[i] = Arg!ReprOf(t[i])
  <2>1. rs \in [1..n -> Seq(Ch)]
    <3>1. \A i \in 1..n : Arg!ReprOf(t[i]) \in Seq(Ch)
      BY <1>1, ReprIs
    <3> QED
      BY <1>1, <3>1
  <2>2. \A i \in 1..n : rs[i] = Arg!ReprOf(t[i])
    BY <1>1
  <2> HIDE DEF rs
  <2>3. rs \in Seq(Seq(Ch)) /\ Len(rs) = n
    BY <2>1, ListOf
  <2> QED
    BY <2>2, <2>3
<1>3. Arg!sdscatrepr(t) = <<"\"">> \o FlattenSeq(rs) \o <<"\"">>
  BY Zenon DEF Arg!sdscatrepr, Arg!FlattenSeq, FlattenSeq
<1> HIDE DEF rs
<1>4. PICK w : Laid(w, rs, FlattenSeq(rs))
  BY <1>2, FlattenLaid
<1>5. PICK f \in Seq(Ch) : f = FlattenSeq(rs)
  BY <1>2, FlattenType
<1>6. /\ w \in [0..n -> Nat] /\ w[0] = 0 /\ w[n] = Len(f)
      /\ \A k \in 1..n : /\ w[k] = w[k - 1] + Len(rs[k])
                         /\ \A i \in 1..Len(rs[k]) : f[w[k - 1] + i] = rs[k][i]
  BY <1>2, <1>4, <1>5 DEF Laid
<1>7. PICK e \in Nat : e = Len(f)
  BY <1>5
<1>8. "\"" \in Ch /\ " " \in Ch
  BY DEF Ch
<1>9. PICK q \in Seq(Ch) :
         /\ q = (<<"\"">> \o f \o <<"\"">>) \o <<" ">>
         /\ Len(q) = e + 3 /\ q[1] = "\"" /\ q[e + 2] = "\"" /\ q[e + 3] = " "
         /\ \A i \in 1..e : q[1 + i] = f[i]
  <2>0. PICK q : q = (<<"\"">> \o f \o <<"\"">>) \o <<" ">>
    OBVIOUS
  <2>1. /\ q \in Seq(Ch) /\ Len(q) = e + 3 /\ q[1] = "\"" /\ q[e + 2] = "\"" /\ q[e + 3] = " "
        /\ \A i \in 1..e : q[1 + i] = f[i]
    <3>1. f \in Seq(Ch) /\ e \in Nat /\ e = Len(f)
      BY <1>5, <1>7
    <3>2. PICK a \in Ch : a = "\""
      BY <1>8
    <3>3. PICK b \in Ch : b = " "
      BY <1>8
    <3>4. q = (<<a>> \o f \o <<a>>) \o <<b>>
      BY <2>0, <3>2, <3>3, Zenon
    <3>5. /\ q \in Seq(Ch) /\ Len(q) = e + 3 /\ q[1] = a /\ q[e + 2] = a /\ q[e + 3] = b
          /\ \A i \in 1..e : q[1 + i] = f[i]
      BY <3>1, <3>4, Between
    <3> QED
      BY <3>2, <3>3, <3>5
  <2> QED
    BY <2>0, <2>1
<1>10. q = Arg!sdscatrepr(t) \o <<" ">>
  BY <1>3, <1>5, <1>9
<1>11. ASSUME NEW i \in 1..n
       PROVE  /\ w[i] = w[i - 1] + Len(rs[i])
              /\ \A k \in 1..Len(rs[i]) : q[w[i - 1] + 1 + k] = rs[i][k]
  <2>1. PICK a \in Nat : a = w[i - 1]
    <3>1. i - 1 \in 0..n
      OBVIOUS
    <3> QED
      BY <1>6, <3>1
  <2>2. PICK d \in Nat : d = Len(rs[i])
    BY <1>2
  <2>3. w[i] = a + d /\ \A k \in 1..d : f[a + k] = rs[i][k]
    BY <1>6, <2>1, <2>2
  <2>4. a + d <= e
    <3>1. i \in 1..Len(rs)
      BY <1>2
    <3>2. w[i] <= Len(f)
      BY <1>2, <1>4, <1>5, <3>1, LaidInside
    <3> QED
      BY <1>7, <2>3, <3>2
  <2>5. ASSUME NEW k \in 1..d PROVE q[a + 1 + k] = rs[i][k]
    <3>1. a + k \in 1..e /\ a + 1 + k = 1 + (a + k)
      BY <2>4
    <3> QED
      BY <1>9, <2>3, <3>1
  <2> QED
    BY <2>1, <2>2, <2>3, <2>5
<1>12. Spelled(w, t, q)
  <2>1. ASSUME NEW i \in 1..Len(t)
        PROVE  /\ w[i] = w[i - 1] + Len(Arg!ReprOf(t[i]))
               /\ \A k \in 1..Len(Arg!ReprOf(t[i])) : q[w[i - 1] + 1 + k] = Arg!ReprOf(t[i])[k]
    <3>1. i \in 1..n /\ rs[i] = Arg!ReprOf(t[i])
      BY <1>1, <1>2
    <3> QED
      BY <1>11, <3>1
  <2>2. /\ w \in [0..Len(t) -> Nat] /\ w[0] = 0 /\ Len(q) = w[Len(t)] + 3
        /\ q[1] = "\"" /\ q[w[Len(t)] + 2] = "\"" /\ q[w[Len(t)] + 3] = " "
    BY <1>1, <1>6, <1>7, <1>9
  <2> QED
    BY <2>1, <2>2 DEF Spelled
<1> QED
  BY <1>10, <1>12, Zenon

LEMMA LineLaid ==
    ASSUME NEW list \in Seq(Seq(Character))
    PROVE  /\ PartsOf(list) \in Seq(Seq(Ch)) /\ Len(PartsOf(list)) = Len(list)
           /\ Arg!Joined(list) \in Seq(Ch) /\ \E o : Laid(o, PartsOf(list), Arg!Joined(list))
<1>1. PICK n \in Nat : n = Len(list) /\ DOMAIN list = 1..n
  OBVIOUS
<1>2. PartsOf(list) \in [1..n -> Seq(Ch)]
  <2>1. ASSUME NEW i \in 1..n PROVE Arg!sdscatrepr(list[i]) \o <<" ">> \in Seq(Ch)
    <3>1. list[i] \in Seq(Character)
      BY <1>1
    <3> QED
      BY <3>1, SpelledOut
  <2> QED
    BY <1>1, <2>1 DEF PartsOf
<1>3. PartsOf(list) \in Seq(Seq(Ch)) /\ Len(PartsOf(list)) = n
  BY <1>2, ListOf
<1>4. Arg!Joined(list) = FlattenSeq(PartsOf(list))
  BY Zenon DEF Arg!Joined, Arg!FlattenSeq, FlattenSeq, PartsOf
<1>5. FlattenSeq(PartsOf(list)) \in Seq(Ch)
  BY <1>3, FlattenType
<1>6. \E o : Laid(o, PartsOf(list), FlattenSeq(PartsOf(list)))
  BY <1>3, FlattenLaid
<1> QED
  BY <1>1, <1>3, <1>4, <1>5, <1>6

-----------------------------------------------------------------------------
(* Every line: the scan stays in it, and what is allocated is counted.      *)

ArgsBase ==
    /\ line \in Seq(Ch) /\ argsP \in 1..Len(line) + 1
    /\ argsAt \in {"blanks", "token", "vector", "NULL"} /\ mode \in {"plain", "quotes", "single"}
    /\ current \in Seq(Out) /\ vector \in Seq(Seq(Out))
    /\ Arg!NoLeak

LEMMA AtIs ==
    ASSUME Arg!LinesRight, line \in Seq(Ch), NEW i \in Nat \ {0}
    PROVE  /\ i <= Len(line) => Arg!At(i) = line[i] /\ line[i] \in Ch /\ Arg!At(i) # Arg!End
           /\ i > Len(line) => Arg!At(i) = Arg!End
<1>1. Arg!End \notin Ch
  BY EndNotWritten
<1>2. CASE i <= Len(line)
  <2>1. i \in 1..Len(line)
    BY <1>2
  <2>2. line[i] \in Ch
    BY <2>1
  <2>3. Arg!At(i) = line[i]
    BY <1>2 DEF Arg!At
  <2> QED
    BY <1>1, <1>2, <2>2, <2>3
<1>3. CASE ~(i <= Len(line))
  <2>1. Arg!At(i) = Arg!End
    BY <1>3 DEF Arg!At
  <2> QED
    BY <1>3, <2>1
<1> QED
  BY <1>2, <1>3

LEMMA TurnBase ==
    ASSUME Arg!LinesRight, ArgsBase, argsAt = "token", NEW m \in {"plain", "quotes", "single"},
           NEW a \in Seq(Out), NEW n \in Nat \ {0}, Arg!Turn(m, a, n), argsP + n <= Len(line) + 2
    PROVE  /\ ArgsBase' /\ mode' = m /\ current' = current \o a
           /\ argsP' = IF argsP + n <= Len(line) + 1 THEN argsP + n ELSE argsP + n - 1
           /\ UNCHANGED <<args, line, argsAt, vector>>
<1>1. /\ line \in Seq(Ch) /\ argsP \in 1..Len(line) + 1
      /\ current \in Seq(Out) /\ vector \in Seq(Seq(Out))
      /\ argsLive = Len(vector) + 1
  BY DEF ArgsBase, Arg!NoLeak
<1>2. /\ mode' = m /\ current' = current \o a
      /\ argsP' = IF Arg!At(argsP + n - 1) = Arg!End THEN argsP + n - 1 ELSE argsP + n
      /\ UNCHANGED <<args, line, argsAt, vector, argsLive>>
  BY DEF Arg!Turn
<1>3. PICK i \in Nat \ {0} : i = argsP + n - 1
  <2>1. argsP + n - 1 \in Nat \ {0}
    BY <1>1
  <2> QED
    BY <2>1
<1>4. (i <= Len(line) => Arg!At(i) # Arg!End) /\ (i > Len(line) => Arg!At(i) = Arg!End)
  BY <1>1, <1>3, AtIs
<1>5. Len(line) \in Nat /\ argsP \in Nat /\ argsP >= 1
  BY <1>1
<1>6. argsP' = IF argsP + n <= Len(line) + 1 THEN argsP + n ELSE argsP + n - 1
  <2>1. i <= Len(line) \/ i > Len(line)
    BY <1>3, <1>5
  <2>2. CASE i <= Len(line)
    BY <1>2, <1>3, <1>4, <1>5, <2>2
  <2>3. CASE i > Len(line)
    BY <1>2, <1>3, <1>4, <1>5, <2>3
  <2> QED
    BY <2>1, <2>2, <2>3
<1>7. argsP' \in 1..Len(line) + 1
  BY <1>5, <1>6
<1>8. current' \in Seq(Out)
  <2>1. current \o a \in Seq(Out)
    BY <1>1, ConcatProperties
  <2> QED
    BY <1>2, <2>1
<1>9. ArgsBase'
  BY <1>1, <1>2, <1>7, <1>8 DEF ArgsBase, Arg!NoLeak
<1> QED
  BY <1>2, <1>6, <1>9

LEMMA TokenDoneBase ==
    ASSUME Arg!LinesRight, ArgsBase, argsAt = "token", Arg!TokenDone
    PROVE  /\ ArgsBase' /\ argsAt' = "blanks" /\ vector' = Append(vector, current)
           /\ argsP' = IF argsP <= Len(line) THEN argsP + 1 ELSE argsP
           /\ UNCHANGED <<args, line>>
<1>1. /\ line \in Seq(Ch) /\ argsP \in 1..Len(line) + 1 /\ argsP \in Nat \ {0} /\ Len(line) \in Nat
      /\ current \in Seq(Out) /\ vector \in Seq(Seq(Out)) /\ mode \in {"plain", "quotes", "single"}
      /\ argsLive = Len(vector) + 1
  BY DEF ArgsBase, Arg!NoLeak
<1>2. /\ vector' = Append(vector, current) /\ argsAt' = "blanks"
      /\ argsP' = IF Arg!At(argsP) = Arg!End THEN argsP ELSE argsP + 1
      /\ UNCHANGED <<args, line, mode, current, argsLive>>
  BY DEF Arg!TokenDone
<1>3. /\ argsP <= Len(line) => Arg!At(argsP) # Arg!End
      /\ argsP > Len(line) => Arg!At(argsP) = Arg!End
  BY <1>1, AtIs
<1>4. argsP' = IF argsP <= Len(line) THEN argsP + 1 ELSE argsP
  BY <1>1, <1>2, <1>3
<1>5. argsP' \in 1..Len(line) + 1
  BY <1>1, <1>4
<1>6. vector' \in Seq(Seq(Out)) /\ Len(vector') = Len(vector) + 1
  BY <1>1, <1>2
<1>7. ArgsBase'
  BY <1>1, <1>2, <1>5, <1>6 DEF ArgsBase, Arg!NoLeak
<1> QED
  BY <1>2, <1>4, <1>7

LEMMA ErrBase ==
    ASSUME ArgsBase, argsAt = "token", Arg!Err
    PROVE  ArgsBase' /\ argsAt' = "NULL" /\ UNCHANGED line
<1>1. /\ line \in Seq(Ch) /\ argsP \in 1..Len(line) + 1
      /\ current \in Seq(Out) /\ vector \in Seq(Seq(Out)) /\ mode \in {"plain", "quotes", "single"}
      /\ argsLive = Len(vector) + 1
  BY DEF ArgsBase, Arg!NoLeak
<1>2. /\ argsAt' = "NULL" /\ vector' = << >> /\ argsLive' = argsLive - Len(vector) - 1
      /\ UNCHANGED <<args, line, mode, argsP, current>>
  BY DEF Arg!Err
<1>3. argsLive' = 0 /\ << >> \in Seq(Seq(Out))
  BY <1>1, <1>2
<1> QED
  BY <1>1, <1>2, <1>3 DEF ArgsBase, Arg!NoLeak

LEMMA BlanksBase ==
    ASSUME Arg!LinesRight, ArgsBase, Arg!Blank \/ Arg!Start \/ Arg!Return
    PROVE  ArgsBase'
<1>1. /\ line \in Seq(Ch) /\ argsP \in 1..Len(line) + 1 /\ argsP \in Nat \ {0} /\ Len(line) \in Nat
      /\ argsAt = "blanks" /\ mode \in {"plain", "quotes", "single"}
      /\ current \in Seq(Out) /\ vector \in Seq(Seq(Out)) /\ argsLive = Len(vector)
  BY DEF ArgsBase, Arg!NoLeak, Arg!Blank, Arg!Start, Arg!Return
<1>2. argsP > Len(line) => Arg!At(argsP) = Arg!End
  BY <1>1, AtIs
<1>3. CASE Arg!Blank
  <2>1. /\ Arg!At(argsP) # Arg!End /\ argsP' = argsP + 1
        /\ UNCHANGED <<args, line, argsAt, mode, current, vector, argsLive>>
    BY <1>3 DEF Arg!Blank, Arg!Space, Arg!End
  <2>2. argsP' \in 1..Len(line) + 1
    BY <1>1, <1>2, <2>1
  <2> QED
    BY <1>1, <2>1, <2>2 DEF ArgsBase, Arg!NoLeak
<1>4. CASE Arg!Start
  <2>1. /\ argsAt' = "token" /\ mode' = "plain" /\ current' = << >> /\ argsLive' = argsLive + 1
        /\ UNCHANGED <<args, line, argsP, vector>>
    BY <1>4 DEF Arg!Start
  <2>2. << >> \in Seq(Out)
    OBVIOUS
  <2> QED
    BY <1>1, <2>1, <2>2 DEF ArgsBase, Arg!NoLeak
<1>5. CASE Arg!Return
  <2>1. argsAt' = "vector" /\ UNCHANGED <<args, line, mode, argsP, current, vector, argsLive>>
    BY <1>5 DEF Arg!Return
  <2> QED
    BY <1>1, <2>1 DEF ArgsBase, Arg!NoLeak
<1> QED
  BY <1>3, <1>4, <1>5

LEMMA TokenAt ==
    ASSUME Arg!LinesRight, ArgsBase
    PROVE  /\ argsP \in Nat \ {0} /\ Len(line) \in Nat /\ argsP <= Len(line) + 1
           /\ Arg!At(argsP) # Arg!End <=> argsP <= Len(line)
           /\ Arg!At(argsP) # Arg!End => Arg!At(argsP) \in Ch
           /\ Arg!At(argsP + 1) # Arg!End <=> argsP + 1 <= Len(line)
           /\ Arg!At(argsP + 1) # Arg!End => Arg!At(argsP + 1) \in Ch
           /\ Arg!At(argsP + 3) # Arg!End <=> argsP + 3 <= Len(line)
<1>1. line \in Seq(Ch) /\ argsP \in Nat \ {0} /\ Len(line) \in Nat /\ argsP <= Len(line) + 1
  BY DEF ArgsBase
<1>2. ASSUME NEW i \in Nat \ {0}
      PROVE  /\ Arg!At(i) # Arg!End <=> i <= Len(line)
             /\ Arg!At(i) # Arg!End => Arg!At(i) \in Ch
  <2>1. /\ i <= Len(line) => Arg!At(i) = line[i] /\ line[i] \in Ch /\ Arg!At(i) # Arg!End
        /\ i > Len(line) => Arg!At(i) = Arg!End
    BY <1>1, AtIs
  <2>2. i <= Len(line) \/ i > Len(line)
    BY <1>1
  <2> QED
    BY <1>1, <2>1, <2>2
<1>3. argsP + 1 \in Nat \ {0} /\ argsP + 3 \in Nat \ {0}
  BY <1>1
<1> QED
  BY <1>1, <1>2, <1>3

\* Reading a character, in quotes of either kind or without any.
LEMMA ReadsOne ==
    ASSUME Arg!LinesRight, ArgsBase, argsAt = "token", NEW m \in {"plain", "quotes", "single"},
           Arg!At(argsP) # Arg!End, Arg!Turn(m, <<Arg!At(argsP)>>, 1)
    PROVE  /\ ArgsBase' /\ mode' = m /\ current' = current \o <<Arg!At(argsP)>>
           /\ argsP' = argsP + 1 /\ UNCHANGED <<args, line, argsAt, vector>>
<1>1. argsP \in Nat \ {0} /\ Len(line) \in Nat /\ argsP <= Len(line) /\ Arg!At(argsP) \in Ch
  BY TokenAt
<1>2. PICK a \in Seq(Out) : a = <<Arg!At(argsP)>>
  <2>1. Arg!At(argsP) \in Out
    BY <1>1 DEF Out
  <2>2. <<Arg!At(argsP)>> \in Seq(Out)
    BY <2>1, ShortLists
  <2> QED
    BY <2>2
<1>3. PICK n \in Nat \ {0} : n = 1
  OBVIOUS
<1>4. Arg!Turn(m, a, n) /\ argsP + n <= Len(line) + 2 /\ argsP + n <= Len(line) + 1
  BY <1>1, <1>2, <1>3
<1>5. /\ ArgsBase' /\ mode' = m /\ current' = current \o a
      /\ argsP' = IF argsP + n <= Len(line) + 1 THEN argsP + n ELSE argsP + n - 1
      /\ UNCHANGED <<args, line, argsAt, vector>>
  BY <1>4, TurnBase
<1> QED
  BY <1>2, <1>3, <1>4, <1>5

\* An opening quote is passed over.
LEMMA Opens ==
    ASSUME Arg!LinesRight, ArgsBase, argsAt = "token", NEW m \in {"plain", "quotes", "single"},
           Arg!At(argsP) # Arg!End, Arg!Turn(m, << >>, 1)
    PROVE  /\ ArgsBase' /\ mode' = m /\ current' = current
           /\ argsP' = argsP + 1 /\ UNCHANGED <<args, line, argsAt, vector>>
<1>1. argsP \in Nat \ {0} /\ Len(line) \in Nat /\ argsP <= Len(line) /\ current \in Seq(Out)
  BY TokenAt DEF ArgsBase
<1>2. << >> \in Seq(Out) /\ 1 \in Nat \ {0} /\ argsP + 1 <= Len(line) + 2 /\ argsP + 1 <= Len(line) + 1
  BY <1>1
<1>3. /\ ArgsBase' /\ mode' = m /\ current' = current \o << >>
      /\ argsP' = IF argsP + 1 <= Len(line) + 1 THEN argsP + 1 ELSE argsP + 1 - 1
      /\ UNCHANGED <<args, line, argsAt, vector>>
  BY <1>2, TurnBase
<1>4. current \o << >> = current
  BY <1>1, ConcatEmptySeq
<1> QED
  BY <1>2, <1>3, <1>4

\* An escaped character: two characters of the line for one.
LEMMA ReadsTwo ==
    ASSUME Arg!LinesRight, ArgsBase, argsAt = "token", NEW m \in {"plain", "quotes", "single"},
           Arg!At(argsP + 1) # Arg!End, NEW c \in Out, Arg!Turn(m, <<c>>, 2)
    PROVE  /\ ArgsBase' /\ mode' = m /\ current' = current \o <<c>>
           /\ argsP' = argsP + 2 /\ UNCHANGED <<args, line, argsAt, vector>>
<1>1. argsP \in Nat \ {0} /\ Len(line) \in Nat /\ argsP + 1 <= Len(line)
  BY TokenAt
<1>2. PICK a \in Seq(Out) : a = <<c>>
  BY ShortLists
<1>3. PICK n \in Nat \ {0} : n = 2
  OBVIOUS
<1>4. Arg!Turn(m, a, n) /\ argsP + n <= Len(line) + 2 /\ argsP + n <= Len(line) + 1
  BY <1>1, <1>2, <1>3
<1>5. /\ ArgsBase' /\ mode' = m /\ current' = current \o a
      /\ argsP' = IF argsP + n <= Len(line) + 1 THEN argsP + n ELSE argsP + n - 1
      /\ UNCHANGED <<args, line, argsAt, vector>>
  BY <1>4, TurnBase
<1> QED
  BY <1>2, <1>3, <1>4, <1>5

\* A byte in hexadecimal: four characters of the line for one.
LEMMA ReadsFour ==
    ASSUME Arg!LinesRight, ArgsBase, argsAt = "token", NEW m \in {"plain", "quotes", "single"},
           Arg!At(argsP + 3) # Arg!End, NEW c \in Out, Arg!Turn(m, <<c>>, 4)
    PROVE  /\ ArgsBase' /\ mode' = m /\ current' = current \o <<c>>
           /\ argsP' = argsP + 4 /\ UNCHANGED <<args, line, argsAt, vector>>
<1>1. argsP \in Nat \ {0} /\ Len(line) \in Nat /\ argsP + 3 <= Len(line)
  BY TokenAt
<1>2. PICK a \in Seq(Out) : a = <<c>>
  BY ShortLists
<1>3. PICK n \in Nat \ {0} : n = 4
  OBVIOUS
<1>4. Arg!Turn(m, a, n) /\ argsP + n <= Len(line) + 2 /\ argsP + n <= Len(line) + 1
  BY <1>1, <1>2, <1>3
<1>5. /\ ArgsBase' /\ mode' = m /\ current' = current \o a
      /\ argsP' = IF argsP + n <= Len(line) + 1 THEN argsP + n ELSE argsP + n - 1
      /\ UNCHANGED <<args, line, argsAt, vector>>
  BY <1>4, TurnBase
<1> QED
  BY <1>2, <1>3, <1>4, <1>5

LEMMA QuotesBase ==
    ASSUME Arg!LinesRight, ArgsBase, Arg!InQuotes PROVE ArgsBase'
<1>1. argsAt = "token" /\ mode = "quotes"
  BY DEF Arg!InQuotes
<1>2. CASE Arg!At(argsP) = "\\" /\ Arg!HexHere
  <2>1. Arg!At(argsP + 3) # Arg!End
    BY <1>2 DEF Arg!HexHere, Arg!HexDigit, Arg!End
  <2>2. \E c \in Out : Arg!Turn("quotes", <<c>>, 4)
    <3> DEFINE ds == <<Arg!At(argsP + 2), Arg!At(argsP + 3)>>
               c == IF ds \in DOMAIN Arg!HexByte THEN Arg!HexByte[ds] ELSE "byte"
    <3>1. Arg!Turn("quotes", <<c>>, 4)
      BY <1>1, <1>2 DEF Arg!InQuotes, Arg!End
    <3>2. c \in Out
      <4>1. ASSUME NEW d \in DOMAIN Arg!HexByte PROVE Arg!HexByte[d] \in {"nul", "hi"}
        BY <4>1 DEF Arg!HexByte
      <4> QED
        BY <4>1 DEF Out
    <3> QED
      BY <3>1, <3>2
  <2> QED
    BY <1>1, <2>1, <2>2, ReadsFour
<1>3. CASE Arg!At(argsP) = "\\" /\ ~Arg!HexHere /\ Arg!At(argsP + 1) # Arg!End
  <2>1. Arg!Turn("quotes", <<Arg!Escaped(Arg!At(argsP + 1))>>, 2)
    BY <1>1, <1>3 DEF Arg!InQuotes, Arg!End
  <2>2. Arg!Escaped(Arg!At(argsP + 1)) \in Out
    BY <1>3, TokenAt DEF Out, Arg!Escaped
  <2>3. PICK c \in Out : c = Arg!Escaped(Arg!At(argsP + 1))
    BY <2>2
  <2>4. Arg!Turn("quotes", <<c>>, 2)
    BY <2>1, <2>3
  <2> QED
    BY <1>1, <1>3, <2>4, ReadsTwo
<1>4. CASE Arg!At(argsP) = "\""
  <2>1. Arg!TokenDone \/ Arg!Err
    BY <1>1, <1>4 DEF Arg!InQuotes, Arg!Close, Arg!End
  <2> QED
    BY <1>1, <2>1, TokenDoneBase, ErrBase
<1>5. CASE Arg!At(argsP) = Arg!End
  <2>1. Arg!Err
    BY <1>1, <1>5 DEF Arg!InQuotes, Arg!End
  <2> QED
    BY <1>1, <2>1, ErrBase
<1>6. CASE /\ ~(Arg!At(argsP) = "\\" /\ Arg!At(argsP + 1) # Arg!End)
           /\ Arg!At(argsP) # "\"" /\ Arg!At(argsP) # Arg!End
           /\ ~(Arg!At(argsP) = "\\" /\ Arg!HexHere)
  <2>1. Arg!Turn("quotes", <<Arg!At(argsP)>>, 1)
    BY <1>1, <1>6 DEF Arg!InQuotes
  <2> QED
    BY <1>1, <1>6, <2>1, ReadsOne
<1> QED
  BY <1>2, <1>3, <1>4, <1>5, <1>6

LEMMA SingleQuotesBase ==
    ASSUME Arg!LinesRight, ArgsBase, Arg!InSingleQuotes PROVE ArgsBase'
<1>1. argsAt = "token" /\ mode = "single"
  BY DEF Arg!InSingleQuotes
<1>2. CASE Arg!At(argsP) = "\\" /\ Arg!At(argsP + 1) = "'"
  <2>1. Arg!Turn("single", <<"'">>, 2)
    BY <1>1, <1>2 DEF Arg!InSingleQuotes, Arg!End
  <2>2. PICK c \in Out : c = "'"
    BY DEF Out
  <2>3. Arg!Turn("single", <<c>>, 2) /\ Arg!At(argsP + 1) # Arg!End
    BY <1>2, <2>1, <2>2 DEF Arg!End
  <2> QED
    BY <1>1, <2>3, ReadsTwo
<1>3. CASE Arg!At(argsP) = "'"
  <2>1. Arg!TokenDone \/ Arg!Err
    BY <1>1, <1>3 DEF Arg!InSingleQuotes, Arg!Close, Arg!End
  <2> QED
    BY <1>1, <2>1, TokenDoneBase, ErrBase
<1>4. CASE Arg!At(argsP) = Arg!End
  <2>1. Arg!Err
    BY <1>1, <1>4 DEF Arg!InSingleQuotes, Arg!End
  <2> QED
    BY <1>1, <2>1, ErrBase
<1>5. CASE /\ ~(Arg!At(argsP) = "\\" /\ Arg!At(argsP + 1) = "'")
           /\ Arg!At(argsP) # "'" /\ Arg!At(argsP) # Arg!End
  <2>1. Arg!Turn("single", <<Arg!At(argsP)>>, 1)
    BY <1>1, <1>5 DEF Arg!InSingleQuotes
  <2> QED
    BY <1>1, <1>5, <2>1, ReadsOne
<1> QED
  BY <1>2, <1>3, <1>4, <1>5

LEMMA PlainBase ==
    ASSUME Arg!LinesRight, ArgsBase, Arg!Plain PROVE ArgsBase'
<1>1. argsAt = "token" /\ mode = "plain"
  BY DEF Arg!Plain
<1>2. CASE Arg!At(argsP) \in Arg!Space \union {Arg!End}
  <2>1. Arg!TokenDone
    BY <1>1, <1>2 DEF Arg!Plain, Arg!Space, Arg!End
  <2> QED
    BY <1>1, <2>1, TokenDoneBase
<1>3. CASE Arg!At(argsP) = "\""
  <2>1. Arg!Turn("quotes", << >>, 1) /\ Arg!At(argsP) # Arg!End
    BY <1>1, <1>3 DEF Arg!Plain, Arg!Space, Arg!End
  <2> QED
    BY <1>1, <2>1, Opens
<1>4. CASE Arg!At(argsP) = "'"
  <2>1. Arg!Turn("single", << >>, 1) /\ Arg!At(argsP) # Arg!End
    BY <1>1, <1>4 DEF Arg!Plain, Arg!Space, Arg!End
  <2> QED
    BY <1>1, <2>1, Opens
<1>5. CASE /\ Arg!At(argsP) \notin Arg!Space \union {Arg!End}
           /\ Arg!At(argsP) # "\"" /\ Arg!At(argsP) # "'"
  <2>1. Arg!Turn("plain", <<Arg!At(argsP)>>, 1) /\ Arg!At(argsP) # Arg!End
    BY <1>1, <1>5 DEF Arg!Plain
  <2> QED
    BY <1>1, <2>1, ReadsOne
<1> QED
  BY <1>2, <1>3, <1>4, <1>5

-----------------------------------------------------------------------------
(* A line that sdscatrepr has written. Before the k-th argument ends, o[k]  *)
(* characters of the line have been read; k arguments are in the vector.    *)

Held(k) == Len(vector) = k /\ \A i \in 1..k : vector[i] = args[i]
Behind(o, k) == argsAt = "blanks" /\ (argsP = o[k] + 1 \/ (k > 0 /\ argsP = o[k]))
Opening(o, k) == /\ argsAt = "token" /\ mode = "plain" /\ k < Len(args)
                 /\ argsP = o[k] + 1 /\ current = << >>
Inside(o, k) == /\ argsAt = "token" /\ mode = "quotes" /\ k < Len(args)
                /\ \E w : /\ Spelled(w, args[k + 1], PartsOf(args)[k + 1])
                          /\ \E i \in 0..Len(args[k + 1]) :
                               argsP = o[k] + w[i] + 2 /\ current = SubSeq(args[k + 1], 1, i)
Place(o, k) == \/ Behind(o, k) \/ Opening(o, k) \/ Inside(o, k)
               \/ argsAt = "vector" /\ k = Len(args)
ReadingBack ==
    /\ args \in Seq(Seq(Character))
    /\ \E o : Laid(o, PartsOf(args), line) /\ \E k \in 0..Len(args) : Held(k) /\ Place(o, k)

LEMMA PartAt ==
    ASSUME Arg!LinesRight, args \in Seq(Seq(Character)), line \in Seq(Ch),
           NEW o, Laid(o, PartsOf(args), line), NEW k \in Nat, k < Len(args)
    PROVE  /\ PartsOf(args)[k + 1] \in Seq(Ch) /\ args[k + 1] \in Seq(Character)
           /\ PartsOf(args)[k + 1] = Arg!sdscatrepr(args[k + 1]) \o <<" ">>
           /\ o[k] \in Nat /\ o[k + 1] \in Nat /\ o[k + 1] = o[k] + Len(PartsOf(args)[k + 1])
           /\ \A i \in 1..Len(PartsOf(args)[k + 1]) : Arg!At(o[k] + i) = PartsOf(args)[k + 1][i]
<1>1. PICK n \in Nat : n = Len(args)
  OBVIOUS
<1>2. PICK qs \in Seq(Seq(Ch)) : qs = PartsOf(args) /\ Len(qs) = n
  BY <1>1, LineLaid
<1>3. k + 1 \in 1..n /\ k + 1 \in 0..n /\ k \in 0..n /\ (k + 1) - 1 = k /\ k + 1 \in 1..Len(qs)
  BY <1>1, <1>2
<1>4. PICK q \in Seq(Ch) : q = qs[k + 1]
  BY <1>2, <1>3
<1>5. /\ o \in [0..n -> Nat] /\ o[k + 1] = o[k] + Len(q) /\ \A i \in 1..Len(q) : line[o[k] + i] = q[i]
  BY <1>2, <1>3, <1>4 DEF Laid
<1>6. PICK a \in Nat : a = o[k]
  BY <1>3, <1>5
<1>7. o[k + 1] <= Len(line) /\ o[k + 1] \in Nat
  BY <1>2, <1>3, LaidInside
<1>8. ASSUME NEW i \in 1..Len(q) PROVE Arg!At(a + i) = q[i]
  <2>1. a + i \in Nat \ {0} /\ a + i <= Len(line)
    <3>1. PICK b \in Nat : b = Len(q)
      BY <1>4
    <3>2. a + b <= Len(line) /\ i \in 1..b
      BY <1>5, <1>6, <1>7, <3>1
    <3> QED
      BY <3>1, <3>2
  <2>2. Arg!At(a + i) = line[a + i]
    BY <2>1, AtIs
  <2> QED
    BY <1>5, <1>6, <2>2
<1>9. args[k + 1] \in Seq(Character)
  BY <1>1, <1>3
<1>10. PartsOf(args)[k + 1] = Arg!sdscatrepr(args[k + 1]) \o <<" ">>
  <2>1. k + 1 \in DOMAIN args
    BY <1>1, <1>3
  <2> QED
    BY <2>1, Zenon DEF PartsOf
<1> QED
  BY <1>2, <1>4, <1>5, <1>6, <1>7, <1>8, <1>9, <1>10

LEMMA OneMore ==
    ASSUME NEW S, NEW t \in Seq(S), NEW i \in Nat, i < Len(t)
    PROVE  SubSeq(t, 1, i) \o <<t[i + 1]>> = SubSeq(t, 1, i + 1)
<1>1. PICK n \in Nat : n = Len(t)
  OBVIOUS
<1>2. PICK x \in Seq(S) : x = SubSeq(t, 1, i) /\ Len(x) = i /\ \A k \in 1..i : x[k] = t[k]
  <2>1. /\ SubSeq(t, 1, i) \in Seq(S) /\ Len(SubSeq(t, 1, i)) = i
        /\ \A k \in 1..i : SubSeq(t, 1, i)[k] = t[k]
    OBVIOUS
  <2> QED
    BY <2>1
<1>3. PICK y \in Seq(S) : y = SubSeq(t, 1, i + 1) /\ Len(y) = i + 1 /\ \A k \in 1..i + 1 : y[k] = t[k]
  <2>1. PICK a \in Nat : a = i + 1 /\ a <= Len(t)
    OBVIOUS
  <2>2. /\ SubSeq(t, 1, a) \in Seq(S) /\ Len(SubSeq(t, 1, a)) = a
        /\ \A k \in 1..a : SubSeq(t, 1, a)[k] = t[k]
    BY <2>1
  <2> QED
    BY <2>1, <2>2
<1>4. PICK c \in S : c = t[i + 1]
  BY <1>1
<1>5. PICK z \in Seq(S) : z = Append(x, c) /\ Len(z) = i + 1 /\ z[i + 1] = c /\ \A k \in 1..i : z[k] = x[k]
  <2>1. /\ Append(x, c) \in Seq(S) /\ Len(Append(x, c)) = Len(x) + 1
        /\ Append(x, c)[Len(x) + 1] = c /\ \A k \in 1..Len(x) : Append(x, c)[k] = x[k]
    OBVIOUS
  <2> QED
    BY <1>2, <2>1
<1>6. ASSUME NEW k \in 1..i + 1 PROVE z[k] = y[k]
  <2>1. CASE k = i + 1
    BY <1>3, <1>4, <1>5, <2>1
  <2>2. CASE k # i + 1
    <3>1. k \in 1..i
      BY <2>2
    <3> QED
      BY <1>2, <1>3, <1>5, <3>1
  <2> QED
    BY <2>1, <2>2
<1>7. z = y
  BY <1>3, <1>5, <1>6, SeqEqual
<1>8. x \o <<c>> = Append(x, c)
  BY <1>2, <1>4, AppendIsConcat
<1> QED
  BY <1>2, <1>3, <1>4, <1>5, <1>7, <1>8

\* sdssplitargs reads one character where sdscatrepr has written it.
LEMMA ReadsRepr ==
    ASSUME Arg!LinesRight, ArgsBase, Arg!InQuotes, NEW c \in Character,
           \A i \in 1..Len(Arg!ReprOf(c)) : Arg!At(argsP + (i - 1)) = Arg!ReprOf(c)[i]
    PROVE  /\ mode' = "quotes" /\ current' = current \o <<c>>
           /\ argsP' = argsP + Len(Arg!ReprOf(c))
           /\ UNCHANGED <<args, line, argsAt, vector>>
<1>1. argsAt = "token" /\ mode = "quotes" /\ argsP \in Nat
  BY TokenAt DEF Arg!InQuotes
<1>2. c \in Ch /\ c \in Out /\ c # Arg!End
  BY EndNotWritten DEF Ch, Out
<1>3. argsP + (1 - 1) = argsP /\ argsP + (2 - 1) = argsP + 1 /\ argsP + (3 - 1) = argsP + 2
      /\ argsP + (4 - 1) = argsP + 3
  BY <1>1
<1>4. CASE c \in {"\\", "\""} \/ c = "lf"
  <2>1. PICK d : /\ Arg!ReprOf(c) = <<"\\", d>> /\ d # "x" /\ d # Arg!End /\ Arg!Escaped(d) = c
    <3>1. CASE c \in {"\\", "\""}
      BY <3>1, ReprCases DEF Arg!Escaped, Arg!End
    <3>2. CASE c = "lf"
      BY <3>2, ReprCases DEF Arg!Escaped, Arg!End
    <3> QED
      BY <1>4, <3>1, <3>2
  <2>2. Len(<<"\\", d>>) = 2 /\ <<"\\", d>>[1] = "\\" /\ <<"\\", d>>[2] = d /\ 1 \in 1..2 /\ 2 \in 1..2
    OBVIOUS
  <2>3. Arg!At(argsP) = "\\" /\ Arg!At(argsP + 1) = d
    BY <1>3, <2>1, <2>2
  <2>4. ~Arg!HexHere
    BY <2>1, <2>3 DEF Arg!HexHere
  <2>5. Arg!Turn("quotes", <<c>>, 2)
    BY <1>1, <2>1, <2>3, <2>4 DEF Arg!InQuotes, Arg!End
  <2>6. /\ mode' = "quotes" /\ current' = current \o <<c>> /\ argsP' = argsP + 2
        /\ UNCHANGED <<args, line, argsAt, vector>>
    BY <1>1, <1>2, <2>1, <2>3, <2>5, ReadsTwo
  <2> QED
    BY <2>1, <2>2, <2>6
<1>5. CASE c \in {"nul", "hi"}
  <2>1. PICK d : /\ Arg!ReprOf(c) = <<"\\", "x", "0", d>> /\ d \in {"0", "1"}
                 /\ d = IF c = "nul" THEN "0" ELSE "1"
    BY <1>5, ReprCases
  <2>2. /\ Len(<<"\\", "x", "0", d>>) = 4 /\ <<"\\", "x", "0", d>>[1] = "\\"
        /\ <<"\\", "x", "0", d>>[2] = "x" /\ <<"\\", "x", "0", d>>[3] = "0"
        /\ <<"\\", "x", "0", d>>[4] = d /\ 1 \in 1..4 /\ 2 \in 1..4 /\ 3 \in 1..4 /\ 4 \in 1..4
    OBVIOUS
  <2>3. /\ Arg!At(argsP) = "\\" /\ Arg!At(argsP + 1) = "x" /\ Arg!At(argsP + 2) = "0"
        /\ Arg!At(argsP + 3) = d
    BY <1>3, <2>1, <2>2
  <2>4. Arg!HexHere /\ Arg!At(argsP + 3) # Arg!End
    BY <2>1, <2>3 DEF Arg!HexHere, Arg!HexDigit, Arg!End
  <2>5. <<"0", d>> \in DOMAIN Arg!HexByte /\ Arg!HexByte[<<"0", d>>] = c
    <3>1. <<"0", d>> \in {<<"0", "0">>, <<"0", "1">>} /\ <<"0", d>>[2] = d
      BY <2>1
    <3>2. Arg!HexByte[<<"0", d>>] = IF <<"0", d>>[2] = "0" THEN "nul" ELSE "hi"
      BY <3>1, Zenon DEF Arg!HexByte
    <3>3. DOMAIN Arg!HexByte = {<<"0", "0">>, <<"0", "1">>}
      BY Zenon DEF Arg!HexByte
    <3> QED
      BY <1>5, <2>1, <3>1, <3>2, <3>3
  <2>6. Arg!Turn("quotes", <<c>>, 4)
    <3> DEFINE ds == <<Arg!At(argsP + 2), Arg!At(argsP + 3)>>
               e == IF ds \in DOMAIN Arg!HexByte THEN Arg!HexByte[ds] ELSE "byte"
    <3>1. Arg!Turn("quotes", <<e>>, 4)
      BY <1>1, <2>3, <2>4 DEF Arg!InQuotes, Arg!End
    <3>2. e = c
      BY <2>3, <2>5
    <3> QED
      BY <3>1, <3>2
  <2>7. /\ mode' = "quotes" /\ current' = current \o <<c>> /\ argsP' = argsP + 4
        /\ UNCHANGED <<args, line, argsAt, vector>>
    BY <1>1, <1>2, <2>4, <2>6, ReadsFour
  <2> QED
    BY <2>1, <2>2, <2>7
<1>6. CASE c \notin {"\\", "\"", "lf", "nul", "hi"}
  <2>1. Arg!ReprOf(c) = <<c>> /\ Len(<<c>>) = 1 /\ <<c>>[1] = c /\ 1 \in 1..1
    <3>1. Arg!ReprOf(c) = <<c>>
      BY <1>6, ReprCases
    <3>2. Len(<<c>>) = 1 /\ <<c>>[1] = c /\ 1 \in 1..1
      OBVIOUS
    <3> QED
      BY <3>1, <3>2
  <2>2. Arg!At(argsP) = c
    BY <1>3, <2>1
  <2>3. Arg!Turn("quotes", <<Arg!At(argsP)>>, 1)
    BY <1>1, <1>2, <1>6, <2>2 DEF Arg!InQuotes
  <2>4. /\ mode' = "quotes" /\ current' = current \o <<Arg!At(argsP)>> /\ argsP' = argsP + 1
        /\ UNCHANGED <<args, line, argsAt, vector>>
    BY <1>1, <1>2, <2>2, <2>3, ReadsOne
  <2> QED
    BY <2>1, <2>2, <2>4
<1> QED
  BY <1>4, <1>5, <1>6

LEMMA SpelledInside ==
    ASSUME NEW t \in Seq(Character), NEW q, NEW w, Spelled(w, t, q), NEW k \in 1..Len(t)
    PROVE  w[k] <= w[Len(t)]
<1>1. PICK n \in Nat : n = Len(t)
  OBVIOUS
<1>2. \A j \in 1..n : Len(Arg!ReprOf(t[j])) \in Nat
  <2>1. ASSUME NEW j \in 1..n PROVE Len(Arg!ReprOf(t[j])) \in Nat
    <3>1. t[j] \in Character
      BY <1>1
    <3>2. Len(Arg!ReprOf(t[j])) \in 1..4
      BY <3>1, ReprIs
    <3> QED
      BY <3>2
  <2> QED
    BY <2>1
<1>3. /\ w \in [0..n -> Nat]
      /\ \A j \in 1..n : w[j] = w[j - 1] + Len(Arg!ReprOf(t[j]))
  BY <1>1 DEF Spelled
<1> DEFINE Bad == {m \in 0..n - k : w[n - m] > w[n]}
<1>4. ASSUME Bad # {} PROVE FALSE
  <2>1. PICK m \in Bad : \A j \in Bad : m <= j
    <3>1. Bad \in SUBSET Nat
      OBVIOUS
    <3> HIDE DEF Bad
    <3> QED
      BY LeastMember, <3>1, <1>4, Zenon
  <2>2. m \in 0..n - k /\ w[n - m] > w[n] /\ k \in 1..n
    BY <1>1, <2>1
  <2>3. PICK i \in Nat : i = n - m
    BY <2>2
  <2>4. w[i] > w[n] /\ i \in 0..n /\ n \in 0..n
    BY <2>2, <2>3
  <2>5. i # n /\ m # 0
    BY <1>3, <2>2, <2>3, <2>4
  <2>6. i + 1 \in 1..n /\ i + 1 \in 0..n /\ (i + 1) - 1 = i /\ n - (m - 1) = i + 1
        /\ m - 1 \in 0..n - k
    BY <2>2, <2>3, <2>5
  <2>7. ~(w[i + 1] > w[n])
    <3>1. ~(m <= m - 1)
      BY <2>2
    <3>2. m - 1 \notin Bad
      BY <2>1, <3>1
    <3> QED
      BY <2>6, <3>2
  <2>8. w[i + 1] = w[i] + Len(Arg!ReprOf(t[i + 1])) /\ Len(Arg!ReprOf(t[i + 1])) \in Nat
    BY <1>2, <1>3, <2>6
  <2>9. w[i] \in Nat /\ w[i + 1] \in Nat /\ w[n] \in Nat
    BY <1>3, <2>4, <2>6
  <2> QED
    BY <2>4, <2>7, <2>8, <2>9
<1>5. PICK m \in 0..n - k : n - m = k
  <2>1. n - k \in 0..n - k /\ n - (n - k) = k
    BY <1>1
  <2> QED
    BY <2>1
<1>6. ~(w[k] > w[n])
  BY <1>4, <1>5
<1>7. w[k] \in Nat /\ w[n] \in Nat
  <2>1. k \in 0..n /\ n \in 0..n
    BY <1>1
  <2> QED
    BY <1>3, <2>1
<1> QED
  BY <1>1, <1>6, <1>7

\* The k+1st argument in quotes, q, fills e + 3 places behind the a-th.
Stands(o, k, w, q, a, e) ==
    /\ q \in Seq(Ch) /\ q = PartsOf(args)[k + 1] /\ Spelled(w, args[k + 1], q) /\ w[0] = 0
    /\ a \in Nat /\ a = o[k] /\ e \in Nat /\ Len(q) = e + 3 /\ o[k + 1] = a + (e + 3)
    /\ q[1] = "\"" /\ q[e + 2] = "\"" /\ q[e + 3] = " "
    /\ \A i \in 1..e + 3 : Arg!At(a + i) = q[i]

LEMMA PartStands ==
    ASSUME Arg!LinesRight, args \in Seq(Seq(Character)), line \in Seq(Ch),
           NEW o, Laid(o, PartsOf(args), line), NEW k \in Nat, k < Len(args)
    PROVE  \E w, q : \E a \in Nat, e \in Nat : Stands(o, k, w, q, a, e)
<1>1. /\ PartsOf(args)[k + 1] \in Seq(Ch) /\ args[k + 1] \in Seq(Character)
      /\ PartsOf(args)[k + 1] = Arg!sdscatrepr(args[k + 1]) \o <<" ">>
      /\ o[k] \in Nat /\ o[k + 1] = o[k] + Len(PartsOf(args)[k + 1])
      /\ \A i \in 1..Len(PartsOf(args)[k + 1]) : Arg!At(o[k] + i) = PartsOf(args)[k + 1][i]
  BY PartAt
<1>2. PICK q \in Seq(Ch) : q = PartsOf(args)[k + 1]
  BY <1>1
<1>3. PICK t \in Seq(Character) : t = args[k + 1]
  BY <1>1
<1>4. PICK w : Spelled(w, t, q)
  <2>1. PICK w : Spelled(w, t, Arg!sdscatrepr(t) \o <<" ">>)
    BY <1>3, SpelledOut
  <2>2. q = Arg!sdscatrepr(t) \o <<" ">>
    BY <1>1, <1>2, <1>3
  <2> QED
    BY <2>1, <2>2
<1>5. PICK n \in Nat : n = Len(t)
  BY <1>3
<1>6. /\ w \in [0..n -> Nat] /\ w[0] = 0 /\ Len(q) = w[n] + 3
      /\ q[1] = "\"" /\ q[w[n] + 2] = "\"" /\ q[w[n] + 3] = " "
  BY <1>4, <1>5 DEF Spelled
<1>7. PICK e \in Nat : e = w[n]
  <2>1. n \in 0..n
    OBVIOUS
  <2> QED
    BY <1>6, <2>1
<1>8. PICK a \in Nat : a = o[k]
  BY <1>1
<1>9. Stands(o, k, w, q, a, e)
  BY <1>1, <1>2, <1>3, <1>4, <1>6, <1>7, <1>8 DEF Stands
<1> QED
  BY <1>9

LEMMA BackBlanks ==
    ASSUME Arg!LinesRight, ArgsBase, args \in Seq(Seq(Character)),
           NEW o, Laid(o, PartsOf(args), line), NEW k \in 0..Len(args), Behind(o, k), Arg!Next
    PROVE  Place(o, k)' /\ UNCHANGED <<args, line, vector>>
<1>1. /\ line \in Seq(Ch) /\ argsAt = "blanks" /\ argsP \in Nat \ {0} /\ Len(line) \in Nat
      /\ k \in Nat /\ Len(args) \in Nat /\ k <= Len(args)
  BY DEF ArgsBase, Behind
<1>2. Arg!Blank \/ Arg!Start \/ Arg!Return
  BY <1>1 DEF Arg!Next, Arg!InQuotes, Arg!InSingleQuotes, Arg!Plain
<1>3. CASE argsP = o[k] + 1 /\ k < Len(args)
  <2>10. PICK w, q : \E a \in Nat, e \in Nat : Stands(o, k, w, q, a, e)
    BY <1>1, <1>3, PartStands
  <2>1. PICK a \in Nat, e \in Nat : Stands(o, k, w, q, a, e)
    BY <2>10
  <2>2. a = o[k] /\ q[1] = "\"" /\ \A i \in 1..e + 3 : Arg!At(a + i) = q[i]
    BY <2>1 DEF Stands
  <2>3. 1 \in 1..e + 3
    OBVIOUS
  <2>4. Arg!At(argsP) = "\""
    BY <1>3, <2>2, <2>3
  <2>5. Arg!Start
    BY <1>2, <2>4 DEF Arg!Blank, Arg!Return, Arg!Space, Arg!End
  <2>6. /\ argsAt' = "token" /\ mode' = "plain" /\ current' = << >>
        /\ UNCHANGED <<args, line, argsP, vector>>
    BY <2>5 DEF Arg!Start
  <2>7. Opening(o, k)'
    BY <1>3, <2>6 DEF Opening
  <2> QED
    BY <2>6, <2>7 DEF Place
<1>4. CASE argsP = o[k] + 1 /\ k = Len(args)
  <2>1. o[k] = Len(line)
    BY <1>4, LineLaid DEF Laid
  <2>2. Arg!At(argsP) = Arg!End
    <3>1. argsP > Len(line)
      BY <1>1, <1>4, <2>1
    <3> QED
      BY <1>1, <3>1, AtIs
  <2>3. Arg!Return
    BY <1>2, <2>2 DEF Arg!Blank, Arg!Start, Arg!Space, Arg!End
  <2>4. argsAt' = "vector" /\ UNCHANGED <<args, line, vector>>
    BY <2>3 DEF Arg!Return
  <2> QED
    BY <1>4, <2>4 DEF Place
<1>5. CASE argsP = o[k] /\ k > 0
  <2>1. PICK h \in Nat : h + 1 = k /\ h < Len(args)
    <3>1. k - 1 \in Nat /\ (k - 1) + 1 = k /\ k - 1 < Len(args)
      BY <1>1, <1>5
    <3> QED
      BY <3>1
  <2>20. PICK w, q : \E a \in Nat, e \in Nat : Stands(o, h, w, q, a, e)
    BY <1>1, <2>1, PartStands
  <2>2. PICK a \in Nat, e \in Nat : Stands(o, h, w, q, a, e)
    BY <2>20
  <2>3. o[h + 1] = a + (e + 3) /\ q[e + 3] = " " /\ \A i \in 1..e + 3 : Arg!At(a + i) = q[i]
    BY <2>2 DEF Stands
  <2>4. e + 3 \in 1..e + 3
    OBVIOUS
  <2>5. Arg!At(argsP) = " "
    BY <1>5, <2>1, <2>3, <2>4
  <2>6. Arg!Blank
    BY <1>2, <2>5 DEF Arg!Start, Arg!Return, Arg!Space, Arg!End
  <2>7. argsP' = argsP + 1 /\ UNCHANGED <<args, line, argsAt, vector>>
    BY <2>6 DEF Arg!Blank
  <2>8. Behind(o, k)'
    BY <1>1, <1>5, <2>7 DEF Behind
  <2> QED
    BY <2>7, <2>8 DEF Place
<1>6. k < Len(args) \/ k = Len(args)
  BY <1>1
<1> QED
  BY <1>3, <1>4, <1>5, <1>6 DEF Behind

LEMMA BackOpening ==
    ASSUME Arg!LinesRight, ArgsBase, args \in Seq(Seq(Character)),
           NEW o, Laid(o, PartsOf(args), line), NEW k \in 0..Len(args), Opening(o, k), Arg!Next
    PROVE  Place(o, k)' /\ UNCHANGED <<args, line, vector>>
<1>1. /\ line \in Seq(Ch) /\ argsAt = "token" /\ mode = "plain" /\ argsP = o[k] + 1
      /\ k \in Nat /\ k < Len(args) /\ current = << >>
  BY DEF ArgsBase, Opening
<1>2. Arg!Plain
  BY <1>1 DEF Arg!Next, Arg!InQuotes, Arg!InSingleQuotes, Arg!Blank, Arg!Start, Arg!Return
<1>30. PICK w, q : \E a \in Nat, e \in Nat : Stands(o, k, w, q, a, e)
  BY <1>1, PartStands
<1>3. PICK a \in Nat, e \in Nat : Stands(o, k, w, q, a, e)
  BY <1>30
<1>4. /\ a = o[k] /\ q[1] = "\"" /\ w[0] = 0
      /\ Spelled(w, args[k + 1], PartsOf(args)[k + 1])
      /\ \A i \in 1..e + 3 : Arg!At(a + i) = q[i]
  BY <1>3 DEF Stands
<1>5. Arg!At(argsP) = "\""
  <2>1. 1 \in 1..e + 3
    OBVIOUS
  <2> QED
    BY <1>1, <1>4, <2>1
<1>6. Arg!Turn("quotes", << >>, 1) /\ Arg!At(argsP) # Arg!End
  BY <1>2, <1>5 DEF Arg!Plain, Arg!Space, Arg!End
<1>7. /\ mode' = "quotes" /\ current' = << >> /\ argsP' = argsP + 1
      /\ UNCHANGED <<args, line, argsAt, vector>>
  BY <1>1, <1>6, Opens
<1>8. PICK t \in Seq(Character) : t = args[k + 1]
  BY <1>1
<1>9. SubSeq(t, 1, 0) = << >> /\ 0 \in 0..Len(t)
  BY <1>8
<1>10. argsP' = o[k] + w[0] + 2
  <2>1. argsP' = a + 1 + 1
    BY <1>1, <1>4, <1>7
  <2>2. a + 1 + 1 = a + 0 + 2
    OBVIOUS
  <2> QED
    BY <1>4, <2>1, <2>2
<1>11. /\ Spelled(w, args'[k + 1], PartsOf(args')[k + 1])
       /\ \E i \in 0..Len(args'[k + 1]) :
            argsP' = o[k] + w[i] + 2 /\ current' = SubSeq(args'[k + 1], 1, i)
  BY <1>4, <1>7, <1>8, <1>9, <1>10
<1>12. Inside(o, k)'
  BY <1>1, <1>7, <1>11 DEF Inside, PartsOf
<1> QED
  BY <1>7, <1>12 DEF Place

LEMMA BackInside ==
    ASSUME Arg!LinesRight, ArgsBase, args \in Seq(Seq(Character)),
           NEW o, Laid(o, PartsOf(args), line), NEW k \in 0..Len(args), Held(k), Inside(o, k),
           Arg!Next
    PROVE  /\ UNCHANGED <<args, line>>
           /\ \E m \in 0..Len(args) : Held(m)' /\ Place(o, m)'
<1>1. /\ line \in Seq(Ch) /\ argsAt = "token" /\ mode = "quotes" /\ argsP \in Nat
      /\ k \in Nat /\ k < Len(args) /\ Len(args) \in Nat /\ current \in Seq(Out)
      /\ vector \in Seq(Seq(Out))
  BY DEF ArgsBase, Inside
<1>2. Arg!InQuotes
  BY <1>1 DEF Arg!Next, Arg!Plain, Arg!InSingleQuotes, Arg!Blank, Arg!Start, Arg!Return
<1>30. PICK x, q : \E a \in Nat, e \in Nat : Stands(o, k, x, q, a, e)
  BY <1>1, PartStands
<1>3. PICK a \in Nat, e \in Nat : Stands(o, k, x, q, a, e)
  BY <1>30
<1>4. PICK t \in Seq(Character) : t = args[k + 1]
  BY <1>1
<1>5. PICK n \in Nat : n = Len(t)
  BY <1>4
<1>6. PICK w : Spelled(w, t, q) /\ \E i \in 0..n : argsP = o[k] + w[i] + 2 /\ current = SubSeq(t, 1, i)
  <2>1. q = PartsOf(args)[k + 1]
    BY <1>3 DEF Stands
  <2> QED
    BY <1>4, <1>5, <2>1 DEF Inside
<1>7. PICK i \in 0..n : argsP = o[k] + w[i] + 2 /\ current = SubSeq(t, 1, i)
  BY <1>6
<1>8. /\ a = o[k] /\ Len(q) = e + 3 /\ o[k + 1] = a + (e + 3)
      /\ q[e + 2] = "\"" /\ q[e + 3] = " " /\ \A j \in 1..e + 3 : Arg!At(a + j) = q[j]
      /\ q = PartsOf(args)[k + 1]
  BY <1>3 DEF Stands
<1>9. /\ w \in [0..n -> Nat] /\ Len(q) = w[n] + 3
      /\ \A j \in 1..n : /\ w[j] = w[j - 1] + Len(Arg!ReprOf(t[j]))
                         /\ \A l \in 1..Len(Arg!ReprOf(t[j])) : q[w[j - 1] + 1 + l] = Arg!ReprOf(t[j])[l]
  BY <1>5, <1>6 DEF Spelled
<1>10. PICK b \in Nat : b = w[i]
  BY <1>7, <1>9
<1>11. e = w[n]
  <2>1. w[n] \in Nat
    <3>1. n \in 0..n
      OBVIOUS
    <3> QED
      BY <1>9, <3>1
  <2>2. PICK d \in Nat : d = w[n]
    BY <2>1
  <2>3. d + 3 = e + 3
    BY <1>8, <1>9, <2>2
  <2>4. d = e
    BY <2>3
  <2> QED
    BY <2>2, <2>4
<1>12. argsP = a + b + 2
  BY <1>7, <1>8, <1>10
<1>13. CASE i < n
  <2>1. i + 1 \in 1..n /\ (i + 1) - 1 = i /\ i + 1 \in 0..n /\ i \in Nat
    BY <1>7, <1>13
  <2>2. PICK c \in Character : c = t[i + 1]
    BY <1>4, <1>5, <2>1
  <2>3. PICK l \in 1..4 : l = Len(Arg!ReprOf(c))
    BY <2>2, ReprIs
  <2>4. w[i + 1] = b + l /\ \A j \in 1..l : q[b + 1 + j] = Arg!ReprOf(c)[j]
    <3>1. /\ w[i + 1] = w[(i + 1) - 1] + Len(Arg!ReprOf(t[i + 1]))
          /\ \A j \in 1..Len(Arg!ReprOf(t[i + 1])) :
               q[w[(i + 1) - 1] + 1 + j] = Arg!ReprOf(t[i + 1])[j]
      BY <1>9, <2>1
    <3> QED
      BY <1>10, <2>1, <2>2, <2>3, <3>1
  <2>5. b + l <= e
    <3>1. w[i + 1] <= w[n]
      BY <1>4, <1>5, <1>6, <2>1, SpelledInside
    <3> QED
      BY <1>11, <2>4, <3>1
  <2>6. ASSUME NEW j \in 1..l PROVE Arg!At(argsP + (j - 1)) = Arg!ReprOf(c)[j]
    <3>1. b + 1 + j \in 1..e + 3
      BY <2>5
    <3>2. argsP + (j - 1) = a + (b + 1 + j)
      BY <1>12
    <3> QED
      BY <1>8, <2>4, <3>1, <3>2
  <2>7. /\ mode' = "quotes" /\ current' = current \o <<c>> /\ argsP' = argsP + l
        /\ UNCHANGED <<args, line, argsAt, vector>>
    BY <1>2, <2>3, <2>6, ReadsRepr
  <2>8. current' = SubSeq(t, 1, i + 1)
    BY <1>4, <1>5, <1>7, <1>13, <2>1, <2>2, <2>7, OneMore
  <2>9. argsP' = o[k] + w[i + 1] + 2
    <3>1. argsP' = a + (b + l) + 2
      <4>1. argsP' = (a + b + 2) + l
        BY <1>12, <2>7
      <4>2. (a + b + 2) + l = a + (b + l) + 2
        OBVIOUS
      <4> QED
        BY <4>1, <4>2
    <3> QED
      BY <1>8, <2>4, <3>1
  <2>10. /\ Spelled(w, args'[k + 1], PartsOf(args')[k + 1])
         /\ \E j \in 0..Len(args'[k + 1]) :
              argsP' = o[k] + w[j] + 2 /\ current' = SubSeq(args'[k + 1], 1, j)
    BY <1>4, <1>5, <1>6, <1>8, <2>1, <2>7, <2>8, <2>9
  <2>11. Inside(o, k)'
    BY <1>1, <2>7, <2>10 DEF Inside, PartsOf
  <2>12. Held(k)'
    BY <2>7 DEF Held
  <2> QED
    BY <2>7, <2>11, <2>12 DEF Place
<1>14. CASE i = n
  <2>1. /\ b = e /\ Arg!At(a + (e + 2)) = "\"" /\ Arg!At(a + (e + 3)) = " "
    <3>1. e + 2 \in 1..e + 3 /\ e + 3 \in 1..e + 3
      OBVIOUS
    <3>2. b = e
      BY <1>10, <1>11, <1>14
    <3> QED
      BY <1>8, <3>1, <3>2
  <2>2. argsP = a + (e + 2) /\ argsP + 1 = a + (e + 3)
    <3>1. argsP = a + e + 2
      BY <1>12, <2>1
    <3> QED
      BY <3>1
  <2>3. Arg!TokenDone
    BY <1>1, <1>2, <2>1, <2>2 DEF Arg!InQuotes, Arg!Close, Arg!Space, Arg!End
  <2>4. /\ argsAt' = "blanks" /\ vector' = Append(vector, current)
        /\ argsP' = IF argsP <= Len(line) THEN argsP + 1 ELSE argsP
        /\ UNCHANGED <<args, line>>
    BY <1>1, <2>3, TokenDoneBase
  <2>5. argsP' = o[k + 1]
    <3>1. argsP <= Len(line)
      BY <2>1, <2>2, TokenAt DEF Arg!End
    <3>2. o[k + 1] = a + (e + 3)
      BY <1>8
    <3> QED
      BY <2>2, <2>4, <3>1, <3>2
  <2>6. current = args[k + 1]
    <3>1. SubSeq(t, 1, n) = t
      BY <1>4, <1>5
    <3> QED
      BY <1>4, <1>7, <1>14, <3>1
  <2>7. k + 1 \in 0..Len(args) /\ k + 1 > 0
    BY <1>1
  <2>8. Held(k + 1)'
    <3>1. Len(vector) = k /\ \A j \in 1..k : vector[j] = args[j]
      BY DEF Held
    <3>2. Len(vector') = k + 1 /\ vector'[k + 1] = current /\ \A j \in 1..k : vector'[j] = vector[j]
      <4>1. /\ Len(Append(vector, current)) = Len(vector) + 1
            /\ Append(vector, current)[Len(vector) + 1] = current
            /\ \A j \in 1..Len(vector) : Append(vector, current)[j] = vector[j]
        BY <1>1
      <4> QED
        BY <2>4, <3>1, <4>1
    <3>3. ASSUME NEW j \in 1..k + 1 PROVE vector'[j] = args'[j]
      <4>1. j = k + 1 \/ j \in 1..k
        BY <1>1
      <4> QED
        BY <2>4, <2>6, <3>1, <3>2, <4>1
    <3> QED
      BY <3>2, <3>3 DEF Held
  <2>9. Behind(o, k + 1)'
    BY <2>4, <2>5, <2>7 DEF Behind
  <2> QED
    BY <2>4, <2>7, <2>8, <2>9 DEF Place
<1> QED
  BY <1>7, <1>13, <1>14

LEMMA BackStep ==
    ASSUME Arg!LinesRight, ArgsBase, ReadingBack, Arg!Next PROVE ReadingBack'
<1>1. args \in Seq(Seq(Character))
  BY DEF ReadingBack
<1>2. PICK o : Laid(o, PartsOf(args), line) /\ \E k \in 0..Len(args) : Held(k) /\ Place(o, k)
  BY DEF ReadingBack
<1>3. PICK k \in 0..Len(args) : Held(k) /\ Place(o, k)
  BY <1>2
<1>4. argsAt # "vector"
  BY DEF Arg!Next, Arg!InQuotes, Arg!InSingleQuotes, Arg!Plain, Arg!Blank, Arg!Start, Arg!Return
<1>5. UNCHANGED <<args, line>> /\ \E m \in 0..Len(args) : Held(m)' /\ Place(o, m)'
  <2>1. CASE Behind(o, k)
    <3>1. Place(o, k)' /\ UNCHANGED <<args, line, vector>>
      BY <1>1, <1>2, <1>3, <2>1, BackBlanks
    <3>2. Held(k)'
      BY <1>3, <3>1 DEF Held
    <3> QED
      BY <1>3, <3>1, <3>2
  <2>2. CASE Opening(o, k)
    <3>1. Place(o, k)' /\ UNCHANGED <<args, line, vector>>
      BY <1>1, <1>2, <1>3, <2>2, BackOpening
    <3>2. Held(k)'
      BY <1>3, <3>1 DEF Held
    <3> QED
      BY <1>3, <3>1, <3>2
  <2>3. CASE Inside(o, k)
    BY <1>1, <1>2, <1>3, <2>3, BackInside
  <2> QED
    BY <1>3, <1>4, <2>1, <2>2, <2>3 DEF Place
<1>6. Laid(o, PartsOf(args), line)'
  BY <1>2, <1>5 DEF PartsOf
<1> QED
  BY <1>1, <1>5, <1>6 DEF ReadingBack

-----------------------------------------------------------------------------
(* A line without quotes. Told(list, n): list holds the runs that start in  *)
(* the first n characters of the line.                                      *)

Unquoted == {"\"", "'"} \intersect Arg!ToSet(line) = {}
Told(list, n) == /\ Len(list) = Count(Arg!Starts, n)
                 /\ \A i \in Arg!Starts : i <= n => list[Count(Arg!Starts, i)] = Arg!Run(i)
NoneWithin(S, b, m) == \A i \in S : i <= m => i <= b
FreshPlace == argsP = 1 \/ argsP = Len(line) + 1 \/ line[argsP - 1] \in Arg!Space
RunFrom(b) == /\ b <= argsP /\ current = SubSeq(line, b, argsP - 1)
              /\ \A j \in b..argsP - 1 : line[j] \notin Arg!Space
ReadingPlain ==
    \/ argsAt = "blanks" /\ FreshPlace /\ Told(vector, argsP - 1)
    \/ argsAt = "token" /\ mode = "plain" /\ \E b \in Arg!Starts : RunFrom(b) /\ Told(vector, b - 1)
    \/ argsAt = "vector" /\ Told(vector, Len(line))

LEMMA CountSame ==
    ASSUME NEW S, S \subseteq Nat \ {0}, NEW b \in Nat, NEW m \in Nat, b <= m, NoneWithin(S, b, m)
    PROVE  Count(S, m) = Count(S, b)
<1>1. \A k : k \in UpTo(S, m) <=> k \in S /\ k \in Nat /\ k # 0 /\ k <= m
  BY UptoIs, Zenon
<1>2. \A k : k \in UpTo(S, b) <=> k \in S /\ k \in Nat /\ k # 0 /\ k <= b
  BY UptoIs, Zenon
<1>3. \A k \in Nat : k <= b => k <= m
  OBVIOUS
<1>4. \A k : k \in UpTo(S, m) <=> k \in UpTo(S, b)
  BY <1>1, <1>2, <1>3, Zenon DEF NoneWithin
<1>5. UpTo(S, m) = UpTo(S, b)
  BY <1>4
<1> QED
  BY <1>5 DEF Count

LEMMA StartsIn ==
    ASSUME line \in Seq(Ch)
    PROVE  /\ Arg!Starts \subseteq 1..Len(line) /\ Arg!Starts \subseteq Nat \ {0}
           /\ \A i : i \in Arg!Starts <=>
                 i \in 1..Len(line) /\ line[i] \notin Arg!Space /\ (i > 1 => line[i - 1] \in Arg!Space)
<1>1. DOMAIN line = 1..Len(line) /\ Len(line) \in Nat
  OBVIOUS
<1>2. \A i : i \in Arg!Starts <=>
         i \in 1..Len(line) /\ line[i] \notin Arg!Space /\ (i > 1 => line[i - 1] \in Arg!Space)
  BY <1>1, Zenon DEF Arg!Starts
<1>3. Arg!Starts \subseteq 1..Len(line)
  BY <1>2, Zenon
<1>4. 1..Len(line) \subseteq Nat \ {0}
  BY <1>1
<1> QED
  BY <1>2, <1>3, <1>4, Zenon

LEMMA ToldStretch ==
    ASSUME line \in Seq(Ch), NEW list, NEW b \in Nat, NEW m \in Nat, b <= m,
           NoneWithin(Arg!Starts, b, m), Told(list, b)
    PROVE  Told(list, m)
<1>1. Arg!Starts \subseteq Nat \ {0}
  BY StartsIn
<1>2. Count(Arg!Starts, m) = Count(Arg!Starts, b)
  BY <1>1, CountSame
<1> QED
  BY <1>2, Zenon DEF Told, NoneWithin

LEMMA ToldNone ==
    ASSUME line \in Seq(Ch) PROVE Told(<< >>, 0)
<1>1. Arg!Starts \subseteq Nat \ {0}
  BY StartsIn
<1>2. Count(Arg!Starts, 0) = 0 /\ Len(<< >>) = 0
  BY <1>1, UptoNone
<1>3. \A i \in Arg!Starts : ~(i <= 0)
  BY <1>1
<1> QED
  BY <1>2, <1>3, Zenon DEF Told

\* The run that starts at b is one more.
LEMMA ToldMore ==
    ASSUME line \in Seq(Ch), NEW S, NEW list \in Seq(S), NEW b \in Arg!Starts, Told(list, b - 1),
           Arg!Run(b) \in S
    PROVE  Told(Append(list, Arg!Run(b)), b)
<1>0. Arg!Starts \subseteq Nat \ {0}
  BY StartsIn
<1>1. PICK n \in Nat : n = b - 1 /\ b = n + 1
  <2>1. b - 1 \in Nat /\ b = (b - 1) + 1
    BY <1>0
  <2> QED
    BY <2>1
<1>2. Count(Arg!Starts, n + 1) = Count(Arg!Starts, n) + 1
  BY <1>0, <1>1, UptoMore
<1>3. PICK c \in Nat : c = Count(Arg!Starts, n)
  BY <1>0, UptoFinite
<1>4. Len(list) = c /\ \A i \in Arg!Starts : i <= n => list[Count(Arg!Starts, i)] = Arg!Run(i)
  BY <1>1, <1>3 DEF Told
<1>5. PICK x : x = Append(list, Arg!Run(b)) /\ Len(x) = c + 1 /\ x[c + 1] = Arg!Run(b) /\ \A k \in 1..c : x[k] = list[k]
  <2>1. PICK r \in S : r = Arg!Run(b)
    OBVIOUS
  <2>2. /\ Len(Append(list, r)) = Len(list) + 1 /\ Append(list, r)[Len(list) + 1] = r
        /\ \A k \in 1..Len(list) : Append(list, r)[k] = list[k]
    OBVIOUS
  <2> QED
    BY <1>4, <2>1, <2>2
<1>6. ASSUME NEW i \in Arg!Starts, i <= b PROVE x[Count(Arg!Starts, i)] = Arg!Run(i)
  <2>1. CASE i = b
    BY <1>1, <1>2, <1>3, <1>5, <2>1
  <2>2. CASE i # b
    <3>1. i \in Nat /\ i # 0 /\ i <= n
      BY <1>0, <1>1, <1>6, <2>2
    <3>2. PICK j \in Nat : i = j + 1 /\ j \in Nat
      <4>1. i - 1 \in Nat /\ i = (i - 1) + 1
        BY <3>1
      <4> QED
        BY <4>1
    <3>3. Count(Arg!Starts, i) = Count(Arg!Starts, j) + 1 /\ Count(Arg!Starts, j) \in Nat
      BY <1>0, <3>2, UptoMore, UptoFinite
    <3>4. Count(Arg!Starts, i) <= c
      BY <1>0, <1>3, <3>1, UptoGrows
    <3>5. PICK d \in 1..c : d = Count(Arg!Starts, i)
      BY <3>3, <3>4
    <3> QED
      BY <1>4, <1>5, <3>1, <3>5
  <2> QED
    BY <2>1, <2>2
<1> QED
  BY <1>1, <1>2, <1>3, <1>5, <1>6, Zenon DEF Told

\* A run ends at the first blank behind it, or with the line.
LEMMA RunEnds ==
    ASSUME Arg!LinesRight, ArgsBase, NEW b \in Arg!Starts, RunFrom(b),
           Arg!At(argsP) \in Arg!Space \union {Arg!End}
    PROVE  Arg!Run(b) = current
<1>1. /\ line \in Seq(Ch) /\ Len(line) \in Nat /\ argsP \in 1..Len(line) + 1 /\ argsP \in Nat
      /\ b \in Nat \ {0} /\ b <= argsP
  BY StartsIn DEF ArgsBase, RunFrom
<1> DEFINE E == {j \in b..Len(line) + 1 : Arg!At(j) \in Arg!Space \union {Arg!End}}
<1>2. argsP \in E
  BY <1>1
<1>3. ASSUME NEW j \in E PROVE argsP <= j
  <2>1. j \in b..Len(line) + 1 /\ j \in Nat \ {0} /\ Arg!At(j) \in Arg!Space \union {Arg!End}
    BY <1>1
  <2>2. SUFFICES ASSUME j < argsP PROVE FALSE
    BY <1>1, <2>1
  <2>3. j \in b..argsP - 1 /\ j <= Len(line)
    BY <1>1, <2>1, <2>2
  <2>4. Arg!At(j) = line[j] /\ Arg!At(j) # Arg!End
    BY <1>1, <2>1, <2>3, AtIs
  <2>5. line[j] \notin Arg!Space
    BY <2>3 DEF RunFrom
  <2> QED
    BY <2>1, <2>4, <2>5
<1>4. E \subseteq Nat
  BY <1>1
<1> HIDE DEF E
<1>5. \A x \in E : (\A y \in E : x <= y) => x = argsP
  BY <1>1, <1>2, <1>3, <1>4
<1>6. Arg!Min(E) = argsP
  <2>1. Arg!Min(E) = CHOOSE x \in E : \A y \in E : x <= y
    BY Zenon DEF Arg!Min
  <2> QED
    BY <1>2, <1>3, <1>5, <2>1, Zenon
<1>7. Arg!Run(b) = SubSeq(line, b, Arg!Min(E) - 1)
  BY Zenon DEF Arg!Run, E
<1> QED
  BY <1>6, <1>7 DEF RunFrom

LEMMA NoQuote ==
    ASSUME Arg!LinesRight, ArgsBase, Unquoted
    PROVE  Arg!At(argsP) # "\"" /\ Arg!At(argsP) # "'"
<1>1. argsP \in Nat \ {0} /\ line \in Seq(Ch) /\ Len(line) \in Nat
  BY TokenAt DEF ArgsBase
<1>2. CASE argsP <= Len(line)
  <2>1. argsP \in DOMAIN line /\ Arg!At(argsP) = line[argsP]
    BY <1>1, <1>2, AtIs
  <2>2. line[argsP] \in Arg!ToSet(line)
    BY <2>1, Zenon DEF Arg!ToSet
  <2> QED
    BY <2>1, <2>2 DEF Unquoted
<1>3. CASE argsP > Len(line)
  BY <1>1, <1>3, AtIs DEF Arg!End
<1>4. argsP <= Len(line) \/ argsP > Len(line)
  BY <1>1
<1> QED
  BY <1>2, <1>3, <1>4
LEMMA ToldKept ==
    ASSUME NEW list, NEW n, Told(list, n), UNCHANGED line, vector' = list
    PROVE  Told(vector, n)'
<1>1. Arg!Starts' = Arg!Starts
  BY DEF Arg!Starts, Arg!Space
<1>2. \A i : Arg!Run(i)' = Arg!Run(i)
  BY DEF Arg!Run, Arg!Min, Arg!At, Arg!Space, Arg!End
<1> QED
  BY <1>1, <1>2 DEF Told, Count, UpTo

LEMMA PlainBlanks ==
    ASSUME Arg!LinesRight, ArgsBase, ReadingPlain, Arg!Blank \/ Arg!Start \/ Arg!Return
    PROVE  ReadingPlain' /\ UNCHANGED line
<1>1. /\ argsP \in Nat \ {0} /\ Len(line) \in Nat /\ argsP <= Len(line) + 1 /\ argsP \in 1..Len(line) + 1
      /\ line \in Seq(Ch)
      /\ Arg!At(argsP) # Arg!End <=> argsP <= Len(line)
  BY TokenAt DEF ArgsBase
<1>2. argsP <= Len(line) => Arg!At(argsP) = line[argsP]
  BY <1>1, AtIs
<1>3. argsAt = "blanks" /\ FreshPlace /\ Told(vector, argsP - 1)
  BY DEF ReadingPlain, Arg!Blank, Arg!Start, Arg!Return
<1>4. PICK n \in Nat : n = argsP - 1 /\ argsP = n + 1
  <2>1. argsP - 1 \in Nat /\ argsP = (argsP - 1) + 1
    BY <1>1
  <2> QED
    BY <2>1
<1>5. PICK list : list = vector
  OBVIOUS
<1>6. /\ Arg!Starts \subseteq Nat
      /\ \A i : i \in Arg!Starts <=>
            i \in 1..Len(line) /\ line[i] \notin Arg!Space /\ (i > 1 => line[i - 1] \in Arg!Space)
  BY <1>1, StartsIn
<1>7. CASE Arg!Blank
  <2>1. /\ Arg!At(argsP) \in Arg!Space /\ Arg!At(argsP) # Arg!End /\ argsP' = argsP + 1
        /\ UNCHANGED <<line, argsAt, vector>>
    BY <1>7 DEF Arg!Blank, Arg!Space, Arg!End
  <2>2. line[n + 1] \in Arg!Space
    BY <1>1, <1>2, <1>4, <2>1
  <2>3. NoneWithin(Arg!Starts, n, n + 1)
    <3>1. n + 1 \notin Arg!Starts
      BY <1>6, <2>2
    <3>2. \A i \in Nat : i <= n + 1 => i <= n \/ i = n + 1
      OBVIOUS
    <3> QED
      BY <1>6, <3>1, <3>2, Zenon DEF NoneWithin
  <2>4. Told(list, n + 1)
    <3>1. n + 1 \in Nat /\ n <= n + 1 /\ Told(list, n)
      BY <1>3, <1>4, <1>5
    <3> QED
      BY <1>1, <2>3, <3>1, ToldStretch
  <2>5. Told(vector, n + 1)'
    BY <1>5, <2>1, <2>4, ToldKept
  <2>6. argsP' - 1 = n + 1
    BY <1>4, <2>1
  <2>7. FreshPlace'
    <3>1. line'[argsP' - 1] \in Arg!Space
      BY <2>1, <2>2, <2>6
    <3> QED
      BY <3>1 DEF FreshPlace, Arg!Space
  <2>8. Told(vector, argsP - 1)'
    BY <2>5, <2>6, Zenon DEF Told
  <2> QED
    BY <1>3, <2>1, <2>7, <2>8 DEF ReadingPlain
<1>8. CASE Arg!Start
  <2>1. /\ Arg!At(argsP) \notin Arg!Space /\ Arg!At(argsP) # Arg!End
        /\ argsAt' = "token" /\ mode' = "plain" /\ current' = << >>
        /\ UNCHANGED <<line, argsP, vector>>
    BY <1>8 DEF Arg!Start, Arg!Space, Arg!End
  <2>2. argsP \in 1..Len(line) /\ line[argsP] \notin Arg!Space
    BY <1>1, <1>2, <2>1
  <2>3. argsP > 1 => line[argsP - 1] \in Arg!Space
    BY <1>1, <1>3, <2>2 DEF FreshPlace
  <2>4. PICK b \in Arg!Starts : b = argsP
    BY <1>6, <2>2, <2>3
  <2>5. Arg!Starts' = Arg!Starts
    BY <2>1 DEF Arg!Starts, Arg!Space
  <2>6. RunFrom(b)'
    <3>1. SubSeq(line, b, b - 1) = << >>
      BY <1>1, <2>4
    <3>2. b..b - 1 = {} /\ b <= b
      BY <1>1, <2>4
    <3> QED
      BY <2>1, <2>4, <3>1, <3>2 DEF RunFrom
  <2>7. PICK m : m = b - 1
    OBVIOUS
  <2>8. Told(vector, m)'
    BY <1>3, <1>5, <2>1, <2>4, <2>7, ToldKept
  <2> QED
    BY <2>1, <2>5, <2>6, <2>7, <2>8 DEF ReadingPlain
<1>9. CASE Arg!Return
  <2>1. /\ Arg!At(argsP) = Arg!End /\ argsAt' = "vector" /\ UNCHANGED <<line, vector>>
    BY <1>9 DEF Arg!Return
  <2>2. n = Len(line)
    BY <1>1, <1>4, <2>1
  <2>3. Told(vector, n)'
    BY <1>3, <1>4, <1>5, <2>1, ToldKept
  <2>4. Told(vector, Len(line))'
    BY <2>1, <2>2, <2>3, Zenon DEF Told
  <2> QED
    BY <2>1, <2>4 DEF ReadingPlain
<1> QED
  BY <1>7, <1>8, <1>9

\* One more character of the run.
LEMMA RunGrows ==
    ASSUME NEW S, NEW t \in Seq(S), NEW b \in Nat \ {0}, NEW e \in Nat, b <= e, e <= Len(t)
    PROVE  SubSeq(t, b, e - 1) \o <<t[e]>> = SubSeq(t, b, e)
<1>1. PICK n \in Nat : n = e - b /\ e = b + n
  <2>1. e - b \in Nat /\ e = b + (e - b)
    OBVIOUS
  <2> QED
    BY <2>1
<1>2. PICK x \in Seq(S) : x = SubSeq(t, b, e - 1) /\ Len(x) = n /\ \A k \in 1..n : x[k] = t[b + k - 1]
  <2>1. /\ SubSeq(t, b, e - 1) \in Seq(S) /\ Len(SubSeq(t, b, e - 1)) = n
        /\ \A k \in 1..n : SubSeq(t, b, e - 1)[k] = t[b + k - 1]
    BY <1>1
  <2> QED
    BY <2>1
<1>3. PICK y \in Seq(S) : y = SubSeq(t, b, e) /\ Len(y) = n + 1 /\ \A k \in 1..n + 1 : y[k] = t[b + k - 1]
  <2>1. /\ SubSeq(t, b, e) \in Seq(S) /\ Len(SubSeq(t, b, e)) = n + 1
        /\ \A k \in 1..n + 1 : SubSeq(t, b, e)[k] = t[b + k - 1]
    BY <1>1
  <2> QED
    BY <2>1
<1>4. PICK c \in S : c = t[e]
  OBVIOUS
<1>5. PICK z \in Seq(S) : z = Append(x, c) /\ Len(z) = n + 1 /\ z[n + 1] = c /\ \A k \in 1..n : z[k] = x[k]
  <2>1. /\ Append(x, c) \in Seq(S) /\ Len(Append(x, c)) = Len(x) + 1
        /\ Append(x, c)[Len(x) + 1] = c /\ \A k \in 1..Len(x) : Append(x, c)[k] = x[k]
    OBVIOUS
  <2> QED
    BY <1>2, <2>1
<1>6. ASSUME NEW k \in 1..n + 1 PROVE z[k] = y[k]
  <2>1. CASE k = n + 1
    <3>1. b + k - 1 = e
      BY <1>1, <2>1
    <3> QED
      BY <1>3, <1>4, <1>5, <2>1, <3>1
  <2>2. CASE k # n + 1
    <3>1. k \in 1..n
      BY <2>2
    <3> QED
      BY <1>2, <1>3, <1>5, <3>1
  <2> QED
    BY <2>1, <2>2
<1>7. z = y
  BY <1>3, <1>5, <1>6, SeqEqual
<1>8. x \o <<c>> = Append(x, c)
  BY <1>2, <1>4, AppendIsConcat
<1> QED
  BY <1>2, <1>3, <1>4, <1>5, <1>7, <1>8

LEMMA PlainReads ==
    ASSUME Arg!LinesRight, ArgsBase, argsAt = "token", NEW b \in Arg!Starts, RunFrom(b), Told(vector, b - 1),
           Arg!At(argsP) \notin Arg!Space \union {Arg!End}, Arg!Turn("plain", <<Arg!At(argsP)>>, 1)
    PROVE  ReadingPlain' /\ UNCHANGED line
<1>1. /\ argsP \in Nat \ {0} /\ Len(line) \in Nat /\ argsP <= Len(line) /\ line \in Seq(Ch)
  BY TokenAt DEF ArgsBase
<1>2. Arg!At(argsP) = line[argsP] /\ line[argsP] \notin Arg!Space
  BY <1>1, AtIs
<1>3. /\ mode' = "plain" /\ current' = current \o <<Arg!At(argsP)>>
      /\ argsP' = argsP + 1 /\ UNCHANGED <<line, argsAt, vector>>
  BY ReadsOne
<1>4. b \in Nat \ {0} /\ b <= argsP /\ current = SubSeq(line, b, argsP - 1)
      /\ \A j \in b..argsP - 1 : line[j] \notin Arg!Space
  BY <1>1, StartsIn DEF RunFrom
<1>5. PICK e \in Nat : e = argsP
  BY <1>1
<1>6. SubSeq(line, b, e - 1) \o <<line[e]>> = SubSeq(line, b, e)
  BY <1>1, <1>4, <1>5, RunGrows
<1>7. argsP' - 1 = e /\ b <= argsP'
  BY <1>3, <1>4, <1>5
<1>8. current' = SubSeq(line, b, e)
  BY <1>2, <1>3, <1>4, <1>5, <1>6
<1>9. \A j \in b..e : line[j] \notin Arg!Space
  <2>1. \A j \in b..e : j = e \/ j \in b..e - 1
    BY <1>4, <1>5
  <2> QED
    BY <1>2, <1>4, <1>5, <2>1
<1>10. RunFrom(b)'
  <2>1. /\ b <= argsP' /\ current' = SubSeq(line', b, argsP' - 1)
        /\ \A j \in b..argsP' - 1 : line'[j] \notin Arg!Space
    BY <1>3, <1>7, <1>8, <1>9
  <2> QED
    BY <2>1 DEF RunFrom, Arg!Space
<1>11. Arg!Starts' = Arg!Starts
  BY <1>3 DEF Arg!Starts, Arg!Space
<1>12. PICK list : list = vector
  OBVIOUS
<1>13. PICK m : m = b - 1
  OBVIOUS
<1>14. Told(vector, m)'
  BY <1>3, <1>12, <1>13, ToldKept
<1> QED
  BY <1>3, <1>10, <1>11, <1>13, <1>14 DEF ReadingPlain

LEMMA PlainEnds ==
    ASSUME Arg!LinesRight, ArgsBase, argsAt = "token", NEW b \in Arg!Starts, RunFrom(b), Told(vector, b - 1),
           Arg!At(argsP) \in Arg!Space \union {Arg!End}, Arg!TokenDone
    PROVE  ReadingPlain' /\ UNCHANGED line
<1>1. /\ argsP \in Nat \ {0} /\ Len(line) \in Nat /\ argsP <= Len(line) + 1 /\ line \in Seq(Ch)
      /\ argsP \in 1..Len(line) + 1
      /\ Arg!At(argsP) # Arg!End <=> argsP <= Len(line)
      /\ vector \in Seq(Seq(Out)) /\ current \in Seq(Out)
  BY TokenAt DEF ArgsBase
<1>2. argsP <= Len(line) => Arg!At(argsP) = line[argsP]
  BY <1>1, AtIs
<1>3. /\ argsAt' = "blanks" /\ vector' = Append(vector, current)
      /\ argsP' = IF argsP <= Len(line) THEN argsP + 1 ELSE argsP
      /\ UNCHANGED line
  BY TokenDoneBase
<1>4. /\ Arg!Starts \subseteq 1..Len(line)
      /\ \A i : i \in Arg!Starts <=>
            i \in 1..Len(line) /\ line[i] \notin Arg!Space /\ (i > 1 => line[i - 1] \in Arg!Space)
  BY <1>1, StartsIn
<1>5. b \in Nat \ {0} /\ b <= argsP /\ \A j \in b..argsP - 1 : line[j] \notin Arg!Space
  BY <1>1, <1>4 DEF RunFrom
<1>6. Arg!Run(b) = current
  BY RunEnds
<1>7. PICK list : list = Append(vector, current)
  OBVIOUS
<1>8. Told(list, b)
  BY <1>1, <1>6, <1>7, ToldMore
<1>9. PICK m \in Nat : m = argsP' - 1 /\ b <= m
                       /\ (argsP <= Len(line) => m = argsP) /\ (argsP > Len(line) => m = argsP - 1)
  <2>1. CASE argsP <= Len(line)
    BY <1>1, <1>3, <1>5, <2>1
  <2>2. CASE argsP > Len(line)
    <3>1. b <= Len(line) /\ argsP = Len(line) + 1 /\ argsP' = argsP
      <4>1. b \in 1..Len(line)
        BY <1>4, Zenon
      <4>2. argsP = Len(line) + 1 /\ ~(argsP <= Len(line))
        BY <1>1, <2>2
      <4> QED
        BY <1>1, <1>3, <4>1, <4>2
    <3> QED
      BY <1>1, <1>5, <2>2, <3>1
  <2>3. argsP <= Len(line) \/ argsP > Len(line)
    BY <1>1
  <2> QED
    BY <2>1, <2>2, <2>3
<1>10. NoneWithin(Arg!Starts, b, m)
  <2>1. SUFFICES ASSUME NEW i \in Arg!Starts, i <= m, ~(i <= b) PROVE FALSE
    BY DEF NoneWithin
  <2>2. i \in Nat /\ i \in 1..Len(line) /\ i > b /\ line[i] \notin Arg!Space /\ line[i - 1] \in Arg!Space
    <3>1. i \in Nat /\ i \in 1..Len(line) /\ i > b /\ i > 1
      BY <1>1, <1>4, <1>5, <2>1
    <3> QED
      BY <1>4, <3>1
  <2>3. i <= argsP
    BY <1>1, <1>9, <2>1, <2>2
  <2>4. i - 1 \in b..argsP - 1
    BY <1>1, <1>5, <2>2, <2>3
  <2> QED
    BY <1>5, <2>2, <2>4
<1>11. Told(list, m)
  <2>1. b \in Nat /\ b <= m
    BY <1>5, <1>9
  <2> QED
    BY <1>1, <1>8, <1>10, <2>1, ToldStretch
<1>12. Told(vector, m)'
  BY <1>3, <1>7, <1>11, ToldKept
<1>13. FreshPlace'
  <2>1. CASE argsP <= Len(line)
    <3>1. line[argsP] \in Arg!Space /\ argsP' - 1 = argsP
      BY <1>1, <1>2, <1>3, <2>1
    <3>2. line'[argsP' - 1] \in Arg!Space
      BY <1>3, <3>1
    <3> QED
      BY <3>2 DEF FreshPlace, Arg!Space
  <2>2. CASE ~(argsP <= Len(line))
    <3>1. argsP' = Len(line') + 1
      BY <1>1, <1>3, <2>2
    <3> QED
      BY <3>1 DEF FreshPlace
  <2> QED
    BY <2>1, <2>2
<1>14. Told(vector, argsP - 1)'
  BY <1>9, <1>12, Zenon DEF Told
<1> QED
  BY <1>3, <1>13, <1>14 DEF ReadingPlain

LEMMA PlainStep ==
    ASSUME Arg!LinesRight, ArgsBase, Unquoted, ReadingPlain, Arg!Next
    PROVE  ReadingPlain' /\ Unquoted'
<1>1. CASE Arg!Blank \/ Arg!Start \/ Arg!Return
  <2>1. ReadingPlain' /\ UNCHANGED line
    BY <1>1, PlainBlanks
  <2> QED
    BY <2>1 DEF Unquoted, Arg!ToSet
<1>2. CASE Arg!InQuotes \/ Arg!InSingleQuotes \/ Arg!Plain
  <2>1. argsAt = "token" /\ mode = "plain" /\ Arg!Plain
    BY <1>2 DEF Arg!InQuotes, Arg!InSingleQuotes, Arg!Plain, ReadingPlain
  <2>2. PICK b \in Arg!Starts : RunFrom(b) /\ Told(vector, b - 1)
    BY <2>1 DEF ReadingPlain
  <2>3. Arg!At(argsP) # "\"" /\ Arg!At(argsP) # "'"
    BY NoQuote
  <2>4. CASE Arg!At(argsP) \in Arg!Space \union {Arg!End}
    <3>1. Arg!TokenDone
      BY <2>1, <2>4 DEF Arg!Plain, Arg!Space, Arg!End
    <3>2. ReadingPlain' /\ UNCHANGED line
      BY <2>1, <2>2, <2>4, <3>1, PlainEnds
    <3> QED
      BY <3>2 DEF Unquoted, Arg!ToSet
  <2>5. CASE Arg!At(argsP) \notin Arg!Space \union {Arg!End}
    <3>1. Arg!Turn("plain", <<Arg!At(argsP)>>, 1)
      BY <2>1, <2>3, <2>5 DEF Arg!Plain
    <3>2. ReadingPlain' /\ UNCHANGED line
      BY <2>1, <2>2, <2>5, <3>1, PlainReads
    <3> QED
      BY <3>2 DEF Unquoted, Arg!ToSet
  <2> QED
    BY <2>4, <2>5
<1> QED
  BY <1>1, <1>2 DEF Arg!Next

-----------------------------------------------------------------------------
(* What the scan keeps, of every line. *)
ArgsInv == ArgsBase /\ (args # Arg!NoArgs => ReadingBack) /\ (Unquoted => ReadingPlain)

LEMMA ArgsStart ==
    ASSUME Arg!LinesRight, Arg!Init PROVE ArgsInv
<1>1. /\ argsAt = "blanks" /\ mode = "plain" /\ argsP = 1 /\ current = << >> /\ vector = << >> /\ argsLive = 0
  BY DEF Arg!Init
<1>2. line \in Seq(Ch)
  <2>1. CASE args = Arg!NoArgs /\ line \in Lines
    <3>1. line \in Seq(Character) /\ Character \subseteq Ch
      BY <2>1 DEF Arg!LinesRight, Ch
    <3> QED
      BY <3>1
  <2>2. CASE args \in Arguments /\ line = Arg!Joined(args)
    <3>1. args \in Seq(Seq(Character))
      BY <2>2 DEF Arg!LinesRight
    <3> QED
      BY <2>2, <3>1, LineLaid
  <2> QED
    BY <2>1, <2>2 DEF Arg!Init
<1>3. ArgsBase
  <2>1. << >> \in Seq(Out) /\ << >> \in Seq(Seq(Out)) /\ Len(<< >>) = 0 /\ 1 \in 1..Len(line) + 1
    BY <1>2
  <2> QED
    BY <1>1, <1>2, <2>1 DEF ArgsBase, Arg!NoLeak
<1>4. ASSUME args # Arg!NoArgs PROVE ReadingBack
  <2>1. args \in Seq(Seq(Character)) /\ line = Arg!Joined(args)
    BY <1>4 DEF Arg!Init, Arg!LinesRight
  <2>2. PICK o : Laid(o, PartsOf(args), line)
    BY <2>1, LineLaid
  <2>3. o[0] = 0
    BY <2>2 DEF Laid
  <2>4. 0 \in 0..Len(args) /\ Held(0) /\ Behind(o, 0)
    <3>1. Len(args) \in Nat /\ Len(<< >>) = 0 /\ 1..0 = {} /\ 1 = 0 + 1
      BY <2>1
    <3> QED
      BY <1>1, <2>3, <3>1 DEF Held, Behind
  <2> QED
    BY <2>1, <2>2, <2>4 DEF ReadingBack, Place
<1>5. ReadingPlain
  <2>1. Told(<< >>, 0)
    BY <1>2, ToldNone
  <2>2. argsP - 1 = 0
    BY <1>1
  <2> QED
    BY <1>1, <2>1, <2>2 DEF ReadingPlain, FreshPlace
<1> QED
  BY <1>3, <1>4, <1>5 DEF ArgsInv

LEMMA ArgsSteps ==
    ASSUME Arg!LinesRight, ArgsInv, [Arg!Next]_(Arg!vars) PROVE ArgsInv'
<1>1. ArgsBase
  BY DEF ArgsInv
<1>2. CASE Arg!Next
  <2>1. ArgsBase'
    BY <1>1, <1>2, BlanksBase, QuotesBase, SingleQuotesBase, PlainBase DEF Arg!Next
  <2>2. UNCHANGED <<args, line>>
    BY <1>2 DEF Arg!Next, Arg!Blank, Arg!Start, Arg!Return, Arg!InQuotes, Arg!InSingleQuotes, Arg!Plain,
                Arg!Turn, Arg!TokenDone, Arg!Err, Arg!Close
  <2>3. args' # Arg!NoArgs' => ReadingBack'
    <3>1. args' # Arg!NoArgs' => args # Arg!NoArgs
      BY <2>2 DEF Arg!NoArgs
    <3> QED
      BY <1>1, <1>2, <3>1, BackStep DEF ArgsInv
  <2>4. Unquoted' => ReadingPlain'
    <3>1. Unquoted' => Unquoted
      BY <2>2 DEF Unquoted, Arg!ToSet
    <3> QED
      BY <1>1, <1>2, <3>1, PlainStep DEF ArgsInv
  <2> QED
    BY <2>1, <2>3, <2>4 DEF ArgsInv
<1>3. CASE UNCHANGED Arg!vars
  <2>1. UNCHANGED <<args, line, argsAt, mode, argsP, current, vector, argsLive>>
    BY <1>3 DEF Arg!vars
  <2>2. ArgsBase'
    BY <1>1, <2>1 DEF ArgsBase, Arg!NoLeak
  <2>3. args' # Arg!NoArgs' => ReadingBack'
    <3>1. args' # Arg!NoArgs' => args # Arg!NoArgs
      BY <2>1 DEF Arg!NoArgs
    <3> QED
      BY <2>1, <3>1 DEF ArgsInv, ReadingBack, PartsOf, Held, Place, Behind, Opening, Inside
  <2>4. Unquoted' => ReadingPlain'
    <3>1. Unquoted' => Unquoted
      BY <2>1 DEF Unquoted, Arg!ToSet
    <3>2. \A n : Told(vector, n)' <=> Told(vector, n)
      BY <2>1 DEF Told, Count, UpTo, Arg!Starts, Arg!Run, Arg!Min, Arg!At, Arg!Space, Arg!End
    <3>3. Arg!Starts' = Arg!Starts /\ FreshPlace' = FreshPlace /\ \A b : RunFrom(b)' <=> RunFrom(b)
      BY <2>1 DEF Arg!Starts, Arg!Space, FreshPlace, RunFrom
    <3> QED
      BY <2>1, <3>1, <3>2, <3>3, Zenon DEF ArgsInv, ReadingPlain
  <2> QED
    BY <2>2, <2>3, <2>4 DEF ArgsInv
<1> QED
  BY <1>2, <1>3

LEMMA ArgsShown ==
    ASSUME Arg!LinesRight, ArgsInv PROVE Arg!ArgsRight
<1>1. ArgsBase
  BY DEF ArgsInv
<1>2. Arg!InBounds /\ Arg!NoLeak
  BY <1>1 DEF ArgsBase, Arg!InBounds
<1>3. Arg!RoundTrip
  <2>1. SUFFICES ASSUME argsAt \in {"vector", "NULL"}, args # Arg!NoArgs PROVE argsAt = "vector" /\ vector = args
    BY DEF Arg!RoundTrip
  <2>2. ReadingBack
    BY <2>1 DEF ArgsInv
  <2>3. \E k \in 0..Len(args) : Held(k) /\ argsAt = "vector" /\ k = Len(args)
    BY <2>1, <2>2 DEF ReadingBack, Place, Behind, Opening, Inside
  <2>4. Len(vector) = Len(args) /\ \A i \in 1..Len(args) : vector[i] = args[i]
    BY <2>3 DEF Held
  <2>5. args \in Seq(Seq(Character)) /\ vector \in Seq(Seq(Out))
    BY <1>1, <2>2 DEF ReadingBack, ArgsBase
  <2>6. vector = args
    <3>1. Character \subseteq Out
      BY DEF Out, Ch
    <3>2. Seq(Character) \subseteq Seq(Out)
      BY <3>1
    <3>3. args \in Seq(Seq(Out))
      BY <2>5, <3>2
    <3> QED
      BY <2>4, <2>5, <3>3, SeqEqual
  <2> QED
    BY <2>3, <2>6
<1>4. Arg!PlainTokens
  <2>0. \A S : Arg!Cardinality(S) = Cardinality(S)
    BY Zenon DEF Arg!Cardinality, Cardinality
  <2>1. SUFFICES ASSUME argsAt = "vector", Unquoted
                 PROVE  /\ Len(vector) = Cardinality(Arg!Starts)
                        /\ \A i \in Arg!Starts : vector[Cardinality({j \in Arg!Starts : j <= i})] = Arg!Run(i)
    BY <2>0, Zenon DEF Arg!PlainTokens, Unquoted
  <2>2. Told(vector, Len(line))
    BY <2>1 DEF ArgsInv, ReadingPlain
  <2>3. line \in Seq(Ch) /\ Len(line) \in Nat
    BY <1>1 DEF ArgsBase
  <2>4. Arg!Starts \subseteq 1..Len(line)
    BY <2>3, StartsIn
  <2>5. \A i \in Arg!Starts : i <= Len(line)
    BY <2>3, <2>4
  <2>6. UpTo(Arg!Starts, Len(line)) = Arg!Starts
    BY <2>5, Zenon DEF UpTo
  <2>7. \A i : Count(Arg!Starts, i) = Cardinality({j \in Arg!Starts : j <= i})
    BY Zenon DEF Count, UpTo
  <2>8. Count(Arg!Starts, Len(line)) = Cardinality(Arg!Starts)
    BY <2>6, Zenon DEF Count
  <2> QED
    BY <2>2, <2>5, <2>7, <2>8, Zenon DEF Told
<1> QED
  BY <1>2, <1>3, <1>4 DEF Arg!ArgsRight

(* sdssplitargs of any line: what sdscatrepr has written is read back, a    *)
(* line without quotes is split at its blanks, the scan stays in the line   *)
(* and nothing is left behind (sds.c, sdssplitargs and sdscatrepr).         *)
THEOREM ArgumentsReadBack ==
    ASSUME Arg!LinesRight PROVE Arg!Spec => []Arg!ArgsRight
<1>1. Arg!Init => ArgsInv
  BY ArgsStart
<1>2. ArgsInv /\ [Arg!Next]_(Arg!vars) => ArgsInv'
  BY ArgsSteps
<1>3. ArgsInv => Arg!ArgsRight
  BY ArgsShown
<1> QED
  BY <1>1, <1>2, <1>3, PTL DEF Arg!Spec

-----------------------------------------------------------------------------
(* Splitting at a separator, splitting a line and writing a number are      *)
(* right together: what is taken apart or written can be put together       *)
(* again, for every alphabet, line and number (sdssplitlen, sdsjoinsds,     *)
(* sdssplitargs, sdscatrepr and sdsll2str of hiredis/sds.c).                *)
THEOREM ConversionsCorrect ==
    ASSUME ConversionsAssumed
    PROVE  Cut!Spec /\ Arg!Spec /\ Num!Spec => []ConversionsRight
<1>1. StringLength \in Nat /\ Arg!LinesRight /\ Num!NumberRight
  BY DEF ConversionsAssumed
<1>2. Cut!Spec => []Cut!SplitRight
  BY <1>1, SplitsRight
<1>3. Arg!Spec => []Arg!ArgsRight
  BY <1>1, ArgumentsReadBack
<1>4. Num!Spec => []Num!ReadsBack
  BY <1>1, NumbersReadBack
<1>5. Cut!SplitRight /\ Arg!ArgsRight /\ Num!ReadsBack => ConversionsRight
  BY DEF ConversionsRight
<1> QED
  BY <1>2, <1>3, <1>4, <1>5, PTL
=============================================================================
