----------------------------- MODULE ListsProofs -----------------------------
(***************************************************************************)
(* Facts about lists that the proofs about components share.               *)
(***************************************************************************)
EXTENDS Lists, SequencesExt, SequenceTheorems, FiniteSetTheorems, WellFoundedInduction,
        TLAPS

\* Every set of natural numbers that has a member has a least one.
LEMMA LeastMember ==
    ASSUME NEW S \in SUBSET Nat, S # {}
    PROVE  \E i \in S : \A j \in S : i <= j
<1>1. PICK i \in S : \A j \in S : <<j, i>> \notin OpToRel(<, Nat)
  BY WFMin, NatLessThanWellFounded, Zenon
<1>2. \A j \in S : ~(j < i)
  BY <1>1 DEF OpToRel
<1> QED
  BY <1>2

\* k is the function whose last value Without takes.
Keeps(k, s, e, n) ==
    k = [i \in 0..n |-> IF i = 0 THEN << >>
                        ELSE IF s[i] = e THEN k[i - 1]
                        ELSE Append(k[i - 1], s[i])]

LEMMA KeepsExists ==
    ASSUME NEW s, NEW e, NEW n \in Nat
    PROVE  \E k : Keeps(k, s, e, n)
<1> DEFINE Bad == {m \in Nat : ~\E k : Keeps(k, s, e, m)}
<1> SUFFICES ASSUME n \in Bad PROVE FALSE
  OBVIOUS
<1>1. PICK m \in Bad : \A j \in Bad : m <= j
  <2>1. Bad \in SUBSET Nat /\ Bad # {}
    OBVIOUS
  <2> HIDE DEF Bad
  <2> QED
    BY LeastMember, <2>1, Zenon
<1>2. CASE m = 0
  <2>1. Keeps([i \in 0..0 |-> << >>], s, e, 0)
    BY DEF Keeps
  <2> QED
    BY <1>2, <2>1
<1>3. CASE m # 0
  <2>1. m - 1 \in Nat /\ m - 1 \notin Bad
    BY <1>1, <1>3
  <2>2. PICK k : Keeps(k, s, e, m - 1)
    BY <2>1
  <2> DEFINE g == [i \in 0..m |-> IF i < m THEN k[i]
                                  ELSE IF s[m] = e THEN k[m - 1]
                                  ELSE Append(k[m - 1], s[m])]
  <2>3. ASSUME NEW i \in 0..m
        PROVE  g[i] = IF i = 0 THEN << >>
                      ELSE IF s[i] = e THEN g[i - 1]
                      ELSE Append(g[i - 1], s[i])
    <3>1. CASE i < m
      <4>1. i \in 0..m - 1
        BY <2>1, <3>1
      <4>2. k[i] = IF i = 0 THEN << >>
                   ELSE IF s[i] = e THEN k[i - 1]
                   ELSE Append(k[i - 1], s[i])
        BY <2>2, <4>1, Zenon DEF Keeps
      <4> QED
        BY <3>1, <4>1, <4>2
    <3>2. CASE i = m
      BY <1>3, <3>2
    <3> QED
      BY <3>1, <3>2
  <2>4. Keeps(g, s, e, m)
    BY <2>3, Zenon DEF Keeps
  <2> QED
    BY <2>4
<1> QED
  BY <1>2, <1>3

LEMMA KeepsUnique ==
    ASSUME NEW s, NEW t, NEW e, NEW n \in Nat, NEW m \in Nat, NEW k, NEW g,
           Keeps(k, s, e, n), Keeps(g, t, e, m), n <= m,
           \A i \in 1..n : s[i] = t[i]
    PROVE  \A i \in 0..n : k[i] = g[i]
<1> DEFINE Bad == {i \in 0..n : k[i] # g[i]}
<1> SUFFICES ASSUME Bad # {} PROVE FALSE
  OBVIOUS
<1>1. PICK i \in Bad : \A j \in Bad : i <= j
  <2>1. Bad \in SUBSET Nat
    OBVIOUS
  <2> HIDE DEF Bad
  <2> QED
    BY LeastMember, <2>1, Zenon
<1>2. i \in 0..n /\ i \in 0..m
  BY <1>1
<1>3. /\ k[i] = IF i = 0 THEN << >> ELSE IF s[i] = e THEN k[i - 1]
                ELSE Append(k[i - 1], s[i])
      /\ g[i] = IF i = 0 THEN << >> ELSE IF t[i] = e THEN g[i - 1]
                ELSE Append(g[i - 1], t[i])
  BY <1>2 DEF Keeps
<1>4. i # 0
  BY <1>1, <1>3
<1>5. i - 1 \in 0..n /\ i - 1 \notin Bad /\ i \in 1..n
  BY <1>1, <1>4
<1>6. k[i - 1] = g[i - 1] /\ s[i] = t[i]
  BY <1>5
<1>7. k[i] = g[i]
  BY <1>3, <1>6
<1> QED
  BY <1>1, <1>7

LEMMA WithoutKeeps ==
    ASSUME NEW s, NEW e, Len(s) \in Nat
    PROVE  \E k : Keeps(k, s, e, Len(s)) /\ Without(s, e) = k[Len(s)]
<1>1. \E k : Keeps(k, s, e, Len(s))
  BY KeepsExists
<1>2. Without(s, e) = (CHOOSE k : Keeps(k, s, e, Len(s)))[Len(s)]
  BY DEF Without, Keeps
<1> QED
  BY <1>1, <1>2

\* Nothing but e is taken out, nothing is put in.
LEMMA WithoutMembers ==
    ASSUME NEW S, NEW s \in Seq(S), NEW e
    PROVE  /\ Without(s, e) \in Seq(S)
           /\ \A i \in 1..Len(Without(s, e)) :
                 /\ Without(s, e)[i] # e
                 /\ \E j \in 1..Len(s) : Without(s, e)[i] = s[j]
<1>1. Len(s) \in Nat
  OBVIOUS
<1>2. PICK k : Keeps(k, s, e, Len(s)) /\ Without(s, e) = k[Len(s)]
  BY <1>1, WithoutKeeps
<1> DEFINE Fine(t) == /\ t \in Seq(S)
                      /\ \A i \in 1..Len(t) :
                            t[i] # e /\ \E j \in 1..Len(s) : t[i] = s[j]
           Bad == {i \in 0..Len(s) : ~Fine(k[i])}
<1>3. ASSUME Bad # {} PROVE FALSE
  <2>1. PICK i \in Bad : \A j \in Bad : i <= j
    <3>1. Bad \in SUBSET Nat
      OBVIOUS
    <3> HIDE DEF Bad
    <3> QED
      BY LeastMember, <3>1, <1>3, Zenon
  <2>2. i \in 0..Len(s)
    BY <2>1
  <2>3. k[i] = IF i = 0 THEN << >> ELSE IF s[i] = e THEN k[i - 1]
               ELSE Append(k[i - 1], s[i])
    BY <1>2, <2>2 DEF Keeps
  <2>4. i # 0
    <3>1. << >> \in Seq(S) /\ Len(<< >>) = 0
      OBVIOUS
    <3>2. Fine(<< >>)
      BY <3>1
    <3> QED
      BY <2>1, <2>3, <3>2
  <2>5. i - 1 \in 0..Len(s) /\ i - 1 \notin Bad /\ i \in 1..Len(s)
    BY <2>1, <2>4
  <2>6. Fine(k[i - 1])
    BY <2>5
  <2>7. CASE s[i] = e
    BY <2>1, <2>3, <2>4, <2>6, <2>7
  <2>8. CASE s[i] # e
    <3>1. k[i] = Append(k[i - 1], s[i]) /\ s[i] \in S
      BY <2>3, <2>4, <2>5, <2>8
    <3>2. \A j \in 1..Len(k[i]) : j \in 1..Len(k[i - 1]) \/ j = Len(k[i - 1]) + 1
      BY <2>6, <3>1
    <3>3. Fine(k[i])
      BY <2>5, <2>6, <2>8, <3>1, <3>2
    <3> QED
      BY <2>1, <3>3
  <2> QED
    BY <2>7, <2>8
<1>4. Fine(k[Len(s)])
  BY <1>1, <1>3
<1> QED
  BY <1>2, <1>4

LEMMA WithoutEmpty ==
    ASSUME NEW e
    PROVE  Without(<< >>, e) = << >>
<1>1. PICK k : Keeps(k, << >>, e, 0) /\ Without(<< >>, e) = k[0]
  BY WithoutKeeps
<1> QED
  BY <1>1 DEF Keeps

LEMMA WithoutAppend ==
    ASSUME NEW S, NEW s \in Seq(S), NEW x \in S, NEW e
    PROVE  Without(Append(s, x), e) = IF x = e THEN Without(s, e)
                                      ELSE Append(Without(s, e), x)
<1> DEFINE t == Append(s, x)
           n == Len(s)
<1>1. n \in Nat /\ Len(t) = n + 1 /\ t[n + 1] = x
  OBVIOUS
<1>2. \A i \in 1..n : s[i] = t[i]
  OBVIOUS
<1> HIDE DEF t
<1>3. PICK k : Keeps(k, s, e, n) /\ Without(s, e) = k[n]
  BY <1>1, WithoutKeeps
<1>4. PICK g : Keeps(g, t, e, n + 1) /\ Without(t, e) = g[n + 1]
  BY <1>1, WithoutKeeps
<1>5. k[n] = g[n]
  <2>1. n + 1 \in Nat /\ n <= n + 1 /\ n \in 0..n
    BY <1>1
  <2> HIDE DEF n
  <2>2. \A i \in 0..n : k[i] = g[i]
    <3>1. PICK m \in Nat : m = n + 1
      BY <2>1
    <3>2. Keeps(k, s, e, n) /\ Keeps(g, t, e, m) /\ n \in Nat /\ n <= m
      BY <1>1, <1>3, <1>4, <3>1
    <3> QED
      BY <1>2, <3>2, KeepsUnique
  <2> QED
    BY <2>1, <2>2
<1>6. g[n + 1] = IF t[n + 1] = e THEN g[n] ELSE Append(g[n], t[n + 1])
  <2>1. n + 1 \in 0..n + 1 /\ n + 1 # 0 /\ (n + 1) - 1 = n
    BY <1>1
  <2>2. g[n + 1] = IF n + 1 = 0 THEN << >>
                   ELSE IF t[n + 1] = e THEN g[(n + 1) - 1]
                   ELSE Append(g[(n + 1) - 1], t[n + 1])
    BY <1>4, <2>1, Zenon DEF Keeps
  <2> QED
    BY <2>1, <2>2
<1> QED
  BY <1>1, <1>3, <1>4, <1>5, <1>6 DEF t

\* Taking out of a concatenation is taking out of its parts.
LEMMA WithoutConcat ==
    ASSUME NEW S, NEW s \in Seq(S), NEW t \in Seq(S), NEW e
    PROVE  Without(s \o t, e) = Without(s, e) \o Without(t, e)
<1> DEFINE P(i) == Without(s \o SubSeq(t, 1, i), e) = Without(s, e) \o Without(SubSeq(t, 1, i), e)
           Bad == {i \in 0..Len(t) : ~P(i)}
<1>1. Len(t) \in Nat /\ SubSeq(t, 1, Len(t)) = t
  OBVIOUS
<1>2. ASSUME Bad # {} PROVE FALSE
  <2>1. PICK i \in Bad : \A j \in Bad : i <= j
    <3>1. Bad \in SUBSET Nat
      OBVIOUS
    <3> HIDE DEF Bad
    <3> QED
      BY LeastMember, <3>1, <1>2, Zenon
  <2>2. i \in 0..Len(t) /\ ~P(i)
    BY <2>1
  <2>3. i # 0
    <3>1. SubSeq(t, 1, 0) = << >> /\ Without(<< >>, e) = << >>
      BY WithoutEmpty
    <3>2. s \o << >> = s /\ Without(s, e) \in Seq(S)
      BY WithoutMembers
    <3>3. Without(s, e) \o << >> = Without(s, e)
      BY <3>2
    <3>4. P(0)
      BY <3>1, <3>2, <3>3
    <3> HIDE DEF P
    <3> QED
      BY <2>2, <3>4
  <2>4. i - 1 \in 0..Len(t) /\ i \in 1..Len(t) /\ i - 1 \notin Bad
    BY <1>1, <2>1, <2>2, <2>3
  <2>5. P(i - 1)
    <3>1. \A j \in 0..Len(t) : j \notin Bad => P(j)
      OBVIOUS
    <3> HIDE DEF Bad, P
    <3> QED
      BY <2>4, <3>1, Zenon
  <2>6. PICK u \in Seq(S) : u = SubSeq(t, 1, i - 1)
    <3>1. i - 1 \in Int /\ \A j \in 1..i - 1 : t[j] \in S
      BY <2>4
    <3>2. SubSeq(t, 1, i - 1) \in Seq(S)
      BY <3>1, SubSeqProperties
    <3> QED
      BY <3>2
  <2>7. PICK x \in S : x = t[i]
    BY <2>4
  <2>8. SubSeq(t, 1, i) = Append(u, x)
    BY <1>1, <2>4, <2>6, <2>7
  <2>9. s \o Append(u, x) = Append(s \o u, x) /\ s \o u \in Seq(S)
    OBVIOUS
  <2>10. Without(s \o u, e) = Without(s, e) \o Without(u, e)
    BY <2>5, <2>6
  <2>11. /\ Without(Append(u, x), e) = IF x = e THEN Without(u, e) ELSE Append(Without(u, e), x)
         /\ Without(Append(s \o u, x), e) = IF x = e THEN Without(s \o u, e)
                                            ELSE Append(Without(s \o u, e), x)
    <3>1. Without(Append(u, x), e) = IF x = e THEN Without(u, e) ELSE Append(Without(u, e), x)
      BY WithoutAppend
    <3>2. PICK v \in Seq(S) : v = s \o u
      BY <2>9
    <3>3. Without(Append(v, x), e) = IF x = e THEN Without(v, e) ELSE Append(Without(v, e), x)
      BY WithoutAppend
    <3> QED
      BY <3>1, <3>2, <3>3
  <2>12. Without(s, e) \in Seq(S) /\ Without(u, e) \in Seq(S)
    BY WithoutMembers
  <2>13. Without(s, e) \o Append(Without(u, e), x) = Append(Without(s, e) \o Without(u, e), x)
    BY <2>12
  <2>14. Without(s \o SubSeq(t, 1, i), e) = Without(s, e) \o Without(SubSeq(t, 1, i), e)
    BY <2>8, <2>9, <2>10, <2>11, <2>13
  <2> QED
    BY <2>2, <2>14
<1>3. P(Len(t))
  BY <1>1, <1>2
<1> QED
  BY <1>1, <1>3

-----------------------------------------------------------------------------
(* The first n elements of a list move to the end of another one.           *)

LEMMA SplitAt ==
    ASSUME NEW S, NEW s \in Seq(S), NEW n \in 0..Len(s)
    PROVE  /\ SubSeq(s, 1, n) \in Seq(S) /\ SubSeq(s, n + 1, Len(s)) \in Seq(S)
           /\ s = SubSeq(s, 1, n) \o SubSeq(s, n + 1, Len(s))
<1> DEFINE t == SubSeq(s, 1, n)
           u == SubSeq(s, n + 1, Len(s))
<1>1. /\ t \in Seq(S) /\ u \in Seq(S) /\ Len(t) = n /\ Len(u) = Len(s) - n
      /\ \A i \in 1..n : t[i] = s[i]
      /\ \A i \in 1..Len(s) - n : u[i] = s[n + i]
      /\ Len(s) \in Nat /\ n \in Nat
  OBVIOUS
<1> HIDE DEF t, u
<1>2. t \o u \in Seq(S) /\ Len(t \o u) = Len(s)
  BY <1>1
<1>3. ASSUME NEW i \in 1..Len(s) PROVE (t \o u)[i] = s[i]
  <2>1. CASE i <= n
    BY <1>1, <2>1
  <2>2. CASE i > n
    <3>1. i - n \in 1..Len(s) - n /\ n + (i - n) = i
      BY <1>1, <2>2
    <3>2. (t \o u)[i] = u[i - n]
      BY <1>1, <2>2
    <3>3. u[i - n] = s[n + (i - n)]
      BY <1>1, <3>1
    <3> QED
      BY <3>1, <3>2, <3>3
  <2> QED
    BY <1>1, <2>1, <2>2
<1>4. s = t \o u
  BY <1>2, <1>3, SeqEqual
<1> QED
  BY <1>1, <1>4 DEF t, u

LEMMA MoveAt ==
    ASSUME NEW S, NEW b \in Seq(S), NEW s \in Seq(S), NEW n \in 0..Len(s)
    PROVE  (b \o SubSeq(s, 1, n)) \o SubSeq(s, n + 1, Len(s)) = b \o s
<1>1. PICK t \in Seq(S) : t = SubSeq(s, 1, n)
  BY SplitAt
<1>2. PICK u \in Seq(S) : u = SubSeq(s, n + 1, Len(s))
  BY SplitAt
<1>3. (b \o t) \o u = b \o (t \o u)
  OBVIOUS
<1>4. s = t \o u
  BY <1>1, <1>2, SplitAt
<1> QED
  BY <1>1, <1>2, <1>3, <1>4

LEMMA WithoutMove ==
    ASSUME NEW S, NEW b \in Seq(S), NEW s \in Seq(S), NEW n \in 0..Len(s), NEW e
    PROVE  (b \o Without(SubSeq(s, 1, n), e)) \o Without(SubSeq(s, n + 1, Len(s)), e)
             = b \o Without(s, e)
<1>1. PICK t \in Seq(S) : t = SubSeq(s, 1, n)
  BY SplitAt
<1>2. PICK u \in Seq(S) : u = SubSeq(s, n + 1, Len(s))
  BY SplitAt
<1>3. s = t \o u
  BY <1>1, <1>2, SplitAt
<1>4. Without(t \o u, e) = Without(t, e) \o Without(u, e)
  BY WithoutConcat, SMTT(60)
<1>5. PICK v \in Seq(S) : v = Without(t, e)
  BY WithoutMembers
<1>6. PICK w \in Seq(S) : w = Without(u, e)
  BY WithoutMembers
<1>7. (b \o v) \o w = b \o (v \o w)
  OBVIOUS
<1> QED
  BY <1>1, <1>2, <1>3, <1>4, <1>5, <1>6, <1>7

-----------------------------------------------------------------------------
(* Lists put one after the other: f is the function whose last value        *)
(* FlattenSeq takes.                                                        *)
Flattens(f, seqs, n) ==
    f = [i \in 1..n |-> IF i = 1 THEN seqs[i] ELSE f[i - 1] \o seqs[i]]

LEMMA FlattensExists ==
    ASSUME NEW seqs, NEW n \in Nat
    PROVE  \E f : Flattens(f, seqs, n)
<1> DEFINE Bad == {m \in Nat : ~\E f : Flattens(f, seqs, m)}
<1> SUFFICES ASSUME n \in Bad PROVE FALSE
  OBVIOUS
<1>1. PICK m \in Bad : \A j \in Bad : m <= j
  <2>1. Bad \in SUBSET Nat /\ Bad # {}
    OBVIOUS
  <2> HIDE DEF Bad
  <2> QED
    BY LeastMember, <2>1, Zenon
<1>2. CASE m = 0
  <2>1. Flattens([i \in 1..0 |-> << >>], seqs, 0)
    BY DEF Flattens
  <2> QED
    BY <1>2, <2>1
<1>3. CASE m # 0
  <2>1. m - 1 \in Nat /\ m - 1 \notin Bad
    BY <1>1, <1>3
  <2>2. PICK k : Flattens(k, seqs, m - 1)
    BY <2>1
  <2> DEFINE g == [i \in 1..m |-> IF i < m THEN k[i]
                                  ELSE IF m = 1 THEN seqs[m] ELSE k[m - 1] \o seqs[m]]
  <2>3. ASSUME NEW i \in 1..m
        PROVE  g[i] = IF i = 1 THEN seqs[i] ELSE g[i - 1] \o seqs[i]
    <3>1. CASE i < m
      <4>1. i \in 1..m - 1
        BY <2>1, <3>1
      <4>2. k[i] = IF i = 1 THEN seqs[i] ELSE k[i - 1] \o seqs[i]
        BY <2>2, <4>1, Zenon DEF Flattens
      <4>3. i # 1 => i - 1 \in 1..m /\ i - 1 < m
        BY <4>1
      <4> QED
        BY <3>1, <4>1, <4>2, <4>3
    <3>2. CASE i = m
      BY <1>3, <2>1, <3>2
    <3> QED
      BY <3>1, <3>2
  <2>4. Flattens(g, seqs, m)
    BY <2>3, Zenon DEF Flattens
  <2> QED
    BY <2>4
<1> QED
  BY <1>2, <1>3

\* The values depend on the lists up to there only.
Alike(s, t, n) == \A i \in 1..n : s[i] = t[i]

LEMMA FlattensAlike ==
    ASSUME NEW f, NEW g, NEW s, NEW t, NEW m \in Nat, NEW n \in Nat, n <= m,
           Flattens(f, s, m), Flattens(g, t, n), Alike(s, t, n)
    PROVE  Alike(f, g, n)
<1> DEFINE Bad == {i \in 1..n : f[i] # g[i]}
<1>1. ASSUME Bad # {} PROVE FALSE
  <2>1. PICK i \in Bad : \A j \in Bad : i <= j
    <3>1. Bad \in SUBSET Nat
      OBVIOUS
    <3> HIDE DEF Bad
    <3> QED
      BY LeastMember, <3>1, <1>1, Zenon
  <2>2. i \in 1..n /\ i \in 1..m /\ f[i] # g[i]
    BY <2>1
  <2>3. f[i] = IF i = 1 THEN s[i] ELSE f[i - 1] \o s[i]
    BY <2>2, Zenon DEF Flattens
  <2>4. g[i] = IF i = 1 THEN t[i] ELSE g[i - 1] \o t[i]
    BY <2>2, Zenon DEF Flattens
  <2>5. i # 1 /\ s[i] = t[i]
    BY <2>2, <2>3, <2>4 DEF Alike
  <2>6. i - 1 \in 1..n /\ i - 1 \notin Bad
    BY <2>1, <2>2, <2>5
  <2>7. f[i - 1] = g[i - 1]
    BY <2>6
  <2> QED
    BY <2>2, <2>3, <2>4, <2>5, <2>7
<1> QED
  BY <1>1 DEF Alike

\* FlattenSeq, one list after the other.
LEMMA ListOf ==
    ASSUME NEW S, NEW n \in Nat, NEW s \in [1..n -> S]
    PROVE  s \in Seq(S) /\ Len(s) = n
  OBVIOUS

LEMMA AppendIs ==
    ASSUME NEW S, NEW q \in Seq(S), NEW d \in S
    PROVE  /\ Append(q, d) \in Seq(S) /\ Len(Append(q, d)) = Len(q) + 1
           /\ Append(q, d)[Len(q) + 1] = d /\ \A i \in 1..Len(q) : Append(q, d)[i] = q[i]
  OBVIOUS

LEMMA FlattenNone ==
    ASSUME NEW s, Len(s) = 0 PROVE FlattenSeq(s) = s
  BY DEF FlattenSeq

LEMMA FlattenIs ==
    ASSUME NEW S, NEW s \in Seq(Seq(S)), Len(s) # 0
    PROVE  \E f : Flattens(f, s, Len(s)) /\ FlattenSeq(s) = f[Len(s)]
<1>1. Len(s) \in Nat
  OBVIOUS
<1>2. Flattens(CHOOSE f : Flattens(f, s, Len(s)), s, Len(s))
  BY <1>1, FlattensExists, Zenon
<1>3. FlattenSeq(s) = (CHOOSE f : Flattens(f, s, Len(s)))[Len(s)]
  BY Zenon DEF FlattenSeq, Flattens
<1> QED
  BY <1>2, <1>3, Zenon

LEMMA FlattenMore ==
    ASSUME NEW S, NEW s \in Seq(Seq(S)), NEW t \in Seq(Seq(S)), NEW n \in Nat,
           Len(s) = n, Len(t) = n + 1, Alike(t, s, n)
    PROVE  FlattenSeq(t) = FlattenSeq(s) \o t[n + 1]
<1>1. PICK g : Flattens(g, t, n + 1) /\ FlattenSeq(t) = g[n + 1]
  BY FlattenIs
<1>2. g[n + 1] = IF n + 1 = 1 THEN t[n + 1] ELSE g[(n + 1) - 1] \o t[n + 1]
  <2>1. n + 1 \in 1..n + 1
    OBVIOUS
  <2> QED
    BY <1>1, <2>1, Zenon DEF Flattens
<1>3. CASE n = 0
  <2>1. FlattenSeq(s) = << >>
    BY <1>3, FlattenNone, EmptySeq
  <2>2. g[n + 1] = t[n + 1] /\ t[n + 1] \in Seq(S)
    BY <1>2, <1>3
  <2>3. << >> \o t[n + 1] = t[n + 1]
    BY <2>2, ConcatEmptySeq
  <2> QED
    BY <1>1, <2>1, <2>2, <2>3
<1>4. CASE n # 0
  <2>1. PICK f : Flattens(f, s, n) /\ FlattenSeq(s) = f[n]
    BY <1>4, FlattenIs
  <2>2. Alike(g, f, n)
    <3>1. n + 1 \in Nat /\ n <= n + 1
      OBVIOUS
    <3>2. Flattens(g, t, n + 1) /\ Flattens(f, s, n)
      BY <1>1, <2>1
    <3>4. PICK m \in Nat : m = n + 1
      BY <3>1
    <3>5. Flattens(g, t, m) /\ Flattens(f, s, n) /\ n <= m
      BY <3>1, <3>2, <3>4
    <3> QED
      BY <3>5, FlattensAlike, Zenon
  <2>3. g[n] = f[n] /\ n + 1 # 1 /\ (n + 1) - 1 = n
    <3>1. n \in 1..n
      BY <1>4
    <3> QED
      BY <2>2, <3>1 DEF Alike
  <2> QED
    BY <1>1, <1>2, <2>1, <2>3
<1> QED
  BY <1>3, <1>4

LEMMA FlattenType ==
    ASSUME NEW S, NEW s \in Seq(Seq(S))
    PROVE  FlattenSeq(s) \in Seq(S)
<1>1. CASE Len(s) = 0
  BY <1>1, FlattenNone, EmptySeq
<1>2. CASE Len(s) # 0
  <2>1. PICK f : Flattens(f, s, Len(s)) /\ FlattenSeq(s) = f[Len(s)]
    BY <1>2, FlattenIs
  <2> DEFINE Bad == {i \in 1..Len(s) : f[i] \notin Seq(S)}
  <2>2. ASSUME Bad # {} PROVE FALSE
    <3>1. PICK i \in Bad : \A j \in Bad : i <= j
      <4>1. Bad \in SUBSET Nat
        OBVIOUS
      <4> HIDE DEF Bad
      <4> QED
        BY LeastMember, <4>1, <2>2, Zenon
    <3>2. i \in 1..Len(s) /\ f[i] \notin Seq(S) /\ s[i] \in Seq(S)
      BY <3>1
    <3>3. f[i] = IF i = 1 THEN s[i] ELSE f[i - 1] \o s[i]
      BY <2>1, <3>2, Zenon DEF Flattens
    <3>4. i # 1
      BY <3>2, <3>3
    <3>5. i - 1 \in 1..Len(s) /\ i - 1 \notin Bad
      BY <3>1, <3>2, <3>4
    <3>6. f[i - 1] \in Seq(S)
      BY <3>5
    <3>7. f[i - 1] \o s[i] \in Seq(S)
      BY <3>2, <3>6
    <3> QED
      BY <3>2, <3>3, <3>4, <3>7
  <2>3. Len(s) \in 1..Len(s)
    BY <1>2
  <2> QED
    BY <2>1, <2>2, <2>3
<1> QED
  BY <1>1, <1>2

-----------------------------------------------------------------------------
(* How many members of a set of positive numbers do not pass n.             *)
UpTo(S, n) == {k \in S : k <= n}
Count(S, n) == Cardinality(UpTo(S, n))

LEMMA UptoIs ==
    ASSUME NEW S, S \subseteq Nat \ {0}, NEW n \in Nat
    PROVE  \A k : k \in UpTo(S, n) <=> k \in S /\ k \in Nat /\ k # 0 /\ k <= n
<1>1. \A k : k \in S => k \in Nat /\ k # 0
  OBVIOUS
<1>2. \A k : k \in UpTo(S, n) <=> k \in S /\ k <= n
  BY Zenon DEF UpTo
<1> QED
  BY <1>1, <1>2, Zenon

LEMMA UptoNone ==
    ASSUME NEW S, S \subseteq Nat \ {0} PROVE Count(S, 0) = 0
<1>1. UpTo(S, 0) = {}
  <2>1. \A k : k \in UpTo(S, 0) <=> k \in S /\ k \in Nat /\ k # 0 /\ k <= 0
    BY UptoIs
  <2>2. \A k : k \notin UpTo(S, 0)
    BY <2>1
  <2> QED
    BY <2>2, Zenon
<1> QED
  BY <1>1, FS_EmptySet, Zenon DEF Count

LEMMA UptoFinite ==
    ASSUME NEW S, S \subseteq Nat \ {0}, NEW n \in Nat
    PROVE  IsFiniteSet(UpTo(S, n)) /\ Count(S, n) \in Nat
<1>1. IsFiniteSet(1..n)
  BY FS_Interval
<1>2. UpTo(S, n) \subseteq 1..n
  <2>1. \A k : k \in UpTo(S, n) <=> k \in S /\ k \in Nat /\ k # 0 /\ k <= n
    BY UptoIs, Zenon
  <2>2. \A k : k \in UpTo(S, n) => k \in 1..n
    BY <2>1
  <2> QED
    BY <2>2, Zenon
<1>3. IsFiniteSet(UpTo(S, n))
  BY <1>1, <1>2, FS_Subset
<1> QED
  BY <1>3, FS_CardinalityType DEF Count

LEMMA UptoMore ==
    ASSUME NEW S, S \subseteq Nat \ {0}, NEW n \in Nat
    PROVE  /\ n + 1 \in S => Count(S, n + 1) = Count(S, n) + 1
           /\ n + 1 \notin S => Count(S, n + 1) = Count(S, n)
<1>3. \A k : k \in UpTo(S, n) <=> k \in S /\ k \in Nat /\ k # 0 /\ k <= n
  BY UptoIs, Zenon
<1>4. \A k : k \in UpTo(S, n + 1) <=> k \in S /\ k \in Nat /\ k # 0 /\ k <= n + 1
  <2>1. n + 1 \in Nat
    OBVIOUS
  <2> QED
    BY <2>1, UptoIs, Zenon
<1>5. \A k : k \in UpTo(S, n + 1) <=> k \in UpTo(S, n) \/ (k \in S /\ k = n + 1)
  <2>1. \A k : k \in Nat => (k <= n + 1 <=> k <= n \/ k = n + 1)
    OBVIOUS
  <2>2. n + 1 \in Nat /\ n + 1 # 0
    OBVIOUS
  <2> QED
    BY <1>3, <1>4, <2>1, <2>2
<1>1. CASE n + 1 \in S
  <2>1. UpTo(S, n + 1) = UpTo(S, n) \union {n + 1} /\ n + 1 \notin UpTo(S, n)
    <3>1. \A k : k \in UpTo(S, n + 1) <=> k \in UpTo(S, n) \/ k = n + 1
      BY <1>1, <1>5, Zenon
    <3>2. ~(n + 1 <= n)
      OBVIOUS
    <3>3. UpTo(S, n + 1) = UpTo(S, n) \union {n + 1}
      BY <3>1
    <3> QED
      BY <1>3, <3>2, <3>3, Zenon
  <2>2. Cardinality(UpTo(S, n) \union {n + 1}) = Cardinality(UpTo(S, n)) + 1
    BY <2>1, UptoFinite, FS_AddElement
  <2> QED
    BY <1>1, <2>1, <2>2 DEF Count
<1>2. CASE n + 1 \notin S
  <2>1. UpTo(S, n + 1) = UpTo(S, n)
    <3>1. \A k : k \in UpTo(S, n + 1) <=> k \in UpTo(S, n)
      BY <1>2, <1>5, Zenon
    <3> QED
      BY <3>1
  <2> QED
    BY <1>2, <2>1 DEF Count
<1> QED
  BY <1>1, <1>2

LEMMA UptoGrows ==
    ASSUME NEW S, S \subseteq Nat \ {0}, NEW m \in Nat, NEW n \in Nat, m <= n
    PROVE  Count(S, m) <= Count(S, n)
<1>1. UpTo(S, m) \subseteq UpTo(S, n)
  <2>1. \A k : k \in UpTo(S, m) => k \in S /\ k \in Nat /\ k # 0 /\ k <= m
    BY UptoIs, Zenon
  <2>2. \A k : k \in S /\ k \in Nat /\ k # 0 /\ k <= n => k \in UpTo(S, n)
    BY UptoIs, Zenon
  <2>3. \A k \in Nat : k <= m => k <= n
    OBVIOUS
  <2> QED
    BY <2>1, <2>2, <2>3, Zenon
<1> QED
  BY <1>1, UptoFinite, FS_Subset DEF Count

-----------------------------------------------------------------------------
(* The lists that FlattenSeq puts one after the other keep their places.    *)
Laid(o, seqs, t) ==
    /\ o \in [0..Len(seqs) -> Nat] /\ o[0] = 0 /\ o[Len(seqs)] = Len(t)
    /\ \A k \in 1..Len(seqs) :
         /\ o[k] = o[k - 1] + Len(seqs[k])
         /\ \A i \in 1..Len(seqs[k]) : t[o[k - 1] + i] = seqs[k][i]

LEMMA LaidNone ==
    \E o : Laid(o, << >>, << >>)
<1> DEFINE o == [i \in 0..0 |-> 0]
<1>1. Len(<< >>) = 0 /\ o \in [0..0 -> Nat] /\ o[0] = 0 /\ 1..0 = {}
  OBVIOUS
<1> HIDE DEF o
<1>2. Laid(o, << >>, << >>)
  BY <1>1 DEF Laid
<1> QED
  BY <1>2, Zenon

\* The places before k are not behind it.
LEMMA LaidInside ==
    ASSUME NEW S, NEW seqs \in Seq(Seq(S)), NEW t, NEW o, Laid(o, seqs, t), NEW k \in 1..Len(seqs)
    PROVE  o[k] <= Len(t) /\ o[k] \in Nat /\ Len(t) \in Nat
<1>1. PICK n \in Nat : n = Len(seqs)
  OBVIOUS
<1>2. PICK e \in Nat : e = Len(t)
  <2>1. o[n] \in Nat /\ o[n] = Len(t)
    BY <1>1 DEF Laid
  <2> QED
    BY <2>1
<1>3. /\ o \in [0..n -> Nat] /\ o[n] = e
      /\ \A j \in 1..n : o[j] = o[j - 1] + Len(seqs[j]) /\ Len(seqs[j]) \in Nat
  BY <1>1, <1>2 DEF Laid
<1> DEFINE Bad == {m \in 0..n - k : o[n - m] > e}
<1>4. ASSUME Bad # {} PROVE FALSE
  <2>1. PICK m \in Bad : \A j \in Bad : m <= j
    <3>1. Bad \in SUBSET Nat
      OBVIOUS
    <3> HIDE DEF Bad
    <3> QED
      BY LeastMember, <3>1, <1>4, Zenon
  <2>2. m \in 0..n - k /\ o[n - m] > e /\ k \in 1..n
    BY <1>1, <2>1
  <2>3. PICK i \in Nat : i = n - m
    BY <2>2
  <2>4. o[i] > e /\ i \in 0..n
    BY <2>2, <2>3
  <2>5. i # n /\ m # 0
    BY <1>3, <2>2, <2>3, <2>4
  <2>6. i + 1 \in 1..n /\ i + 1 \in 0..n /\ (i + 1) - 1 = i /\ n - (m - 1) = i + 1
        /\ m - 1 \in 0..n - k
    BY <2>2, <2>3, <2>5
  <2>7. ~(o[i + 1] > e)
    <3>1. ~(m <= m - 1)
      BY <2>2
    <3>2. m - 1 \notin Bad
      BY <2>1, <3>1
    <3> QED
      BY <2>6, <3>2
  <2>8. o[i + 1] = o[i] + Len(seqs[i + 1]) /\ Len(seqs[i + 1]) \in Nat
    BY <1>3, <2>6
  <2>9. o[i] \in Nat /\ o[i + 1] \in Nat
    BY <1>3, <2>4, <2>6
  <2> QED
    BY <2>4, <2>7, <2>8, <2>9
<1>5. PICK m \in 0..n - k : n - m = k
  <2>1. n - k \in 0..n - k /\ n - (n - k) = k
    BY <1>1
  <2> QED
    BY <2>1
<1>6. ~(o[k] > e)
  BY <1>4, <1>5
<1>7. o[k] \in Nat
  BY <1>1, <1>3
<1> QED
  BY <1>2, <1>6, <1>7

LEMMA LaidMore ==
    ASSUME NEW S, NEW r \in Seq(Seq(S)), NEW u \in Seq(S), NEW x \in Seq(S), NEW f, Laid(f, r, u),
           NEW s \in Seq(Seq(S)), NEW n \in Nat, Len(r) = n, Len(s) = n + 1, s[n + 1] = x,
           Alike(s, r, n)
    PROVE  \E o : Laid(o, s, u \o x)
<1>1. /\ f \in [0..n -> Nat] /\ f[0] = 0 /\ f[n] = Len(u)
      /\ \A k \in 1..n : /\ f[k] = f[k - 1] + Len(r[k])
                         /\ \A i \in 1..Len(r[k]) : u[f[k - 1] + i] = r[k][i]
  BY DEF Laid
<1>2. /\ u \o x \in Seq(S) /\ Len(u \o x) = Len(u) + Len(x)
      /\ \A i \in 1..Len(u) + Len(x) : (u \o x)[i] = IF i <= Len(u) THEN u[i] ELSE x[i - Len(u)]
  BY ConcatProperties, Zenon
<1>3. PICK t \in Seq(S) : t = u \o x
  BY <1>2
<1>4. PICK a \in Nat : a = Len(u)
  OBVIOUS
<1>5. PICK b \in Nat : b = Len(x)
  OBVIOUS
<1>6. Len(t) = a + b /\ \A i \in 1..a + b : t[i] = IF i <= a THEN u[i] ELSE x[i - a]
  BY <1>2, <1>3, <1>4, <1>5
<1> DEFINE o == [i \in 0..n + 1 |-> IF i = n + 1 THEN a + b ELSE f[i]]
<1>7. o \in [0..n + 1 -> Nat] /\ o[n + 1] = a + b /\ \A i \in 0..n : o[i] = f[i]
  <2>1. \A i \in 0..n + 1 : i # n + 1 => i \in 0..n
    OBVIOUS
  <2>2. \A i \in 0..n : i \in 0..n + 1 /\ i # n + 1
    OBVIOUS
  <2>3. n + 1 \in 0..n + 1 /\ a + b \in Nat
    OBVIOUS
  <2> QED
    BY <1>1, <2>1, <2>2, <2>3
<1> HIDE DEF o
<1>8. ASSUME NEW k \in 1..n + 1
      PROVE  /\ o[k] = o[k - 1] + Len(s[k])
             /\ \A i \in 1..Len(s[k]) : t[o[k - 1] + i] = s[k][i]
  <2>1. CASE k = n + 1
    <3>1. k - 1 = n /\ n \in 0..n /\ o[k - 1] = a /\ o[k] = a + b /\ s[k] = x
      BY <1>1, <1>4, <1>7, <2>1
    <3>2. ASSUME NEW i \in 1..b PROVE t[a + i] = x[i]
      <4>1. a + i \in 1..a + b /\ ~(a + i <= a) /\ (a + i) - a = i
        OBVIOUS
      <4> QED
        BY <1>6, <4>1
    <3> QED
      BY <1>5, <3>1, <3>2
  <2>2. CASE k # n + 1
    <3>1. k \in 1..n /\ k \in 0..n /\ k - 1 \in 0..n
      BY <2>2
    <3>2. o[k] = f[k] /\ o[k - 1] = f[k - 1] /\ s[k] = r[k] /\ r[k] \in Seq(S)
      BY <1>7, <3>1 DEF Alike
    <3>3. f[k] = f[k - 1] + Len(r[k]) /\ \A i \in 1..Len(r[k]) : u[f[k - 1] + i] = r[k][i]
      BY <1>1, <3>1
    <3>4. f[k] <= a
      <4>1. k \in 1..Len(r)
        BY <3>1
      <4> QED
        BY <1>4, <4>1, LaidInside
    <3>5. ASSUME NEW i \in 1..Len(r[k]) PROVE t[f[k - 1] + i] = r[k][i]
      <4>1. f[k - 1] \in Nat /\ Len(r[k]) \in Nat
        BY <1>1, <3>1, <3>2
      <4>2. f[k - 1] + i \in 1..a + b /\ f[k - 1] + i <= a
        <5>1. PICK c \in Nat : c = f[k - 1]
          BY <4>1
        <5>2. PICK d \in Nat : d = Len(r[k])
          BY <4>1
        <5>3. i \in 1..d /\ c + d <= a
          BY <3>3, <3>4, <5>1, <5>2
        <5>4. c + i \in 1..a + b /\ c + i <= a
          BY <5>3
        <5> QED
          BY <5>1, <5>4
      <4> QED
        BY <1>6, <3>3, <4>2
    <3> QED
      BY <3>2, <3>3, <3>5
  <2> QED
    BY <2>1, <2>2
<1>9. o[0] = 0
  BY <1>1, <1>7
<1>10. Laid(o, s, t)
  BY <1>6, <1>7, <1>8, <1>9 DEF Laid
<1> QED
  BY <1>3, <1>10, Zenon

LEMMA FlattenLaid ==
    ASSUME NEW S, NEW seqs \in Seq(Seq(S))
    PROVE  \E o : Laid(o, seqs, FlattenSeq(seqs))
<1> DEFINE Wrong(s) == ~\E o : Laid(o, s, FlattenSeq(s))
           Bad == {m \in Nat : \E s \in Seq(Seq(S)) : Len(s) = m /\ Wrong(s)}
<1>1. ASSUME Bad # {} PROVE FALSE
  <2>1. PICK m \in Bad : \A j \in Bad : m <= j
    <3>1. Bad \in SUBSET Nat
      OBVIOUS
    <3> HIDE DEF Bad
    <3> QED
      BY LeastMember, <3>1, <1>1, Zenon
  <2>2. PICK s \in Seq(Seq(S)) : Len(s) = m /\ Wrong(s)
    BY <2>1
  <2> HIDE DEF Wrong
  <2>3. CASE m = 0
    <3>1. s = << >> /\ FlattenSeq(s) = << >>
      BY <2>2, <2>3, FlattenNone, EmptySeq
    <3> QED
      BY <2>2, <3>1, LaidNone DEF Wrong
  <2>4. CASE m # 0
    <3>1. PICK n \in Nat : n + 1 = m
      <4>1. m \in Nat /\ m - 1 \in Nat /\ (m - 1) + 1 = m
        BY <2>1, <2>4
      <4> QED
        BY <4>1
    <3>2. n \notin Bad
      BY <2>1, <3>1
    <3> DEFINE r == SubSeq(s, 1, n)
    <3>3. r \in Seq(Seq(S)) /\ Len(r) = n /\ Alike(s, r, n)
      BY <2>2, <3>1 DEF Alike
    <3>4. ~Wrong(r)
      BY <3>2, <3>3
    <3> HIDE DEF r
    <3>5. PICK f : Laid(f, r, FlattenSeq(r))
      BY <3>4 DEF Wrong
    <3>6. FlattenSeq(s) = FlattenSeq(r) \o s[n + 1]
      BY <2>2, <3>1, <3>3, FlattenMore
    <3>7. FlattenSeq(r) \in Seq(S)
      BY <3>3, FlattenType
    <3>8. s[n + 1] \in Seq(S)
      BY <2>2, <3>1
    <3>9. \E o : Laid(o, s, FlattenSeq(r) \o s[n + 1])
      BY <2>2, <3>1, <3>3, <3>5, <3>7, <3>8, LaidMore
    <3> QED
      BY <2>2, <3>6, <3>9 DEF Wrong
  <2> QED
    BY <2>3, <2>4
<1> QED
  BY <1>1
=============================================================================
