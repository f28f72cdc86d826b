----------------------------- MODULE DictProofs -----------------------------
(***************************************************************************)
(* hiredis/dict.c is a map, and an iterator on it hands out every key once, *)
(* for every set of keys and every hash function. A table is followed       *)
(* through a call as TableOf (every chain holds the entries of its slot,    *)
(* no key twice) and Stored (which entries it holds); what the calls do to  *)
(* the map depends on Stored only.                                          *)
(***************************************************************************)
EXTENDS Dict, ListsProofs, FiniteSetTheorems

EntrySet == [key : Keys, val : Values]

NoDup(q) == \A i, j \in 1..Len(q) : q[i].key = q[j].key => i = j

TableOf(t, n) ==
    /\ n \in Nat /\ t \in [0..n - 1 -> Seq(EntrySet)]
    /\ \A s \in 0..n - 1 : /\ NoDup(t[s])
                           /\ \A i \in 1..Len(t[s]) : Slot(t[s][i].key, n) = s

-----------------------------------------------------------------------------
(* Chains and slots.                                                        *)

LEMMA SizeIs ==
    ASSUME NEW t, NEW n, TableOf(t, n)
    PROVE  Size(t) = n /\ DOMAIN t = 0..n - 1
<1>1. DOMAIN t = 0..n - 1 /\ n \in Nat
  BY DEF TableOf
<1>2. Cardinality(0..n - 1) = n
  BY <1>1, FS_Interval
<1> QED
  BY <1>1, <1>2 DEF Size

LEMMA SlotIn ==
    ASSUME HashRight, NEW k \in Keys, NEW n \in Nat, n # 0
    PROVE  Slot(k, n) \in 0..n - 1
<1>1. PICK h \in Nat : h = Hash[k]
  BY DEF HashRight
<1>2. h % n \in 0..n - 1
  OBVIOUS
<1> QED
  BY <1>1, <1>2 DEF Slot

LEMMA LeastIs ==
    ASSUME NEW S \in SUBSET Int, NEW m \in S, \A i \in S : m <= i
    PROVE  Min(S) = m
<1>1. \E x \in S : \A y \in S : x =< y
  BY SMT
<1>2. Min(S) \in S /\ \A y \in S : Min(S) =< y
  BY <1>1, Zenon DEF Min
<1>3. PICK x \in S : x = Min(S) /\ \A y \in S : x =< y
  BY <1>2, Zenon
<1>4. x = m
  <2>1. x \in Int /\ m \in Int
    OBVIOUS
  <2> QED
    BY <1>3, <2>1
<1> QED
  BY <1>3, <1>4

LEMMA FoundIs ==
    ASSUME NEW q \in Seq(EntrySet), NEW k
    PROVE  \/ Found(q, k) = 0 /\ \A j \in 1..Len(q) : q[j].key # k
           \/ /\ Found(q, k) \in 1..Len(q) /\ q[Found(q, k)].key = k
              /\ \A j \in 1..Len(q) : q[j].key = k => Found(q, k) <= j
<1> DEFINE I == {i \in 1..Len(q) : q[i].key = k}
<1>1. Found(q, k) = IF I # {} THEN Min(I) ELSE 0
  BY Zenon DEF Found, SelectInSeq
<1>2. CASE I = {}
  BY <1>1, <1>2
<1>3. CASE I # {}
  <2>1. PICK m \in I : \A i \in I : m <= i
    <3>1. I \in SUBSET Nat
      OBVIOUS
    <3> HIDE DEF I
    <3> QED
      BY <1>3, <3>1, LeastMember
  <2>2. Found(q, k) = m
    <3>1. I \in SUBSET Int
      OBVIOUS
    <3> HIDE DEF I
    <3> QED
      BY <1>1, <1>3, <2>1, <3>1, LeastIs
  <2> QED
    BY <2>1, <2>2
<1> QED
  BY <1>2, <1>3

LEMMA StoredIs ==
    ASSUME NEW t, NEW n, TableOf(t, n), NEW e
    PROVE  e \in Stored(t) <=> \E s \in 0..n - 1 : \E i \in 1..Len(t[s]) : t[s][i] = e
<1>1. DOMAIN t = 0..n - 1
  BY SizeIs
<1>2. \A s \in 0..n - 1 : DOMAIN t[s] = 1..Len(t[s])
  BY DEF TableOf
<1>3. e \in Stored(t) <=> \E s \in DOMAIN t : e \in {t[s][i] : i \in DOMAIN t[s]}
  BY Zenon DEF Stored, ToSet
<1> QED
  BY <1>1, <1>2, <1>3

\* An entry is in the chain of its slot, and no other has its key.
LEMMA StoredAt ==
    ASSUME HashRight, NEW t, NEW n, TableOf(t, n), NEW e \in Stored(t)
    PROVE  /\ e \in EntrySet /\ n # 0 /\ Slot(e.key, n) \in 0..n - 1
           /\ \E i \in 1..Len(t[Slot(e.key, n)]) : t[Slot(e.key, n)][i] = e
<1>1. PICK s \in 0..n - 1 : \E i \in 1..Len(t[s]) : t[s][i] = e
  BY StoredIs
<1>2. t[s] \in Seq(EntrySet) /\ n \in Nat /\ \A i \in 1..Len(t[s]) : Slot(t[s][i].key, n) = s
  BY <1>1 DEF TableOf
<1>3. e \in EntrySet /\ Slot(e.key, n) = s
  BY <1>1, <1>2
<1> QED
  BY <1>1, <1>2, <1>3

LEMMA StoredOnce ==
    ASSUME HashRight, NEW t, NEW n, TableOf(t, n), NEW e \in Stored(t), NEW f \in Stored(t),
           e.key = f.key
    PROVE  e = f
<1>1. PICK i \in 1..Len(t[Slot(e.key, n)]) : t[Slot(e.key, n)][i] = e
  BY StoredAt
<1>2. PICK j \in 1..Len(t[Slot(e.key, n)]) : t[Slot(e.key, n)][j] = f
  BY StoredAt
<1>3. NoDup(t[Slot(e.key, n)])
  BY StoredAt DEF TableOf
<1> QED
  BY <1>1, <1>2, <1>3 DEF NoDup

\* dictFind and dictDelete look in the one chain the key can be in.
LEMMA ThereIs ==
    ASSUME HashRight, NEW t, NEW n, TableOf(t, n), NEW k \in Keys
    PROVE  /\ There(t, k) <=> \E e \in Stored(t) : e.key = k
           /\ There(t, k) => /\ n # 0 /\ Slot(k, n) \in 0..n - 1
                             /\ Found(t[Slot(k, n)], k) \in 1..Len(t[Slot(k, n)])
                             /\ t[Slot(k, n)][Found(t[Slot(k, n)], k)] \in Stored(t)
                             /\ t[Slot(k, n)][Found(t[Slot(k, n)], k)].key = k
<1>1. Size(t) = n /\ n \in Nat
  BY SizeIs DEF TableOf
<1>2. CASE n = 0
  BY <1>1, <1>2, StoredAt DEF There
<1>3. CASE n # 0
  <2>1. PICK s \in 0..n - 1 : s = Slot(k, n)
    BY <1>1, <1>3, SlotIn
  <2>2. PICK q \in Seq(EntrySet) : q = t[s]
    BY <2>1 DEF TableOf
  <2>3. There(t, k) <=> Found(q, k) # 0
    BY <1>1, <1>3, <2>1, <2>2 DEF There
  <2>4. CASE Found(q, k) = 0
    <3>1. \A j \in 1..Len(q) : q[j].key # k
      BY <2>4, FoundIs
    <3>2. ASSUME NEW e \in Stored(t), e.key = k PROVE FALSE
      BY <2>1, <2>2, <3>1, <3>2, StoredAt
    <3> QED
      BY <2>3, <2>4, <3>2
  <2>5. CASE Found(q, k) # 0
    <3>1. Found(q, k) \in 1..Len(q) /\ q[Found(q, k)].key = k
      BY <2>5, FoundIs
    <3>2. q[Found(q, k)] \in Stored(t)
      BY <2>1, <2>2, <3>1, StoredIs
    <3> QED
      BY <1>3, <2>1, <2>2, <2>3, <2>5, <3>1, <3>2
  <2> QED
    BY <2>4, <2>5
<1> QED
  BY <1>2, <1>3

-----------------------------------------------------------------------------
(* A chain is exchanged; what that does to the table.                       *)

LEMMA ChainChanged ==
    ASSUME HashRight, NEW t, NEW n, TableOf(t, n), NEW s \in 0..n - 1,
           NEW q \in Seq(EntrySet), NoDup(q), \A i \in 1..Len(q) : Slot(q[i].key, n) = s
    PROVE  /\ TableOf([t EXCEPT ![s] = q], n)
           /\ \A e : e \in Stored([t EXCEPT ![s] = q])
                      <=> (\E i \in 1..Len(q) : q[i] = e) \/ (e \in Stored(t) /\ Slot(e.key, n) # s)
<1> DEFINE u == [t EXCEPT ![s] = q]
<1>1. n \in Nat /\ t \in [0..n - 1 -> Seq(EntrySet)]
  BY DEF TableOf
<1>2. u \in [0..n - 1 -> Seq(EntrySet)] /\ u[s] = q /\ \A x \in 0..n - 1 : x # s => u[x] = t[x]
  BY <1>1
<1> HIDE DEF u
<1>3. TableOf(u, n)
  <2> SUFFICES ASSUME NEW x \in 0..n - 1
               PROVE  NoDup(u[x]) /\ \A i \in 1..Len(u[x]) : Slot(u[x][i].key, n) = x
    BY <1>1, <1>2 DEF TableOf
  <2>1. CASE x = s
    BY <1>2, <2>1
  <2>2. CASE x # s
    BY <1>2, <2>2 DEF TableOf
  <2> QED
    BY <2>1, <2>2
<1>4. ASSUME NEW e
      PROVE  e \in Stored(u)
                <=> (\E i \in 1..Len(q) : q[i] = e) \/ (e \in Stored(t) /\ Slot(e.key, n) # s)
  <2>1. ASSUME e \in Stored(u)
        PROVE  (\E i \in 1..Len(q) : q[i] = e) \/ (e \in Stored(t) /\ Slot(e.key, n) # s)
    <3>1. PICK x \in 0..n - 1 : \E i \in 1..Len(u[x]) : u[x][i] = e
      BY <1>3, <2>1, StoredIs
    <3>2. CASE x = s
      BY <1>2, <3>1, <3>2
    <3>3. CASE x # s
      <4>1. u[x] = t[x]
        BY <1>2, <3>3
      <4>2. PICK i \in 1..Len(t[x]) : t[x][i] = e
        BY <3>1, <4>1
      <4>3. Slot(t[x][i].key, n) = x
        BY <4>2 DEF TableOf
      <4>4. e \in Stored(t)
        BY <4>2, StoredIs
      <4> QED
        BY <3>3, <4>2, <4>3, <4>4
    <3> QED
      BY <3>2, <3>3
  <2>2. ASSUME NEW i \in 1..Len(q), q[i] = e PROVE e \in Stored(u)
    <3>1. i \in 1..Len(u[s]) /\ u[s][i] = e
      BY <1>2, <2>2
    <3> QED
      BY <1>3, <3>1, StoredIs
  <2>3. ASSUME e \in Stored(t), Slot(e.key, n) # s PROVE e \in Stored(u)
    <3>1. PICK x \in 0..n - 1 : x = Slot(e.key, n)
      BY <2>3, StoredAt
    <3>2. PICK i \in 1..Len(t[x]) : t[x][i] = e
      BY <2>3, <3>1, StoredAt
    <3>3. u[x] = t[x]
      BY <1>2, <2>3, <3>1
    <3>4. i \in 1..Len(u[x]) /\ u[x][i] = e
      BY <3>2, <3>3
    <3> QED
      BY <1>3, <3>4, StoredIs
  <2> QED
    BY <2>1, <2>2, <2>3
<1> QED
  BY <1>3, <1>4 DEF u

LEMMA PushFront ==
    ASSUME NEW q \in Seq(EntrySet), NEW e \in EntrySet
    PROVE  /\ <<e>> \o q \in Seq(EntrySet) /\ Len(<<e>> \o q) = Len(q) + 1
           /\ (<<e>> \o q)[1] = e /\ \A i \in 1..Len(q) : (<<e>> \o q)[i + 1] = q[i]
<1>1. <<e>> \in Seq(EntrySet) /\ Len(<<e>>) = 1 /\ <<e>>[1] = e
  OBVIOUS
<1>2. /\ <<e>> \o q \in Seq(EntrySet) /\ Len(<<e>> \o q) = 1 + Len(q)
      /\ \A i \in 1..1 + Len(q) : (<<e>> \o q)[i] = IF i <= 1 THEN <<e>>[i] ELSE q[i - 1]
  BY <1>1, ConcatProperties
<1>3. PICK p : p = <<e>> \o q
  OBVIOUS
<1>4. p[1] = e
  BY <1>1, <1>2, <1>3
<1>5. ASSUME NEW i \in 1..Len(q) PROVE p[i + 1] = q[i]
  <2>1. i + 1 \in 1..1 + Len(q) /\ ~(i + 1 <= 1) /\ (i + 1) - 1 = i
    OBVIOUS
  <2> QED
    BY <1>2, <1>3, <2>1
<1> QED
  BY <1>2, <1>3, <1>4, <1>5

\* An entry pushed to the head of its chain joins the others.
LEMMA PushedRight ==
    ASSUME HashRight, NEW t, NEW n, TableOf(t, n), n # 0, NEW e \in EntrySet,
           \A f \in Stored(t) : f.key # e.key
    PROVE  TableOf(Pushed(t, e), n) /\ Stored(Pushed(t, e)) = Stored(t) \union {e}
<1>1. PICK s \in 0..n - 1 : s = Slot(e.key, n)
  <2>1. e.key \in Keys /\ n \in Nat
    BY DEF EntrySet, TableOf
  <2> QED
    BY <2>1, SlotIn
<1>2. PICK q \in Seq(EntrySet) : q = t[s]
  BY DEF TableOf
<1>3. PICK p \in Seq(EntrySet) : /\ p = <<e>> \o q /\ Len(p) = Len(q) + 1 /\ p[1] = e
                                 /\ \A i \in 1..Len(q) : p[i + 1] = q[i]
  BY PushFront
<1>4. ASSUME NEW j \in 1..Len(p), j # 1
      PROVE  j - 1 \in 1..Len(q) /\ p[j] = q[j - 1]
  <2>1. j - 1 \in 1..Len(q) /\ (j - 1) + 1 = j
    BY <1>3, <1>4
  <2> QED
    BY <1>3, <2>1
<1>5. ASSUME NEW i \in 1..Len(q)
      PROVE  q[i] \in Stored(t) /\ q[i].key # e.key /\ Slot(q[i].key, n) = s
  <2>1. q[i] \in Stored(t)
    BY <1>2, StoredIs
  <2> QED
    BY <1>2, <2>1 DEF TableOf
<1>6. NoDup(p)
  <2> SUFFICES ASSUME NEW i \in 1..Len(p), NEW j \in 1..Len(p), p[i].key = p[j].key
               PROVE  i = j
    BY DEF NoDup
  <2>1. CASE i = 1 \/ j = 1
    BY <1>3, <1>4, <1>5, <2>1
  <2>2. CASE i # 1 /\ j # 1
    <3>1. i - 1 \in 1..Len(q) /\ j - 1 \in 1..Len(q) /\ q[i - 1].key = q[j - 1].key
      BY <1>4, <2>2
    <3>2. i - 1 = j - 1
      BY <1>2, <3>1 DEF TableOf, NoDup
    <3> QED
      BY <3>2
  <2> QED
    BY <2>1, <2>2
<1>7. \A i \in 1..Len(p) : Slot(p[i].key, n) = s
  BY <1>1, <1>3, <1>4, <1>5
<1>8. /\ TableOf([t EXCEPT ![s] = p], n)
      /\ \A f : f \in Stored([t EXCEPT ![s] = p])
                 <=> (\E i \in 1..Len(p) : p[i] = f) \/ (f \in Stored(t) /\ Slot(f.key, n) # s)
  <2>1. /\ TableOf(t, n) /\ NoDup(p) /\ \A i \in 1..Len(p) : Slot(p[i].key, n) = s
    BY <1>6, <1>7
  <2>2. TableOf([t EXCEPT ![s] = p], n)
    BY <2>1, ChainChanged
  <2>3. \A f : f \in Stored([t EXCEPT ![s] = p])
                 <=> (\E i \in 1..Len(p) : p[i] = f) \/ (f \in Stored(t) /\ Slot(f.key, n) # s)
    BY <2>1, ChainChanged
  <2> QED
    BY <2>2, <2>3
<1>9. Pushed(t, e) = [t EXCEPT ![s] = p]
  <2>1. Size(t) = n
    BY SizeIs
  <2> QED
    BY <1>1, <1>2, <1>3, <2>1 DEF Pushed
<1>10. ASSUME NEW f
       PROVE  f \in Stored([t EXCEPT ![s] = p]) <=> f \in Stored(t) \union {e}
  <2>1. ASSUME NEW i \in 1..Len(p), p[i] = f PROVE f \in Stored(t) \union {e}
    BY <1>3, <1>4, <1>5, <2>1
  <2>2. ASSUME f \in Stored(t), Slot(f.key, n) = s PROVE \E i \in 1..Len(p) : p[i] = f
    <3>1. PICK i \in 1..Len(q) : q[i] = f
      BY <1>2, <2>2, StoredAt
    <3>2. i + 1 \in 1..Len(p) /\ p[i + 1] = f
      BY <1>3, <3>1
    <3> QED
      BY <3>2
  <2>3. 1 \in 1..Len(p) /\ p[1] = e
    BY <1>3
  <2> QED
    BY <1>8, <2>1, <2>2, <2>3
<1>11. Stored([t EXCEPT ![s] = p]) = Stored(t) \union {e}
  BY <1>10
<1> QED
  BY <1>8, <1>9, <1>11

-----------------------------------------------------------------------------
(* dictExpand: the walk over the old table, and the new one it fills.       *)

Members(q) == {q[i] : i \in 1..Len(q)}

LEMMA Joined ==
    ASSUME NEW p \in Seq(EntrySet), NEW q \in Seq(EntrySet), NoDup(p), NoDup(q),
           \A i \in 1..Len(p), j \in 1..Len(q) : p[i].key # q[j].key
    PROVE  /\ p \o q \in Seq(EntrySet) /\ NoDup(p \o q)
           /\ Members(p \o q) = Members(p) \union Members(q)
<1>1. PICK r \in Seq(EntrySet) :
         /\ r = p \o q /\ Len(r) = Len(p) + Len(q)
         /\ \A i \in 1..Len(p) + Len(q) : r[i] = IF i <= Len(p) THEN p[i] ELSE q[i - Len(p)]
  <2>1. /\ p \o q \in Seq(EntrySet) /\ Len(p \o q) = Len(p) + Len(q)
        /\ \A i \in 1..Len(p) + Len(q) : (p \o q)[i] = IF i <= Len(p) THEN p[i] ELSE q[i - Len(p)]
    BY ConcatProperties
  <2> QED
    BY <2>1, Zenon
<1>2. Len(p) \in Nat /\ Len(q) \in Nat
  OBVIOUS
<1>3. ASSUME NEW i \in 1..Len(r)
      PROVE  \/ i \in 1..Len(p) /\ r[i] = p[i]
             \/ i > Len(p) /\ i - Len(p) \in 1..Len(q) /\ r[i] = q[i - Len(p)]
  <2>1. CASE i <= Len(p)
    BY <1>1, <1>2, <2>1
  <2>2. CASE ~(i <= Len(p))
    <3>1. i > Len(p) /\ i - Len(p) \in 1..Len(q)
      BY <1>1, <1>2, <2>2
    <3> QED
      BY <1>1, <2>2, <3>1
  <2> QED
    BY <2>1, <2>2
<1>4. NoDup(r)
  <2> SUFFICES ASSUME NEW i \in 1..Len(r), NEW j \in 1..Len(r), r[i].key = r[j].key
               PROVE  i = j
    BY DEF NoDup
  <2>1. CASE i \in 1..Len(p) /\ r[i] = p[i] /\ j \in 1..Len(p) /\ r[j] = p[j]
    BY <2>1 DEF NoDup
  <2>2. CASE /\ i > Len(p) /\ i - Len(p) \in 1..Len(q) /\ r[i] = q[i - Len(p)]
             /\ j > Len(p) /\ j - Len(p) \in 1..Len(q) /\ r[j] = q[j - Len(p)]
    <3>1. i - Len(p) = j - Len(p)
      BY <2>2 DEF NoDup
    <3> QED
      BY <1>1, <1>2, <3>1
  <2> QED
    BY <1>3, <2>1, <2>2
<1>5. ASSUME NEW e \in Members(r) PROVE e \in Members(p) \union Members(q)
  BY <1>3 DEF Members
<1>6. ASSUME NEW i \in 1..Len(p) PROVE p[i] \in Members(r)
  <2>1. i \in 1..Len(r) /\ r[i] = p[i]
    BY <1>1, <1>2
  <2> QED
    BY <2>1 DEF Members
<1>7. ASSUME NEW i \in 1..Len(q) PROVE q[i] \in Members(r)
  <2>1. /\ Len(p) + i \in 1..Len(p) + Len(q) /\ ~(Len(p) + i <= Len(p))
        /\ (Len(p) + i) - Len(p) = i
    BY <1>2
  <2>2. Len(p) + i \in 1..Len(r) /\ r[Len(p) + i] = q[i]
    BY <1>1, <2>1
  <2> QED
    BY <2>2 DEF Members
<1>8. Members(r) = Members(p) \union Members(q)
  BY <1>5, <1>6, <1>7 DEF Members
<1> QED
  BY <1>1, <1>4, <1>8

\* The entries in the order of the walk: all of them, no key twice.
LEMMA EntriesRight ==
    ASSUME HashRight, NEW t, NEW n, TableOf(t, n)
    PROVE  Entries(t) \in Seq(EntrySet) /\ NoDup(Entries(t)) /\ Members(Entries(t)) = Stored(t)
<1> DEFINE seqs == [i \in 1..n |-> t[i - 1]]
<1>1. /\ n \in Nat /\ Size(t) = n
      /\ \A i \in 1..n : i - 1 \in 0..n - 1 /\ t[i - 1] \in Seq(EntrySet) /\ NoDup(t[i - 1])
      /\ \A s \in 0..n - 1 : s + 1 \in 1..n /\ (s + 1) - 1 = s
  <2>1. n \in Nat /\ Size(t) = n
    BY SizeIs DEF TableOf
  <2>2. \A i \in 1..n : i - 1 \in 0..n - 1
    BY <2>1
  <2>3. \A s \in 0..n - 1 : s + 1 \in 1..n /\ (s + 1) - 1 = s
    BY <2>1
  <2> QED
    BY <2>1, <2>2, <2>3 DEF TableOf
<1>2. /\ Len(seqs) = n /\ \A i \in 1..n : seqs[i] = t[i - 1]
      /\ seqs \in Seq(Seq(EntrySet))
  <2>1. seqs \in [1..n -> Seq(EntrySet)]
    BY <1>1
  <2>2. \A i \in 1..n : seqs[i] = t[i - 1]
    BY <1>1
  <2> HIDE DEF seqs
  <2> QED
    BY <1>1, <2>1, <2>2
<1>3. Entries(t) = FlattenSeq(seqs)
  BY <1>1, Zenon DEF Entries
<1> HIDE DEF seqs
<1>4. CASE n = 0
  <2>1. Entries(t) = seqs
    BY <1>2, <1>3, <1>4 DEF FlattenSeq
  <2>2. seqs = << >>
    BY <1>2, <1>4, EmptySeq
  <2>3. << >> \in Seq(EntrySet) /\ Len(<< >>) = 0
    OBVIOUS
  <2>4. Stored(t) = {}
    <3> SUFFICES ASSUME NEW e \in Stored(t) PROVE FALSE
      OBVIOUS
    <3> QED
      BY <1>4, StoredAt
  <2> QED
    BY <2>1, <2>2, <2>3, <2>4 DEF NoDup, Members
<1>5. CASE n # 0
  <2>1. PICK f : Flattens(f, seqs, n) /\ Entries(t) = f[n]
    <3>1. \E f : Flattens(f, seqs, n)
      BY <1>1, FlattensExists
    <3>2. Flattens(CHOOSE f : Flattens(f, seqs, n), seqs, n)
      BY <3>1, Zenon
    <3>3. FlattenSeq(seqs) = (CHOOSE f : Flattens(f, seqs, n))[n]
      BY <1>2, <1>5, Zenon DEF FlattenSeq, Flattens
    <3> QED
      BY <1>3, <3>2, <3>3, Zenon
  <2>2. \A i \in 1..n : f[i] = IF i = 1 THEN seqs[i] ELSE f[i - 1] \o seqs[i]
    BY <2>1, Zenon DEF Flattens
  <2> DEFINE Upto(i) == {e \in EntrySet : \E s \in 0..i - 1 : \E j \in 1..Len(t[s]) : t[s][j] = e}
             Fine(i) == f[i] \in Seq(EntrySet) /\ NoDup(f[i]) /\ Members(f[i]) = Upto(i)
             Bad == {i \in 1..n : ~Fine(i)}
  <2>3. ASSUME NEW i \in 1..n
        PROVE  Upto(i) = Upto(i - 1) \union Members(t[i - 1])
    <3>1. ASSUME NEW e \in Upto(i) PROVE e \in Upto(i - 1) \union Members(t[i - 1])
      <4>1. PICK s \in 0..i - 1 : \E j \in 1..Len(t[s]) : t[s][j] = e
        BY <3>1
      <4>2. CASE s = i - 1
        BY <4>1, <4>2 DEF Members
      <4>3. CASE s # i - 1
        <5>1. s \in 0..(i - 1) - 1
          BY <4>3
        <5> QED
          BY <4>1, <5>1
      <4> QED
        BY <4>2, <4>3
    <3>2. ASSUME NEW e \in Upto(i - 1) PROVE e \in Upto(i)
      <4>1. 0..(i - 1) - 1 \subseteq 0..i - 1
        OBVIOUS
      <4> QED
        BY <4>1
    <3>3. ASSUME NEW e \in Members(t[i - 1]) PROVE e \in Upto(i)
      <4>1. e \in EntrySet /\ i - 1 \in 0..i - 1 /\ \E j \in 1..Len(t[i - 1]) : t[i - 1][j] = e
        BY <1>1 DEF Members
      <4> QED
        BY <4>1
    <3> HIDE DEF Upto
    <3> QED
      BY <3>1, <3>2, <3>3
  <2>4. Upto(0) = {}
    <3>1. 0..0 - 1 = {}
      OBVIOUS
    <3> QED
      BY <3>1
  <2>5. Upto(n) = Stored(t)
    <3>1. ASSUME NEW e \in Stored(t) PROVE e \in Upto(n)
      BY StoredIs, StoredAt
    <3>2. ASSUME NEW e \in Upto(n) PROVE e \in Stored(t)
      BY StoredIs
    <3> HIDE DEF Upto
    <3> QED
      BY <3>1, <3>2
  <2>6. ASSUME NEW i \in 1..n, NEW e \in Upto(i - 1), NEW j \in 1..Len(t[i - 1])
        PROVE  e.key # t[i - 1][j].key
    <3>1. PICK s \in 0..(i - 1) - 1 : \E x \in 1..Len(t[s]) : t[s][x] = e
      OBVIOUS
    <3>2. s \in 0..n - 1 /\ s # i - 1 /\ i - 1 \in 0..n - 1
      BY <1>1
    <3>3. Slot(e.key, n) = s /\ Slot(t[i - 1][j].key, n) = i - 1
      BY <3>1, <3>2 DEF TableOf
    <3> QED
      BY <3>2, <3>3
  <2> HIDE DEF Upto
  <2>7. Fine(1)
    <3>1. 1 \in 1..n /\ 1 - 1 = 0
      BY <1>1, <1>5
    <3>2. f[1] = t[0] /\ t[0] \in Seq(EntrySet) /\ NoDup(t[0])
      BY <1>1, <1>2, <2>2, <3>1
    <3>3. Upto(1) = Members(t[0])
      BY <2>3, <2>4, <3>1
    <3> QED
      BY <3>2, <3>3
  <2>8. ASSUME NEW i \in 1..n, i # 1, Fine(i - 1)
        PROVE  Fine(i)
    <3>1. PICK p \in Seq(EntrySet) : p = f[i - 1] /\ NoDup(p) /\ Members(p) = Upto(i - 1)
      BY <2>8
    <3>2. PICK q \in Seq(EntrySet) : q = t[i - 1] /\ NoDup(q)
      BY <1>1
    <3>3. f[i] = p \o q
      BY <1>2, <2>2, <2>8, <3>1, <3>2
    <3>4. ASSUME NEW x \in 1..Len(p), NEW j \in 1..Len(q) PROVE p[x].key # q[j].key
      <4>1. p[x] \in Upto(i - 1)
        BY <3>1 DEF Members
      <4> QED
        BY <2>6, <3>2, <4>1
    <3>5. /\ p \o q \in Seq(EntrySet) /\ NoDup(p \o q)
          /\ Members(p \o q) = Members(p) \union Members(q)
      BY <3>1, <3>2, <3>4, Joined
    <3>6. Upto(i) = Members(p) \union Members(q)
      BY <2>3, <3>1, <3>2
    <3> QED
      BY <3>3, <3>5, <3>6
  <2> HIDE DEF Fine
  <2>9. ASSUME Bad # {} PROVE FALSE
    <3>1. PICK i \in Bad : \A j \in Bad : i <= j
      <4>1. Bad \in SUBSET Nat
        BY <1>1
      <4> HIDE DEF Bad
      <4> QED
        BY LeastMember, <4>1, <2>9, Zenon
    <3>2. i \in 1..n /\ ~Fine(i) /\ i # 1
      BY <2>7, <3>1
    <3>3. i - 1 \in 1..n /\ i - 1 \notin Bad
      BY <1>1, <3>1, <3>2
    <3>4. Fine(i - 1)
      BY <3>3
    <3> QED
      BY <2>8, <3>2, <3>4
  <2>10. Fine(n)
    BY <1>1, <1>5, <2>9
  <2> QED
    BY <2>1, <2>5, <2>10 DEF Fine
<1> QED
  BY <1>4, <1>5

Moves(g, all, m, n) ==
    g = [i \in 0..n |-> IF i = 0 THEN [s \in 0..m - 1 |-> << >>] ELSE Pushed(g[i - 1], all[i])]

LEMMA MovesExists ==
    ASSUME NEW all, NEW size, NEW n \in Nat
    PROVE  \E g : Moves(g, all, size, n)
<1> DEFINE Bad == {m \in Nat : ~\E g : Moves(g, all, size, m)}
           Base == [s \in 0..size - 1 |-> << >>]
<1> SUFFICES ASSUME n \in Bad PROVE FALSE
  OBVIOUS
<1>1. PICK m \in Bad : \A j \in Bad : m <= j
  <2>1. Bad \in SUBSET Nat /\ Bad # {}
    OBVIOUS
  <2> HIDE DEF Bad
  <2> QED
    BY LeastMember, <2>1, Zenon
<1>2. CASE m = 0
  <2>1. \A i \in 0..0 : i = 0
    OBVIOUS
  <2>2. Moves([i \in 0..0 |-> Base], all, size, 0)
    BY <2>1, Zenon DEF Moves
  <2> QED
    BY <1>2, <2>2
<1>3. CASE m # 0
  <2>1. m - 1 \in Nat /\ m - 1 \notin Bad
    BY <1>1, <1>3
  <2>2. PICK k : Moves(k, all, size, m - 1)
    BY <2>1
  <2> DEFINE g == [i \in 0..m |-> IF i < m THEN k[i] ELSE Pushed(k[m - 1], all[m])]
  <2> HIDE DEF Base
  <2>3. ASSUME NEW i \in 0..m
        PROVE  g[i] = IF i = 0 THEN Base ELSE Pushed(g[i - 1], all[i])
    <3>1. CASE i < m
      <4>1. i \in 0..m - 1
        BY <2>1, <3>1
      <4>2. k[i] = IF i = 0 THEN Base ELSE Pushed(k[i - 1], all[i])
        BY <2>2, <4>1, Zenon DEF Moves, Base
      <4> QED
        BY <3>1, <4>1, <4>2
    <3>2. CASE i = m
      BY <1>3, <3>2
    <3> QED
      BY <3>1, <3>2
  <2>4. Moves(g, all, size, m)
    BY <2>3, Zenon DEF Moves, Base
  <2> QED
    BY <2>4
<1> QED
  BY <1>2, <1>3

LEMMA EmptyTable ==
    ASSUME NEW m \in Nat
    PROVE  TableOf([s \in 0..m - 1 |-> << >>], m) /\ Stored([s \in 0..m - 1 |-> << >>]) = {}
<1> DEFINE t == [s \in 0..m - 1 |-> << >>]
<1>1. << >> \in Seq(EntrySet) /\ Len(<< >>) = 0
  OBVIOUS
<1>2. t \in [0..m - 1 -> Seq(EntrySet)] /\ \A s \in 0..m - 1 : t[s] = << >>
  BY <1>1
<1> HIDE DEF t
<1>3. \A s \in 0..m - 1 : 1..Len(t[s]) = {}
  BY <1>1, <1>2
<1>4. TableOf(t, m)
  BY <1>2, <1>3 DEF TableOf, NoDup
<1>5. Stored(t) = {}
  BY <1>3, <1>4, StoredIs
<1> QED
  BY <1>4, <1>5 DEF t

\* The new table holds what the old one held, each entry in its new slot.
LEMMA ExpandRight ==
    ASSUME HashRight, NEW t, NEW n, TableOf(t, n), NEW m \in Nat, m # 0
    PROVE  TableOf(dictExpand(t, m), m) /\ Stored(dictExpand(t, m)) = Stored(t)
<1>1. PICK all \in Seq(EntrySet) : all = Entries(t) /\ NoDup(all) /\ Members(all) = Stored(t)
  BY EntriesRight
<1>2. Len(all) \in Nat
  OBVIOUS
<1>3. PICK g : Moves(g, all, m, Len(all)) /\ dictExpand(t, m) = g[Len(all)]
  <2>1. \E g : Moves(g, all, m, Len(all))
    BY <1>2, MovesExists
  <2>2. Moves(CHOOSE g : Moves(g, all, m, Len(all)), all, m, Len(all))
    BY <2>1, Zenon
  <2>3. dictExpand(t, m) = (CHOOSE g : Moves(g, all, m, Len(all)))[Len(all)]
    BY <1>1, Zenon DEF dictExpand, Moves
  <2> QED
    BY <2>2, <2>3, Zenon
<1> DEFINE Base == [s \in 0..m - 1 |-> << >>]
<1>4. \A i \in 0..Len(all) : g[i] = IF i = 0 THEN Base ELSE Pushed(g[i - 1], all[i])
  BY <1>3, Zenon DEF Moves
<1>5. TableOf(Base, m) /\ Stored(Base) = {}
  BY EmptyTable
<1> HIDE DEF Base
<1> DEFINE First(i) == {all[j] : j \in 1..i}
           Fine(i) == TableOf(g[i], m) /\ Stored(g[i]) = First(i)
           Bad == {i \in 0..Len(all) : ~Fine(i)}
<1>6. Fine(0)
  <2>1. 0 \in 0..Len(all) /\ First(0) = {}
    BY <1>2
  <2> HIDE DEF First
  <2> QED
    BY <1>4, <1>5, <2>1
<1>7. ASSUME NEW i \in 1..Len(all), Fine(i - 1) PROVE Fine(i)
  <2>1. i \in 0..Len(all) /\ i # 0 /\ all[i] \in EntrySet
    OBVIOUS
  <2>2. PICK u : u = g[i - 1] /\ TableOf(u, m) /\ Stored(u) = First(i - 1)
    BY <1>7
  <2>3. g[i] = Pushed(u, all[i])
    BY <1>4, <2>1, <2>2
  <2>4. ASSUME NEW f \in Stored(u) PROVE f.key # all[i].key
    <3>1. PICK j \in 1..i - 1 : f = all[j]
      BY <2>2
    <3>2. j \in 1..Len(all) /\ j # i
      OBVIOUS
    <3> QED
      BY <1>1, <3>1, <3>2 DEF NoDup
  <2>5. TableOf(Pushed(u, all[i]), m) /\ Stored(Pushed(u, all[i])) = Stored(u) \union {all[i]}
    BY <2>1, <2>2, <2>4, PushedRight
  <2>6. First(i) = First(i - 1) \union {all[i]}
    <3>1. 1..i = (1..i - 1) \union {i}
      OBVIOUS
    <3> QED
      BY <3>1
  <2> HIDE DEF First
  <2> QED
    BY <2>2, <2>3, <2>5, <2>6
<1>8. First(Len(all)) = Stored(t)
  BY <1>1, Zenon DEF Members
<1> HIDE DEF Fine
<1>9. ASSUME Bad # {} PROVE FALSE
  <2>1. PICK i \in Bad : \A j \in Bad : i <= j
    <3>1. Bad \in SUBSET Nat
      BY <1>2
    <3> HIDE DEF Bad
    <3> QED
      BY LeastMember, <3>1, <1>9, Zenon
  <2>2. i \in 0..Len(all) /\ ~Fine(i) /\ i # 0
    BY <1>6, <2>1
  <2>3. i \in 1..Len(all) /\ i - 1 \in 0..Len(all) /\ i - 1 \notin Bad
    BY <1>2, <2>1, <2>2
  <2>4. Fine(i - 1)
    BY <2>3
  <2> QED
    BY <1>7, <2>2, <2>3, <2>4
<1>10. Fine(Len(all))
  BY <1>2, <1>9
<1> QED
  BY <1>3, <1>8, <1>10 DEF Fine

LEMMA ExpandedRight ==
    ASSUME HashRight, NEW n, TableOf(table, n), used \in Int
    PROVE  \E m \in Nat : m # 0 /\ TableOf(Expanded, m) /\ Stored(Expanded) = Stored(table)
<1>1. n \in Nat /\ Size(table) = n
  BY SizeIs DEF TableOf
<1>2. CASE n = 0
  <2>1. PICK m \in Nat : m = DICT_HT_INITIAL_SIZE /\ m # 0
    BY DEF HashRight
  <2>2. Expanded = dictExpand(table, m)
    BY <1>1, <1>2, <2>1 DEF Expanded
  <2> QED
    BY <2>1, <2>2, ExpandRight
<1>3. CASE n # 0 /\ n = used
  <2>1. PICK m \in Nat : m = 2 * used /\ m # 0
    BY <1>1, <1>3
  <2>2. Expanded = dictExpand(table, m)
    <3>1. used > 0 /\ ~(Size(table) = 0)
      BY <1>1, <1>3
    <3> QED
      BY <1>1, <1>3, <2>1, <3>1 DEF Expanded
  <2> QED
    BY <2>1, <2>2, ExpandRight
<1>4. CASE n # 0 /\ n # used
  <2>1. Expanded = table
    BY <1>1, <1>4 DEF Expanded
  <2> QED
    BY <1>1, <1>4, <2>1
<1> QED
  BY <1>2, <1>3, <1>4

-----------------------------------------------------------------------------
(* What the calls do to the entries.                                        *)

Has(t, k) == \E e \in Stored(t) : e.key = k

LEMMA EntryIs ==
    ASSUME NEW k \in Keys, NEW v \in Values
    PROVE  Entry(k, v) \in EntrySet /\ Entry(k, v).key = k /\ Entry(k, v).val = v
<1>1. Entry(k, v) = [key |-> k, val |-> v]
  BY DEF Entry
<1> QED
  BY <1>1 DEF EntrySet

LEMMA AddedRight ==
    ASSUME HashRight, NEW t, NEW n, TableOf(t, n), n # 0, NEW k \in Keys, NEW v \in Values
    PROVE  /\ TableOf(Added(t, k, v), n)
           /\ Stored(Added(t, k, v)) = IF Has(t, k) THEN Stored(t) ELSE Stored(t) \union {Entry(k, v)}
<1>1. There(t, k) <=> Has(t, k)
  BY ThereIs DEF Has
<1>2. PICK e \in EntrySet : e = Entry(k, v) /\ e.key = k
  BY EntryIs
<1>3. CASE Has(t, k)
  BY <1>1, <1>3 DEF Added
<1>4. CASE ~Has(t, k)
  <2>1. \A f \in Stored(t) : f.key # e.key
    BY <1>2, <1>4 DEF Has
  <2>2. TableOf(Pushed(t, e), n) /\ Stored(Pushed(t, e)) = Stored(t) \union {e}
    BY <2>1, PushedRight
  <2> QED
    BY <1>1, <1>2, <1>4, <2>2 DEF Added
<1> QED
  BY <1>3, <1>4

LEMMA ChangedRight ==
    ASSUME HashRight, NEW t, NEW n, TableOf(t, n), NEW k \in Keys, NEW v \in Values, Has(t, k)
    PROVE  /\ TableOf(Changed(t, k, v), n)
           /\ Stored(Changed(t, k, v)) = {f \in Stored(t) : f.key # k} \union {Entry(k, v)}
<1>1. There(t, k) /\ Size(t) = n
  BY ThereIs, SizeIs DEF Has
<1>2. PICK s \in 0..n - 1 : s = Slot(k, n)
  BY <1>1, ThereIs
<1>3. PICK q \in Seq(EntrySet) : q = t[s] /\ NoDup(q) /\ \A i \in 1..Len(q) : Slot(q[i].key, n) = s
  BY DEF TableOf
<1>4. PICK p \in 1..Len(q) : p = Found(q, k) /\ q[p].key = k
  BY <1>1, <1>2, <1>3, ThereIs
<1>5. PICK e \in EntrySet : e = Entry(k, v) /\ e.key = k
  BY EntryIs
<1>6. PICK r \in Seq(EntrySet) : /\ r = [q EXCEPT ![p] = e] /\ Len(r) = Len(q)
                                 /\ \A i \in 1..Len(q) : r[i] = IF i = p THEN e ELSE q[i]
  <2>1. /\ [q EXCEPT ![p] = e] \in Seq(EntrySet) /\ Len([q EXCEPT ![p] = e]) = Len(q)
        /\ \A i \in 1..Len(q) : [q EXCEPT ![p] = e][i] = IF i = p THEN e ELSE q[i]
    BY ExceptSeq
  <2> QED
    BY <2>1
<1>7. \A i \in 1..Len(q) : r[i].key = q[i].key
  BY <1>4, <1>5, <1>6
<1>8. NoDup(r) /\ \A i \in 1..Len(r) : Slot(r[i].key, n) = s
  BY <1>3, <1>6, <1>7 DEF NoDup
<1>9. TableOf([t EXCEPT ![s] = r], n)
  BY <1>8, ChainChanged
<1>10. \A f : f \in Stored([t EXCEPT ![s] = r])
               <=> (\E i \in 1..Len(r) : r[i] = f) \/ (f \in Stored(t) /\ Slot(f.key, n) # s)
  BY <1>8, ChainChanged
<1>11. Changed(t, k, v) = [t EXCEPT ![s] = r]
  BY <1>1, <1>2, <1>3, <1>4, <1>5, <1>6 DEF Changed
<1>12. ASSUME NEW f
       PROVE  f \in Stored([t EXCEPT ![s] = r])
                 <=> f \in {g \in Stored(t) : g.key # k} \union {e}
  <2>1. ASSUME NEW i \in 1..Len(r), r[i] = f
        PROVE  f \in {g \in Stored(t) : g.key # k} \union {e}
    <3>1. CASE i = p
      BY <1>6, <2>1, <3>1
    <3>2. CASE i # p
      <4>1. r[i] = q[i] /\ q[i].key # k /\ i \in 1..Len(q)
        BY <1>3, <1>4, <1>6, <3>2 DEF NoDup
      <4>2. q[i] \in Stored(t)
        BY <1>3, <4>1, StoredIs
      <4> QED
        BY <2>1, <4>1, <4>2
    <3> QED
      BY <3>1, <3>2
  <2>2. ASSUME f \in Stored(t), f.key # k, Slot(f.key, n) = s
        PROVE  \E i \in 1..Len(r) : r[i] = f
    <3>1. PICK i \in 1..Len(q) : q[i] = f
      BY <1>3, <2>2, StoredAt
    <3>2. i # p
      BY <1>4, <2>2, <3>1
    <3> QED
      BY <1>6, <3>1, <3>2
  <2>3. p \in 1..Len(r) /\ r[p] = e
    BY <1>6
  <2>4. \A g \in Stored(t) : Slot(g.key, n) # s => g.key # k
    BY <1>2
  <2> QED
    BY <1>10, <2>1, <2>2, <2>3, <2>4
<1>13. Stored([t EXCEPT ![s] = r]) = {g \in Stored(t) : g.key # k} \union {e}
  BY <1>12
<1> QED
  BY <1>5, <1>9, <1>11, <1>13

\* An element goes; the others keep their order.
LEMMA RemovedAt ==
    ASSUME NEW q \in Seq(EntrySet), NEW p \in 1..Len(q)
    PROVE  /\ RemoveAt(q, p) \in Seq(EntrySet) /\ Len(RemoveAt(q, p)) = Len(q) - 1
           /\ \A i \in 1..Len(q) - 1 : RemoveAt(q, p)[i] = IF i < p THEN q[i] ELSE q[i + 1]
<1> DEFINE a == SubSeq(q, 1, p - 1)
           b == SubSeq(q, p + 1, Len(q))
<1>1. Len(q) \in Nat
  OBVIOUS
<1>2. a \in Seq(EntrySet) /\ Len(a) = p - 1 /\ \A i \in 1..p - 1 : a[i] = q[i]
  OBVIOUS
<1>3. b \in Seq(EntrySet) /\ Len(b) = Len(q) - p /\ \A i \in 1..Len(q) - p : b[i] = q[p + i]
  OBVIOUS
<1> HIDE DEF a, b
<1>4. PICK r \in Seq(EntrySet) :
         /\ r = a \o b /\ Len(r) = Len(a) + Len(b)
         /\ \A i \in 1..Len(a) + Len(b) : r[i] = IF i <= Len(a) THEN a[i] ELSE b[i - Len(a)]
  <2>1. /\ a \o b \in Seq(EntrySet) /\ Len(a \o b) = Len(a) + Len(b)
        /\ \A i \in 1..Len(a) + Len(b) : (a \o b)[i] = IF i <= Len(a) THEN a[i] ELSE b[i - Len(a)]
    BY <1>2, <1>3, ConcatProperties
  <2> QED
    BY <2>1, Zenon
<1>5. ASSUME NEW i \in 1..Len(q) - 1
      PROVE  r[i] = IF i < p THEN q[i] ELSE q[i + 1]
  <2>1. i \in 1..Len(a) + Len(b)
    BY <1>1, <1>2, <1>3
  <2>2. CASE i < p
    BY <1>2, <1>4, <2>1, <2>2
  <2>3. CASE ~(i < p)
    <3>1. /\ ~(i <= Len(a)) /\ i - (p - 1) \in 1..Len(q) - p /\ i - Len(a) = i - (p - 1)
          /\ p + (i - (p - 1)) = i + 1
      BY <1>1, <1>2, <2>3
    <3>2. b[i - (p - 1)] = q[p + (i - (p - 1))]
      BY <1>3, <3>1
    <3> QED
      BY <1>4, <2>1, <2>3, <3>1, <3>2
  <2> QED
    BY <2>2, <2>3
<1>6. r = RemoveAt(q, p)
  BY <1>4 DEF RemoveAt, a, b
<1>7. Len(r) = Len(q) - 1
  BY <1>1, <1>2, <1>3, <1>4
<1> QED
  BY <1>4, <1>5, <1>6, <1>7

LEMMA RemovedRight ==
    ASSUME HashRight, NEW t, NEW n, TableOf(t, n), NEW k \in Keys, Has(t, k)
    PROVE  TableOf(Removed(t, k), n) /\ Stored(Removed(t, k)) = {f \in Stored(t) : f.key # k}
<1>1. There(t, k) /\ Size(t) = n
  BY ThereIs, SizeIs DEF Has
<1>2. PICK s \in 0..n - 1 : s = Slot(k, n)
  BY <1>1, ThereIs
<1>3. PICK q \in Seq(EntrySet) : q = t[s] /\ NoDup(q) /\ \A i \in 1..Len(q) : Slot(q[i].key, n) = s
  BY DEF TableOf
<1>4. PICK p \in 1..Len(q) : p = Found(q, k) /\ q[p].key = k
  BY <1>1, <1>2, <1>3, ThereIs
<1>5. PICK r \in Seq(EntrySet) : /\ r = RemoveAt(q, p) /\ Len(r) = Len(q) - 1
                                 /\ \A i \in 1..Len(q) - 1 : r[i] = IF i < p THEN q[i] ELSE q[i + 1]
  BY RemovedAt
<1>6. PICK m \in Nat : m = Len(q) /\ p \in 1..m
  BY <1>4
<1>7. ASSUME NEW i \in 1..Len(r)
      PROVE  \E x \in 1..Len(q) : x # p /\ r[i] = q[x] /\ x = IF i < p THEN i ELSE i + 1
  BY <1>5, <1>6
<1>8. ASSUME NEW x \in 1..Len(q), x # p
      PROVE  \E i \in 1..Len(r) : r[i] = q[x]
  <2>1. CASE x < p
    BY <1>5, <1>6, <2>1
  <2>2. CASE x > p
    <3>1. x - 1 \in 1..Len(r) /\ ~(x - 1 < p) /\ (x - 1) + 1 = x
      BY <1>5, <1>6, <2>2
    <3> QED
      BY <1>5, <3>1
  <2> QED
    BY <1>8, <2>1, <2>2
<1>9. NoDup(r)
  <2> SUFFICES ASSUME NEW i \in 1..Len(r), NEW j \in 1..Len(r), r[i].key = r[j].key
               PROVE  i = j
    BY DEF NoDup
  <2>1. PICK x \in 1..Len(q) : r[i] = q[x] /\ x = IF i < p THEN i ELSE i + 1
    BY <1>7
  <2>2. PICK y \in 1..Len(q) : r[j] = q[y] /\ y = IF j < p THEN j ELSE j + 1
    BY <1>7
  <2>3. x = y
    BY <1>3, <2>1, <2>2 DEF NoDup
  <2> QED
    BY <1>5, <1>6, <2>1, <2>2, <2>3
<1>10. \A i \in 1..Len(r) : Slot(r[i].key, n) = s
  BY <1>3, <1>7
<1>11. TableOf([t EXCEPT ![s] = r], n)
  BY <1>9, <1>10, ChainChanged
<1>12. \A f : f \in Stored([t EXCEPT ![s] = r])
               <=> (\E i \in 1..Len(r) : r[i] = f) \/ (f \in Stored(t) /\ Slot(f.key, n) # s)
  BY <1>9, <1>10, ChainChanged
<1>13. Removed(t, k) = [t EXCEPT ![s] = r]
  BY <1>1, <1>2, <1>3, <1>4, <1>5 DEF Removed
<1>14. ASSUME NEW f
       PROVE  f \in Stored([t EXCEPT ![s] = r]) <=> f \in {g \in Stored(t) : g.key # k}
  <2>1. ASSUME NEW i \in 1..Len(r), r[i] = f
        PROVE  f \in {g \in Stored(t) : g.key # k}
    <3>1. PICK x \in 1..Len(q) : x # p /\ f = q[x]
      BY <1>7, <2>1
    <3>2. q[x].key # k /\ q[x] \in Stored(t)
      BY <1>3, <1>4, <3>1, StoredIs DEF NoDup
    <3> QED
      BY <3>1, <3>2
  <2>2. ASSUME f \in Stored(t), f.key # k, Slot(f.key, n) = s
        PROVE  \E i \in 1..Len(r) : r[i] = f
    <3>1. PICK x \in 1..Len(q) : q[x] = f
      BY <1>3, <2>2, StoredAt
    <3>2. x # p
      BY <1>4, <2>2, <3>1
    <3> QED
      BY <1>8, <3>1, <3>2
  <2>3. \A g \in Stored(t) : Slot(g.key, n) # s => g.key # k
    BY <1>2
  <2> QED
    BY <1>12, <2>1, <2>2, <2>3
<1>15. Stored([t EXCEPT ![s] = r]) = {g \in Stored(t) : g.key # k}
  BY <1>14
<1> QED
  BY <1>11, <1>13, <1>15

-----------------------------------------------------------------------------
(* The entries as a map.                                                    *)

MapOf(S) == [k \in {e.key : e \in S} |-> (CHOOSE e \in S : e.key = k).val]

Unique(S) == S \subseteq EntrySet /\ \A e, f \in S : e.key = f.key => e = f

LEMMA StoredUnique ==
    ASSUME HashRight, NEW t, NEW n, TableOf(t, n)
    PROVE  Unique(Stored(t))
<1>1. \A e \in Stored(t) : e \in EntrySet
  BY StoredAt
<1>2. \A e, f \in Stored(t) : e.key = f.key => e = f
  BY StoredOnce
<1> QED
  BY <1>1, <1>2 DEF Unique

LEMMA MapAt ==
    ASSUME NEW S, Unique(S), NEW e \in S
    PROVE  e.key \in DOMAIN MapOf(S) /\ MapOf(S)[e.key] = e.val
<1>1. e.key \in {f.key : f \in S}
  OBVIOUS
<1>2. PICK g : g = CHOOSE f \in S : f.key = e.key
  OBVIOUS
<1>3. g \in S /\ g.key = e.key
  BY <1>2, Zenon
<1>4. g = e
  BY <1>3 DEF Unique
<1>5. MapOf(S)[e.key] = (CHOOSE f \in S : f.key = e.key).val
  BY <1>1, Zenon DEF MapOf
<1> QED
  BY <1>1, <1>2, <1>4, <1>5 DEF MapOf

LEMMA MapIsFunction ==
    ASSUME NEW S
    PROVE  MapOf(S) = [k \in {e.key : e \in S} |-> MapOf(S)[k]]
  BY DEF MapOf

\* A map is what its entries say.
LEMMA MapIs ==
    ASSUME NEW S, Unique(S), NEW F, F = [k \in DOMAIN F |-> F[k]],
           \A k : k \in DOMAIN F <=> \E e \in S : e.key = k,
           \A e \in S : e.val = F[e.key]
    PROVE  MapOf(S) = F
<1>1. {e.key : e \in S} = DOMAIN F
  OBVIOUS
<1>2. ASSUME NEW k \in DOMAIN F PROVE MapOf(S)[k] = F[k]
  <2>1. PICK e \in S : e.key = k
    OBVIOUS
  <2> QED
    BY <2>1, MapAt
<1>3. MapOf(S) = [k \in DOMAIN F |-> MapOf(S)[k]]
  BY <1>1, MapIsFunction
<1> QED
  BY <1>2, <1>3

LEMMA MapDomain ==
    ASSUME NEW S
    PROVE  /\ DOMAIN MapOf(S) = {e.key : e \in S}
           /\ \A k : k \in DOMAIN MapOf(S) <=> \E e \in S : e.key = k
  BY DEF MapOf

LEMMA MapOfNone == MapOf({}) = << >>
  BY DEF MapOf

\* An entry takes the place of the one with its key, if there is one.
LEMMA MapPut ==
    ASSUME NEW S, Unique(S), NEW k \in Keys, NEW v \in Values
    PROVE  MapOf({f \in S : f.key # k} \union {Entry(k, v)})
              = [x \in DOMAIN MapOf(S) \union {k} |-> IF x = k THEN v ELSE MapOf(S)[x]]
<1> DEFINE T == {f \in S : f.key # k} \union {Entry(k, v)}
           F == [x \in DOMAIN MapOf(S) \union {k} |-> IF x = k THEN v ELSE MapOf(S)[x]]
<1>1. PICK e \in EntrySet : e = Entry(k, v) /\ e.key = k /\ e.val = v
  BY EntryIs
<1>2. Unique(T)
  BY <1>1 DEF Unique
<1>3. DOMAIN F = DOMAIN MapOf(S) \union {k} /\ F = [x \in DOMAIN F |-> F[x]]
  OBVIOUS
<1>4. ASSUME NEW f \in T PROVE f.key \in DOMAIN F /\ f.val = F[f.key]
  <2>1. CASE f = e
    BY <1>1, <2>1
  <2>2. CASE f \in S /\ f.key # k
    <3>1. f.key \in DOMAIN MapOf(S) /\ MapOf(S)[f.key] = f.val
      BY <2>2, MapAt
    <3> QED
      BY <2>2, <3>1
  <2> QED
    BY <1>1, <2>1, <2>2
<1>5. ASSUME NEW x \in DOMAIN F PROVE \E f \in T : f.key = x
  <2>1. CASE x = k
    BY <1>1, <2>1
  <2>2. CASE x # k
    <3>1. x \in DOMAIN MapOf(S)
      BY <2>2
    <3>2. PICK f \in S : f.key = x
      BY <3>1, MapDomain
    <3> QED
      BY <2>2, <3>2
  <2> QED
    BY <2>1, <2>2
<1> HIDE DEF T, F
<1>6. \A x : x \in DOMAIN F <=> \E f \in T : f.key = x
  BY <1>4, <1>5
<1>7. \A f \in T : f.val = F[f.key]
  BY <1>4
<1>8. MapOf(T) = F
  BY <1>2, <1>3, <1>6, <1>7, MapIs
<1> QED
  BY <1>8 DEF T, F

LEMMA MapDrop ==
    ASSUME NEW S, Unique(S), NEW k
    PROVE  MapOf({f \in S : f.key # k}) = [x \in DOMAIN MapOf(S) \ {k} |-> MapOf(S)[x]]
<1> DEFINE T == {f \in S : f.key # k}
           F == [x \in DOMAIN MapOf(S) \ {k} |-> MapOf(S)[x]]
<1>1. Unique(T)
  BY DEF Unique
<1>2. DOMAIN F = DOMAIN MapOf(S) \ {k} /\ F = [x \in DOMAIN F |-> F[x]]
  OBVIOUS
<1>3. ASSUME NEW f \in T PROVE f.key \in DOMAIN F /\ f.val = F[f.key]
  <2>1. f.key \in DOMAIN MapOf(S) /\ MapOf(S)[f.key] = f.val
    BY MapAt
  <2> QED
    BY <2>1
<1>4. ASSUME NEW x \in DOMAIN F PROVE \E f \in T : f.key = x
  <2>1. x \in DOMAIN MapOf(S) /\ x # k
    OBVIOUS
  <2>2. PICK f \in S : f.key = x
    BY <2>1, MapDomain
  <2> QED
    BY <2>1, <2>2
<1> HIDE DEF T, F
<1>5. \A x : x \in DOMAIN F <=> \E f \in T : f.key = x
  BY <1>3, <1>4
<1>6. \A f \in T : f.val = F[f.key]
  BY <1>3
<1>7. MapOf(T) = F
  BY <1>1, <1>2, <1>5, <1>6, MapIs
<1> QED
  BY <1>7 DEF T, F

-----------------------------------------------------------------------------
(* The table through the calls.                                             *)

TableRight == /\ \E n : TableOf(table, n)
              /\ IsFiniteSet(Stored(table)) /\ used = Cardinality(Stored(table))

LEMMA CountsNew ==
    ASSUME NEW S, IsFiniteSet(S), NEW k, NEW v, \A e \in S : e.key # k
    PROVE  /\ IsFiniteSet(S \union {Entry(k, v)})
           /\ Cardinality(S \union {Entry(k, v)}) = Cardinality(S) + 1
           /\ S \union {Entry(k, v)} = {f \in S : f.key # k} \union {Entry(k, v)}
<1>1. Entry(k, v).key = k
  BY DEF Entry
<1>2. Entry(k, v) \notin S
  BY <1>1
<1>3. {f \in S : f.key # k} = S
  OBVIOUS
<1> QED
  BY <1>2, <1>3, FS_AddElement

LEMMA CountsKnown ==
    ASSUME NEW S, Unique(S), IsFiniteSet(S), NEW k, \E e \in S : e.key = k
    PROVE  /\ IsFiniteSet({f \in S : f.key # k})
           /\ Cardinality({f \in S : f.key # k}) = Cardinality(S) - 1
<1>1. PICK e \in S : e.key = k
  OBVIOUS
<1>2. {f \in S : f.key # k} = S \ {e}
  BY <1>1 DEF Unique
<1> QED
  BY <1>2, FS_RemoveElement

LEMMA CountsChanged ==
    ASSUME NEW S, Unique(S), IsFiniteSet(S), NEW k, NEW v, \E e \in S : e.key = k
    PROVE  /\ IsFiniteSet({f \in S : f.key # k} \union {Entry(k, v)})
           /\ Cardinality({f \in S : f.key # k} \union {Entry(k, v)}) = Cardinality(S)
<1>1. PICK T : /\ T = {f \in S : f.key # k} /\ IsFiniteSet(T)
               /\ Cardinality(T) = Cardinality(S) - 1
  BY CountsKnown
<1>2. IsFiniteSet(T \union {Entry(k, v)}) /\ Cardinality(T \union {Entry(k, v)}) = Cardinality(T) + 1
  BY <1>1, CountsNew
<1>3. Cardinality(S) \in Nat
  BY FS_CardinalityType
<1> QED
  BY <1>1, <1>2, <1>3

LEMMA PutRight ==
    ASSUME HashRight, TableRight, NEW k \in Keys, NEW v \in Values
    PROVE  /\ There(table, k) <=> Has(table, k)
           /\ \E m : /\ TableOf(Added(Expanded, k, v), m)
                     /\ Stored(Added(Expanded, k, v))
                           = IF Has(table, k) THEN Stored(table)
                             ELSE Stored(table) \union {Entry(k, v)}
                     /\ Has(table, k)
                           => /\ TableOf(Changed(Added(Expanded, k, v), k, v), m)
                              /\ Stored(Changed(Added(Expanded, k, v), k, v))
                                    = {f \in Stored(table) : f.key # k} \union {Entry(k, v)}
<1>1. PICK n : TableOf(table, n)
  BY DEF TableRight
<1>2. used \in Int
  BY FS_CardinalityType DEF TableRight
<1>3. There(table, k) <=> Has(table, k)
  BY <1>1, ThereIs DEF Has
<1>4. PICK m \in Nat : m # 0 /\ TableOf(Expanded, m) /\ Stored(Expanded) = Stored(table)
  BY <1>1, <1>2, ExpandedRight
<1>5. Has(Expanded, k) <=> Has(table, k)
  BY <1>4 DEF Has
<1>6. PICK t : t = Added(Expanded, k, v)
  OBVIOUS
<1>7. TableOf(t, m)
  BY <1>4, <1>6, AddedRight
<1>8. Stored(t) = IF Has(table, k) THEN Stored(table) ELSE Stored(table) \union {Entry(k, v)}
  <2>1. Stored(Added(Expanded, k, v))
           = IF Has(Expanded, k) THEN Stored(Expanded) ELSE Stored(Expanded) \union {Entry(k, v)}
    BY <1>4, AddedRight
  <2> QED
    BY <1>4, <1>5, <1>6, <2>1
<1>9. ASSUME Has(table, k)
      PROVE  /\ TableOf(Changed(t, k, v), m)
             /\ Stored(Changed(t, k, v)) = {f \in Stored(table) : f.key # k} \union {Entry(k, v)}
  <2>1. Stored(t) = Stored(table) /\ Has(t, k)
    BY <1>8, <1>9 DEF Has
  <2>2. TableOf(Changed(t, k, v), m)
    BY <1>7, <2>1, ChangedRight
  <2>3. Stored(Changed(t, k, v)) = {f \in Stored(t) : f.key # k} \union {Entry(k, v)}
    BY <1>7, <2>1, ChangedRight
  <2> QED
    BY <2>1, <2>2, <2>3
<1> QED
  BY <1>3, <1>6, <1>7, <1>8, <1>9

\* The entries after a call, and that they are counted.
Becomes(S) == Stored(table') = S /\ TableRight'

LEMMA AddStep ==
    ASSUME HashRight, TableRight, NEW k \in Keys, NEW v \in Values, dictAdd(k, v)
    PROVE  /\ Becomes(IF Has(table, k) THEN Stored(table)
                      ELSE {f \in Stored(table) : f.key # k} \union {Entry(k, v)})
           /\ answer' = ~Has(table, k)
<1> DEFINE S == Stored(table)
<1>1. Unique(S) /\ IsFiniteSet(S) /\ used = Cardinality(S)
  BY StoredUnique DEF TableRight
<1>2. There(table, k) <=> Has(table, k)
  BY PutRight
<1>3. PICK m : /\ TableOf(table', m)
               /\ Stored(table') = IF Has(table, k) THEN S ELSE S \union {Entry(k, v)}
  <2>1. table' = Added(Expanded, k, v)
    BY DEF dictAdd
  <2>2. \E m : /\ TableOf(Added(Expanded, k, v), m)
               /\ Stored(Added(Expanded, k, v))
                     = IF Has(table, k) THEN Stored(table) ELSE Stored(table) \union {Entry(k, v)}
    BY PutRight
  <2> QED
    BY <2>1, <2>2
<1>4. used' = IF Has(table, k) THEN used ELSE used + 1
  BY <1>2 DEF dictAdd
<1>5. answer' = ~Has(table, k)
  BY <1>2 DEF dictAdd
<1> HIDE DEF S
<1>6. CASE Has(table, k)
  <2>1. Stored(table') = S
    BY <1>3, <1>6
  <2>2. TableRight'
    BY <1>1, <1>3, <1>4, <1>6, <2>1 DEF TableRight
  <2> QED
    BY <1>5, <1>6, <2>1, <2>2 DEF Becomes, S
<1>7. CASE ~Has(table, k)
  <2>1. \A e \in S : e.key # k
    BY <1>7 DEF Has, S
  <2>2. /\ IsFiniteSet(S \union {Entry(k, v)})
        /\ Cardinality(S \union {Entry(k, v)}) = Cardinality(S) + 1
        /\ S \union {Entry(k, v)} = {f \in S : f.key # k} \union {Entry(k, v)}
    BY <1>1, <2>1, CountsNew
  <2>3. Stored(table') = S \union {Entry(k, v)}
    BY <1>3, <1>7
  <2>4. TableRight'
    BY <1>1, <1>3, <1>4, <1>7, <2>2, <2>3 DEF TableRight
  <2> QED
    BY <1>5, <1>7, <2>2, <2>3, <2>4 DEF Becomes, S
<1> QED
  BY <1>6, <1>7

LEMMA ReplaceStep ==
    ASSUME HashRight, TableRight, NEW k \in Keys, NEW v \in Values, dictReplace(k, v)
    PROVE  /\ Becomes({f \in Stored(table) : f.key # k} \union {Entry(k, v)})
           /\ answer' = ~Has(table, k)
<1> DEFINE S == Stored(table)
<1>1. Unique(S) /\ IsFiniteSet(S) /\ used = Cardinality(S)
  BY StoredUnique DEF TableRight
<1>2. There(table, k) <=> Has(table, k)
  BY PutRight
<1>3. PICK t, m : /\ t = Added(Expanded, k, v) /\ TableOf(t, m)
                  /\ Stored(t) = IF Has(table, k) THEN S ELSE S \union {Entry(k, v)}
                  /\ Has(table, k)
                       => /\ TableOf(Changed(t, k, v), m)
                          /\ Stored(Changed(t, k, v)) = {f \in S : f.key # k} \union {Entry(k, v)}
  BY PutRight
<1>4. table' = IF Has(table, k) THEN Changed(t, k, v) ELSE t
  BY <1>2, <1>3 DEF dictReplace
<1>5. used' = IF Has(table, k) THEN used ELSE used + 1
  BY <1>2 DEF dictReplace
<1>6. answer' = ~Has(table, k)
  BY <1>2 DEF dictReplace
<1> HIDE DEF S
<1>7. CASE Has(table, k)
  <2>1. TableOf(table', m) /\ Stored(table') = {f \in S : f.key # k} \union {Entry(k, v)}
    BY <1>3, <1>4, <1>7
  <2>2. /\ IsFiniteSet({f \in S : f.key # k} \union {Entry(k, v)})
        /\ Cardinality({f \in S : f.key # k} \union {Entry(k, v)}) = Cardinality(S)
    <3>1. \E e \in S : e.key = k
      BY <1>7 DEF Has, S
    <3> QED
      BY <1>1, <3>1, CountsChanged
  <2>3. TableRight'
    BY <1>1, <1>5, <1>7, <2>1, <2>2 DEF TableRight
  <2> QED
    BY <1>6, <2>1, <2>3 DEF Becomes, S
<1>8. CASE ~Has(table, k)
  <2>1. \A e \in S : e.key # k
    BY <1>8 DEF Has, S
  <2>2. /\ IsFiniteSet(S \union {Entry(k, v)})
        /\ Cardinality(S \union {Entry(k, v)}) = Cardinality(S) + 1
        /\ S \union {Entry(k, v)} = {f \in S : f.key # k} \union {Entry(k, v)}
    BY <1>1, <2>1, CountsNew
  <2>3. TableOf(table', m) /\ Stored(table') = S \union {Entry(k, v)}
    BY <1>3, <1>4, <1>8
  <2>4. TableRight'
    BY <1>1, <1>5, <1>8, <2>2, <2>3 DEF TableRight
  <2> QED
    BY <1>6, <2>2, <2>3, <2>4 DEF Becomes, S
<1> QED
  BY <1>7, <1>8

LEMMA DeleteStep ==
    ASSUME HashRight, TableRight, NEW k \in Keys, dictDelete(k)
    PROVE  Becomes({f \in Stored(table) : f.key # k}) /\ answer' = Has(table, k)
<1> DEFINE S == Stored(table)
<1>1. Unique(S) /\ IsFiniteSet(S) /\ used = Cardinality(S)
  BY StoredUnique DEF TableRight
<1>2. PICK n : TableOf(table, n)
  BY DEF TableRight
<1>3. There(table, k) <=> Has(table, k)
  BY <1>2, ThereIs DEF Has
<1>4. table' = IF Has(table, k) THEN Removed(table, k) ELSE table
  BY <1>3 DEF dictDelete
<1>5. used' = IF Has(table, k) THEN used - 1 ELSE used
  BY <1>3 DEF dictDelete
<1>6. answer' = Has(table, k)
  <2>1. There(table, k) = (Size(table) # 0 /\ Found(table[Slot(k, Size(table))], k) # 0)
    BY DEF There
  <2>2. CASE Has(table, k)
    <3>1. There(table, k) = TRUE /\ Has(table, k) = TRUE
      BY <1>3, <2>1, <2>2 DEF Has
    <3> QED
      BY <3>1 DEF dictDelete
  <2>3. CASE ~Has(table, k)
    <3>1. There(table, k) = FALSE /\ Has(table, k) = FALSE
      BY <1>3, <2>1, <2>3 DEF Has
    <3> QED
      BY <3>1 DEF dictDelete
  <2> QED
    BY <2>2, <2>3
<1>7. CASE Has(table, k)
  <2>1. TableOf(table', n) /\ Stored(table') = {f \in S : f.key # k}
    BY <1>2, <1>4, <1>7, RemovedRight
  <2> HIDE DEF S
  <2>2. IsFiniteSet({f \in S : f.key # k}) /\ Cardinality({f \in S : f.key # k}) = Cardinality(S) - 1
    <3>1. \E e \in S : e.key = k
      BY <1>7 DEF Has, S
    <3> QED
      BY <1>1, <3>1, CountsKnown
  <2>3. TableRight'
    BY <1>1, <1>5, <1>7, <2>1, <2>2 DEF TableRight
  <2> QED
    BY <1>6, <2>1, <2>3 DEF Becomes, S
<1>8. CASE ~Has(table, k)
  <2>1. {f \in S : f.key # k} = S
    BY <1>8 DEF Has
  <2>2. table' = table /\ used' = used
    BY <1>4, <1>5, <1>8
  <2>3. TableRight'
    BY <2>2 DEF TableRight
  <2> QED
    BY <1>6, <2>1, <2>2, <2>3 DEF Becomes
<1> QED
  BY <1>7, <1>8

LEMMA ClearStep ==
    /\ HashInit => TableRight /\ Stored(table) = {}
    /\ dictClear => Becomes({})
<1>1. TableOf(<< >>, 0) /\ Stored(<< >>) = {}
  <2>1. [s \in 0..0 - 1 |-> << >>] = << >>
    OBVIOUS
  <2>2. TableOf([s \in 0..0 - 1 |-> << >>], 0) /\ Stored([s \in 0..0 - 1 |-> << >>]) = {}
    BY EmptyTable
  <2> QED
    BY <2>1, <2>2
<1>2. IsFiniteSet({}) /\ Cardinality({}) = 0
  BY FS_EmptySet
<1>3. HashInit => TableRight /\ Stored(table) = {}
  BY <1>1, <1>2 DEF HashInit, TableRight
<1>4. dictClear => Becomes({})
  BY <1>1, <1>2 DEF dictClear, TableRight, Becomes
<1> QED
  BY <1>3, <1>4

LEMMA FindStep ==
    ASSUME HashRight, TableRight, NEW k \in Keys, dictFind(k)
    PROVE  /\ table' = table /\ used' = used
           /\ Has(table, k) => \E e \in Stored(table) : e.key = k /\ answer' = e.val
           /\ ~Has(table, k) => answer' = NotFound
<1>1. PICK n : TableOf(table, n)
  BY DEF TableRight
<1>2. There(table, k) <=> Has(table, k)
  BY <1>1, ThereIs DEF Has
<1>3. ASSUME Has(table, k) PROVE \E e \in Stored(table) : e.key = k /\ answer' = e.val
  <2>1. PICK q : q = table[Slot(k, n)] /\ q[Found(q, k)] \in Stored(table) /\ q[Found(q, k)].key = k
    BY <1>1, <1>2, <1>3, ThereIs
  <2>2. answer' = q[Found(q, k)].val
    BY <1>1, <1>2, <1>3, <2>1, SizeIs DEF dictFind
  <2> QED
    BY <2>1, <2>2
<1>4. table' = table /\ used' = used
  BY DEF dictFind
<1> QED
  BY <1>2, <1>3, <1>4 DEF dictFind

-----------------------------------------------------------------------------
(* The table is a map.                                                      *)

LEMMA ContentIs ==
    /\ Content = MapOf(Stored(table)) /\ Content' = MapOf(Stored(table'))
    /\ \A k : Has(table, k) <=> k \in DOMAIN Content
<1>1. Content = MapOf(Stored(table))
  BY Zenon DEF Content, MapOf
<1>2. Content' = MapOf(Stored(table'))
  BY Zenon DEF Content, MapOf
<1>3. \A k : Has(table, k) <=> k \in DOMAIN Content
  BY <1>1, MapDomain DEF Has
<1> QED
  BY <1>1, <1>2, <1>3

LEMMA TableInit ==
    ASSUME HashInit PROVE TableRight /\ Map!Init
<1>1. TableRight /\ Stored(table) = {}
  BY ClearStep
<1>2. Content = << >>
  BY <1>1, ContentIs, MapOfNone
<1> QED
  BY <1>1, <1>2 DEF HashInit, Map!Init

LEMMA TableStep ==
    ASSUME HashRight, TableRight, [HashNext]_hashVars
    PROVE  TableRight' /\ [Map!Next]_<<Content, answer>>
<1> DEFINE S == Stored(table)
           M == MapOf(S)
<1>1. Unique(S) /\ Content = M /\ (\A k : Has(table, k) <=> k \in DOMAIN M)
  BY StoredUnique, ContentIs DEF TableRight
<1>2. Content' = MapOf(Stored(table'))
  BY ContentIs
<1>3. ASSUME NEW k \in Keys, NEW v \in Values
      PROVE  MapOf({f \in S : f.key # k} \union {Entry(k, v)})
                = [x \in DOMAIN M \union {k} |-> IF x = k THEN v ELSE M[x]]
  BY <1>1, MapPut
<1>4. ASSUME NEW k PROVE MapOf({f \in S : f.key # k}) = [x \in DOMAIN M \ {k} |-> M[x]]
  BY <1>1, MapDrop
<1>5. ASSUME table' = table, used' = used PROVE TableRight' /\ Content' = Content
  BY <1>2, <1>1, <1>5 DEF TableRight
<1> HIDE DEF M
<1>6. ASSUME NEW k \in Keys, NEW v \in Values, dictAdd(k, v)
      PROVE  TableRight' /\ Map!Add(k, v)
  <2>1. /\ Becomes(IF Has(table, k) THEN S ELSE {f \in S : f.key # k} \union {Entry(k, v)})
        /\ answer' = ~Has(table, k)
    BY <1>6, AddStep
  <2>2. Content' = IF Has(table, k) THEN M
                   ELSE [x \in DOMAIN M \union {k} |-> IF x = k THEN v ELSE M[x]]
    BY <2>1, <1>2, <1>3 DEF Becomes, M
  <2>3. answer' = (k \notin DOMAIN M)
    BY <1>1, <2>1
  <2>4. Content' = IF k \in DOMAIN Content THEN Content
                   ELSE [x \in DOMAIN Content \union {k} |-> IF x = k THEN v ELSE Content[x]]
    BY <1>1, <2>2
  <2> QED
    BY <1>1, <2>1, <2>3, <2>4 DEF Becomes, Map!Add
<1>7. ASSUME NEW k \in Keys, NEW v \in Values, dictReplace(k, v)
      PROVE  TableRight' /\ Map!Replace(k, v)
  <2>1. Becomes({f \in S : f.key # k} \union {Entry(k, v)}) /\ answer' = ~Has(table, k)
    BY <1>7, ReplaceStep
  <2>2. Content' = [x \in DOMAIN M \union {k} |-> IF x = k THEN v ELSE M[x]]
    BY <2>1, <1>2, <1>3 DEF Becomes
  <2>3. answer' = (k \notin DOMAIN M)
    BY <1>1, <2>1
  <2> QED
    BY <1>1, <2>1, <2>2, <2>3 DEF Becomes, Map!Replace
<1>8. ASSUME NEW k \in Keys, dictDelete(k)
      PROVE  TableRight' /\ Map!Delete(k)
  <2>1. Becomes({f \in S : f.key # k}) /\ answer' = Has(table, k)
    BY <1>8, DeleteStep
  <2>2. Content' = [x \in DOMAIN M \ {k} |-> M[x]]
    BY <2>1, <1>2, <1>4 DEF Becomes
  <2>3. answer' = (k \in DOMAIN M)
    <3>1. CASE Has(table, k)
      <4>1. Has(table, k) = TRUE /\ k \in DOMAIN M
        BY <1>1, <3>1 DEF Has
      <4> QED
        BY <2>1, <4>1
    <3>2. CASE ~Has(table, k)
      <4>1. Has(table, k) = FALSE /\ (k \in DOMAIN M) = FALSE
        BY <1>1, <3>2 DEF Has
      <4> QED
        BY <2>1, <4>1
    <3> QED
      BY <3>1, <3>2
  <2> QED
    BY <1>1, <2>1, <2>2, <2>3 DEF Becomes, Map!Delete, Map!Restrict
<1>9. ASSUME NEW k \in Keys, dictFind(k)
      PROVE  TableRight' /\ Map!Find(k)
  <2>1. /\ table' = table /\ used' = used
        /\ Has(table, k) => \E e \in S : e.key = k /\ answer' = e.val
        /\ ~Has(table, k) => answer' = NotFound
    BY <1>9, FindStep
  <2>2. answer' = IF k \in DOMAIN M THEN M[k] ELSE NotFound
    <3>1. CASE Has(table, k)
      <4>1. PICK e \in S : e.key = k /\ answer' = e.val
        BY <2>1, <3>1
      <4>2. M[e.key] = e.val
        BY <1>1, MapAt DEF M
      <4> QED
        BY <1>1, <3>1, <4>1, <4>2
    <3>2. CASE ~Has(table, k)
      BY <1>1, <2>1, <3>2
    <3> QED
      BY <3>1, <3>2
  <2> QED
    BY <1>1, <1>5, <2>1, <2>2 DEF Map!Find
<1>10. ASSUME dictClear PROVE TableRight' /\ Map!Clear
  <2>1. Becomes({}) /\ answer' = TRUE
    BY <1>10, ClearStep DEF dictClear
  <2> QED
    BY <1>2, <2>1, MapOfNone DEF Becomes, Map!Clear
<1>11. ASSUME dictGetIterator \/ dictNext \/ UNCHANGED hashVars
       PROVE  TableRight' /\ UNCHANGED <<Content, answer>>
  <2>1. table' = table /\ used' = used /\ answer' = answer
    BY <1>11 DEF dictGetIterator, dictNext, hashVars
  <2> QED
    BY <1>5, <2>1
<1> QED
  BY <1>6, <1>7, <1>8, <1>9, <1>10, <1>11 DEF HashNext, Map!Next

\* dict.c as a whole: whatever is added, replaced, deleted and cleared, and
\* however often the table was expanded, every call answers as on a map and
\* leaves what it would leave there.
THEOREM MapImplemented ==
    ASSUME HashRight PROVE HashSpec => ImplementsMap
<1>1. HashInit => TableRight /\ Map!Init
  BY TableInit
<1>2. TableRight /\ [HashNext]_hashVars => TableRight' /\ [Map!Next]_<<Content, answer>>
  BY TableStep
<1> QED
  BY <1>1, <1>2, PTL DEF HashSpec, ImplementsMap, Map!Spec

\* Every chain holds entries of its slot only, no key twice, and used counts
\* the entries: what _dictExpandIfNeeded and the lookups rely on.
THEOREM DictTypeCorrect ==
    ASSUME HashRight PROVE HashSpec => []HashTypeOK
<1>1. HashInit => TableRight
  BY TableInit
<1>2. TableRight /\ [HashNext]_hashVars => TableRight'
  BY TableStep
<1>3. TableRight => HashTypeOK
  <2> SUFFICES ASSUME TableRight PROVE HashTypeOK
    OBVIOUS
  <2>1. PICK n : TableOf(table, n)
    BY DEF TableRight
  <2>2. Size(table) = n /\ DOMAIN table = 0..n - 1
    BY <2>1, SizeIs
  <2>3. ASSUME NEW s \in DOMAIN table, NEW i \in DOMAIN table[s]
        PROVE  Slot(table[s][i].key, Size(table)) = s /\ Found(table[s], table[s][i].key) = i
    <3>1. PICK q \in Seq(EntrySet) : /\ q = table[s] /\ NoDup(q) /\ i \in 1..Len(q)
                                     /\ Slot(q[i].key, n) = s
      BY <2>1, <2>2 DEF TableOf
    <3>2. Found(q, q[i].key) \in 1..Len(q) /\ q[Found(q, q[i].key)].key = q[i].key
      BY <3>1, FoundIs
    <3> QED
      BY <2>2, <3>1, <3>2 DEF NoDup
  <2>4. \A s \in DOMAIN table : table[s] \in Seq([key : Keys, val : Values])
    BY <2>1, <2>2 DEF TableOf, EntrySet
  <2> QED
    BY <2>3, <2>4 DEF HashTypeOK, TableRight
<1> QED
  BY <1>1, <1>2, <1>3, PTL DEF HashSpec

-----------------------------------------------------------------------------
(* The iterator: what it has still to hand out.                             *)

LEMMA FoundAt ==
    ASSUME NEW t, NEW n, TableOf(t, n), NEW s \in 0..n - 1, NEW p \in 1..Len(t[s])
    PROVE  /\ t[s][p].key \in Keys /\ Slot(t[s][p].key, n) = s /\ Has(t, t[s][p].key)
           /\ Found(t[s], t[s][p].key) = p
<1>1. PICK q \in Seq(EntrySet) : q = t[s] /\ NoDup(q) /\ \A i \in 1..Len(q) : Slot(q[i].key, n) = s
  BY DEF TableOf
<1>2. q[p] \in EntrySet /\ q[p].key \in Keys
  <2>1. q[p] \in EntrySet
    BY <1>1
  <2> QED
    BY <2>1 DEF EntrySet
<1>3. q[p] \in Stored(t)
  BY <1>1, StoredIs
<1>4. Found(q, q[p].key) \in 1..Len(q) /\ q[Found(q, q[p].key)].key = q[p].key
  BY <1>1, FoundIs
<1>5. Found(q, q[p].key) = p
  BY <1>1, <1>4 DEF NoDup
<1> QED
  BY <1>1, <1>2, <1>3, <1>5 DEF Has

LEMMA PlaceOf ==
    ASSUME HashRight, NEW t, NEW n, TableOf(t, n), NEW x \in Keys, Has(t, x)
    PROVE  /\ Slot(x, n) \in 0..n - 1 /\ Found(t[Slot(x, n)], x) \in 1..Len(t[Slot(x, n)])
           /\ t[Slot(x, n)][Found(t[Slot(x, n)], x)].key = x
<1>1. There(t, x)
  BY ThereIs DEF Has
<1> QED
  BY <1>1, ThereIs

\* The keys from place p of slot i on.
From(t, n, i, p) ==
    {x \in Keys : Has(t, x) /\ (Slot(x, n) > i \/ (Slot(x, n) = i /\ Found(t[i], x) >= p))}

Rest(t, n, it) ==
    {x \in Keys : /\ Has(t, x)
                  /\ \/ Slot(x, n) > it.index
                     \/ /\ Slot(x, n) = it.index /\ it.next # NotFound
                        /\ Found(t[it.index], x) >= Found(t[it.index], it.next)}

LEMMA FromNext ==
    ASSUME HashRight, NEW t, NEW n, TableOf(t, n), NEW s \in 0..n - 1, NEW p \in 1..Len(t[s])
    PROVE  /\ From(t, n, s, p) = From(t, n, s, p + 1) \union {t[s][p].key}
           /\ t[s][p].key \notin From(t, n, s, p + 1)
<1>1. PICK k \in Keys : k = t[s][p].key /\ Slot(k, n) = s /\ Has(t, k) /\ Found(t[s], k) = p
  BY FoundAt
<1>2. k \in From(t, n, s, p) /\ k \notin From(t, n, s, p + 1)
  BY <1>1 DEF From
<1>3. ASSUME NEW x \in From(t, n, s, p), x # k PROVE x \in From(t, n, s, p + 1)
  <2>1. x \in Keys /\ Has(t, x) /\ (Slot(x, n) > s \/ (Slot(x, n) = s /\ Found(t[s], x) >= p))
    BY <1>3 DEF From
  <2>2. CASE Slot(x, n) = s /\ Found(t[s], x) >= p
    <3>1. Found(t[s], x) \in 1..Len(t[s]) /\ t[s][Found(t[s], x)].key = x
      BY <2>1, <2>2, PlaceOf
    <3>2. Found(t[s], x) # p
      BY <1>1, <1>3, <3>1
    <3>3. Found(t[s], x) >= p + 1
      BY <2>2, <3>1, <3>2
    <3> QED
      BY <2>1, <2>2, <3>3 DEF From
  <2>3. CASE Slot(x, n) > s
    BY <2>1, <2>3 DEF From
  <2> QED
    BY <2>1, <2>2, <2>3
<1>4. ASSUME NEW x \in From(t, n, s, p + 1) PROVE x \in From(t, n, s, p)
  <2>1. x \in Keys /\ Has(t, x) /\ (Slot(x, n) > s \/ (Slot(x, n) = s /\ Found(t[s], x) >= p + 1))
    BY <1>4 DEF From
  <2>2. CASE Slot(x, n) = s /\ Found(t[s], x) >= p + 1
    <3>1. Found(t[s], x) \in 1..Len(t[s])
      BY <2>1, <2>2, PlaceOf
    <3>2. Found(t[s], x) >= p
      BY <2>2, <3>1
    <3> QED
      BY <2>1, <2>2, <3>2 DEF From
  <2>3. CASE Slot(x, n) > s
    BY <2>1, <2>3 DEF From
  <2> QED
    BY <2>1, <2>2, <2>3
<1> QED
  BY <1>1, <1>2, <1>3, <1>4

\* Handing out an entry leaves the keys after it.
LEMMA RestAfter ==
    ASSUME HashRight, NEW t, NEW n, TableOf(t, n), NEW s \in 0..n - 1, NEW p \in 1..Len(t[s]),
           NEW it, it.index = s, it.next = Following(t[s], t[s][p].key)
    PROVE  /\ Rest(t, n, it) = From(t, n, s, p + 1)
           /\ it.next # NotFound => \E i \in 1..Len(t[s]) : t[s][i].key = it.next
<1>1. PICK q \in Seq(EntrySet) : q = t[s]
  BY DEF TableOf
<1>2. Found(q, q[p].key) = p
  BY <1>1, FoundAt
<1>3. it.next = IF p < Len(q) THEN q[p + 1].key ELSE NotFound
  BY <1>1, <1>2 DEF Following
<1>4. CASE p < Len(q)
  <2>1. p + 1 \in 1..Len(q)
    BY <1>1, <1>4
  <2>2. q[p + 1].key \in Keys /\ Found(q, q[p + 1].key) = p + 1
    BY <1>1, <2>1, FoundAt
  <2>3. it.next = q[p + 1].key /\ it.next # NotFound
    BY <1>3, <1>4, <2>2 DEF HashRight
  <2>4. Rest(t, n, it) = From(t, n, s, p + 1)
    BY <1>1, <2>2, <2>3 DEF Rest, From
  <2> QED
    BY <1>1, <2>1, <2>3, <2>4
<1>5. CASE ~(p < Len(q))
  <2>1. it.next = NotFound
    BY <1>3, <1>5
  <2>2. ASSUME NEW x \in From(t, n, s, p + 1) PROVE x \in Rest(t, n, it)
    <3>1. x \in Keys /\ Has(t, x) /\ (Slot(x, n) > s \/ (Slot(x, n) = s /\ Found(t[s], x) >= p + 1))
      BY <2>2 DEF From
    <3>2. CASE Slot(x, n) = s /\ Found(t[s], x) >= p + 1
      <4>1. Found(q, x) \in 1..Len(q)
        BY <1>1, <3>1, <3>2, PlaceOf
      <4> QED
        BY <1>1, <1>5, <3>2, <4>1
    <3> QED
      BY <3>1, <3>2 DEF Rest
  <2>3. ASSUME NEW x \in Rest(t, n, it) PROVE x \in From(t, n, s, p + 1)
    BY <2>1, <2>3 DEF Rest, From
  <2> QED
    BY <2>1, <2>2, <2>3
<1> QED
  BY <1>4, <1>5

LEMMA RestAtNext ==
    ASSUME NEW t, NEW n, TableOf(t, n), NEW it, it.next # NotFound
    PROVE  Rest(t, n, it) = From(t, n, it.index, Found(t[it.index], it.next))
  BY DEF Rest, From

\* No entry of the chain is left: the next full slot follows.
LEMMA RestAtSlot ==
    ASSUME HashRight, NEW t, NEW n, TableOf(t, n), NEW it, it.next = NotFound, it.index \in Int,
           NEW s \in 0..n - 1, s > it.index,
           \A i \in 0..n - 1 : i > it.index /\ i < s => Len(t[i]) = 0
    PROVE  Rest(t, n, it) = From(t, n, s, 1)
<1>1. ASSUME NEW x \in Rest(t, n, it) PROVE x \in From(t, n, s, 1)
  <2>1. x \in Keys /\ Has(t, x) /\ Slot(x, n) > it.index
    BY <1>1 DEF Rest
  <2>2. PICK i \in 0..n - 1 : i = Slot(x, n) /\ Found(t[i], x) \in 1..Len(t[i])
    BY <2>1, PlaceOf
  <2>3. ~(i < s)
    BY <2>1, <2>2
  <2>4. i > s \/ i = s
    BY <2>3
  <2> QED
    BY <2>1, <2>2, <2>4 DEF From
<1>2. ASSUME NEW x \in From(t, n, s, 1) PROVE x \in Rest(t, n, it)
  <2>1. x \in Keys /\ Has(t, x) /\ (Slot(x, n) > s \/ Slot(x, n) = s)
    BY <1>2 DEF From
  <2>2. Slot(x, n) \in 0..n - 1
    BY <2>1, PlaceOf
  <2>3. Slot(x, n) > it.index
    BY <2>1, <2>2
  <2> QED
    BY <2>1, <2>3 DEF Rest
<1> QED
  BY <1>1, <1>2

LEMMA RestAtEnd ==
    ASSUME HashRight, NEW t, NEW n, TableOf(t, n), NEW it, it.next = NotFound,
           \A i \in 0..n - 1 : i > it.index => Len(t[i]) = 0
    PROVE  Rest(t, n, it) = {}
<1> SUFFICES ASSUME NEW x \in Rest(t, n, it) PROVE FALSE
  OBVIOUS
<1>1. x \in Keys /\ Has(t, x) /\ Slot(x, n) > it.index
  BY DEF Rest
<1>2. PICK i \in 0..n - 1 : i = Slot(x, n) /\ Found(t[i], x) \in 1..Len(t[i])
  BY <1>1, PlaceOf
<1> QED
  BY <1>1, <1>2

\* The entries that stay keep their order.
LEMMA OrderKept ==
    ASSUME NEW q \in Seq(EntrySet), NoDup(q), NEW p \in 1..Len(q), NEW x, x # q[p].key,
           Found(q, x) # 0
    PROVE  /\ Found(RemoveAt(q, p), x) = IF Found(q, x) < p THEN Found(q, x) ELSE Found(q, x) - 1
           /\ Found(RemoveAt(q, p), x) \in 1..Len(RemoveAt(q, p))
           /\ RemoveAt(q, p)[Found(RemoveAt(q, p), x)].key = x
           /\ Found(q, x) \in 1..Len(q) /\ Found(q, x) # p
<1>1. PICK r \in Seq(EntrySet) : /\ r = RemoveAt(q, p) /\ Len(r) = Len(q) - 1
                                 /\ \A i \in 1..Len(q) - 1 : r[i] = IF i < p THEN q[i] ELSE q[i + 1]
  BY RemovedAt
<1>2. PICK f \in 1..Len(q) : f = Found(q, x) /\ q[f].key = x /\ f # p
  BY FoundIs
<1>3. PICK m \in Nat : m = Len(q)
  OBVIOUS
<1>4. PICK g \in 1..Len(r) : g = (IF f < p THEN f ELSE f - 1) /\ r[g] = q[f]
  <2>1. CASE f < p
    <3>1. f \in 1..Len(r) /\ r[f] = q[f]
      BY <1>1, <1>2, <1>3, <2>1
    <3> QED
      BY <2>1, <3>1
  <2>2. CASE ~(f < p)
    <3>1. f - 1 \in 1..Len(r) /\ ~(f - 1 < p) /\ (f - 1) + 1 = f
      BY <1>1, <1>2, <1>3, <2>2
    <3>2. r[f - 1] = q[f]
      BY <1>1, <3>1
    <3> QED
      BY <2>2, <3>1, <3>2
  <2> QED
    BY <2>1, <2>2
<1>5. r[g].key = x
  BY <1>2, <1>4
<1>6. PICK h \in 1..Len(r) : h = Found(r, x) /\ r[h].key = x
  BY <1>5, FoundIs
<1>7. h = g
  <2>1. PICK y \in 1..Len(q) : r[h] = q[y] /\ y = IF h < p THEN h ELSE h + 1
    BY <1>1, <1>3
  <2>2. y = f
    BY <1>2, <1>6, <2>1 DEF NoDup
  <2> QED
    BY <1>1, <1>2, <1>3, <1>4, <2>1, <2>2
<1> QED
  BY <1>1, <1>2, <1>4, <1>6, <1>7

\* The entry that was handed out goes; what is left to hand out stays.
LEMMA RestRemoved ==
    ASSUME HashRight, NEW t, NEW n, TableOf(t, n), NEW k \in Keys, Has(t, k), NEW it,
           k \notin Rest(t, n, it), it.index \in Int,
           it.next # NotFound => /\ it.index \in 0..n - 1
                                 /\ \E i \in 1..Len(t[it.index]) : t[it.index][i].key = it.next
    PROVE  /\ Rest(Removed(t, k), n, it) = Rest(t, n, it)
           /\ it.next # NotFound
                => \E i \in 1..Len(Removed(t, k)[it.index]) : Removed(t, k)[it.index][i].key = it.next
<1> DEFINE u == Removed(t, k)
<1>1. There(t, k) /\ Size(t) = n
  BY ThereIs, SizeIs DEF Has
<1>2. PICK s \in 0..n - 1 : s = Slot(k, n)
  BY <1>1, ThereIs
<1>3. PICK q \in Seq(EntrySet) : q = t[s] /\ NoDup(q)
  BY DEF TableOf
<1>4. PICK p \in 1..Len(q) : p = Found(q, k) /\ q[p].key = k
  BY <1>1, <1>2, <1>3, ThereIs
<1>5. PICK r : r = RemoveAt(q, p)
  OBVIOUS
<1>6. u[s] = r /\ \A i \in 0..n - 1 : i # s => u[i] = t[i]
  BY <1>1, <1>2, <1>3, <1>4, <1>5 DEF Removed, TableOf
<1>7. TableOf(u, n) /\ Stored(u) = {f \in Stored(t) : f.key # k}
  BY RemovedRight
<1> HIDE DEF u
<1>8. ASSUME NEW x PROVE Has(u, x) <=> Has(t, x) /\ x # k
  BY <1>7 DEF Has
<1>9. ASSUME NEW x \in Keys, Has(t, x), x # k, Slot(x, n) = s
      PROVE  /\ Found(r, x) = IF Found(q, x) < p THEN Found(q, x) ELSE Found(q, x) - 1
             /\ Found(r, x) \in 1..Len(r) /\ r[Found(r, x)].key = x
             /\ Found(q, x) \in 1..Len(q) /\ Found(q, x) # p
  <2>1. Found(q, x) # 0
    BY <1>3, <1>9, PlaceOf
  <2> QED
    BY <1>4, <1>5, <1>3, <1>9, <2>1, OrderKept
<1>10. CASE it.next = NotFound
  <2>1. ASSUME NEW x PROVE x \in Rest(u, n, it) <=> x \in Rest(t, n, it)
    BY <1>8, <1>10 DEF Rest
  <2> QED
    BY <1>10, <2>1 DEF u
<1>11. CASE it.next # NotFound /\ it.index # s
  <2>1. u[it.index] = t[it.index]
    BY <1>6, <1>11
  <2>2. ASSUME NEW x PROVE x \in Rest(u, n, it) <=> x \in Rest(t, n, it)
    BY <1>8, <2>1 DEF Rest
  <2> QED
    BY <2>1, <2>2 DEF u
<1>12. CASE it.next # NotFound /\ it.index = s
  <2>1. PICK y \in Keys : y = it.next /\ Has(t, y) /\ Slot(y, n) = s
    <3>1. PICK i \in 1..Len(t[s]) : t[s][i].key = it.next
      BY <1>12
    <3> QED
      BY <3>1, FoundAt
  <2>2. y \in Rest(t, n, it)
    <3>1. Found(t[s], y) \in Nat
      BY <2>1, PlaceOf
    <3> QED
      BY <1>12, <2>1, <3>1 DEF Rest
  <2>3. y # k
    BY <2>2
  <2>4. PICK f \in 1..Len(q) : f = Found(q, y) /\ f # p /\ Found(r, y) = (IF f < p THEN f ELSE f - 1)
    BY <1>9, <2>1, <2>3
  <2>5. p < f
    <3>1. ~(p >= f)
      BY <1>2, <1>3, <1>4, <1>12, <2>1, <2>4 DEF Rest
    <3> QED
      BY <3>1
  <2>6. ASSUME NEW x \in Keys, Has(t, x), x # k, Slot(x, n) = s
        PROVE  Found(r, x) >= Found(r, y) <=> Found(q, x) >= Found(q, y)
    <3>1. PICK g \in 1..Len(q) : g = Found(q, x) /\ g # p /\ Found(r, x) = (IF g < p THEN g ELSE g - 1)
      BY <1>9, <2>6
    <3> QED
      BY <2>4, <2>5, <3>1
  <2>7. ASSUME NEW x PROVE x \in Rest(u, n, it) <=> x \in Rest(t, n, it)
    BY <1>3, <1>6, <1>8, <1>12, <2>1, <2>6 DEF Rest
  <2>8. Found(r, y) \in 1..Len(r) /\ r[Found(r, y)].key = y
    BY <1>9, <2>1, <2>3
  <2> QED
    BY <1>6, <1>12, <2>1, <2>7, <2>8 DEF u
<1> QED
  BY <1>10, <1>11, <1>12

-----------------------------------------------------------------------------
(* The iterator through the calls.                                          *)

\* What it has handed out and what is left make up what was there, and the
\* entry it read in advance is still in its chain.
OpenRight ==
    /\ iter.index \in Int /\ iter.index >= -1
    /\ iter.entry # NotFound => iter.entry \in ToSet(seen)
    /\ iter.next # NotFound
         => /\ iter.entry # NotFound /\ iter.index \in 0..Size(table) - 1
            /\ \E i \in 1..Len(table[iter.index]) : table[iter.index][i].key = iter.next
    /\ before = ToSet(seen) \union Rest(table, Size(table), iter)
    /\ ToSet(seen) \intersect Rest(table, Size(table), iter) = {}

IterRight ==
    /\ seen \in Seq(Keys) /\ IsFiniteSet(ToSet(seen)) /\ Cardinality(ToSet(seen)) = Len(seen)
    /\ IF iter.open THEN OpenRight ELSE ToSet(seen) = before

LEMMA SeenMore ==
    ASSUME NEW q \in Seq(Keys), NEW k \in Keys, k \notin ToSet(q),
           IsFiniteSet(ToSet(q)), Cardinality(ToSet(q)) = Len(q)
    PROVE  /\ Append(q, k) \in Seq(Keys) /\ ToSet(Append(q, k)) = ToSet(q) \union {k}
           /\ IsFiniteSet(ToSet(Append(q, k)))
           /\ Cardinality(ToSet(Append(q, k))) = Len(Append(q, k))
<1>1. Append(q, k) \in Seq(Keys) /\ Len(Append(q, k)) = Len(q) + 1
  OBVIOUS
<1>2. ToSet(Append(q, k)) = ToSet(q) \union {k}
  <2>1. \A s : s \in Seq(Keys) => ToSet(s) = {s[i] : i \in 1..Len(s)}
    BY DEF ToSet
  <2>2. ASSUME NEW i \in 1..Len(q) + 1
        PROVE  Append(q, k)[i] = IF i = Len(q) + 1 THEN k ELSE q[i]
    OBVIOUS
  <2>3. ASSUME NEW x \in ToSet(Append(q, k)) PROVE x \in ToSet(q) \union {k}
    <3>1. ToSet(Append(q, k)) = {Append(q, k)[i] : i \in 1..Len(Append(q, k))}
      BY <1>1, <2>1, Zenon
    <3>2. PICK i \in 1..Len(Append(q, k)) : x = Append(q, k)[i]
      BY <2>3, <3>1
    <3>3. i \in 1..Len(q) + 1
      BY <1>1
    <3> QED
      BY <2>1, <2>2, <3>2, <3>3
  <2>4. ASSUME NEW x \in ToSet(q) PROVE x \in ToSet(Append(q, k))
    <3>1. PICK i \in 1..Len(q) : x = q[i]
      BY <2>1
    <3>2. i \in 1..Len(Append(q, k)) /\ Append(q, k)[i] = x
      BY <1>1, <3>1
    <3> QED
      BY <1>1, <2>1, <3>2
  <2>5. k \in ToSet(Append(q, k))
    <3>1. Len(q) + 1 \in 1..Len(Append(q, k)) /\ Append(q, k)[Len(q) + 1] = k
      BY <1>1
    <3> QED
      BY <1>1, <2>1, <3>1
  <2> QED
    BY <2>3, <2>4, <2>5
<1>3. IsFiniteSet(ToSet(q) \union {k}) /\ Cardinality(ToSet(q) \union {k}) = Cardinality(ToSet(q)) + 1
  BY FS_AddElement
<1> QED
  BY <1>1, <1>2, <1>3

LEMMA IterInit ==
    ASSUME HashInit PROVE IterRight
<1>1. << >> \in Seq(Keys) /\ Len(<< >>) = 0 /\ ToSet(<< >>) = {}
  BY DEF ToSet
<1>2. IsFiniteSet({}) /\ Cardinality({}) = 0
  BY FS_EmptySet
<1> QED
  BY <1>1, <1>2 DEF HashInit, NoIter, IterRight

LEMMA HandOutRight ==
    ASSUME HashRight, TableRight, IterRight, iter.open, table' = table, before' = before,
           NEW n, TableOf(table, n), NEW s \in 0..n - 1, NEW p \in 1..Len(table[s]),
           Rest(table, n, iter) = From(table, n, s, p), HandOut(s, table[s][p].key)
    PROVE  IterRight'
<1> DEFINE k == table[s][p].key
<1>1. Size(table) = n /\ n \in Nat
  BY SizeIs DEF TableOf
<1>2. k \in Keys /\ k # NotFound
  BY FoundAt DEF HashRight
<1>3. /\ Rest(table, n, iter) = From(table, n, s, p + 1) \union {k}
      /\ k \notin From(table, n, s, p + 1)
  BY FromNext
<1> HIDE DEF k
<1>4. /\ iter' = [index |-> s, entry |-> k, open |-> TRUE, next |-> Following(table[s], k)]
      /\ seen' = Append(seen, k)
  BY Zenon DEF HandOut, k
<1>5. iter'.index = s /\ iter'.entry = k /\ iter'.open /\ iter'.next = Following(table[s], k)
  BY <1>4
<1>6. /\ Rest(table, n, iter') = From(table, n, s, p + 1)
      /\ iter'.next # NotFound => \E i \in 1..Len(table[s]) : table[s][i].key = iter'.next
  <2>1. PICK it : it = iter' /\ it.index = s /\ it.next = Following(table[s], table[s][p].key)
    BY <1>5 DEF k
  <2> QED
    BY <2>1, RestAfter
<1>7. /\ seen \in Seq(Keys) /\ IsFiniteSet(ToSet(seen)) /\ Cardinality(ToSet(seen)) = Len(seen)
      /\ before = ToSet(seen) \union Rest(table, n, iter)
      /\ ToSet(seen) \intersect Rest(table, n, iter) = {}
  BY <1>1 DEF IterRight, OpenRight
<1>8. k \notin ToSet(seen)
  BY <1>3, <1>7
<1>9. /\ seen' \in Seq(Keys) /\ ToSet(seen') = ToSet(seen) \union {k}
      /\ IsFiniteSet(ToSet(seen')) /\ Cardinality(ToSet(seen')) = Len(seen')
  BY <1>2, <1>4, <1>7, <1>8, SeenMore
<1>10. /\ before' = ToSet(seen') \union Rest(table', n, iter')
       /\ ToSet(seen') \intersect Rest(table', n, iter') = {}
  BY <1>3, <1>6, <1>7, <1>9
<1>11. OpenRight'
  <2>1. s \in Int /\ s >= -1 /\ s \in 0..Size(table) - 1 /\ k \in ToSet(seen')
    BY <1>1, <1>9
  <2>2. Size(table') = n
    BY <1>1
  <2> QED
    BY <1>2, <1>5, <1>6, <1>10, <2>1, <2>2 DEF OpenRight
<1> QED
  BY <1>5, <1>9, <1>11 DEF IterRight

LEMMA NextRight ==
    ASSUME HashRight, TableRight, IterRight, dictNext
    PROVE  IterRight'
<1>1. iter.open /\ table' = table /\ before' = before
  BY DEF dictNext
<1>2. PICK n : TableOf(table, n)
  BY DEF TableRight
<1>3. Size(table) = n /\ n \in Nat /\ DOMAIN table = 0..n - 1
  BY <1>2, SizeIs DEF TableOf
<1>4. OpenRight
  BY <1>1 DEF IterRight
<1>5. CASE iter.entry # NotFound /\ iter.next # NotFound
  <2>1. PICK s \in 0..n - 1 : s = iter.index
    BY <1>3, <1>4, <1>5 DEF OpenRight
  <2>2. PICK p \in 1..Len(table[s]) : table[s][p].key = iter.next
    BY <1>3, <1>4, <1>5, <2>1 DEF OpenRight
  <2>3. Found(table[s], iter.next) = p
    BY <1>2, <2>2, FoundAt
  <2>4. Rest(table, n, iter) = From(table, n, s, p)
    BY <1>2, <1>5, <2>1, <2>3, RestAtNext
  <2>5. HandOut(s, table[s][p].key)
    BY <1>5, <2>1, <2>2 DEF dictNext
  <2> QED
    BY <1>1, <1>2, <2>4, <2>5, HandOutRight
<1>6. CASE ~(iter.entry # NotFound /\ iter.next # NotFound)
  <2>1. iter.next = NotFound /\ iter.index \in Int
    BY <1>4, <1>6 DEF OpenRight
  <2> DEFINE F == FullFrom(iter.index + 1)
  <2>2. \A i : i \in F <=> i \in 0..n - 1 /\ i > iter.index /\ table[i] # << >>
    BY <1>3, <2>1 DEF FullFrom
  <2>3. \A i \in 0..n - 1 : table[i] \in Seq(EntrySet) /\ (table[i] # << >> <=> Len(table[i]) # 0)
    BY <1>2, EmptySeq DEF TableOf
  <2> HIDE DEF F
  <2>4. CASE F # {}
    <3>1. PICK s \in F : \A i \in F : s <= i
      <4>1. F \in SUBSET Nat
        BY <1>3, <2>2
      <4> QED
        BY <2>4, <4>1, LeastMember
    <3>2. Min(F) = s
      <4>1. F \in SUBSET Int
        BY <1>3, <2>2
      <4> QED
        BY <3>1, <4>1, LeastIs
    <3>3. s \in 0..n - 1 /\ s > iter.index /\ Len(table[s]) # 0
      BY <2>2, <2>3, <3>1
    <3>4. 1 \in 1..Len(table[s])
      BY <2>3, <3>3
    <3>5. \A i \in 0..n - 1 : i > iter.index /\ i < s => Len(table[i]) = 0
      BY <2>2, <2>3, <3>1
    <3>6. Rest(table, n, iter) = From(table, n, s, 1)
      BY <1>2, <2>1, <3>3, <3>5, RestAtSlot
    <3>7. HandOut(s, table[s][1].key)
      <4>1. HandOut(Min(F), table[Min(F)][1].key)
        BY <1>6, <2>4, Zenon DEF dictNext, F
      <4> QED
        BY <3>2, <4>1
    <3> QED
      BY <1>1, <1>2, <3>3, <3>4, <3>6, <3>7, HandOutRight
  <2>5. CASE F = {}
    <3>1. \A i \in 0..n - 1 : i > iter.index => Len(table[i]) = 0
      BY <2>2, <2>3, <2>5
    <3>2. Rest(table, n, iter) = {}
      BY <1>2, <2>1, <3>1, RestAtEnd
    <3>3. before = ToSet(seen)
      BY <1>3, <1>4, <3>2 DEF OpenRight
    <3>4. iter' = NoIter /\ seen' = seen
      BY <1>6, <2>5, Zenon DEF dictNext, F
    <3>5. ~iter'.open
      BY <3>4 DEF NoIter
    <3> QED
      BY <1>1, <3>3, <3>4, <3>5 DEF IterRight
  <2> QED
    BY <2>4, <2>5
<1> QED
  BY <1>5, <1>6

LEMMA MadeRight ==
    ASSUME HashRight, TableRight, IterRight, dictGetIterator
    PROVE  IterRight'
<1>1. PICK n : TableOf(table, n)
  BY DEF TableRight
<1>2. Size(table) = n
  BY <1>1, SizeIs
<1>3. /\ iter'.index = -1 /\ iter'.entry = NotFound /\ iter'.next = NotFound /\ iter'.open
      /\ before' = {e.key : e \in Stored(table)} /\ seen' = << >> /\ table' = table
  BY DEF dictGetIterator, NoIter
<1>4. ASSUME NEW x PROVE x \in Rest(table, n, iter') <=> x \in {e.key : e \in Stored(table)}
  <2>1. ASSUME x \in Rest(table, n, iter') PROVE x \in {e.key : e \in Stored(table)}
    BY <2>1 DEF Rest, Has
  <2>2. ASSUME NEW e \in Stored(table), x = e.key PROVE x \in Rest(table, n, iter')
    <3>1. x \in Keys /\ Has(table, x)
      <4>1. e \in EntrySet
        BY <1>1, StoredAt
      <4> QED
        BY <2>2, <4>1 DEF EntrySet, Has
    <3>2. Slot(x, n) \in 0..n - 1
      BY <1>1, <3>1, PlaceOf
    <3>3. Slot(x, n) > iter'.index
      BY <1>3, <3>2
    <3> QED
      BY <3>1, <3>3 DEF Rest
  <2> QED
    BY <2>1, <2>2
<1>5. << >> \in Seq(Keys) /\ Len(<< >>) = 0 /\ ToSet(<< >>) = {}
  BY DEF ToSet
<1>6. IsFiniteSet({}) /\ Cardinality({}) = 0
  BY FS_EmptySet
<1>7. Rest(table', Size(table'), iter') = before'
  BY <1>2, <1>3, <1>4
<1>8. ToSet(seen') = {}
  BY <1>3, <1>5
<1>9. OpenRight'
  BY <1>3, <1>7, <1>8 DEF OpenRight
<1> QED
  BY <1>3, <1>5, <1>6, <1>9 DEF IterRight

LEMMA IterDeleted ==
    ASSUME HashRight, TableRight, IterRight, NEW k \in Keys, dictDelete(k)
    PROVE  IterRight'
<1>1. UNCHANGED <<iter, before, seen>> /\ (iter.open => k = iter.entry)
  BY DEF dictDelete, Iterator
<1>2. PICK n : TableOf(table, n)
  BY DEF TableRight
<1>3. There(table, k) <=> Has(table, k)
  BY <1>2, ThereIs DEF Has
<1>4. CASE ~iter.open
  BY <1>1, <1>4 DEF IterRight
<1>5. CASE ~Has(table, k)
  <2>1. table' = table
    BY <1>3, <1>5 DEF dictDelete
  <2> QED
    BY <1>1, <2>1 DEF IterRight, OpenRight
<1>6. CASE iter.open /\ Has(table, k)
  <2>1. OpenRight /\ k = iter.entry /\ k # NotFound
    BY <1>1, <1>6 DEF IterRight, HashRight
  <2>2. table' = Removed(table, k)
    BY <1>3, <1>6 DEF dictDelete
  <2>3. Size(table) = n /\ n \in Nat
    BY <1>2, SizeIs DEF TableOf
  <2>4. k \notin Rest(table, n, iter)
    BY <2>1, <2>3 DEF OpenRight
  <2>5. Size(table') = n
    <3>1. TableOf(Removed(table, k), n)
      BY <1>2, <1>6, RemovedRight
    <3> QED
      BY <2>2, <3>1, SizeIs
  <2>6. /\ iter.index \in Int
        /\ iter.next # NotFound
             => /\ iter.index \in 0..n - 1
                /\ \E i \in 1..Len(table[iter.index]) : table[iter.index][i].key = iter.next
    BY <2>1, <2>3 DEF OpenRight
  <2>7. Rest(table', n, iter) = Rest(table, n, iter)
    BY <1>2, <1>6, <2>2, <2>4, <2>6, RestRemoved
  <2>8. iter.next # NotFound
          => \E i \in 1..Len(table'[iter.index]) : table'[iter.index][i].key = iter.next
    BY <1>2, <1>6, <2>2, <2>4, <2>6, RestRemoved
  <2>9. iter' = iter /\ before' = before /\ seen' = seen
    BY <1>1
  <2>10. OpenRight'
    BY <2>1, <2>3, <2>5, <2>7, <2>8, <2>9 DEF OpenRight
  <2> QED
    BY <1>6, <2>9, <2>10 DEF IterRight
<1> QED
  BY <1>4, <1>5, <1>6

LEMMA IterStep ==
    ASSUME HashRight, TableRight, IterRight, [HashNext]_hashVars
    PROVE  IterRight'
<1>1. ASSUME NEW k \in Keys, NEW v \in Values, dictAdd(k, v) \/ dictReplace(k, v)
      PROVE  IterRight'
  <2>1. ~iter.open /\ iter' = iter /\ before' = before /\ seen' = seen
    BY <1>1 DEF dictAdd, dictReplace, Iterator
  <2> QED
    BY <2>1 DEF IterRight
<1>2. ASSUME dictClear PROVE IterRight'
  <2>1. ~iter.open /\ iter' = iter /\ before' = before /\ seen' = seen
    BY <1>2 DEF dictClear, Iterator
  <2> QED
    BY <2>1 DEF IterRight
<1>3. ASSUME NEW k \in Keys, dictDelete(k) PROVE IterRight'
  BY <1>3, IterDeleted
<1>4. ASSUME UNCHANGED <<table, iter, before, seen>> PROVE IterRight'
  <2>1. table' = table /\ iter' = iter /\ before' = before /\ seen' = seen
    BY <1>4
  <2> QED
    BY <2>1 DEF IterRight, OpenRight
<1>5. ASSUME NEW k \in Keys, dictFind(k) PROVE IterRight'
  BY <1>4, <1>5 DEF dictFind, Iterator
<1>6. CASE UNCHANGED hashVars
  BY <1>4, <1>6 DEF hashVars
<1>7. CASE dictGetIterator
  BY <1>7, MadeRight
<1>8. CASE dictNext
  BY <1>8, NextRight
<1> QED
  BY <1>1, <1>2, <1>3, <1>5, <1>6, <1>7, <1>8 DEF HashNext

\* dictNext: an iterator hands out every key that was there once and no other,
\* whatever the shape of the table, also when its user deletes the entries it
\* is given, as dictNext has read the next entry before it hands one out.
THEOREM EachSeenOnce ==
    ASSUME HashRight PROVE HashSpec => []SeesEachOnce
<1>1. HashInit => TableRight /\ IterRight
  BY TableInit, IterInit
<1>2. TableRight /\ IterRight /\ [HashNext]_hashVars => TableRight' /\ IterRight'
  BY TableStep, IterStep
<1>3. IterRight => HandsOutOnce
  BY DEF IterRight, OpenRight, HandsOutOnce
<1>4. HashSpec => []HandsOutOnce
  BY <1>1, <1>2, <1>3, PTL DEF HashSpec
<1>5. HashSpec => []HashTypeOK
  BY DictTypeCorrect
<1> QED
  BY <1>4, <1>5, PTL DEF SeesEachOnce
=============================================================================
