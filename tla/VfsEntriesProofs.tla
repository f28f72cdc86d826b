-------------------------- MODULE VfsEntriesProofs --------------------------
(***************************************************************************)
(* Proofs about processes that make, rename, delete, look up and list      *)
(* entries at the same time, for any set of processes and of calls, and    *)
(* any number of calls whose entries an int can count.                     *)
(***************************************************************************)
EXTENDS VfsEntries, ListsProofs, FiniteSetTheorems, SequenceTheorems, TLAPS

-----------------------------------------------------------------------------
(* Lists and numbers.                                                      *)

\* The numbers entries can have.
Number == 0 .. MaxCalls + 3

LEMMA NumberFacts ==
    ASSUME NEW n \in Number
    PROVE  n \in Nat /\ Lu(n) = n /\ Ld(n) = n /\ Strtol(n) = n /\ ToInt(n) = n /\ n # NoId
BY CallsAssumption, NumbersFit, WidthAssumption DEF Number, Lu, Ld, Strtol, ToInt, NoId

LEMMA Longs ==
    /\ \A n \in Nat : n \in Long
    /\ \A n \in Number : n \in Long
    /\ ROOT_FOLDER_ID \in Long /\ ROOT_PARENT_ID \in Long /\ NoId \in Long
BY CallsAssumption, WidthAssumption DEF Long, Number, ROOT_FOLDER_ID, ROOT_PARENT_ID, NoId

LEMMA NumbersAreNat ==
    ASSUME NEW s \in Seq(Number)
    PROVE  s \in Seq(Nat)
<1>1. Len(s) \in Nat /\ s \in [1 .. Len(s) -> Number] /\ \A i \in 1 .. Len(s) : s[i] \in Nat
  BY CallsAssumption DEF Number
<1>2. s \in [1 .. Len(s) -> Nat]
  BY <1>1
<1> QED
  BY <1>1, <1>2, IsASeq

LEMMA LuNat ==
    ASSUME NEW n \in Nat
    PROVE  Lu(n) = n /\ Ld(n) = n
BY DEF Lu, Ld

LEMMA ReadNumbers ==
    ASSUME NEW n \in Nat
    PROVE  Strtol(n) \in Nat /\ ToInt(Strtol(n)) \in Long
<1>1. Strtol(n) \in Nat
  BY WidthAssumption DEF Strtol
<1>3. \A m \in Nat : m % UINT_SIZE \in 0 .. UINT_SIZE - 1
  BY WidthAssumption DEF UINT_SIZE
<1>4. \A low \in 0 .. UINT_SIZE - 1 :
          (IF low > INT_MAX THEN low - UINT_SIZE ELSE low) \in Long
  BY WidthAssumption DEF UINT_SIZE, Long
<1> QED
  BY <1>1, <1>3, <1>4, Longs, Zenon DEF ToInt

LEMMA SetOfList ==
    ASSUME NEW S, NEW s \in Seq(S)
    PROVE  /\ \A n : n \in ToSet(s) <=> \E i \in 1 .. Len(s) : s[i] = n
           /\ \A n \in ToSet(s) : n \in S
           /\ s = <<>> => ToSet(s) = {}
BY DEF ToSet

LEMMA HeadAndTail ==
    ASSUME NEW S, NEW s \in Seq(S), s # <<>>
    PROVE  /\ Tail(s) \in Seq(S) /\ Head(s) \in S
           /\ Head(s) \in ToSet(s)
           /\ \A n \in ToSet(s) : n = Head(s) \/ n \in ToSet(Tail(s))
           /\ \A n \in ToSet(Tail(s)) : n \in ToSet(s)
<1>1. /\ Len(s) \in Nat /\ Len(s) >= 1 /\ Tail(s) \in Seq(S)
      /\ Head(s) = s[1] /\ Head(s) \in S
      /\ Len(Tail(s)) = Len(s) - 1
      /\ \A i \in 1 .. Len(s) - 1 : Tail(s)[i] = s[i + 1]
  OBVIOUS
<1>2. ASSUME NEW n \in ToSet(s)
      PROVE  n = Head(s) \/ n \in ToSet(Tail(s))
  <2>1. PICK i \in 1 .. Len(s) : s[i] = n
    BY SetOfList
  <2>2. CASE i = 1
    BY <1>1, <2>1, <2>2
  <2>3. CASE i # 1
    <3>1. PICK j : j = i - 1
      OBVIOUS
    <3>2. j \in 1 .. Len(Tail(s)) /\ i = j + 1
      BY <1>1, <2>1, <2>3, <3>1
    <3>3. Tail(s)[j] = n
      BY <1>1, <2>1, <3>2
    <3> QED
      BY <1>1, <3>2, <3>3, SetOfList
  <2> QED
    BY <2>2, <2>3
<1>3. ASSUME NEW n \in ToSet(Tail(s))
      PROVE  n \in ToSet(s)
  <2>1. PICK i \in 1 .. Len(Tail(s)) : Tail(s)[i] = n
    BY <1>1, SetOfList
  <2>2. i + 1 \in 1 .. Len(s) /\ s[i + 1] = n
    BY <1>1, <2>1
  <2> QED
    BY <2>2, SetOfList
<1>4. Head(s) \in ToSet(s)
  BY <1>1, SetOfList
<1> QED
  BY <1>1, <1>2, <1>3, <1>4

LEMMA SetOfAppend ==
    ASSUME NEW S, NEW s \in Seq(S), NEW e \in S
    PROVE  /\ Append(s, e) \in Seq(S) /\ e \in ToSet(Append(s, e))
           /\ \A n \in ToSet(s) : n \in ToSet(Append(s, e))
<1>1. /\ Append(s, e) \in Seq(S) /\ Len(Append(s, e)) = Len(s) + 1 /\ Len(s) \in Nat
      /\ Append(s, e)[Len(s) + 1] = e
      /\ \A i \in 1 .. Len(s) : Append(s, e)[i] = s[i]
  OBVIOUS
<1>2. \A n \in ToSet(s) : \E i \in 1 .. Len(s) : s[i] = n
  BY SetOfList
<1>3. \A n \in ToSet(s) : \E i \in 1 .. Len(Append(s, e)) : Append(s, e)[i] = n
  BY <1>1, <1>2
<1>4. \E i \in 1 .. Len(Append(s, e)) : Append(s, e)[i] = e
  BY <1>1
<1> QED
  BY <1>1, <1>3, <1>4, SetOfList

LEMMA SetOfConcat ==
    ASSUME NEW S, NEW s \in Seq(S), NEW t \in Seq(S)
    PROVE  /\ s \o t \in Seq(S)
           /\ \A n : n \in ToSet(s \o t) <=> n \in ToSet(s) \/ n \in ToSet(t)
<1> DEFINE w == s \o t
<1>1. /\ w \in Seq(S) /\ Len(s) \in Nat /\ Len(t) \in Nat
      /\ Len(w) = Len(s) + Len(t)
      /\ \A i \in 1 .. Len(s) : w[i] = s[i]
      /\ \A i \in 1 .. Len(t) : w[Len(s) + i] = t[i]
  OBVIOUS
<1> HIDE DEF w
<1>2. /\ \A n : n \in ToSet(w) <=> \E i \in 1 .. Len(w) : w[i] = n
      /\ \A n : n \in ToSet(s) <=> \E i \in 1 .. Len(s) : s[i] = n
      /\ \A n : n \in ToSet(t) <=> \E i \in 1 .. Len(t) : t[i] = n
  BY <1>1, SetOfList
<1>3. ASSUME NEW i \in 1 .. Len(w)
      PROVE  (\E k \in 1 .. Len(s) : s[k] = w[i]) \/ (\E k \in 1 .. Len(t) : t[k] = w[i])
  <2>1. CASE i <= Len(s)
    BY <1>1, <2>1
  <2>2. CASE i > Len(s)
    <3>1. PICK k : k = i - Len(s)
      OBVIOUS
    <3>2. k \in 1 .. Len(t) /\ i = Len(s) + k
      BY <1>1, <2>2, <3>1
    <3> QED
      BY <1>1, <3>2
  <2> QED
    BY <1>1, <2>1, <2>2
<1>4. \A k \in 1 .. Len(s) : \E i \in 1 .. Len(w) : w[i] = s[k]
  BY <1>1
<1>5. ASSUME NEW k \in 1 .. Len(t) PROVE \E i \in 1 .. Len(w) : w[i] = t[k]
  <2>1. Len(s) + k \in 1 .. Len(w) /\ w[Len(s) + k] = t[k]
    BY <1>1
  <2> QED
    BY <2>1
<1>6. ASSUME NEW n PROVE n \in ToSet(w) <=> n \in ToSet(s) \/ n \in ToSet(t)
  <2>1. n \in ToSet(w) => n \in ToSet(s) \/ n \in ToSet(t)
    BY <1>2, <1>3
  <2>2. n \in ToSet(s) => n \in ToSet(w)
    BY <1>2, <1>4
  <2>3. n \in ToSet(t) => n \in ToSet(w)
    BY <1>2, <1>5
  <2> QED
    BY <2>1, <2>2, <2>3
<1> QED
  BY <1>1, <1>6 DEF w

LEMMA SetOfWithout ==
    ASSUME NEW S, NEW s \in Seq(S), NEW e
    PROVE  /\ Without(s, e) \in Seq(S)
           /\ \A n \in ToSet(Without(s, e)) : n # e /\ n \in ToSet(s)
<1> DEFINE w == Without(s, e)
<1>1. /\ w \in Seq(S)
      /\ \A i \in 1 .. Len(w) : w[i] # e /\ \E j \in 1 .. Len(s) : w[i] = s[j]
  BY WithoutMembers
<1> HIDE DEF w
<1>2. ASSUME NEW n \in ToSet(w)
      PROVE  n # e /\ n \in ToSet(s)
  <2>1. PICK i \in 1 .. Len(w) : w[i] = n
    BY <1>1, SetOfList
  <2>2. PICK j \in 1 .. Len(s) : n = s[j]
    BY <1>1, <2>1
  <2> QED
    BY <1>1, <2>1, <2>2, SetOfList
<1> QED
  BY <1>1, <1>2 DEF w

-----------------------------------------------------------------------------
(* What holds of the store and of the registers whatever the calls are.    *)

Kinds == {"file", "dir"}
Info(kind)    == IF kind = "dir" THEN folderInfo ELSE fileInfo
ListsOf(kind) == IF kind = "dir" THEN folders ELSE files

\* What a listing shows: the kind, the number and the name.
Entry == {"file", "dir", "none"} \X Nat \X Seq(Char)

Registers ==
    [op : {"none", "make", "rename", "delete", "getattr", "readdir", "list"},
     kind : {"file", "dir", "none"}, path : Seq(Seq(Char)),
     routine : {"none", "parse", "target", "parsed"}, pos : Nat, dir : Long,
     ids : Seq(Number), id : Long, type : {"none", "file", "dir"},
     existing : BOOLEAN, parentId : Long, ret : {0, -1}, out : Seq(Entry)]

StoreTyped ==
    /\ DbTypeOK
    /\ \A n \in DOMAIN folders : folders[n] \in Seq(Number)
    /\ \A n \in DOMAIN files : files[n] \in Seq(Number)

\* A process that makes or renames has been told what.
Making(c) ==
    /\ pc[c] \in {"GET", "INCR", "LPUSH", "HMSET"} =>
          reg[c].op = "make" /\ reg[c].kind \in Kinds /\ reg[c].path # <<>>
          /\ reg[c].parentId \in Nat
    /\ pc[c] \in {"INCR", "LPUSH", "HMSET"} => reg[c].id \in Number
    /\ pc[c] = "HSET" =>
          reg[c].op = "rename" /\ reg[c].path # <<>> /\ reg[c].id \in Nat

Typed ==
    /\ StoreTyped
    /\ pc \in [Client -> Labels] /\ reg \in [Client -> Registers]
    /\ made \in 0 .. MaxCalls
    /\ \A c \in Client : Making(c)

\* The counter has gone up once for every call that was to draw a number,
\* those that are about to left out.
Drawing == {c \in Client : pc[c] \in {"GET", "INCR"}}
Counter ==
    /\ idCount \in Nat /\ idCount >= 4
    /\ IsFiniteSet(Drawing)
    /\ idCount + Cardinality(Drawing) <= 4 + made

Base == Typed /\ Counter

-----------------------------------------------------------------------------
(* Every number a process reads has its hash.                              *)

\* An entry listed has its hash, or its maker is about to write it.
Owed(kind, n) ==
    \/ n \in DOMAIN Info(kind)
    \/ \E d \in Client : pc[d] = "HMSET" /\ reg[d].kind = kind /\ reg[d].id = n

ListedOwed ==
    /\ ROOT_FOLDER_ID \in DOMAIN folderInfo
    /\ \A kind \in Kinds : \A m \in DOMAIN ListsOf(kind) :
          \A n \in ToSet(ListsOf(kind)[m]) : Owed(kind, n)

Walking == {"walk", "files", "file", "folders", "folder", "found"}

\* A call keeps to its labels.
Asking(c) ==
    /\ pc[c] \in Walking \cup {"parent", "parsed"} =>
          reg[c].op \in {"readdir", "getattr", "delete"}
    /\ pc[c] = "statname" => reg[c].op \in {"getattr", "delete"}
    /\ pc[c] = "LREM" => reg[c].op = "delete" /\ reg[c].type \in Kinds
    /\ pc[c] = "kind" => reg[c].op = "readdir"
    /\ pc[c] = "statname" => reg[c].type \in Kinds
    /\ pc[c] = "parent" => reg[c].type = "dir"
    /\ pc[c] \in {"files", "folders", "folder"} => reg[c].type = "none"
    /\ pc[c] = "file" => reg[c].type \in {"none", "file"}
    /\ pc[c] = "name" => reg[c].type \in Kinds
    /\ pc[c] = "name" /\ reg[c].op = "readdir" => reg[c].ids # <<>>

\* The folder a walk is in and the entry it has found have their hashes, and
\* so has what is still to be read, or c saw an entry without one.
Hashed(c) ==
    /\ pc[c] \in Walking =>
          reg[c].dir \in Number /\ reg[c].dir \in DOMAIN folderInfo
    /\ pc[c] \in {"file", "found", "parsed", "statname"} /\ reg[c].type = "file" =>
          reg[c].id \in Number /\ reg[c].id \in DOMAIN fileInfo
    /\ pc[c] \in {"found", "parent", "statname"} /\ reg[c].type = "dir" =>
          reg[c].id \in Number /\ reg[c].id \in DOMAIN folderInfo
    /\ pc[c] = "crashed" => saw[c]
    /\ \/ saw[c]
       \/ /\ pc[c] = "file" => \A n \in ToSet(reg[c].ids) : n \in DOMAIN fileInfo
          /\ pc[c] = "folder" => \A n \in ToSet(reg[c].ids) : n \in DOMAIN folderInfo
          /\ pc[c] \in {"listfiles", "kind", "name"} /\ reg[c].op = "readdir" =>
                \A n \in ToSet(reg[c].ids) : n \in DOMAIN folderInfo \cup DOMAIN fileInfo
          /\ pc[c] = "name" /\ reg[c].op = "readdir" =>
                Head(reg[c].ids) \in DOMAIN Info(reg[c].type)
          /\ pc[c] = "name" /\ reg[c].op # "readdir" =>
                \A n \in ToSet(reg[c].ids) : n \in DOMAIN Info(reg[c].type)

\* Whoever runs while a hash is missing has seen it.
AllSaw == \A c, d \in Client : pc[c] # "idle" /\ pc[d] = "HMSET" => saw[c]

HashInv == /\ Base /\ ListedOwed /\ AllSaw
           /\ saw \in [Client -> BOOLEAN]
           /\ \A c \in Client : Asking(c) /\ Hashed(c)

-----------------------------------------------------------------------------
(* What a search and a listing have still to come to.                      *)

\* What bears the name looked for is still to be compared.
Left(c, kind) ==
    \A e \in stable[c] : e[1] = kind /\ e[3] = Wanted(c) => e[2] \in ToSet(reg[c].ids)
NoneOf(c, kind) == \A e \in stable[c] : e[1] = kind => e[3] # Wanted(c)

Sought(c) ==
    /\ pc[c] = "file" => Left(c, "file") \/ reg[c].type = "file"
    /\ pc[c] \in {"folders", "folder"} => NoneOf(c, "file")
    /\ pc[c] = "folder" => Left(c, "dir")
    /\ pc[c] = "found" /\ reg[c].type = "none" =>
          \A e \in stable[c] : e[3] # Wanted(c)

\* The entries of a kind are listed or still to be.
Shown(c, kind) ==
    \A e \in stable[c] : e[1] = kind => e \in ToSet(reg[c].out)
ShownOrLeft(c, kind) ==
    \A e \in stable[c] : e[1] = kind =>
        \/ e \in ToSet(reg[c].out)
        \/ e[2] \in ToSet(reg[c].ids)
        \/ reg[c].op = "readdir" /\ e[2] \in Shared

Listed(c) ==
    /\ reg[c].op = "list" =>
         /\ pc[c] = "name" /\ reg[c].type = "dir" => ShownOrLeft(c, "dir")
         /\ pc[c] = "listfiles" => Shown(c, "dir")
         /\ pc[c] = "name" /\ reg[c].type = "file" => Shown(c, "dir") /\ ShownOrLeft(c, "file")
         /\ pc[c] = "done" => \A e \in stable[c] : e \in ToSet(reg[c].out)
    /\ reg[c].op = "readdir" =>
         /\ pc[c] = "listfiles" => ShownOrLeft(c, "dir")
         /\ pc[c] \in {"kind", "name"} => ShownOrLeft(c, "dir") /\ ShownOrLeft(c, "file")
         /\ pc[c] = "name" => \A e \in stable[c] :
               e[2] = Head(reg[c].ids) => e[1] = reg[c].type \/ e[2] \in Shared
         /\ pc[c] = "done" => \A e \in stable[c] :
               e \in ToSet(reg[c].out) \/ e[2] \in Shared

ReadInv == /\ Base /\ \A c \in Client : Asking(c) /\ Sought(c) /\ Listed(c)

-----------------------------------------------------------------------------
(* One process makes the entries of a kind.                                *)

OneMaker ==
    \A c, d \in Client : \A x \in Calls[c], y \in Calls[d] :
        x.op = "make" /\ y.op = "make" /\ x.kind = y.kind => c = d

\* What c makes it was asked to.
Asked(c) ==
    pc[c] \in {"GET", "INCR", "LPUSH", "HMSET"} =>
        \E x \in Calls[c] : x.op = "make" /\ x.kind = reg[c].kind

\* No entry of this kind with this number will be made any more.
Below(kind, n) ==
    /\ n \in Nat /\ n < idCount
    /\ \A c \in Client : pc[c] \in {"INCR", "LPUSH"} /\ reg[c].kind = kind => n < reg[c].id

In(kind, n, m) == m \in DOMAIN ListsOf(kind) /\ n \in ToSet(ListsOf(kind)[m])
OnlyIn(kind, n, dir) == \A m : In(kind, n, m) => m = dir

Unlisted ==
    /\ \A kind \in Kinds : \A n, m : In(kind, n, m) => n # ROOT_FOLDER_ID /\ Below(kind, n)
    /\ \A kind \in Kinds : \A n, m1, m2 : In(kind, n, m1) /\ In(kind, n, m2) => m1 = m2
    /\ \A g \in gone : g[1] \in Kinds /\ Below(g[1], g[2]) /\ \A m : ~In(g[1], g[2], m)
    /\ \A n \in DOMAIN folderInfo : Below("dir", n) /\ OnlyIn("dir", n, folderInfo[n].parent)

Settled(c) ==
    /\ pc[c] = "INCR" => reg[c].id <= idCount
    /\ pc[c] \in {"INCR", "LPUSH"} => reg[c].id >= 4
    /\ pc[c] \in {"LPUSH", "HMSET"} => reg[c].id < idCount
    /\ pc[c] = "HMSET" => Below(reg[c].kind, reg[c].id) /\ OnlyIn(reg[c].kind, reg[c].id, reg[c].parentId)
    /\ pc[c] \in Walking => reg[c].dir \in Number
    /\ pc[c] = "file" => \A n \in ToSet(reg[c].ids) : Below("file", n) /\ OnlyIn("file", n, reg[c].dir)
    /\ pc[c] = "folder" => \A n \in ToSet(reg[c].ids) : Below("dir", n) /\ OnlyIn("dir", n, reg[c].dir)
    /\ pc[c] \in {"file", "found"} /\ reg[c].type # "none" =>
          reg[c].id \in Number /\ Below(reg[c].type, reg[c].id) /\ OnlyIn(reg[c].type, reg[c].id, reg[c].dir)
    /\ pc[c] = "parent" => reg[c].id \in Number /\ Below("dir", reg[c].id) /\ OnlyIn("dir", reg[c].id, reg[c].dir) /\ reg[c].dir \in Number
    /\ pc[c] \in {"parsed", "LREM"} /\ reg[c].type # "none" =>
          reg[c].id \in Number /\ Below(reg[c].type, reg[c].id) /\ OnlyIn(reg[c].type, reg[c].id, reg[c].parentId)

GoneInv == Base /\ Unlisted /\ \A c \in Client : Asking(c) /\ Asked(c) /\ Settled(c)

-----------------------------------------------------------------------------
(* Steps that only read.                                                   *)

MakingLabels == {"GET", "INCR", "LPUSH", "HMSET", "HSET"}

ReadStep(c) ==
    \/ Walk(c) \/ FindFiles(c) \/ FindFile(c) \/ FindFileEnd(c)
    \/ FindFolders(c) \/ FindFolder(c) \/ FindFolderEnd(c) \/ Found(c)
    \/ ParseParent(c) \/ Parsed(c) \/ StatParsed(c) \/ StatName(c)
    \/ ListFolders(c) \/ ListFiles(c) \/ AskKind(c) \/ AskName(c) \/ ListEnd(c)
    \/ Return(c)

LEMMA ReadEffect ==
    ASSUME Typed, NEW c \in Client, NEW label, NEW r, Read(c, label, r)
    PROVE  /\ pc'[c] = label /\ reg'[c] = r
           /\ \A d \in Client : d # c => pc'[d] = pc[d] /\ reg'[d] = reg[d]
           /\ UNCHANGED <<idCount, created, folderInfo, fileInfo, folders, files, made, gone>>
BY DEF Typed, Read, Goto, Set, dbVars

LEMMA BlankTyped == Blank \in Registers
<1>1. <<>> \in Seq(Number) /\ <<>> \in Seq(Seq(Char)) /\ <<>> \in Seq(Entry)
  OBVIOUS
<1> QED
  BY <1>1, Longs DEF Blank, Registers

LEMMA NumberRegisters ==
    ASSUME NEW r \in Registers, NEW n \in Long
    PROVE  /\ [r EXCEPT !.id = n] \in Registers
           /\ [r EXCEPT !.dir = n] \in Registers
           /\ [r EXCEPT !.parentId = n] \in Registers
BY DEF Registers

\* A list is read as it is.
LEMMA ReadList ==
    ASSUME StoreTyped, NEW dir, NEW kind \in Kinds
    PROVE  /\ Ids(LRANGE(ListsOf(kind), dir)) = LRANGE(ListsOf(kind), dir)
           /\ LRANGE(ListsOf(kind), dir) \in Seq(Number)
<1> DEFINE s == LRANGE(ListsOf(kind), dir)
<1>1. s \in Seq(Number)
  BY DEF StoreTyped, LRANGE, ListsOf, Kinds
<1> HIDE DEF s
<1>2. \A i \in 1 .. Len(s) : Strtol(s[i]) = s[i]
  BY <1>1, NumberFacts
<1>3. Ids(s) = s
  BY <1>1, <1>2 DEF Ids
<1> QED
  BY <1>1, <1>3 DEF s

LEMMA NamesTyped ==
    ASSUME StoreTyped, NEW kind \in Kinds, NEW n \in Number, HasInfo(Info(kind), n)
    PROVE  /\ n \in DOMAIN Info(kind) /\ HGETname(Info(kind), n) = Info(kind)[n].name
           /\ HGETname(Info(kind), n) \in Seq(Char)
BY NumberFacts DEF StoreTyped, DbTypeOK, Kinds, Info, HasInfo, HGETname

LEMMA ReadStepsRead ==
    ASSUME Typed, NEW c \in Client, Asking(c), ReadStep(c)
    PROVE  \E label \in Labels \ MakingLabels, r \in Registers : Read(c, label, r)
<1> DEFINE r0 == reg[c]
<1> USE DEF Labels, MakingLabels
<1>1. r0 \in Registers /\ StoreTyped
  BY DEF Typed
<1>2. \A dir : /\ Ids(LRANGE(files, dir)) \in Seq(Number)
               /\ Ids(LRANGE(folders, dir)) \in Seq(Number)
  <2>1. ASSUME NEW dir, NEW kind \in Kinds PROVE Ids(LRANGE(ListsOf(kind), dir)) \in Seq(Number)
    BY <1>1, ReadList
  <2> QED
    BY <2>1 DEF Kinds, ListsOf
<1>3. r0.ids # <<>> => Tail(r0.ids) \in Seq(Number) /\ Head(r0.ids) \in Number
  BY <1>1, HeadAndTail DEF Registers
<1>4. ROOT_FOLDER_ID \in Long /\ ROOT_PARENT_ID \in Long /\ NoId \in Long
  BY Longs
<1>5. Blank \in Registers
  BY BlankTyped
<1>6. CASE Walk(c)
  BY <1>1, <1>4, <1>6 DEF Walk, Registers
<1>7. CASE FindFiles(c)
  BY <1>1, <1>2, <1>7 DEF FindFiles, Registers
<1>8. CASE FindFile(c)
  <2>1. Head(r0.ids) \in Long
    BY <1>3, <1>8, Longs DEF FindFile
  <2>2. [r0 EXCEPT !.ids = Tail(@)] \in Registers
    BY <1>1, <1>3, <1>8 DEF FindFile, Registers
  <2>3. [[r0 EXCEPT !.ids = Tail(@)] EXCEPT !.id = Head(r0.ids), !.type = "file"] \in Registers
    BY <2>1, <2>2 DEF Registers
  <2> QED
    BY <1>5, <1>8, <2>2, <2>3, Zenon DEF FindFile, Crash
<1>9. CASE FindFileEnd(c) \/ FindFolderEnd(c)
  BY <1>1, <1>9 DEF FindFileEnd, FindFolderEnd
<1>10. CASE FindFolders(c)
  BY <1>1, <1>2, <1>10 DEF FindFolders, Registers
<1>11. CASE FindFolder(c)
  <2>1. ToInt(Head(r0.ids)) \in Long
    BY <1>3, <1>11, NumberFacts, Longs DEF FindFolder
  <2>2. [r0 EXCEPT !.ids = Tail(@)] \in Registers
    BY <1>1, <1>3, <1>11 DEF FindFolder, Registers
  <2>3. FoundDir(c, ToInt(Head(r0.ids))) \in Registers
    BY <1>1, <2>1 DEF Registers, FoundDir
  <2> QED
    BY <1>5, <1>11, <2>2, <2>3, Zenon DEF FindFolder, Crash
<1>12. CASE Found(c)
  <2> DEFINE isFile == (reg[c].type = "file")
  <2>1. /\ [r0 EXCEPT !.parentId = reg[c].dir, !.existing = isFile] \in Registers
        /\ [r0 EXCEPT !.dir = reg[c].id, !.pos = @ + 1] \in Registers
    <3>1. isFile \in BOOLEAN
      OBVIOUS
    <3> HIDE DEF isFile
    <3>2. [r0 EXCEPT !.parentId = reg[c].dir] \in Registers
      BY <1>1 DEF Registers
    <3>3. \A b \in BOOLEAN, r \in Registers : [r EXCEPT !.existing = b] \in Registers
      BY DEF Registers
    <3>4. [r0 EXCEPT !.parentId = reg[c].dir, !.existing = isFile] \in Registers
      BY <3>1, <3>2, <3>3, Zenon
    <3>5. [r0 EXCEPT !.dir = reg[c].id, !.pos = @ + 1] \in Registers
      <4>1. r0.pos + 1 \in Nat /\ r0.id \in Long
        BY <1>1 DEF Registers
      <4>2. \A i \in Nat, n \in Long, r \in Registers : [r EXCEPT !.dir = n, !.pos = i] \in Registers
        BY DEF Registers
      <4> QED
        BY <1>1, <4>1, <4>2
    <3> QED
      BY <3>4, <3>5
  <2>2. [r0 EXCEPT !.id = NoId, !.type = "none", !.dir = NoId] \in Registers
    BY <1>1, <1>4 DEF Registers
  <2>3. \A type \in {"file", "dir"} :
           [[r0 EXCEPT !.id = NoId, !.type = "none", !.dir = NoId] EXCEPT !.type = type] \in Registers
    BY <2>2 DEF Registers
  <2> QED
    BY <1>1, <1>12, <2>1, <2>2, <2>3 DEF Found, WalkFails
<1>13. CASE ParseParent(c)
  <2>1. ASSUME HasInfo(folderInfo, r0.id)
        PROVE  ToInt(HGETparent(folderInfo, r0.id)) \in Long
    <3>1. folderInfo[Lu(r0.id)].parent \in Nat
      BY <1>1, <2>1 DEF StoreTyped, DbTypeOK, HasInfo
    <3> QED
      BY <3>1, ReadNumbers DEF HGETparent
  <2>2. HasInfo(folderInfo, r0.id) =>
          [r0 EXCEPT !.parentId = ToInt(HGETparent(folderInfo, r0.id))] \in Registers
    BY <1>1, <2>1 DEF Registers
  <2> QED
    BY <1>5, <1>13, <2>2, Zenon DEF ParseParent, Crash
<1>14. CASE Parsed(c)
  <2>1. [r0 EXCEPT !.ret = -1] \in Registers
    BY <1>1 DEF Registers
  <2> QED
    BY <1>1, <1>14, <2>1 DEF Parsed
<1>15. CASE StatParsed(c)
  BY <1>1, <1>4, <1>15 DEF StatParsed, StartTarget, Registers
<1>16. CASE StatName(c)
  BY <1>1, <1>5, <1>16, Zenon DEF StatName, Crash
<1>17. CASE ListFolders(c)
  BY <1>1, <1>2, <1>17 DEF ListFolders, Registers
<1>18. CASE ListFiles(c)
  <2>1. r0.ids \o Ids(LRANGE(files, r0.dir)) \in Seq(Number)
    BY <1>1, <1>2, SetOfConcat DEF Registers
  <2>2. /\ [r0 EXCEPT !.ids = @ \o Ids(LRANGE(files, reg[c].dir))] \in Registers
        /\ [r0 EXCEPT !.ids = Ids(LRANGE(files, reg[c].dir)), !.type = "file"] \in Registers
    BY <1>1, <1>2, <2>1 DEF Registers
  <2> QED
    BY <1>18, <2>2, Zenon DEF ListFiles
<1>19. CASE AskKind(c)
  BY <1>1, <1>19 DEF AskKind, Registers
<1>20. CASE AskName(c)
  <2> DEFINE n == Head(r0.ids)
             info == IF r0.type = "dir" THEN folderInfo ELSE fileInfo
  <2>1. n \in Number /\ r0.ids # <<>> /\ Tail(r0.ids) \in Seq(Number)
    BY <1>3, <1>20 DEF AskName
  <2>2. r0.type \in Kinds
    BY <1>20 DEF AskName, Asking
  <2>3. info = Info(r0.type)
    BY <2>2 DEF Info, Kinds
  <2>4. ASSUME HasInfo(info, n)
        PROVE  <<r0.type, n, HGETname(info, n)>> \in Entry
    <3>1. HGETname(info, n) \in Seq(Char)
      BY <1>1, <2>1, <2>2, <2>3, <2>4, NamesTyped
    <3>2. n \in Nat /\ r0.type \in {"file", "dir", "none"}
      BY <2>1, <2>2 DEF Number, Kinds
    <3> QED
      BY <3>1, <3>2 DEF Entry
  <2> HIDE DEF n, info
  <2>5. HasInfo(info, n) => Append(r0.out, <<r0.type, n, HGETname(info, n)>>) \in Seq(Entry)
    BY <1>1, <2>4, SetOfAppend DEF Registers
  <2>6. HasInfo(info, n) =>
          [r0 EXCEPT !.ids = Tail(@), !.out = Append(@, <<r0.type, n, HGETname(info, n)>>)]
             \in Registers
    BY <1>1, <2>1, <2>5 DEF Registers
  <2> QED
    BY <1>5, <1>20, <2>6, Zenon DEF AskName, Crash, n, info
<1>21. CASE ListEnd(c)
  BY <1>1, <1>21 DEF ListEnd
<1>22. CASE Return(c)
  BY <1>5, <1>22 DEF Return
<1> QED
  BY <1>6, <1>7, <1>8, <1>9, <1>10, <1>11, <1>12, <1>13, <1>14, <1>15, <1>16, <1>17,
     <1>18, <1>19, <1>20, <1>21, <1>22 DEF ReadStep

-----------------------------------------------------------------------------
(* Steps that write.                                                       *)

\* One number's hash is written, the others stay.
LEMMA HashWritten ==
    ASSUME NEW info, NEW n \in Nat, NEW h
    PROVE  /\ DOMAIN HMSET(info, n, h) = DOMAIN info \cup {n}
           /\ HMSET(info, n, h)[n] = h
           /\ \A m \in DOMAIN info : m # n => HMSET(info, n, h)[m] = info[m]
BY LuNat DEF HMSET

LEMMA HashTyped ==
    ASSUME NEW S, NEW info, \A m \in DOMAIN info : m \in Nat /\ info[m] \in S,
           NEW n \in Nat, NEW h \in S
    PROVE  \A m \in DOMAIN HMSET(info, n, h) : m \in Nat /\ HMSET(info, n, h)[m] \in S
<1> DEFINE new == HMSET(info, n, h)
<1>1. /\ DOMAIN new = DOMAIN info \cup {n} /\ new[n] = h
      /\ \A m \in DOMAIN info : m # n => new[m] = info[m]
  BY LuNat DEF HMSET
<1> HIDE DEF new
<1>2. \A m \in DOMAIN new : m \in Nat /\ new[m] \in S
  BY <1>1
<1> QED
  BY <1>2 DEF new

\* A number is put in front of one list, the others stay.
LEMMA Pushed ==
    ASSUME NEW kind \in Kinds, StoreTyped, NEW dir \in Nat, NEW n \in Number
    PROVE  LET new == LPUSH(ListsOf(kind), dir, n)
           IN  /\ DOMAIN new = DOMAIN ListsOf(kind) \cup {dir}
               /\ \A m \in DOMAIN new : new[m] \in Seq(Number)
               /\ \A m \in DOMAIN ListsOf(kind) : m # dir => new[m] = ListsOf(kind)[m]
               /\ \A m \in DOMAIN new : \A i \in ToSet(new[m]) :
                     \/ m = dir /\ i = n
                     \/ m \in DOMAIN ListsOf(kind) /\ i \in ToSet(ListsOf(kind)[m])
<1> DEFINE lists == ListsOf(kind)
           old == LRANGE(lists, dir)
           new == LPUSH(lists, dir, n)
<1>1. Lu(dir) = dir /\ Lu(n) = n
  BY LuNat, NumberFacts
<1>2. old \in Seq(Number) /\ \A m \in DOMAIN lists : lists[m] \in Seq(Number)
  BY ReadList DEF StoreTyped, ListsOf, Kinds
<1>3. old = IF dir \in DOMAIN lists THEN lists[dir] ELSE <<>>
  BY <1>1 DEF LRANGE
<1>4. new = [m \in DOMAIN lists \cup {dir} |-> IF m = dir THEN <<n>> \o old ELSE lists[m]]
  BY <1>1 DEF LPUSH
<1> HIDE DEF lists, old, new
<1>5. <<n>> \o old \in Seq(Number) /\ \A i \in ToSet(<<n>> \o old) : i = n \/ i \in ToSet(old)
  <2>1. <<n>> \in Seq(Number) /\ Len(<<n>>) = 1 /\ <<n>>[1] = n
    OBVIOUS
  <2>2. \A i \in ToSet(<<n>>) : i = n
    <3>1. \A i \in ToSet(<<n>>) : \E j \in 1 .. Len(<<n>>) : <<n>>[j] = i
      BY <2>1, SetOfList
    <3> QED
      BY <2>1, <3>1
  <2> QED
    BY <1>2, <2>1, <2>2, SetOfConcat
<1>6. ASSUME NEW m \in DOMAIN new, NEW i \in ToSet(new[m])
      PROVE  (m = dir /\ i = n) \/ (m \in DOMAIN lists /\ i \in ToSet(lists[m]))
  <2>1. CASE m # dir
    BY <1>4, <1>6, <2>1
  <2>2. CASE m = dir
    <3>1. i = n \/ i \in ToSet(old)
      BY <1>4, <1>5, <1>6, <2>2
    <3>2. <<>> \in Seq(Number)
      OBVIOUS
    <3>3. dir \notin DOMAIN lists => ToSet(old) = {}
      BY <1>3, <3>2, SetOfList
    <3>4. i # n => dir \in DOMAIN lists /\ i \in ToSet(lists[dir])
      BY <1>3, <3>1, <3>3
    <3> QED
      BY <2>2, <3>4
  <2> QED
    BY <2>1, <2>2
<1>7. \A m \in DOMAIN new : new[m] \in Seq(Number)
  BY <1>2, <1>4, <1>5
<1> QED
  BY <1>4, <1>6, <1>7 DEF lists, new

\* A number is taken out of one list, the others stay.
LEMMA Removed ==
    ASSUME NEW kind \in Kinds, StoreTyped, NEW dir, NEW n
    PROVE  LET new == LREM(ListsOf(kind), dir, n)
           IN  /\ DOMAIN new = DOMAIN ListsOf(kind)
               /\ \A m \in DOMAIN new : new[m] \in Seq(Number)
               /\ \A m \in DOMAIN new : \A i \in ToSet(new[m]) :
                     i \in ToSet(ListsOf(kind)[m]) /\ (m = dir => i # n)
<1> DEFINE lists == ListsOf(kind)
           new == LREM(lists, dir, n)
<1>1. \A m \in DOMAIN lists : lists[m] \in Seq(Number)
  BY DEF StoreTyped, ListsOf, Kinds
<1>2. new = [m \in DOMAIN lists |-> IF m = dir THEN Without(lists[m], n) ELSE lists[m]]
  BY DEF LREM, Ld
<1> HIDE DEF lists, new
<1>3. ASSUME NEW m \in DOMAIN lists
      PROVE  /\ new[m] \in Seq(Number)
             /\ \A i \in ToSet(new[m]) : i \in ToSet(lists[m]) /\ (m = dir => i # n)
  <2>1. CASE m = dir
    BY <1>1, <1>2, <1>3, <2>1, SetOfWithout
  <2>2. CASE m # dir
    BY <1>1, <1>2, <1>3, <2>2
  <2> QED
    BY <2>1, <2>2
<1> QED
  BY <1>2, <1>3 DEF lists, new

\* What the steps that write do to the registers and to the store.
LEMMA WriteEffect ==
    ASSUME Typed, NEW c \in Client,
           IncrNewId(c) \/ AddToList(c) \/ SetInfo(c) \/ vfs_setFileName(c) \/ RemoveFromList(c)
    PROVE  /\ pc'[c] = CASE pc[c] = "INCR" -> "LPUSH" [] pc[c] = "LPUSH" -> "HMSET" [] OTHER -> "done"
           /\ \A d \in Client : d # c => pc'[d] = pc[d]
           /\ reg' = reg /\ made' = made /\ created' = created
           /\ pc' \in [Client -> Labels]
           /\ DOMAIN folderInfo \subseteq DOMAIN folderInfo'
           /\ DOMAIN fileInfo \subseteq DOMAIN fileInfo'
<1> USE DEF Labels, Goto
<1>1. pc \in [Client -> Labels] /\ Making(c)
  BY DEF Typed
<1>2. CASE IncrNewId(c)
  BY <1>1, <1>2 DEF IncrNewId
<1>3. CASE AddToList(c)
  BY <1>1, <1>3 DEF AddToList
<1>4. CASE SetInfo(c)
  <2>1. reg[c].id \in Nat
    BY <1>1, <1>4 DEF SetInfo, Making, Number
  <2>2. /\ DOMAIN folderInfo \subseteq DOMAIN folderInfo'
        /\ DOMAIN fileInfo \subseteq DOMAIN fileInfo'
    <3>1. \A info, h : DOMAIN info \subseteq DOMAIN HMSET(info, reg[c].id, h)
      BY <2>1, LuNat DEF HMSET
    <3> QED
      BY <1>4, <3>1 DEF SetInfo
  <2> QED
    BY <1>1, <1>4, <2>2 DEF SetInfo
<1>5. CASE vfs_setFileName(c)
  <2>1. reg[c].id \in Nat
    BY <1>1, <1>5 DEF vfs_setFileName, Making
  <2>2. DOMAIN fileInfo \subseteq DOMAIN fileInfo' /\ folderInfo' = folderInfo
    <3>1. \A info, h : DOMAIN info \subseteq DOMAIN HMSET(info, reg[c].id, h)
      BY <2>1, LuNat DEF HMSET
    <3> QED
      BY <1>5, <3>1 DEF vfs_setFileName
  <2> QED
    BY <1>1, <1>5, <2>2 DEF vfs_setFileName
<1>6. CASE RemoveFromList(c)
  BY <1>1, <1>6 DEF RemoveFromList
<1> QED
  BY <1>2, <1>3, <1>4, <1>5, <1>6

LEMMA StoreStep ==
    ASSUME Typed, NEW c \in Client, Asking(c), idCount \in Nat,
           IncrNewId(c) \/ AddToList(c) \/ SetInfo(c) \/ vfs_setFileName(c) \/ RemoveFromList(c)
    PROVE  StoreTyped'
<1>1. StoreTyped /\ Making(c) /\ reg[c] \in Registers
  BY DEF Typed
<1>2. \A n : n \in Number => n \in Nat
  BY DEF Number
<1>3. CASE IncrNewId(c)
  BY <1>1, <1>3 DEF IncrNewId, StoreTyped, DbTypeOK, INCR, Absent
<1>4. CASE AddToList(c)
  <2>1. /\ reg[c].parentId \in Nat /\ reg[c].id \in Number /\ reg[c].kind \in Kinds
    BY <1>1, <1>4 DEF AddToList, Making
  <2>2. LET new == LPUSH(ListsOf(reg[c].kind), reg[c].parentId, reg[c].id)
        IN  /\ DOMAIN new = DOMAIN ListsOf(reg[c].kind) \cup {reg[c].parentId}
            /\ \A m \in DOMAIN new : new[m] \in Seq(Number)
    BY <1>1, <2>1, Pushed, ZenonT(60)
  <2>3. \A s \in Seq(Number) : s \in Seq(Nat)
    BY NumbersAreNat
  <2>4. CASE reg[c].kind = "dir"
    <3>1. /\ DOMAIN folders' = DOMAIN folders \cup {reg[c].parentId}
          /\ \A m \in DOMAIN folders' : folders'[m] \in Seq(Number)
      BY <1>4, <2>2, <2>4 DEF AddToList, ListsOf
    <3>2. UNCHANGED <<idCount, created, folderInfo, fileInfo, files>>
      BY <1>4, <2>4 DEF AddToList
    <3> QED
      BY <1>1, <2>1, <2>3, <3>1, <3>2 DEF StoreTyped, DbTypeOK
  <2>5. CASE reg[c].kind # "dir"
    <3>1. /\ DOMAIN files' = DOMAIN files \cup {reg[c].parentId}
          /\ \A m \in DOMAIN files' : files'[m] \in Seq(Number)
      BY <1>4, <2>2, <2>5 DEF AddToList, ListsOf
    <3>2. UNCHANGED <<idCount, created, folderInfo, fileInfo, folders>>
      BY <1>4, <2>5 DEF AddToList
    <3> QED
      BY <1>1, <2>1, <2>3, <3>1, <3>2 DEF StoreTyped, DbTypeOK
  <2> QED
    BY <2>4, <2>5
<1>5. ASSUME SetInfo(c) \/ vfs_setFileName(c)
      PROVE  reg[c].id \in Nat /\ Name(c) \in Seq(Char)
  <2>1. reg[c].id \in Nat /\ reg[c].path # <<>> /\ reg[c].path \in Seq(Seq(Char))
    BY <1>1, <1>2, <1>5 DEF SetInfo, vfs_setFileName, Making, Registers
  <2> QED
    BY <2>1 DEF Name
<1>6. CASE SetInfo(c)
  <2>1. reg[c].parentId \in Nat
    BY <1>1, <1>6 DEF SetInfo, Making
  <2>2. FolderHash(reg[c].parentId, Name(c)) \in [parent : Nat, name : Seq(Char)]
        /\ FileHash(Name(c)) \in [name : Seq(Char)]
    BY <1>5, <1>6, <2>1, LuNat DEF FolderHash, FileHash
  <2>3. CASE reg[c].kind = "dir"
    <3>1. /\ folderInfo' = HMSET(folderInfo, reg[c].id, FolderHash(reg[c].parentId, Name(c)))
          /\ UNCHANGED <<idCount, created, fileInfo, folders, files>>
      BY <1>6, <2>3 DEF SetInfo
    <3>2. \A n \in DOMAIN folderInfo' :
             /\ n \in Nat
             /\ folderInfo'[n] \in [parent : Nat, name : Seq(Char)]
      <4>1. \A n \in DOMAIN folderInfo :
               n \in Nat /\ folderInfo[n] \in [parent : Nat, name : Seq(Char)]
        BY <1>1 DEF StoreTyped, DbTypeOK
      <4> QED
        BY <1>5, <1>6, <2>2, <3>1, <4>1, HashTyped
    <3> QED
      BY <1>1, <3>1, <3>2 DEF StoreTyped, DbTypeOK
  <2>4. CASE reg[c].kind # "dir"
    <3>1. /\ fileInfo' = HMSET(fileInfo, reg[c].id, FileHash(Name(c)))
          /\ UNCHANGED <<idCount, created, folderInfo, folders, files>>
      BY <1>6, <2>4 DEF SetInfo
    <3>2. \A n \in DOMAIN fileInfo' : n \in Nat /\ fileInfo'[n] \in [name : Seq(Char)]
      <4>1. \A n \in DOMAIN fileInfo : n \in Nat /\ fileInfo[n] \in [name : Seq(Char)]
        BY <1>1 DEF StoreTyped, DbTypeOK
      <4> QED
        BY <1>5, <1>6, <2>2, <3>1, <4>1, HashTyped
    <3> QED
      BY <1>1, <3>1, <3>2 DEF StoreTyped, DbTypeOK
  <2> QED
    BY <2>3, <2>4
<1>7. CASE vfs_setFileName(c)
  <2>1. /\ fileInfo' = HMSET(fileInfo, reg[c].id, FileHash(Name(c)))
        /\ UNCHANGED <<idCount, created, folderInfo, folders, files>>
    BY <1>7 DEF vfs_setFileName
  <2>2. FileHash(Name(c)) \in [name : Seq(Char)]
    BY <1>5, <1>7 DEF FileHash
  <2>3. \A n \in DOMAIN fileInfo' : n \in Nat /\ fileInfo'[n] \in [name : Seq(Char)]
    <3>1. \A n \in DOMAIN fileInfo : n \in Nat /\ fileInfo[n] \in [name : Seq(Char)]
      BY <1>1 DEF StoreTyped, DbTypeOK
    <3> QED
      BY <1>5, <1>7, <2>1, <2>2, <3>1, HashTyped
  <2> QED
    BY <1>1, <2>1, <2>3 DEF StoreTyped, DbTypeOK
<1>8. CASE RemoveFromList(c)
  <2>1. UNCHANGED <<idCount, created, folderInfo, fileInfo>>
    BY <1>8 DEF RemoveFromList
  <2>2. \A s \in Seq(Number) : s \in Seq(Nat)
    BY NumbersAreNat
  <2>3. \A kind \in Kinds : LET new == LREM(ListsOf(kind), reg[c].parentId, reg[c].id)
        IN  DOMAIN new = DOMAIN ListsOf(kind) /\ \A m \in DOMAIN new : new[m] \in Seq(Number)
    BY <1>1, Removed
  <2>4. /\ folders' = folders \/ folders' = LREM(ListsOf("dir"), reg[c].parentId, reg[c].id)
        /\ files' = files \/ files' = LREM(ListsOf("file"), reg[c].parentId, reg[c].id)
    BY <1>8 DEF RemoveFromList, ListsOf
  <2>5. /\ DOMAIN folders' = DOMAIN folders
        /\ \A m \in DOMAIN folders' : folders'[m] \in Seq(Number)
    BY <1>1, <2>3, <2>4 DEF Kinds, ListsOf, StoreTyped
  <2>6. /\ DOMAIN files' = DOMAIN files
        /\ \A m \in DOMAIN files' : files'[m] \in Seq(Number)
    BY <1>1, <2>3, <2>4 DEF Kinds, ListsOf, StoreTyped
  <2> QED
    BY <1>1, <2>1, <2>2, <2>5, <2>6 DEF StoreTyped, DbTypeOK
<1> QED
  BY <1>3, <1>4, <1>6, <1>7, <1>8

-----------------------------------------------------------------------------
(* A call begins.                                                          *)

LEMMA FirstStepIs ==
    ASSUME NEW c \in Client, NEW call \in Calls[c]
    PROVE  LET l == FirstStep(call)[1]
               r == FirstStep(call)[2]
           IN  /\ r \in Registers /\ r.op = call.op /\ r.out = <<>>
               /\ l \in {"GET", "HSET", "listfolders", "walk", "parsed"}
               /\ l = "GET" => /\ r.op = "make" /\ r.kind \in Kinds /\ r.path # <<>>
                               /\ r.parentId \in Nat /\ r.kind = call.kind
               /\ l = "HSET" => r.op = "rename" /\ r.path # <<>> /\ r.id \in Nat
               /\ l = "listfolders" => r.op = "list"
               /\ l = "walk" => r.op \in {"readdir", "getattr", "delete"}
                                /\ r.dir = ROOT_FOLDER_ID
               /\ l = "parsed" => /\ r.op = "delete" /\ r.type = "dir"
                                  /\ r.id = ROOT_FOLDER_ID
                                  /\ r.parentId = ROOT_PARENT_ID
<1>1. /\ call \in Call
      /\ call.op \in {"make", "rename"} => call.path # <<>>
      /\ call.op = "make" => call.kind \in Kinds
  BY CallsAssumption DEF Kinds
<1> DEFINE r0 == [Blank EXCEPT !.op = call.op, !.kind = call.kind, !.path = call.path]
<1>2. /\ r0 \in Registers /\ r0.op = call.op /\ r0.kind = call.kind
      /\ r0.path = call.path /\ r0.out = <<>>
  BY <1>1, BlankTyped DEF Registers, Call, Blank
<1> HIDE DEF r0
<1>3. /\ ROOT_FOLDER_ID \in Long /\ ROOT_PARENT_ID \in Long
      /\ call.dir \in Nat /\ call.dir \in Long
  BY <1>1, Longs DEF Call
<1>4. FirstStep(call) =
        CASE call.op = "make"    -> <<"GET", [r0 EXCEPT !.parentId = call.dir]>>
          [] call.op = "rename"  -> <<"HSET", [r0 EXCEPT !.id = call.dir]>>
          [] call.op = "list"    -> <<"listfolders", [r0 EXCEPT !.dir = call.dir]>>
          [] call.op = "readdir" -> <<"walk", StartTarget(r0)>>
          [] call.op = "getattr" -> <<"walk", IF r0.path = <<>> THEN StartTarget(r0)
                                              ELSE StartParse(r0)>>
          [] call.op = "delete"  -> <<IF r0.path = <<>> THEN "parsed" ELSE "walk",
                                      StartParse(r0)>>
  BY DEF FirstStep, r0
<1>5. /\ StartTarget(r0) \in Registers /\ StartTarget(r0).op = r0.op
      /\ StartTarget(r0).out = <<>> /\ StartTarget(r0).dir = ROOT_FOLDER_ID
  BY <1>2, <1>3 DEF StartTarget, Registers
<1>6. /\ StartParse(r0) \in Registers /\ StartParse(r0).op = r0.op
      /\ StartParse(r0).out = <<>>
      /\ r0.path # <<>> => StartParse(r0).dir = ROOT_FOLDER_ID
      /\ r0.path = <<>> => /\ StartParse(r0).type = "dir" /\ StartParse(r0).id = ROOT_FOLDER_ID
                           /\ StartParse(r0).parentId = ROOT_PARENT_ID
  BY <1>2, <1>3 DEF StartParse, Registers
<1>7. CASE call.op = "make"
  <2> DEFINE r == [r0 EXCEPT !.parentId = call.dir]
  <2>1. FirstStep(call) = <<"GET", r>>
    BY <1>4, <1>7
  <2>2. r \in Registers
    BY <1>2, <1>3, NumberRegisters, Zenon
  <2>3. /\ r.op = "make" /\ r.kind = call.kind /\ r.path = call.path /\ r.out = <<>>
        /\ r.parentId = call.dir
    BY <1>2, <1>7 DEF Registers
  <2> HIDE DEF r
  <2> QED
    BY <1>1, <1>3, <1>7, <2>1, <2>2, <2>3
<1>8. CASE call.op = "rename"
  <2> DEFINE r == [r0 EXCEPT !.id = call.dir]
  <2>1. FirstStep(call) = <<"HSET", r>>
    BY <1>4, <1>8
  <2>2. r \in Registers
    BY <1>2, <1>3, NumberRegisters, Zenon
  <2>3. r.op = "rename" /\ r.path = call.path /\ r.out = <<>> /\ r.id = call.dir
    BY <1>2, <1>8 DEF Registers
  <2> HIDE DEF r
  <2> QED
    BY <1>1, <1>3, <1>8, <2>1, <2>2, <2>3
<1>9. CASE call.op = "list"
  <2> DEFINE r == [r0 EXCEPT !.dir = call.dir]
  <2>1. FirstStep(call) = <<"listfolders", r>>
    BY <1>4, <1>9
  <2>2. r \in Registers
    BY <1>2, <1>3, NumberRegisters, Zenon
  <2>3. r.op = "list" /\ r.out = <<>>
    BY <1>2, <1>9 DEF Registers
  <2> HIDE DEF r
  <2> QED
    BY <1>1, <1>9, <2>1, <2>2, <2>3
<1>10. CASE call.op = "readdir"
  BY <1>1, <1>2, <1>4, <1>5, <1>10
<1>11. CASE call.op = "getattr"
  BY <1>1, <1>2, <1>4, <1>5, <1>6, <1>11
<1>12. CASE call.op = "delete"
  BY <1>1, <1>2, <1>4, <1>6, <1>12
<1> QED
  BY <1>1, <1>7, <1>8, <1>9, <1>10, <1>11, <1>12 DEF Call

LEMMA BeginEffect ==
    ASSUME Typed, NEW c \in Client, Begin(c)
    PROVE  /\ \E call \in Calls[c] : /\ pc'[c] = FirstStep(call)[1]
                                     /\ reg'[c] = FirstStep(call)[2]
           /\ \A d \in Client : d # c => pc'[d] = pc[d] /\ reg'[d] = reg[d]
           /\ pc[c] = "idle" /\ made < MaxCalls /\ made' = made + 1
           /\ pc' \in [Client -> Labels] /\ reg' \in [Client -> Registers]
           /\ UNCHANGED <<idCount, created, folderInfo, fileInfo, folders, files, gone>>
<1>1. PICK call \in Calls[c] : Goto(c, FirstStep(call)[1]) /\ Set(c, FirstStep(call)[2])
  BY DEF Begin
<1>2. FirstStep(call)[2] \in Registers /\ FirstStep(call)[1] \in Labels
  BY FirstStepIs DEF Labels
<1> QED
  BY <1>1, <1>2 DEF Begin, Goto, Set, Typed, dbVars

\* Which label a step that only reads leads to and which it starts from.
LEMMA ReadLabels ==
    ASSUME NEW c \in Client, ReadStep(c)
    PROVE  pc[c] \notin MakingLabels \cup {"LREM", "idle", "crashed"}
BY DEF ReadStep, MakingLabels, Walk, FindFiles, FindFile, FindFileEnd, FindFolders,
       FindFolder, FindFolderEnd, Found, ParseParent, Parsed, StatParsed, StatName,
       ListFolders, ListFiles, AskKind, AskName, ListEnd, Return

LEMMA StepCases ==
    ASSUME NEW c, Step(c)
    PROVE  \/ ReadStep(c) \/ GetNewId(c)
           \/ IncrNewId(c) \/ AddToList(c) \/ SetInfo(c) \/ vfs_setFileName(c)
           \/ RemoveFromList(c)
BY DEF Step, ReadStep

LEMMA CounterKept ==
    ASSUME Counter, Drawing' = Drawing, idCount' = idCount, made' = made
    PROVE  Counter'
BY DEF Counter

LEMMA BaseStep ==
    ASSUME Base, NEW c \in Client, Asking(c), Begin(c) \/ Step(c)
    PROVE  Base'
<1>1. Typed /\ Counter
  BY DEF Base
<1>2. /\ pc \in [Client -> Labels] /\ reg \in [Client -> Registers]
      /\ StoreTyped /\ made \in 0 .. MaxCalls /\ \A d \in Client : Making(d)
  BY <1>1 DEF Typed
<1>3. idCount \in Nat /\ idCount \in Int /\ idCount \in Long /\ IsFiniteSet(Drawing) /\ Cardinality(Drawing) \in Nat
      /\ idCount >= 4 /\ idCount + Cardinality(Drawing) <= 4 + made
  BY <1>1, Longs, FS_CardinalityType DEF Counter
<1>4. CASE Begin(c)
  <2>1. PICK call \in Calls[c] : pc'[c] = FirstStep(call)[1] /\ reg'[c] = FirstStep(call)[2]
    BY <1>1, <1>4, BeginEffect
  <2>2. /\ \A d \in Client : d # c => pc'[d] = pc[d] /\ reg'[d] = reg[d]
        /\ pc[c] = "idle" /\ made < MaxCalls /\ made' = made + 1
        /\ pc' \in [Client -> Labels] /\ reg' \in [Client -> Registers]
        /\ UNCHANGED <<idCount, created, folderInfo, fileInfo, folders, files, gone>>
    BY <1>1, <1>4, BeginEffect
  <2>3. Making(c)'
    BY <2>1, FirstStepIs DEF Making
  <2>4. \A d \in Client : Making(d)'
    BY <1>2, <2>2, <2>3 DEF Making
  <2>5. Typed'
    BY <1>2, <2>2, <2>4, CallsAssumption DEF Typed, StoreTyped, DbTypeOK
  <2>6. Drawing' \subseteq Drawing \cup {c}
    BY <2>2 DEF Drawing
  <2>7. /\ IsFiniteSet(Drawing \cup {c})
        /\ Cardinality(Drawing \cup {c}) \in Nat
        /\ Cardinality(Drawing \cup {c}) <= Cardinality(Drawing) + 1
    BY <1>3, FS_AddElement
  <2>8. IsFiniteSet(Drawing') /\ Cardinality(Drawing') \in Nat
        /\ Cardinality(Drawing') <= Cardinality(Drawing \cup {c})
    BY <2>6, <2>7, FS_Subset, FS_CardinalityType
  <2>9. Counter'
    BY <1>2, <1>3, <2>2, <2>7, <2>8 DEF Counter
  <2> QED
    BY <2>5, <2>9 DEF Base
<1>5. CASE ReadStep(c)
  <2>1. PICK label \in Labels \ MakingLabels, r \in Registers : Read(c, label, r)
    BY <1>1, <1>5, ReadStepsRead
  <2>2. /\ pc'[c] = label /\ reg'[c] = r
        /\ \A d \in Client : d # c => pc'[d] = pc[d] /\ reg'[d] = reg[d]
        /\ UNCHANGED <<idCount, created, folderInfo, fileInfo, folders, files, made, gone>>
    BY <1>1, <2>1, ReadEffect
  <2>3. pc' \in [Client -> Labels] /\ reg' \in [Client -> Registers]
    BY <1>2, <2>1 DEF Read, Goto, Set
  <2>4. \A d \in Client : Making(d)'
    BY <1>2, <2>1, <2>2 DEF Making, MakingLabels
  <2>5. Typed'
    BY <1>2, <2>2, <2>3, <2>4 DEF Typed, StoreTyped, DbTypeOK
  <2>6. Drawing' = Drawing
    BY <1>5, <2>1, <2>2, ReadLabels DEF Drawing, MakingLabels
  <2> QED
    BY <1>1, <2>2, <2>5, <2>6, CounterKept DEF Base
<1>6. CASE GetNewId(c)
  <2>1. pc[c] = "GET" /\ Read(c, "INCR", [reg[c] EXCEPT !.id = idCount])
    BY <1>6 DEF GetNewId
  <2>2. /\ pc'[c] = "INCR" /\ reg'[c] = [reg[c] EXCEPT !.id = idCount]
        /\ \A d \in Client : d # c => pc'[d] = pc[d] /\ reg'[d] = reg[d]
        /\ UNCHANGED <<idCount, created, folderInfo, fileInfo, folders, files, made, gone>>
    BY <1>1, <2>1, ReadEffect
  <2>3. idCount \in Number
    <3>1. c \in Drawing
      BY <2>1 DEF Drawing
    <3>2. Cardinality(Drawing) # 0
      BY <1>3, <3>1, FS_EmptySet
    <3> QED
      BY <1>2, <1>3, <3>2, CallsAssumption DEF Number
  <2>4. [reg[c] EXCEPT !.id = idCount] \in Registers
    BY <1>2, <1>3, NumberRegisters, Zenon
  <2>5. pc' \in [Client -> Labels] /\ reg' \in [Client -> Registers]
    BY <1>2, <2>1, <2>4 DEF Read, Goto, Set, Labels
  <2>6. Making(c)'
    BY <1>2, <2>1, <2>2, <2>3 DEF Making, Registers
  <2>7. \A d \in Client : Making(d)'
    <3>1. \A d \in Client : d # c => Making(d)'
      BY <1>2, <2>2 DEF Making
    <3> QED
      BY <2>6, <3>1
  <2>8. Typed'
    BY <1>2, <2>2, <2>5, <2>7 DEF Typed, StoreTyped, DbTypeOK
  <2>9. Drawing' = Drawing
    BY <2>1, <2>2 DEF Drawing
  <2> QED
    BY <1>1, <2>2, <2>8, <2>9, CounterKept DEF Base
<1>7. CASE IncrNewId(c) \/ AddToList(c) \/ SetInfo(c) \/ vfs_setFileName(c) \/ RemoveFromList(c)
  <2>1. /\ pc'[c] = CASE pc[c] = "INCR" -> "LPUSH" [] pc[c] = "LPUSH" -> "HMSET" [] OTHER -> "done"
        /\ \A d \in Client : d # c => pc'[d] = pc[d]
        /\ reg' = reg /\ made' = made /\ created' = created
        /\ pc' \in [Client -> Labels]
    BY <1>1, <1>7, WriteEffect
  <2>2. StoreTyped'
    BY <1>1, <1>3, <1>7, StoreStep
  <2>3. \A d \in Client : Making(d)'
    BY <1>2, <2>1 DEF Making
  <2>4. Typed'
    BY <1>2, <2>1, <2>2, <2>3 DEF Typed
  <2>5. CASE IncrNewId(c)
    <3>1. pc[c] = "INCR" /\ idCount' = idCount + 1
      BY <1>3, <2>5 DEF IncrNewId, INCR, Absent
    <3>2. c \in Drawing /\ Drawing' = Drawing \ {c}
      BY <2>1, <3>1 DEF Drawing
    <3>3. IsFiniteSet(Drawing') /\ Cardinality(Drawing') = Cardinality(Drawing) - 1
      BY <1>3, <3>2, FS_RemoveElement
    <3>4. Counter'
      BY <1>2, <1>3, <2>1, <3>1, <3>3 DEF Counter
    <3> QED
      BY <2>4, <3>4 DEF Base
  <2>6. CASE AddToList(c) \/ SetInfo(c) \/ vfs_setFileName(c) \/ RemoveFromList(c)
    <3>1. idCount' = idCount /\ pc[c] \notin {"GET", "INCR"}
      BY <2>6 DEF AddToList, SetInfo, vfs_setFileName, RemoveFromList
    <3>2. Drawing' = Drawing
      BY <2>1, <3>1 DEF Drawing
    <3> QED
      BY <1>1, <2>1, <2>4, <3>1, <3>2, CounterKept DEF Base
  <2> QED
    BY <1>7, <2>5, <2>6
<1> QED
  BY <1>4, <1>5, <1>6, <1>7, StepCases

-----------------------------------------------------------------------------
(* What the steps that only read do to the registers.                      *)

\* The call, the name it looks for and the folder it reads stay.
SameCall(r, q) == /\ q.op = r.op /\ q.path = r.path /\ q.pos = r.pos /\ q.dir = r.dir
                  /\ q.parentId = r.parentId

LEMMA UpdateIds ==
    ASSUME NEW r \in Registers, NEW s \in Seq(Number)
    PROVE  LET q == [r EXCEPT !.ids = s]
           IN  /\ SameCall(r, q) /\ q.id = r.id /\ q.type = r.type /\ q.out = r.out
               /\ q.ids = s /\ q \in Registers
BY DEF Registers, SameCall

LEMMA UpdateFound ==
    ASSUME NEW r \in Registers, NEW n \in Long, NEW t \in {"none", "file", "dir"}
    PROVE  LET q == [r EXCEPT !.id = n, !.type = t]
           IN  /\ SameCall(r, q) /\ q.id = n /\ q.type = t /\ q.out = r.out
               /\ q.ids = r.ids /\ q \in Registers
BY DEF Registers, SameCall

LEMMA WalkEffect ==
    ASSUME Typed, NEW c \in Client, Walk(c)
    PROVE  LET r == reg[c]
               q == reg'[c]
           IN  /\ pc[c] = "walk" /\ SameCall(r, q) /\ q.out = r.out
               /\ \/ pc'[c] = "files" /\ q.type = "none"
                  \/ pc'[c] = "listfolders" /\ r.op = "readdir" /\ q.type = "dir"
                  \/ /\ pc'[c] = "statname" /\ r.op # "readdir"
                     /\ q.type = "dir" /\ q.id = r.dir
<1>1. reg[c] \in Registers /\ reg[c].dir \in Long /\ NoId \in Long
  BY Longs DEF Typed, Registers
<1> DEFINE p == [reg[c] EXCEPT !.id = NoId, !.type = "none"]
           q == [reg[c] EXCEPT !.id = reg[c].dir, !.type = "dir"]
<1>2. SameCall(reg[c], p) /\ p.out = reg[c].out /\ p.type = "none"
  BY <1>1 DEF Registers, SameCall
<1>3. SameCall(reg[c], q) /\ q.out = reg[c].out /\ q.type = "dir" /\ q.id = reg[c].dir
  BY <1>1 DEF Registers, SameCall
<1>4. /\ pc[c] = "walk"
      /\ \/ Read(c, "files", p)
         \/ Read(c, IF reg[c].op = "readdir" THEN "listfolders" ELSE "statname", q)
  BY DEF Walk
<1> HIDE DEF p, q
<1> QED
  BY <1>2, <1>3, <1>4, ReadEffect

LEMMA FindFilesEffect ==
    ASSUME Typed, NEW c \in Client, FindFiles(c) \/ FindFolders(c)
    PROVE  LET r == reg[c]
               q == reg'[c]
           IN  /\ SameCall(r, q) /\ q.type = r.type
               /\ \/ /\ pc[c] = "files" /\ pc'[c] = "file"
                     /\ q.ids = LRANGE(files, r.dir)
                  \/ /\ pc[c] = "folders" /\ pc'[c] = "folder"
                     /\ q.ids = LRANGE(folders, r.dir)
<1>1. reg[c] \in Registers /\ StoreTyped
  BY DEF Typed
<1>2. /\ Ids(LRANGE(files, reg[c].dir)) = LRANGE(files, reg[c].dir)
      /\ LRANGE(files, reg[c].dir) \in Seq(Number)
  BY <1>1, ReadList DEF Kinds, ListsOf
<1>3. /\ Ids(LRANGE(folders, reg[c].dir)) = LRANGE(folders, reg[c].dir)
      /\ LRANGE(folders, reg[c].dir) \in Seq(Number)
  BY <1>1, ReadList DEF Kinds, ListsOf
<1>4. CASE FindFiles(c)
  <2> DEFINE s == LRANGE(files, reg[c].dir)
             q == [reg[c] EXCEPT !.ids = s]
  <2>1. pc[c] = "files" /\ Read(c, "file", q)
    BY <1>2, <1>4 DEF FindFiles
  <2> HIDE DEF s
  <2>2. SameCall(reg[c], q) /\ q.type = reg[c].type /\ q.ids = s
    BY <1>1 DEF Registers, SameCall
  <2> HIDE DEF q
  <2>3. pc'[c] = "file" /\ reg'[c] = q
    BY <2>1, ReadEffect
  <2> QED
    BY <2>1, <2>2, <2>3 DEF s
<1>5. CASE FindFolders(c)
  <2> DEFINE s == LRANGE(folders, reg[c].dir)
             q == [reg[c] EXCEPT !.ids = s]
  <2>1. pc[c] = "folders" /\ Read(c, "folder", q)
    BY <1>3, <1>5 DEF FindFolders
  <2> HIDE DEF s
  <2>2. SameCall(reg[c], q) /\ q.type = reg[c].type /\ q.ids = s
    BY <1>1 DEF Registers, SameCall
  <2> HIDE DEF q
  <2>3. pc'[c] = "folder" /\ reg'[c] = q
    BY <2>1, ReadEffect
  <2> QED
    BY <2>1, <2>2, <2>3 DEF s
<1> QED
  BY <1>4, <1>5

LEMMA FindFileEffect ==
    ASSUME Typed, NEW c \in Client, FindFile(c)
    PROVE  LET r == reg[c]
               q == reg'[c]
               n == Head(r.ids)
           IN  /\ pc[c] = "file" /\ r.ids # <<>> /\ n \in Number
               /\ \/ n \notin DOMAIN fileInfo /\ pc'[c] = "crashed"
                  \/ /\ n \in DOMAIN fileInfo /\ pc'[c] = "file"
                     /\ SameCall(r, q) /\ q.ids = Tail(r.ids)
                     /\ \/ fileInfo[n].name = Wanted(c) /\ q.id = n /\ q.type = "file"
                        \/ fileInfo[n].name # Wanted(c) /\ q.id = r.id /\ q.type = r.type
<1> DEFINE r == reg[c]
           n == Head(r.ids)
           rest == [r EXCEPT !.ids = Tail(@)]
           hit == [rest EXCEPT !.id = n, !.type = "file"]
<1>1. r \in Registers /\ r.ids # <<>> /\ pc[c] = "file"
  BY DEF Typed, FindFile
<1>2. n \in Number /\ Tail(r.ids) \in Seq(Number) /\ n \in Long
  <2>1. r.ids \in Seq(Number)
    BY <1>1 DEF Registers
  <2>2. \A m \in Number : m \in Long
    BY Longs
  <2> QED
    BY <1>1, <2>1, <2>2, HeadAndTail
<1>3. /\ SameCall(r, rest) /\ rest.ids = Tail(r.ids) /\ rest.id = r.id /\ rest.type = r.type
      /\ rest \in Registers
  BY <1>1, <1>2, UpdateIds
<1> HIDE DEF rest
<1>4. SameCall(rest, hit) /\ hit.ids = rest.ids /\ hit.id = n /\ hit.type = "file"
  BY <1>2, <1>3, UpdateFound
<1>5. SameCall(r, hit)
  BY <1>3, <1>4 DEF SameCall
<1>6. /\ HasInfo(fileInfo, n) <=> n \in DOMAIN fileInfo
      /\ HGETname(fileInfo, n) = fileInfo[n].name
  BY <1>2, NumberFacts DEF HasInfo, HGETname
<1> HIDE DEF hit
<1>7. \/ n \notin DOMAIN fileInfo /\ Read(c, "crashed", Blank)
      \/ n \in DOMAIN fileInfo /\ fileInfo[n].name = Wanted(c) /\ Read(c, "file", hit)
      \/ n \in DOMAIN fileInfo /\ fileInfo[n].name # Wanted(c) /\ Read(c, "file", rest)
  BY <1>6 DEF FindFile, Crash, hit, rest
<1> HIDE DEF n
<1> QED
  BY <1>1, <1>2, <1>3, <1>4, <1>5, <1>7, ReadEffect DEF n

LEMMA FindFolderEffect ==
    ASSUME Typed, NEW c \in Client, FindFolder(c)
    PROVE  LET r == reg[c]
               q == reg'[c]
               n == Head(r.ids)
           IN  /\ pc[c] = "folder" /\ r.ids # <<>> /\ n \in Number
               /\ \/ n \notin DOMAIN folderInfo /\ pc'[c] = "crashed"
                  \/ /\ n \in DOMAIN folderInfo /\ SameCall(r, q)
                     /\ \/ /\ folderInfo[n].name = Wanted(c) /\ pc'[c] = "found"
                           /\ q.id = n /\ q.type = "dir"
                        \/ /\ folderInfo[n].name # Wanted(c) /\ pc'[c] = "folder"
                           /\ q.ids = Tail(r.ids) /\ q.id = r.id /\ q.type = r.type
<1> DEFINE r == reg[c]
           n == Head(r.ids)
           rest == [r EXCEPT !.ids = Tail(@)]
           hit == [r EXCEPT !.id = n, !.type = "dir"]
<1>1. r \in Registers /\ r.ids # <<>> /\ pc[c] = "folder"
  BY DEF Typed, FindFolder
<1>2. n \in Number /\ Tail(r.ids) \in Seq(Number) /\ n \in Long
  <2>1. r.ids \in Seq(Number)
    BY <1>1 DEF Registers
  <2>2. \A m \in Number : m \in Long
    BY Longs
  <2> QED
    BY <1>1, <2>1, <2>2, HeadAndTail
<1>3. SameCall(r, rest) /\ rest.ids = Tail(r.ids) /\ rest.id = r.id /\ rest.type = r.type
  BY <1>1, <1>2, UpdateIds
<1>4. SameCall(r, hit) /\ hit.id = n /\ hit.type = "dir"
  BY <1>1, <1>2, UpdateFound
<1>5. /\ HasInfo(folderInfo, n) <=> n \in DOMAIN folderInfo
      /\ HGETname(folderInfo, n) = folderInfo[n].name
      /\ FoundDir(c, ToInt(n)) = hit
  BY <1>2, NumberFacts DEF HasInfo, HGETname, FoundDir
<1> HIDE DEF hit
<1>6. \/ n \notin DOMAIN folderInfo /\ Read(c, "crashed", Blank)
      \/ n \in DOMAIN folderInfo /\ folderInfo[n].name = Wanted(c) /\ Read(c, "found", hit)
      \/ n \in DOMAIN folderInfo /\ folderInfo[n].name # Wanted(c) /\ Read(c, "folder", rest)
  BY <1>5 DEF FindFolder, Crash, rest
<1> HIDE DEF n, rest
<1> QED
  BY <1>1, <1>2, <1>3, <1>4, <1>6, ReadEffect DEF n

LEMMA FindEndEffect ==
    ASSUME Typed, NEW c \in Client, FindFileEnd(c) \/ FindFolderEnd(c)
    PROVE  /\ reg'[c] = reg[c] /\ reg[c].ids = <<>>
           /\ \/ pc[c] = "file" /\ reg[c].type = "file" /\ pc'[c] = "found"
              \/ pc[c] = "file" /\ reg[c].type # "file" /\ pc'[c] = "folders"
              \/ pc[c] = "folder" /\ pc'[c] = "found"
BY ReadEffect DEF FindFileEnd, FindFolderEnd

LEMMA FoundEffect ==
    ASSUME Typed, NEW c \in Client, Found(c)
    PROVE  LET r == reg[c]
               q == reg'[c]
           IN  /\ pc[c] = "found" /\ q.op = r.op /\ q.out = r.out
               /\ \/ r.type = "dir" /\ pc'[c] = "parent" /\ q = r
                  \/ /\ r.type # "dir" /\ pc'[c] = "parsed"
                     /\ q.parentId = r.dir /\ q.id = r.id /\ q.type = r.type
                  \/ r.type = "dir" /\ pc'[c] = "walk" /\ q.dir = r.id
                  \/ r.type # "dir" /\ pc'[c] = "parsed" /\ q.type = "none"
                  \/ r.type # "dir" /\ pc'[c] = "listfolders" /\ r.op = "readdir"
                  \/ r.type # "dir" /\ pc'[c] = "done" /\ r.op # "readdir"
<1> DEFINE r == reg[c]
           isFile == (reg[c].type = "file")
           p == [r EXCEPT !.parentId = reg[c].dir, !.existing = isFile]
           w == [r EXCEPT !.dir = reg[c].id, !.pos = @ + 1]
           f == [r EXCEPT !.id = NoId, !.type = "none", !.dir = NoId]
           g(type) == [f EXCEPT !.type = type]
<1>1. r \in Registers
  BY DEF Typed
<1>2. /\ p.op = r.op /\ p.out = r.out /\ p.parentId = r.dir /\ p.id = r.id /\ p.type = r.type
  BY <1>1 DEF Registers
<1>3. w.op = r.op /\ w.out = r.out /\ w.dir = r.id
  BY <1>1 DEF Registers
<1>4. /\ f.op = r.op /\ f.out = r.out /\ f.type = "none" /\ f.routine = r.routine
      /\ \A type : g(type).op = r.op /\ g(type).out = r.out
  BY <1>1 DEF Registers
<1> HIDE DEF p, w
<1>5. /\ pc[c] = "found"
      /\ \/ r.type = "dir" /\ Read(c, "parent", reg[c])
         \/ r.type # "dir" /\ Read(c, "parsed", p)
         \/ r.type = "dir" /\ Read(c, "walk", w)
         \/ r.type # "dir" /\ WalkFails(c)
  BY DEF Found, p, w
<1>6. WalkFails(c) => \/ Read(c, "parsed", f)
                      \/ r.op = "readdir" /\ Read(c, "listfolders", f)
                      \/ r.op # "readdir" /\ \E type \in {"file", "dir"} : Read(c, "done", g(type))
  BY <1>4 DEF WalkFails
<1> HIDE DEF f, g
<1>7. CASE r.type = "dir" /\ (Read(c, "parent", reg[c]) \/ Read(c, "walk", w))
  BY <1>3, <1>5, <1>7, ReadEffect
<1>8. CASE r.type # "dir" /\ Read(c, "parsed", p)
  BY <1>2, <1>5, <1>8, ReadEffect
<1>9. CASE r.type # "dir" /\ WalkFails(c)
  BY <1>4, <1>5, <1>6, <1>9, ReadEffect
<1> QED
  BY <1>5, <1>7, <1>8, <1>9

LEMMA ParsedEffect ==
    ASSUME Typed, NEW c \in Client,
           ParseParent(c) \/ Parsed(c) \/ StatParsed(c) \/ StatName(c)
    PROVE  LET r == reg[c]
               q == reg'[c]
           IN  \/ /\ pc[c] = "parent" /\ HasInfo(folderInfo, r.id) /\ pc'[c] = "parsed"
                  /\ q.parentId = ToInt(HGETparent(folderInfo, r.id))
                  /\ q.op = r.op /\ q.id = r.id /\ q.type = r.type
               \/ pc[c] = "parent" /\ ~HasInfo(folderInfo, r.id) /\ pc'[c] = "crashed"
               \/ pc[c] = "parsed" /\ r.op = "delete" /\ pc'[c] = "done" /\ q.op = r.op
               \/ /\ pc[c] = "parsed" /\ r.op = "delete" /\ r.type # "none"
                  /\ pc'[c] = "LREM" /\ q = r
               \/ /\ pc[c] = "parsed" /\ r.op = "getattr" /\ r.type = "file"
                  /\ pc'[c] = "statname" /\ q = r
               \/ /\ pc[c] = "parsed" /\ r.op = "getattr" /\ pc'[c] = "walk"
                  /\ q.op = r.op /\ q.dir = ROOT_FOLDER_ID /\ q.type = "none"
               \/ /\ pc[c] = "statname" /\ pc'[c] = "done" /\ q = r
               \/ /\ pc[c] = "statname" /\ pc'[c] = "crashed"
                  /\ ~HasInfo(IF r.type = "file" THEN fileInfo ELSE folderInfo, r.id)
<1> DEFINE r == reg[c]
           p == [r EXCEPT !.parentId = ToInt(HGETparent(folderInfo, reg[c].id))]
           d == [r EXCEPT !.ret = -1]
           t == StartTarget(r)
<1>1. r \in Registers
  BY DEF Typed
<1>2. /\ p.parentId = ToInt(HGETparent(folderInfo, r.id))
      /\ p.op = r.op /\ p.id = r.id /\ p.type = r.type
  BY <1>1 DEF Registers
<1>3. d.op = r.op
  BY <1>1 DEF Registers
<1>4. t.op = r.op /\ t.dir = ROOT_FOLDER_ID /\ t.type = "none"
  BY <1>1 DEF Registers, StartTarget
<1> HIDE DEF p, d, t
<1>5. CASE ParseParent(c)
  <2>1. /\ pc[c] = "parent"
        /\ \/ HasInfo(folderInfo, r.id) /\ Read(c, "parsed", p)
           \/ ~HasInfo(folderInfo, r.id) /\ Read(c, "crashed", Blank)
    BY <1>5 DEF ParseParent, Crash, p
  <2> QED
    BY <1>2, <2>1, ReadEffect
<1>6. CASE Parsed(c)
  <2>1. /\ pc[c] = "parsed" /\ r.op = "delete"
        /\ \/ Read(c, "done", d)
           \/ Read(c, "done", r)
           \/ r.type # "none" /\ Read(c, "LREM", r)
    BY <1>6 DEF Parsed, d
  <2> QED
    BY <1>3, <2>1, ReadEffect
<1>7. CASE StatParsed(c)
  <2>1. /\ pc[c] = "parsed" /\ r.op = "getattr"
        /\ (r.type = "file" /\ Read(c, "statname", r)) \/ Read(c, "walk", t)
    BY <1>7 DEF StatParsed, t
  <2> QED
    BY <1>4, <2>1, ReadEffect
<1>8. CASE StatName(c)
  <2>1. /\ pc[c] = "statname"
        /\ \/ Read(c, "done", r)
           \/ /\ ~HasInfo(IF r.type = "file" THEN fileInfo ELSE folderInfo, r.id)
              /\ Read(c, "crashed", Blank)
    BY <1>8 DEF StatName, Crash
  <2> QED
    BY <2>1, ReadEffect
<1> QED
  BY <1>5, <1>6, <1>7, <1>8

LEMMA ListEffect ==
    ASSUME Typed, NEW c \in Client, ListFolders(c) \/ ListFiles(c)
    PROVE  LET r == reg[c]
               q == reg'[c]
           IN  /\ SameCall(r, q) /\ q.out = r.out
               /\ \/ /\ pc[c] = "listfolders" /\ q.ids = LRANGE(folders, r.dir)
                     /\ \/ r.op = "readdir" /\ pc'[c] = "listfiles"
                        \/ r.op # "readdir" /\ pc'[c] = "name" /\ q.type = "dir"
                  \/ /\ pc[c] = "listfiles" /\ r.op = "readdir" /\ pc'[c] = "kind"
                     /\ q.ids = r.ids \o LRANGE(files, r.dir)
                  \/ /\ pc[c] = "listfiles" /\ r.op # "readdir" /\ pc'[c] = "name"
                     /\ q.ids = LRANGE(files, r.dir) /\ q.type = "file"
<1> DEFINE r == reg[c]
           D == LRANGE(folders, reg[c].dir)
           F == LRANGE(files, reg[c].dir)
           d1 == [r EXCEPT !.ids = D]
           d2 == [r EXCEPT !.ids = D, !.type = "dir"]
           f1 == [r EXCEPT !.ids = @ \o F]
           f2 == [r EXCEPT !.ids = F, !.type = "file"]
<1>1. r \in Registers /\ StoreTyped
  BY DEF Typed
<1>2. Ids(LRANGE(files, reg[c].dir)) = F /\ Ids(LRANGE(folders, reg[c].dir)) = D
  BY <1>1, ReadList DEF Kinds, ListsOf
<1> HIDE DEF D, F
<1>3. SameCall(r, d1) /\ d1.out = r.out /\ d1.ids = D
  BY <1>1 DEF Registers, SameCall
<1>4. SameCall(r, d2) /\ d2.out = r.out /\ d2.ids = D /\ d2.type = "dir"
  BY <1>1 DEF Registers, SameCall
<1>5. SameCall(r, f1) /\ f1.out = r.out /\ f1.ids = r.ids \o F
  BY <1>1 DEF Registers, SameCall
<1>6. SameCall(r, f2) /\ f2.out = r.out /\ f2.ids = F /\ f2.type = "file"
  BY <1>1 DEF Registers, SameCall
<1> HIDE DEF d1, d2, f1, f2
<1>7. CASE ListFolders(c)
  <2>1. /\ pc[c] = "listfolders"
        /\ \/ r.op = "readdir" /\ Read(c, "listfiles", d1)
           \/ r.op # "readdir" /\ Read(c, "name", d2)
    BY <1>2, <1>7 DEF ListFolders, d1, d2
  <2> QED
    BY <1>3, <1>4, <2>1, ReadEffect DEF D
<1>8. CASE ListFiles(c)
  <2>1. /\ pc[c] = "listfiles"
        /\ \/ r.op = "readdir" /\ Read(c, "kind", f1)
           \/ r.op # "readdir" /\ Read(c, "name", f2)
    BY <1>2, <1>8 DEF ListFiles, f1, f2
  <2>2. CASE r.op = "readdir" /\ Read(c, "kind", f1)
    <3>1. pc'[c] = "kind" /\ reg'[c] = f1
      BY <2>2, ReadEffect
    <3> QED
      BY <1>5, <2>1, <2>2, <3>1 DEF F
  <2>3. CASE r.op # "readdir" /\ Read(c, "name", f2)
    <3>1. pc'[c] = "name" /\ reg'[c] = f2
      BY <2>3, ReadEffect
    <3> QED
      BY <1>6, <2>1, <2>3, <3>1 DEF F
  <2> QED
    BY <2>1, <2>2, <2>3
<1> QED
  BY <1>7, <1>8

LEMMA AskKindEffect ==
    ASSUME Typed, NEW c \in Client, AskKind(c)
    PROVE  LET r == reg[c]
               q == reg'[c]
               n == Head(r.ids)
           IN  /\ pc[c] = "kind" /\ pc'[c] = "name" /\ r.ids # <<>> /\ n \in Number
               /\ SameCall(r, q) /\ q.out = r.out /\ q.ids = r.ids
               /\ q.type = IF n \in DOMAIN folderInfo THEN "dir" ELSE "file"
<1> DEFINE r == reg[c]
           n == Head(r.ids)
           k == IF HasInfo(folderInfo, Head(reg[c].ids)) THEN "dir" ELSE "file"
           q == [r EXCEPT !.type = k]
<1>1. r \in Registers /\ r.ids # <<>> /\ pc[c] = "kind"
  BY DEF Typed, AskKind
<1>2. n \in Number
  <2>1. r.ids \in Seq(Number)
    BY <1>1 DEF Registers
  <2> QED
    BY <1>1, <2>1, HeadAndTail
<1>3. k = IF n \in DOMAIN folderInfo THEN "dir" ELSE "file"
  BY <1>2, NumberFacts DEF HasInfo
<1>4. Read(c, "name", q)
  BY DEF AskKind
<1> HIDE DEF k
<1>5. SameCall(r, q) /\ q.out = r.out /\ q.ids = r.ids /\ q.type = k
  BY <1>1 DEF Registers, SameCall
<1> HIDE DEF q
<1>6. pc'[c] = "name" /\ reg'[c] = q
  BY <1>4, ReadEffect
<1> QED
  BY <1>1, <1>2, <1>3, <1>5, <1>6

LEMMA AskNameEffect ==
    ASSUME Typed, NEW c \in Client, Asking(c), AskName(c)
    PROVE  LET r == reg[c]
               q == reg'[c]
               n == Head(r.ids)
           IN  /\ pc[c] = "name" /\ r.ids # <<>> /\ n \in Number /\ r.type \in Kinds
               /\ \/ n \notin DOMAIN Info(r.type) /\ pc'[c] = "crashed"
                  \/ /\ n \in DOMAIN Info(r.type)
                     /\ \/ r.op = "readdir" /\ pc'[c] = "kind"
                        \/ r.op # "readdir" /\ pc'[c] = "name"
                     /\ SameCall(r, q) /\ q.ids = Tail(r.ids) /\ q.type = r.type
                     /\ q.out = Append(r.out, <<r.type, n, Info(r.type)[n].name>>)
<1> DEFINE r == reg[c]
           n == Head(r.ids)
           info == IF reg[c].type = "dir" THEN folderInfo ELSE fileInfo
           e == <<reg[c].type, n, HGETname(info, n)>>
           q == [r EXCEPT !.ids = Tail(@), !.out = Append(@, e)]
<1>1. r \in Registers /\ r.ids # <<>> /\ pc[c] = "name"
  BY DEF Typed, AskName
<1>2. n \in Number /\ r.type \in Kinds
  <2>1. r.ids \in Seq(Number)
    BY <1>1 DEF Registers
  <2> QED
    BY <1>1, <2>1, HeadAndTail DEF Asking
<1>3. info = Info(r.type)
  BY DEF Info
<1>4. /\ HasInfo(info, n) <=> n \in DOMAIN info
      /\ e = <<r.type, n, info[n].name>>
  BY <1>2, NumberFacts DEF HasInfo, HGETname
<1>5. \/ ~HasInfo(info, n) /\ Read(c, "crashed", Blank)
      \/ HasInfo(info, n) /\ Read(c, IF reg[c].op = "readdir" THEN "kind" ELSE "name", q)
  BY DEF AskName, Crash
<1> HIDE DEF e, info
<1>6. SameCall(r, q) /\ q.ids = Tail(r.ids) /\ q.type = r.type /\ q.out = Append(r.out, e)
  BY <1>1 DEF Registers, SameCall
<1> HIDE DEF q
<1>7. CASE ~HasInfo(info, n) /\ Read(c, "crashed", Blank)
  BY <1>1, <1>2, <1>3, <1>4, <1>7, ReadEffect
<1>8. CASE HasInfo(info, n) /\ Read(c, IF reg[c].op = "readdir" THEN "kind" ELSE "name", q)
  <2>1. pc'[c] = (IF reg[c].op = "readdir" THEN "kind" ELSE "name") /\ reg'[c] = q
    BY <1>8, ReadEffect
  <2> QED
    BY <1>1, <1>2, <1>3, <1>4, <1>6, <1>8, <2>1
<1> QED
  BY <1>5, <1>7, <1>8

LEMMA EndEffect ==
    ASSUME Typed, NEW c \in Client, ListEnd(c) \/ Return(c)
    PROVE  \/ /\ pc[c] \in {"kind", "name"} /\ reg[c].ids = <<>> /\ reg'[c] = reg[c]
              /\ pc'[c] = IF pc[c] = "name" /\ reg[c].type = "dir" THEN "listfiles" ELSE "done"
           \/ pc[c] = "done" /\ pc'[c] = "idle"
BY ReadEffect DEF ListEnd, Return

LEMMA MakeEffect ==
    ASSUME Typed, NEW c \in Client, GetNewId(c)
    PROVE  /\ pc[c] = "GET" /\ pc'[c] = "INCR"
           /\ reg'[c].id = idCount /\ reg'[c].kind = reg[c].kind
           /\ reg'[c].op = reg[c].op
           /\ reg'[c].parentId = reg[c].parentId
<1> DEFINE q == [reg[c] EXCEPT !.id = idCount]
<1>1. reg[c] \in Registers
  BY DEF Typed
<1>2. q.id = idCount /\ q.kind = reg[c].kind /\ q.parentId = reg[c].parentId /\ q.op = reg[c].op
  BY <1>1 DEF Registers
<1>3. pc[c] = "GET" /\ Read(c, "INCR", q)
  BY DEF GetNewId
<1> HIDE DEF q
<1>4. pc'[c] = "INCR" /\ reg'[c] = q
  BY <1>3, ReadEffect
<1> QED
  BY <1>2, <1>3, <1>4

-----------------------------------------------------------------------------
(* A call keeps to its labels.                                             *)

LEMMA AskingStep ==
    ASSUME Base, NEW c \in Client, Asking(c), Begin(c) \/ Step(c)
    PROVE  Asking(c)'
<1>1. Typed /\ pc \in [Client -> Labels] /\ reg \in [Client -> Registers] /\ reg[c] \in Registers
  BY DEF Base, Typed
<1> DEFINE r0 == reg[c]
<1> USE DEF Walking
<1>2. CASE Begin(c)
  <2>1. PICK call \in Calls[c] : pc'[c] = FirstStep(call)[1] /\ reg'[c] = FirstStep(call)[2]
    BY <1>1, <1>2, BeginEffect
  <2> QED
    BY <2>1, FirstStepIs DEF Asking
<1>3. CASE Walk(c)
  BY <1>1, <1>3, WalkEffect DEF Asking, SameCall, Kinds
<1>4. CASE FindFiles(c) \/ FindFolders(c)
  BY <1>1, <1>4, FindFilesEffect DEF Asking, SameCall
<1>5. CASE FindFile(c)
  BY <1>1, <1>5, FindFileEffect DEF Asking, SameCall
<1>6. CASE FindFileEnd(c) \/ FindFolderEnd(c)
  BY <1>1, <1>6, FindEndEffect DEF Asking
<1>8. CASE FindFolder(c)
  BY <1>1, <1>8, FindFolderEffect DEF Asking, SameCall
<1>10. CASE Found(c)
  BY <1>1, <1>10, FoundEffect DEF Asking
<1>12. CASE ParseParent(c) \/ Parsed(c) \/ StatParsed(c) \/ StatName(c)
  <2>1. reg[c].type \in {"none", "file", "dir"}
    BY <1>1 DEF Registers
  <2> QED
    BY <1>1, <1>12, <2>1, ParsedEffect DEF Asking, Kinds
<1>15. CASE ListFolders(c) \/ ListFiles(c)
  BY <1>1, <1>15, ListEffect DEF Asking, SameCall, Kinds
<1>17. CASE AskKind(c)
  BY <1>1, <1>17, AskKindEffect DEF Asking, SameCall, Kinds
<1>18. CASE AskName(c)
  BY <1>1, <1>18, AskNameEffect DEF Asking, SameCall
<1>19. CASE ListEnd(c) \/ Return(c)
  BY <1>1, <1>19, EndEffect DEF Asking, Kinds
<1>21. CASE GetNewId(c)
  BY <1>1, <1>21, MakeEffect DEF Asking
<1>22. CASE IncrNewId(c) \/ AddToList(c) \/ SetInfo(c) \/ vfs_setFileName(c) \/ RemoveFromList(c)
  BY <1>1, <1>22, WriteEffect DEF Asking
<1> QED
  BY <1>2, <1>3, <1>4, <1>5, <1>6, <1>8, <1>10, <1>12, <1>15, <1>17, <1>18, <1>19,
     <1>21, <1>22 DEF Step

\* Only c's label and registers change in a step of c.
LEMMA OthersStay ==
    ASSUME Typed, NEW c \in Client, Begin(c) \/ Step(c), NEW d \in Client, d # c
    PROVE  pc'[d] = pc[d] /\ reg'[d] = reg[d]
<1>1. CASE Begin(c)
  BY <1>1, BeginEffect
<1>2. CASE ReadStep(c)
  BY <1>2 DEF Typed, ReadStep, Read, Goto, Set, Crash, WalkFails, Walk, FindFiles, FindFile,
     FindFileEnd, FindFolders, FindFolder, FindFolderEnd, Found, ParseParent, Parsed,
     StatParsed, StatName, ListFolders, ListFiles, AskKind, AskName, ListEnd, Return
<1>3. CASE GetNewId(c)
  BY <1>3 DEF Typed, GetNewId, Read, Goto, Set
<1>4. CASE IncrNewId(c) \/ AddToList(c) \/ SetInfo(c) \/ vfs_setFileName(c) \/ RemoveFromList(c)
  BY <1>4, WriteEffect
<1> QED
  BY <1>1, <1>2, <1>3, <1>4, StepCases

\* Hashes are never removed.
LEMMA HashesStay ==
    ASSUME Typed, NEW c \in Client, Begin(c) \/ Step(c)
    PROVE  /\ DOMAIN folderInfo \subseteq DOMAIN folderInfo'
           /\ DOMAIN fileInfo \subseteq DOMAIN fileInfo'
<1>1. CASE Begin(c)
  BY <1>1, BeginEffect
<1>2. CASE ReadStep(c)
  BY <1>2 DEF ReadStep, Read, dbVars, Crash, WalkFails, Walk, FindFiles, FindFile,
     FindFileEnd, FindFolders, FindFolder, FindFolderEnd, Found, ParseParent, Parsed,
     StatParsed, StatName, ListFolders, ListFiles, AskKind, AskName, ListEnd, Return
<1>3. CASE GetNewId(c)
  BY <1>3 DEF GetNewId, Read, dbVars
<1>4. CASE IncrNewId(c) \/ AddToList(c) \/ SetInfo(c) \/ vfs_setFileName(c) \/ RemoveFromList(c)
  BY <1>4, WriteEffect
<1> QED
  BY <1>1, <1>2, <1>3, <1>4, StepCases

LEMMA ReadKeepsStore ==
    ASSUME NEW c \in Client, Begin(c) \/ ReadStep(c) \/ GetNewId(c)
    PROVE  UNCHANGED <<idCount, created, folderInfo, fileInfo, folders, files, gone>>
BY DEF ReadStep, Read, dbVars, Begin, Crash, WalkFails, Walk, FindFiles, FindFile,
     FindFileEnd, FindFolders, FindFolder, FindFolderEnd, Found, ParseParent, Parsed, GetNewId,
     StatParsed, StatName, ListFolders, ListFiles, AskKind, AskName, ListEnd, Return

LEMMA AskingKept ==
    ASSUME Base, NEW c \in Client, Begin(c) \/ Step(c), \A d \in Client : Asking(d)
    PROVE  \A d \in Client : Asking(d)'
<1>1. Typed
  BY DEF Base
<1>2. Asking(c)'
  BY AskingStep
<1>3. \A d \in Client : d # c => Asking(d)'
  BY <1>1, OthersStay DEF Asking
<1> QED
  BY <1>2, <1>3

-----------------------------------------------------------------------------
(* Every number a process reads has its hash.                              *)

LEMMA SawStep ==
    ASSUME Track
    PROVE  /\ saw' \in [Client -> BOOLEAN]
           /\ \A c \in Client : pc'[c] # "idle" =>
                 /\ saw[c] => saw'[c]
                 /\ (\E d \in Client : pc'[d] = "HMSET") => saw'[c]
BY Zenon DEF Track

LEMMA OwedStays ==
    ASSUME Typed, NEW c \in Client, Begin(c) \/ Step(c), NEW kind \in Kinds, NEW n,
           Owed(kind, n)
    PROVE  Owed(kind, n)'
<1>1. /\ DOMAIN folderInfo \subseteq DOMAIN folderInfo'
      /\ DOMAIN fileInfo \subseteq DOMAIN fileInfo'
  BY HashesStay
<1>2. CASE n \in DOMAIN Info(kind)
  BY <1>1, <1>2 DEF Owed, Info
<1>3. CASE \E d \in Client : pc[d] = "HMSET" /\ reg[d].kind = kind /\ reg[d].id = n
  <2>1. PICK d \in Client : pc[d] = "HMSET" /\ reg[d].kind = kind /\ reg[d].id = n
    BY <1>3
  <2>2. CASE d # c
    BY <2>1, <2>2, OthersStay DEF Owed
  <2>3. CASE d = c
    <3>1. SetInfo(c)
      <4>1. ~Begin(c) /\ ~ReadStep(c)
        BY <2>1, <2>3, ReadLabels DEF Begin, MakingLabels
      <4> QED
        BY <2>1, <2>3, <4>1, StepCases
           DEF GetNewId, IncrNewId, AddToList, vfs_setFileName, RemoveFromList
    <3>2. reg[c].id \in Nat /\ reg[c].kind = kind /\ reg[c].id = n
      BY <2>1, <2>3 DEF Typed, Making, Number
    <3>3. \A info, h : n \in DOMAIN HMSET(info, n, h)
      BY <3>2, LuNat DEF HMSET
    <3> QED
      BY <3>1, <3>2, <3>3 DEF SetInfo, Owed, Info, Kinds
  <2> QED
    BY <2>2, <2>3
<1> QED
  BY <1>2, <1>3 DEF Owed

\* What a list holds after a step it held before, or its maker has put there.
LEMMA ListsGrow ==
    ASSUME Typed, NEW c \in Client, Asking(c), Begin(c) \/ Step(c), NEW kind \in Kinds,
           NEW m \in DOMAIN ListsOf(kind)', NEW n \in ToSet(ListsOf(kind)'[m])
    PROVE  \/ m \in DOMAIN ListsOf(kind) /\ n \in ToSet(ListsOf(kind)[m])
           \/ AddToList(c) /\ reg[c].kind = kind /\ reg[c].id = n /\ reg[c].parentId = m
<1>1. StoreTyped /\ Making(c)
  BY DEF Typed
<1>2. CASE Begin(c) \/ ReadStep(c) \/ GetNewId(c)
  BY <1>2, ReadKeepsStore DEF ListsOf
<1>3. CASE IncrNewId(c) \/ SetInfo(c) \/ vfs_setFileName(c)
  BY <1>3 DEF IncrNewId, SetInfo, vfs_setFileName, ListsOf
<1>4. CASE AddToList(c)
  <2>1. reg[c].parentId \in Nat /\ reg[c].id \in Number /\ reg[c].kind \in Kinds
    BY <1>1, <1>4 DEF AddToList, Making
  <2>2. CASE kind # reg[c].kind
    <3>1. ListsOf(kind)' = ListsOf(kind)
      BY <1>4, <2>1, <2>2 DEF AddToList, ListsOf, Kinds
    <3> QED
      BY <3>1
  <2>3. CASE kind = reg[c].kind
    <3>1. ListsOf(kind)' = LPUSH(ListsOf(kind), reg[c].parentId, reg[c].id)
      BY <1>4, <2>1, <2>3 DEF AddToList, ListsOf, Kinds
    <3>2. LET new == LPUSH(ListsOf(kind), reg[c].parentId, reg[c].id)
          IN  \A k \in DOMAIN new : \A i \in ToSet(new[k]) :
                 \/ k = reg[c].parentId /\ i = reg[c].id
                 \/ k \in DOMAIN ListsOf(kind) /\ i \in ToSet(ListsOf(kind)[k])
      BY <1>1, <2>1, Pushed, Zenon
    <3> QED
      BY <1>4, <2>3, <3>1, <3>2
  <2> QED
    BY <2>2, <2>3
<1>5. CASE RemoveFromList(c)
  <2>1. reg[c].type \in Kinds
    BY <1>5 DEF RemoveFromList, Asking
  <2>2. CASE kind # reg[c].type
    <3>1. ListsOf(kind)' = ListsOf(kind)
      BY <1>5, <2>1, <2>2 DEF RemoveFromList, ListsOf, Kinds
    <3> QED
      BY <3>1
  <2>3. CASE kind = reg[c].type
    <3>1. ListsOf(kind)' = LREM(ListsOf(kind), reg[c].parentId, reg[c].id)
      BY <1>5, <2>1, <2>3 DEF RemoveFromList, ListsOf, Kinds
    <3>2. LET new == LREM(ListsOf(kind), reg[c].parentId, reg[c].id)
          IN  /\ DOMAIN new = DOMAIN ListsOf(kind)
              /\ \A k \in DOMAIN new : \A i \in ToSet(new[k]) : i \in ToSet(ListsOf(kind)[k])
      BY <1>1, Removed
    <3> QED
      BY <3>1, <3>2
  <2> QED
    BY <2>2, <2>3
<1> QED
  BY <1>2, <1>3, <1>4, <1>5, StepCases

LEMMA ListedOwedStep ==
    ASSUME Typed, NEW c \in Client, Asking(c), Begin(c) \/ Step(c), ListedOwed
    PROVE  ListedOwed'
<1>1. ROOT_FOLDER_ID \in DOMAIN folderInfo'
  BY HashesStay DEF ListedOwed
<1>2. ASSUME NEW kind \in Kinds, NEW m \in DOMAIN ListsOf(kind)', NEW n \in ToSet(ListsOf(kind)'[m])
      PROVE  Owed(kind, n)'
  <2>1. CASE m \in DOMAIN ListsOf(kind) /\ n \in ToSet(ListsOf(kind)[m])
    BY <2>1, OwedStays DEF ListedOwed
  <2>2. CASE AddToList(c) /\ reg[c].kind = kind /\ reg[c].id = n
    <3>1. pc'[c] = "HMSET" /\ reg' = reg
      BY <2>2, WriteEffect DEF AddToList
    <3> QED
      BY <2>2, <3>1 DEF Owed
  <2> QED
    BY <1>2, <2>1, <2>2, ListsGrow
<1> QED
  BY <1>1, <1>2 DEF ListedOwed

\* A list read while no hash is missing.
LEMMA ReadHashed ==
    ASSUME StoreTyped, ListedOwed, \A d \in Client : pc[d] # "HMSET", NEW dir
    PROVE  /\ \A n \in ToSet(LRANGE(folders, dir)) : n \in DOMAIN folderInfo
           /\ \A n \in ToSet(LRANGE(files, dir)) : n \in DOMAIN fileInfo
<1>1. ASSUME NEW kind \in Kinds, NEW n \in ToSet(LRANGE(ListsOf(kind), dir))
      PROVE  n \in DOMAIN Info(kind)
  <2>1. ToSet(<<>>) = {}
    <3>1. <<>> \in Seq(Number)
      OBVIOUS
    <3> QED
      BY <3>1, SetOfList
  <2>2. Lu(dir) \in DOMAIN ListsOf(kind) /\ n \in ToSet(ListsOf(kind)[Lu(dir)])
    BY <1>1, <2>1 DEF LRANGE
  <2>3. Owed(kind, n)
    BY <2>2 DEF ListedOwed
  <2> QED
    BY <2>3 DEF Owed
<1> QED
  BY <1>1 DEF Kinds, Info, ListsOf

\* What another process has read stays hashed.
LEMMA OthersHashed ==
    ASSUME Typed, NEW c \in Client, Begin(c) \/ Step(c), Track, NEW d \in Client, d # c,
           Hashed(d)
    PROVE  Hashed(d)'
<1>1. pc'[d] = pc[d] /\ reg'[d] = reg[d]
  BY OthersStay
<1>2. /\ DOMAIN folderInfo \subseteq DOMAIN folderInfo'
      /\ DOMAIN fileInfo \subseteq DOMAIN fileInfo'
      /\ \A kind : DOMAIN Info(kind) \subseteq DOMAIN Info(kind)'
  BY HashesStay DEF Info
<1>3. /\ pc'[d] \in Walking =>
           reg'[d].dir \in Number /\ reg'[d].dir \in DOMAIN folderInfo'
      /\ pc'[d] \in {"file", "found", "parsed", "statname"} /\ reg'[d].type = "file" =>
           reg'[d].id \in Number /\ reg'[d].id \in DOMAIN fileInfo'
      /\ pc'[d] \in {"found", "parent", "statname"} /\ reg'[d].type = "dir" =>
           reg'[d].id \in Number /\ reg'[d].id \in DOMAIN folderInfo'
  BY <1>1, <1>2 DEF Hashed
<1>4. pc'[d] # "idle" /\ saw[d] => saw'[d]
  BY SawStep
<1>5. CASE saw[d]
  BY <1>1, <1>3, <1>4, <1>5 DEF Hashed
<1>6. CASE ~saw[d]
  <2>1. /\ pc'[d] = "file" => \A n \in ToSet(reg'[d].ids) : n \in DOMAIN fileInfo'
        /\ pc'[d] = "folder" => \A n \in ToSet(reg'[d].ids) : n \in DOMAIN folderInfo'
        /\ pc'[d] \in {"listfiles", "kind", "name"} /\ reg'[d].op = "readdir" =>
              \A n \in ToSet(reg'[d].ids) : n \in DOMAIN folderInfo' \cup DOMAIN fileInfo'
    BY <1>1, <1>2, <1>6 DEF Hashed
  <2>2. /\ pc'[d] = "name" /\ reg'[d].op = "readdir" =>
              Head(reg'[d].ids) \in DOMAIN Info(reg[d].type)'
        /\ pc'[d] = "name" /\ reg'[d].op # "readdir" =>
              \A n \in ToSet(reg'[d].ids) : n \in DOMAIN Info(reg[d].type)'
    BY <1>1, <1>2, <1>6, Zenon DEF Hashed
  <2>3. pc'[d] # "crashed"
    BY <1>1, <1>6 DEF Hashed
  <2> QED
    BY <1>3, <2>1, <2>2, <2>3 DEF Hashed
<1> QED
  BY <1>5, <1>6

\* The process that runs has read what has its hash.
LEMMA HashedStep ==
    ASSUME HashInv, NEW c \in Client, Begin(c) \/ Step(c), Track
    PROVE  Hashed(c)'
<1>1. /\ Typed /\ StoreTyped /\ Asking(c) /\ Hashed(c) /\ ListedOwed
      /\ reg[c] \in Registers /\ reg[c].ids \in Seq(Number)
  BY DEF HashInv, Base, Typed, Registers
<1>2. pc'[c] # "idle" /\ saw[c] => saw'[c]
  BY SawStep
<1>3. 0 \in Number /\ ROOT_FOLDER_ID = 0 /\ 0 \in DOMAIN folderInfo
  BY <1>1, CallsAssumption DEF Number, ROOT_FOLDER_ID, ListedOwed
<1> DEFINE Quiet == \A d \in Client : pc'[d] # "HMSET"
<1>4. pc'[c] # "idle" /\ ~saw'[c] => ~saw[c] /\ Quiet
  BY <1>2, SawStep
<1> USE DEF Walking
<1>5. CASE Begin(c)
  <2>1. PICK call \in Calls[c] : pc'[c] = FirstStep(call)[1] /\ reg'[c] = FirstStep(call)[2]
    BY <1>1, <1>5, BeginEffect
  <2>2. folderInfo' = folderInfo /\ fileInfo' = fileInfo
    BY <1>5, ReadKeepsStore
  <2> QED
    BY <1>3, <2>1, <2>2, FirstStepIs DEF Hashed
<1>6. CASE IncrNewId(c) \/ AddToList(c) \/ SetInfo(c) \/ vfs_setFileName(c) \/ RemoveFromList(c)
  BY <1>1, <1>6, WriteEffect DEF Hashed
<1>7. CASE GetNewId(c)
  BY <1>1, <1>7, MakeEffect DEF Hashed
<1>8. CASE ReadStep(c)
  <2>1. folderInfo' = folderInfo /\ fileInfo' = fileInfo /\ folders' = folders /\ files' = files
    BY <1>8, ReadKeepsStore
  <2>2. \A kind : DOMAIN Info(kind)' = DOMAIN Info(kind)
    BY <2>1 DEF Info
  <2>3. ASSUME Quiet
        PROVE  /\ \A n \in ToSet(LRANGE(folders, reg[c].dir)) : n \in DOMAIN folderInfo
               /\ \A n \in ToSet(LRANGE(files, reg[c].dir)) : n \in DOMAIN fileInfo
    <3>1. \A d \in Client : pc[d] # "HMSET"
      BY <1>1, <1>8, <2>3, OthersStay, ReadLabels DEF MakingLabels, Step, ReadStep
    <3> QED
      BY <1>1, <3>1, ReadHashed
  <2> HIDE DEF Quiet
  <2>4. \A n \in Number : n \in DOMAIN folderInfo => HasInfo(folderInfo, n)
    BY NumberFacts DEF HasInfo
  <2>5. \A n \in Number : n \in DOMAIN fileInfo => HasInfo(fileInfo, n)
    BY NumberFacts DEF HasInfo
  <2>6. reg[c].ids # <<>> =>
           /\ Head(reg[c].ids) \in ToSet(reg[c].ids)
           /\ \A n \in ToSet(Tail(reg[c].ids)) : n \in ToSet(reg[c].ids)
    BY <1>1, HeadAndTail
  <2>7. reg[c].ids = <<>> => ToSet(reg[c].ids) = {}
    BY <1>1, SetOfList
  <2>8. CASE Walk(c)
    BY <1>1, <2>1, <2>8, WalkEffect DEF Hashed, SameCall
  <2>9. CASE FindFiles(c) \/ FindFolders(c)
    BY <1>1, <1>4, <2>1, <2>3, <2>9, FindFilesEffect DEF Hashed, SameCall, Asking
  <2>10. CASE FindFile(c)
    BY <1>1, <1>2, <2>1, <2>6, <2>10, FindFileEffect DEF Hashed, SameCall, Asking
  <2>11. CASE FindFolder(c)
    BY <1>1, <1>2, <2>1, <2>6, <2>11, FindFolderEffect DEF Hashed, SameCall, Asking
  <2>12. CASE FindFileEnd(c) \/ FindFolderEnd(c)
    BY <1>1, <1>2, <2>1, <2>12, FindEndEffect DEF Hashed, Asking
  <2>13. CASE Found(c)
    BY <1>1, <1>2, <2>1, <2>13, FoundEffect DEF Hashed, Asking
  <2>14. CASE ParseParent(c) \/ Parsed(c) \/ StatParsed(c) \/ StatName(c)
    BY <1>1, <1>2, <1>3, <2>1, <2>4, <2>5, <2>14, ParsedEffect DEF Hashed, Asking, Kinds
  <2>15. CASE ListFolders(c) \/ ListFiles(c)
    <3>1. LRANGE(files, reg[c].dir) \in Seq(Number)
      BY <1>1, ReadList DEF Kinds, ListsOf
    <3>2. \A n : n \in ToSet(reg[c].ids \o LRANGE(files, reg[c].dir)) <=>
                 n \in ToSet(reg[c].ids) \/ n \in ToSet(LRANGE(files, reg[c].dir))
      BY <1>1, <3>1, SetOfConcat
    <3> QED
      BY <1>1, <1>4, <2>1, <2>3, <2>15, <3>2, ListEffect DEF Hashed, Asking, SameCall, Info
  <2>16. CASE AskKind(c)
    BY <1>1, <1>2, <2>1, <2>6, <2>16, AskKindEffect DEF Hashed, Asking, SameCall, Info
  <2>17. CASE AskName(c)
    BY <1>1, <1>2, <2>1, <2>6, <2>17, AskNameEffect DEF Hashed, Asking, SameCall, Info
  <2>18. CASE ListEnd(c) \/ Return(c)
    BY <1>1, <1>2, <2>1, <2>7, <2>18, EndEffect DEF Hashed, Asking, Kinds
  <2> QED
    BY <1>8, <2>8, <2>9, <2>10, <2>11, <2>12, <2>13, <2>14, <2>15, <2>16, <2>17, <2>18
       DEF ReadStep
<1> QED
  BY <1>5, <1>6, <1>7, <1>8, StepCases

LEMMA HashStep ==
    ASSUME HashInv, Next
    PROVE  HashInv'
<1>1. PICK c \in Client : Begin(c) \/ Step(c)
  BY DEF Next
<1>2. Track /\ Base /\ Typed /\ ListedOwed /\ \A d \in Client : Asking(d) /\ Hashed(d)
  BY DEF Next, HashInv, Base
<1>3. Base' /\ ListedOwed' /\ \A d \in Client : Asking(d)'
  BY <1>1, <1>2, BaseStep, ListedOwedStep, AskingKept
<1>4. \A d \in Client : Hashed(d)'
  BY <1>1, <1>2, HashedStep, OthersHashed
<1>5. AllSaw' /\ saw' \in [Client -> BOOLEAN]
  BY <1>2, SawStep DEF AllSaw
<1> QED
  BY <1>3, <1>4, <1>5 DEF HashInv

-----------------------------------------------------------------------------
(* The file system the processes begin with.                               *)

LEMMA FirstStore ==
    ASSUME Populated(<<"a">>, <<"b">>)
    PROVE  /\ idCount = 4 /\ created = TRUE
           /\ DOMAIN folderInfo = {0, 2}
           /\ folderInfo[0] = [parent |-> 0, name |-> RootName]
           /\ folderInfo[2] = [parent |-> 0, name |-> <<"b">>]
           /\ DOMAIN fileInfo = {1, 3}
           /\ \A n \in {1, 3} : fileInfo[n] = [name |-> <<"a">>]
           /\ DOMAIN folders = {0} /\ folders[0] = <<2>>
           /\ DOMAIN files = {0, 2} /\ files[0] = <<1>> /\ files[2] = <<3>>
<1> USE DEF Populated, ROOT_FOLDER_ID
<1>1. DOMAIN EmptyMap = {}
  BY DEF EmptyMap
<1>2. Lu(0) = 0 /\ Lu(1) = 1 /\ Lu(2) = 2 /\ Lu(3) = 3
  BY DEF Lu
<1>3. idCount = 4 /\ created = TRUE
  OBVIOUS
<1>4. /\ DOMAIN folderInfo = {0, 2}
      /\ folderInfo[0] = [parent |-> 0, name |-> RootName]
      /\ folderInfo[2] = [parent |-> 0, name |-> <<"b">>]
  <2> DEFINE f == HMSET(EmptyMap, 0, FolderHash(0, RootName))
  <2>1. DOMAIN f = {0} /\ f[0] = [parent |-> 0, name |-> RootName]
    BY <1>1, <1>2 DEF HMSET, FolderHash
  <2>2. folderInfo = HMSET(f, 2, FolderHash(0, <<"b">>))
    OBVIOUS
  <2> HIDE DEF f
  <2> QED
    BY <1>2, <2>1, <2>2 DEF HMSET, FolderHash
<1>5. DOMAIN fileInfo = {1, 3} /\ \A n \in {1, 3} : fileInfo[n] = [name |-> <<"a">>]
  <2> DEFINE f == HMSET(EmptyMap, 1, FileHash(<<"a">>))
  <2>1. DOMAIN f = {1} /\ f[1] = [name |-> <<"a">>]
    BY <1>1, <1>2 DEF HMSET, FileHash
  <2>2. fileInfo = HMSET(f, 3, FileHash(<<"a">>))
    OBVIOUS
  <2> HIDE DEF f
  <2> QED
    BY <1>2, <2>1, <2>2 DEF HMSET, FileHash
<1>6. \A n \in {1, 2, 3} : <<n>> \o <<>> = <<n>>
  OBVIOUS
<1>7. DOMAIN folders = {0} /\ folders[0] = <<2>>
  BY <1>1, <1>2, <1>6 DEF LPUSH, LRANGE
<1>8. DOMAIN files = {0, 2} /\ files[0] = <<1>> /\ files[2] = <<3>>
  <2> DEFINE f == LPUSH(EmptyMap, 0, 1)
  <2>1. DOMAIN f = {0} /\ f[0] = <<1>>
    BY <1>1, <1>2, <1>6 DEF LPUSH, LRANGE
  <2>2. files = LPUSH(f, 2, 3)
    OBVIOUS
  <2> HIDE DEF f
  <2>3. LRANGE(f, 2) = <<>>
    BY <1>2, <2>1 DEF LRANGE
  <2>4. files = [n \in {0, 2} |-> IF n = 2 THEN <<3>> ELSE f[n]]
    BY <1>2, <1>6, <2>1, <2>2, <2>3 DEF LPUSH
  <2> QED
    BY <2>1, <2>4
<1> QED
  BY <1>3, <1>4, <1>5, <1>7, <1>8

LEMMA ListOfOne ==
    ASSUME NEW n
    PROVE  ToSet(<<n>>) = {n}
<1>1. <<n>> \in Seq({n}) /\ Len(<<n>>) = 1 /\ <<n>>[1] = n
  OBVIOUS
<1> HIDE DEF ToSet
<1>2. \A m : m \in ToSet(<<n>>) <=> m = n
  <2>1. \A m : m \in ToSet(<<n>>) <=> \E i \in 1 .. Len(<<n>>) : <<n>>[i] = m
    BY <1>1, SetOfList
  <2> QED
    BY <1>1, <2>1
<1> QED
  BY <1>2

LEMMA BaseInit ==
    ASSUME Init
    PROVE  Base /\ \A c \in Client : Asking(c)
<1>1. /\ idCount = 4 /\ created = TRUE
      /\ DOMAIN folderInfo = {0, 2}
      /\ folderInfo[0] = [parent |-> 0, name |-> RootName]
      /\ folderInfo[2] = [parent |-> 0, name |-> <<"b">>]
      /\ DOMAIN fileInfo = {1, 3}
      /\ \A n \in {1, 3} : fileInfo[n] = [name |-> <<"a">>]
      /\ DOMAIN folders = {0} /\ folders[0] = <<2>>
      /\ DOMAIN files = {0, 2} /\ files[0] = <<1>> /\ files[2] = <<3>>
  BY FirstStore DEF Init
<1>2. RootName \in Seq(Char) /\ <<"a">> \in Seq(Char) /\ <<"b">> \in Seq(Char)
  BY CharAssumption, NamesAssumption DEF RootName
<1>3. 1 \in Number /\ 2 \in Number /\ 3 \in Number
  BY CallsAssumption DEF Number
<1>4. \A n \in {1, 2, 3} : <<n>> \in Seq(Number) /\ <<n>> \in Seq(Nat)
  BY <1>3
<1>5. StoreTyped
  <2>1. /\ \A n \in DOMAIN folders : folders[n] \in Seq(Number) /\ folders[n] \in Seq(Nat)
        /\ \A n \in DOMAIN files : files[n] \in Seq(Number) /\ files[n] \in Seq(Nat)
    BY <1>1, <1>4
  <2>2. /\ \A n \in DOMAIN folderInfo : folderInfo[n] \in [parent : Nat, name : Seq(Char)]
        /\ \A n \in DOMAIN fileInfo : fileInfo[n] \in [name : Seq(Char)]
    <3>1. /\ [parent |-> 0, name |-> RootName] \in [parent : Nat, name : Seq(Char)]
          /\ [parent |-> 0, name |-> <<"b">>] \in [parent : Nat, name : Seq(Char)]
          /\ [name |-> <<"a">>] \in [name : Seq(Char)]
      BY <1>2
    <3> HIDE DEF RootName
    <3> QED
      BY <1>1, <3>1, Zenon
  <2> QED
    BY <1>1, <2>1, <2>2 DEF StoreTyped, DbTypeOK
<1>6. \A c \in Client : Making(c) /\ Asking(c)
  BY DEF Init, Making, Asking, Walking
<1>7. Typed
  BY <1>5, <1>6, BlankTyped, CallsAssumption DEF Typed, Init, Labels
<1>8. Drawing = {}
  BY DEF Drawing, Init
<1>9. Counter
  BY <1>1, <1>8, FS_EmptySet DEF Counter, Init
<1> QED
  BY <1>6, <1>7, <1>9 DEF Base

LEMMA HashInit == Init => HashInv
<1> SUFFICES ASSUME Init PROVE HashInv
  OBVIOUS
<1>1. Base /\ \A c \in Client : Asking(c)
  BY BaseInit
<1>2. /\ DOMAIN folderInfo = {0, 2} /\ DOMAIN fileInfo = {1, 3}
      /\ DOMAIN folders = {0} /\ folders[0] = <<2>>
      /\ DOMAIN files = {0, 2} /\ files[0] = <<1>> /\ files[2] = <<3>>
  BY FirstStore DEF Init
<1>3. ListedOwed
  BY <1>2, ListOfOne DEF ListedOwed, Owed, Kinds, ListsOf, Info, ROOT_FOLDER_ID
<1>4. \A c \in Client : pc[c] = "idle"
  BY DEF Init
<1>5. AllSaw /\ \A c \in Client : Hashed(c)
  BY <1>4 DEF AllSaw, Hashed, Walking
<1>6. saw \in [Client -> BOOLEAN]
  BY Zenon DEF Init
<1> QED
  BY <1>1, <1>3, <1>5, <1>6 DEF HashInv

LEMMA HashStutter ==
    ASSUME HashInv, UNCHANGED vars
    PROVE  HashInv'
<1>1. /\ UNCHANGED <<idCount, created, folderInfo, fileInfo, folders, files, pc, reg, made>>
      /\ UNCHANGED <<saw>>
  BY DEF vars, dbVars, history
<1>2. Base'
  BY <1>1 DEF HashInv, Base, Typed, StoreTyped, DbTypeOK, Making, Counter, Drawing
<1>3. ListedOwed' /\ AllSaw'
  BY <1>1 DEF HashInv, ListedOwed, Owed, Info, ListsOf, AllSaw
<1>4. \A c \in Client : Asking(c)' /\ Hashed(c)'
  BY <1>1 DEF HashInv, Asking, Hashed, Info
<1> QED
  BY <1>1, <1>2, <1>3, <1>4 DEF HashInv

\* A process dies only when an entry lacked its hash at some moment of its
\* call, whoever else makes, renames and removes what: nothing is listed
\* before its hash but what is being made, and no step takes a hash away.
THEOREM CrashesOnlyUnfinished == Spec => []CrashNeedsUnfinished
<1>1. HashInv => CrashNeedsUnfinished
  BY DEF HashInv, Hashed, CrashNeedsUnfinished
<1>2. HashInv /\ [Next]_vars => HashInv'
  BY HashStep, HashStutter
<1> QED
  BY <1>1, <1>2, HashInit, PTL DEF Spec

\* The types of the store and of the registers, for any number of calls
\* whose entries an int can count.
THEOREM EntriesTyped == Spec => []TypeOK
<1>1. HashInv => TypeOK
  <2> SUFFICES ASSUME HashInv PROVE TypeOK
    OBVIOUS
  <2>1. \A c \in Client : reg[c] \in Registers
    BY DEF HashInv, Base, Typed
  <2>2. \A c \in Client : /\ reg[c].dir \in Long /\ reg[c].id \in Long
                         /\ reg[c].parentId \in Long /\ reg[c].ids \in Seq(Nat)
    BY <2>1, NumbersAreNat DEF Registers
  <2> QED
    BY <2>2 DEF HashInv, Base, Typed, StoreTyped, TypeOK
<1> QED
  BY <1>1, HashStep, HashStutter, HashInit, PTL DEF Spec

-----------------------------------------------------------------------------
(* A search and a listing come to every entry that stays.                  *)

\* An entry of the folder dir is listed there and has its hash.
EntryOf(e, dir) ==
    /\ e[1] \in Kinds
    /\ e[1] = "dir" => /\ e[2] \in ToSet(LRANGE(folders, dir))
                       /\ e[2] \in DOMAIN folderInfo /\ e[3] = folderInfo[e[2]].name
    /\ e[1] = "file" => /\ e[2] \in ToSet(LRANGE(files, dir))
                        /\ e[2] \in DOMAIN fileInfo /\ e[3] = fileInfo[e[2]].name
    /\ e = <<e[1], e[2], e[3]>>

LEMMA EntriesAre ==
    ASSUME NEW dir, NEW e \in Entries(dir)
    PROVE  EntryOf(e, dir)
<1> HIDE DEF LRANGE, ToSet
<1>1. CASE \E n \in ToSet(LRANGE(folders, dir)) \cap DOMAIN folderInfo :
              e = <<"dir", n, folderInfo[n].name>>
  BY <1>1 DEF EntryOf, Kinds
<1>2. CASE \E n \in ToSet(LRANGE(files, dir)) \cap DOMAIN fileInfo :
              e = <<"file", n, fileInfo[n].name>>
  BY <1>2 DEF EntryOf, Kinds
<1> QED
  BY <1>1, <1>2 DEF Entries

LEMMA StableStep ==
    ASSUME Track, NEW c \in Client
    PROVE  /\ pc[c] # "done" /\ Reading(c)' => stable'[c] \subseteq Entries(reg[c].dir)'
           /\ Reading(c) /\ Reading(c)' => stable'[c] \subseteq stable[c]
<1>1. stable'[c] = IF ~Reading(c)' THEN {}
                   ELSE IF ~Reading(c) THEN Entries(reg[c].dir)'
                   ELSE IF pc[c] = "done" THEN stable[c]
                   ELSE stable[c] \cap Entries(reg[c].dir)'
  BY DEF Track
<1> QED
  BY <1>1

\* Others' steps only take entries off what is remembered.
LEMMA OthersRead ==
    ASSUME Typed, NEW c \in Client, Begin(c) \/ Step(c), Track, NEW d \in Client, d # c,
           Sought(d), Listed(d)
    PROVE  Sought(d)' /\ Listed(d)'
<1>1. pc'[d] = pc[d] /\ reg'[d] = reg[d]
  BY OthersStay
<1>2. \A n : n \in Shared => n \in Shared'
  BY HashesStay DEF Shared
<1>3. Reading(d) => stable'[d] \subseteq stable[d]
  BY <1>1, StableStep DEF Reading
<1>4. pc[d] \in {"file", "folders", "folder", "found", "listfiles", "kind", "name", "done"} =>
         \A e \in stable'[d] : e \in stable[d]
  BY <1>3 DEF Reading, Lookup, Listing
<1>5. Sought(d)'
  BY <1>1, <1>4 DEF Sought, Left, NoneOf, Wanted
<1>6. Listed(d)'
  BY <1>1, <1>2, <1>4 DEF Listed, Shown, ShownOrLeft
<1> QED
  BY <1>5, <1>6

\* The process that runs has compared or shown what it has passed.
LEMMA ReadsOn ==
    ASSUME Base, NEW c \in Client, Begin(c) \/ Step(c), Track, Asking(c), Sought(c), Listed(c)
    PROVE  Sought(c)' /\ Listed(c)'
<1>1. Typed /\ StoreTyped /\ reg[c] \in Registers /\ reg[c].ids \in Seq(Number)
      /\ reg[c].out \in Seq(Entry) /\ Making(c)
  BY DEF Base, Typed, Registers
<1> DEFINE Labelled == pc'[c] \in {"file", "folders", "folder", "found", "listfiles", "kind",
                                   "name", "done"}
<1>2. ASSUME Begin(c) \/ ReadStep(c) \/ GetNewId(c), pc[c] # "done", Labelled
      PROVE  \A e \in stable'[c] : EntryOf(e, reg'[c].dir)
  <2>1. Reading(c)'
    BY <1>2 DEF Reading, Lookup, Listing
  <2>2. stable'[c] \subseteq Entries(reg[c].dir)'
    BY <1>2, <2>1, StableStep
  <2>3. Entries(reg[c].dir)' = Entries(reg'[c].dir)
    BY <1>2, ReadKeepsStore DEF Entries
  <2> QED
    BY <2>2, <2>3, EntriesAre
<1>3. Labelled /\ Reading(c) => \A e \in stable'[c] : e \in stable[c]
  BY StableStep DEF Reading, Lookup, Listing
<1>4. \A n : n \in Shared => n \in Shared'
  BY <1>1, HashesStay DEF Shared
<1>5. ~Labelled => Sought(c)' /\ Listed(c)'
  BY DEF Sought, Listed
<1>6. pc'[c] = "done" /\ reg'[c].op \notin {"readdir", "list"} => Sought(c)' /\ Listed(c)'
  BY DEF Sought, Listed
<1>7. reg[c].ids # <<>> => \A n \in ToSet(reg[c].ids) : n = Head(reg[c].ids) \/ n \in ToSet(Tail(reg[c].ids))
  BY <1>1, HeadAndTail
<1>8. reg[c].ids = <<>> => ToSet(reg[c].ids) = {}
  BY <1>1, SetOfList
<1> HIDE DEF Labelled
<1>9. CASE Begin(c)
  <2>1. PICK call \in Calls[c] : pc'[c] = FirstStep(call)[1] /\ reg'[c] = FirstStep(call)[2]
    BY <1>1, <1>9, BeginEffect
  <2> QED
    BY <1>5, <2>1, FirstStepIs DEF Labelled
<1>10. CASE IncrNewId(c) \/ AddToList(c) \/ SetInfo(c) \/ vfs_setFileName(c) \/ RemoveFromList(c)
  <2>1. pc[c] \in {"INCR", "LPUSH", "HMSET", "HSET", "LREM"}
    BY <1>10 DEF IncrNewId, AddToList, SetInfo, vfs_setFileName, RemoveFromList
  <2> QED
    BY <1>1, <1>5, <1>6, <1>10, <2>1, WriteEffect DEF Labelled, Making, Asking
<1>11. CASE GetNewId(c)
  BY <1>1, <1>5, <1>11, MakeEffect DEF Labelled
<1>12. CASE Walk(c)
  BY <1>1, <1>5, <1>12, WalkEffect DEF Labelled
<1>13. CASE FindFiles(c) \/ FindFolders(c)
  <2>1. SameCall(reg[c], reg'[c]) /\ reg'[c].type = reg[c].type
    BY <1>1, <1>13, FindFilesEffect
  <2>2. Labelled /\ Reading(c) /\ ReadStep(c) /\ pc[c] # "done"
    BY <1>1, <1>13, FindFilesEffect DEF Labelled, Reading, Lookup, ReadStep
  <2>3. \A e \in stable'[c] : e \in stable[c] /\ EntryOf(e, reg[c].dir)
    BY <1>2, <1>3, <2>1, <2>2 DEF SameCall
  <2>4. CASE pc'[c] = "file"
    <3>1. reg'[c].ids = LRANGE(files, reg[c].dir)
      BY <1>1, <1>13, <2>4, FindFilesEffect
    <3> QED
      BY <2>1, <2>3, <2>4, <3>1 DEF Sought, Listed, Left, EntryOf
  <2>5. CASE pc'[c] = "folder"
    <3>1. reg'[c].ids = LRANGE(folders, reg[c].dir) /\ pc[c] = "folders"
      BY <1>1, <1>13, <2>5, FindFilesEffect
    <3> QED
      BY <2>1, <2>3, <2>5, <3>1 DEF Sought, Listed, Left, NoneOf, EntryOf, SameCall, Wanted
  <2> QED
    BY <1>1, <1>13, <2>4, <2>5, FindFilesEffect
<1>14. CASE FindFile(c)
  <2>1. ReadStep(c) /\ pc[c] = "file" /\ Reading(c)
    BY <1>14 DEF ReadStep, FindFile, Reading, Lookup
  <2>2. CASE Labelled
    <3>1. pc'[c] = "file"
      BY <1>1, <1>14, <2>2, FindFileEffect DEF Labelled
    <3>2. /\ reg[c].ids # <<>> /\ SameCall(reg[c], reg'[c]) /\ reg'[c].ids = Tail(reg[c].ids)
          /\ \/ reg'[c].type = "file"
             \/ fileInfo[Head(reg[c].ids)].name # Wanted(c) /\ reg'[c].type = reg[c].type
      BY <1>1, <1>14, <3>1, FindFileEffect
    <3>3. \A e \in stable'[c] : e \in stable[c] /\ EntryOf(e, reg[c].dir)
      BY <1>2, <1>3, <2>1, <2>2, <3>2 DEF SameCall
    <3>4. Wanted(c)' = Wanted(c)
      BY <3>2 DEF Wanted, SameCall
    <3>5. Left(c, "file") /\ reg'[c].type # "file" => Left(c, "file")'
      BY <1>7, <3>2, <3>3, <3>4 DEF Left, EntryOf
    <3> QED
      BY <2>1, <3>1, <3>2, <3>5 DEF Sought, Listed
  <2> QED
    BY <1>5, <2>2
<1>15. CASE FindFolder(c)
  <2>1. ReadStep(c) /\ pc[c] = "folder" /\ Reading(c) /\ reg[c].type = "none"
    BY <1>15 DEF ReadStep, FindFolder, Reading, Lookup, Asking
  <2>2. CASE Labelled
    <3>1. /\ reg[c].ids # <<>> /\ SameCall(reg[c], reg'[c])
          /\ \/ pc'[c] = "found" /\ reg'[c].type = "dir"
             \/ /\ pc'[c] = "folder" /\ reg'[c].ids = Tail(reg[c].ids)
                /\ folderInfo[Head(reg[c].ids)].name # Wanted(c)
      BY <1>1, <1>15, <2>2, FindFolderEffect DEF Labelled
    <3>2. \A e \in stable'[c] : e \in stable[c] /\ EntryOf(e, reg[c].dir)
      BY <1>2, <1>3, <2>1, <2>2, <3>1 DEF SameCall
    <3>3. Wanted(c)' = Wanted(c)
      BY <3>1 DEF Wanted, SameCall
    <3>4. Left(c, "dir") /\ pc'[c] = "folder" => Left(c, "dir")'
      BY <1>7, <3>1, <3>2, <3>3 DEF Left, EntryOf
    <3>5. NoneOf(c, "file") => NoneOf(c, "file")'
      BY <3>2, <3>3 DEF NoneOf
    <3> QED
      BY <2>1, <3>1, <3>4, <3>5 DEF Sought, Listed
  <2> QED
    BY <1>5, <2>2
<1>16. CASE FindFileEnd(c) \/ FindFolderEnd(c)
  <2>1. /\ reg'[c] = reg[c] /\ reg[c].ids = <<>>
        /\ \/ pc[c] = "file" /\ reg[c].type = "file" /\ pc'[c] = "found"
           \/ pc[c] = "file" /\ reg[c].type # "file" /\ pc'[c] = "folders"
           \/ pc[c] = "folder" /\ pc'[c] = "found"
    BY <1>1, <1>16, FindEndEffect
  <2>2. Labelled /\ Reading(c) /\ ReadStep(c) /\ pc[c] # "done"
    BY <1>16, <2>1 DEF Labelled, Reading, Lookup, ReadStep
  <2>3. \A e \in stable'[c] : e \in stable[c] /\ EntryOf(e, reg[c].dir)
    BY <1>2, <1>3, <2>1, <2>2
  <2>4. /\ Left(c, "file") => NoneOf(c, "file")'
        /\ NoneOf(c, "file") /\ Left(c, "dir") => \A e \in stable'[c] : e[3] # Wanted(c)'
    BY <1>8, <2>1, <2>3 DEF Left, NoneOf, Wanted, EntryOf, Kinds
  <2> QED
    BY <2>1, <2>4 DEF Sought, Listed
<1>17. CASE Found(c)
  <2>1. /\ pc[c] = "found" /\ reg'[c].op = reg[c].op
        /\ pc'[c] \in {"parent", "parsed", "walk", "listfolders"}
           \/ (pc'[c] = "done" /\ reg[c].op # "readdir")
    BY <1>1, <1>17, FoundEffect
  <2> QED
    BY <1>5, <1>6, <2>1 DEF Labelled, Asking, Walking
<1>18. CASE ParseParent(c) \/ Parsed(c) \/ StatParsed(c) \/ StatName(c)
  BY <1>1, <1>5, <1>6, <1>18, ParsedEffect DEF Labelled, Asking, Walking
<1>19. CASE ListFolders(c) \/ ListFiles(c)
  <2>1. SameCall(reg[c], reg'[c]) /\ reg'[c].out = reg[c].out
    BY <1>1, <1>19, ListEffect
  <2>2. Labelled /\ Reading(c) /\ ReadStep(c) /\ pc[c] # "done"
    BY <1>1, <1>19, ListEffect DEF Labelled, Reading, Listing, ReadStep
  <2>3. \A e \in stable'[c] : e \in stable[c] /\ EntryOf(e, reg[c].dir)
    BY <1>2, <1>3, <2>1, <2>2 DEF SameCall
  <2>4. CASE pc[c] = "listfolders"
    <3>1. /\ reg'[c].ids = LRANGE(folders, reg[c].dir)
          /\ \/ reg[c].op = "readdir" /\ pc'[c] = "listfiles"
             \/ reg[c].op # "readdir" /\ pc'[c] = "name" /\ reg'[c].type = "dir"
      BY <1>1, <1>19, <2>4, ListEffect
    <3>2. ShownOrLeft(c, "dir")'
      BY <2>3, <3>1 DEF ShownOrLeft, EntryOf
    <3> QED
      BY <2>1, <3>1, <3>2 DEF Sought, Listed, SameCall
  <2>5. CASE pc[c] = "listfiles" /\ reg[c].op = "readdir"
    <3>1. pc'[c] = "kind" /\ reg'[c].ids = reg[c].ids \o LRANGE(files, reg[c].dir)
      BY <1>1, <1>19, <2>5, ListEffect
    <3>2. LRANGE(files, reg[c].dir) \in Seq(Number)
      BY <1>1, ReadList DEF Kinds, ListsOf
    <3>3. \A n : n \in ToSet(reg'[c].ids) <=>
                 n \in ToSet(reg[c].ids) \/ n \in ToSet(LRANGE(files, reg[c].dir))
      BY <1>1, <3>1, <3>2, SetOfConcat
    <3>4. ShownOrLeft(c, "dir") => ShownOrLeft(c, "dir")'
      BY <1>4, <2>1, <2>3, <3>3 DEF ShownOrLeft, SameCall
    <3>5. ShownOrLeft(c, "file")'
      BY <2>3, <3>3 DEF ShownOrLeft, EntryOf
    <3> QED
      BY <2>1, <2>5, <3>1, <3>4, <3>5 DEF Sought, Listed, SameCall
  <2>6. CASE pc[c] = "listfiles" /\ reg[c].op # "readdir"
    <3>1. pc'[c] = "name" /\ reg'[c].ids = LRANGE(files, reg[c].dir) /\ reg'[c].type = "file"
      BY <1>1, <1>19, <2>6, ListEffect
    <3>2. Shown(c, "dir") => Shown(c, "dir")'
      BY <2>1, <2>3 DEF Shown
    <3>3. ShownOrLeft(c, "file")'
      BY <2>3, <3>1 DEF ShownOrLeft, EntryOf
    <3> QED
      BY <2>1, <2>6, <3>1, <3>2, <3>3 DEF Sought, Listed, SameCall
  <2> QED
    BY <1>1, <1>19, <2>4, <2>5, <2>6, ListEffect
<1>20. CASE AskKind(c)
  <2>1. /\ pc[c] = "kind" /\ pc'[c] = "name" /\ reg[c].ids # <<>>
        /\ SameCall(reg[c], reg'[c]) /\ reg'[c].out = reg[c].out /\ reg'[c].ids = reg[c].ids
        /\ reg'[c].type = IF Head(reg[c].ids) \in DOMAIN folderInfo THEN "dir" ELSE "file"
    BY <1>1, <1>20, AskKindEffect
  <2>2. Labelled /\ Reading(c) /\ ReadStep(c) /\ reg[c].op = "readdir"
    BY <1>20, <2>1 DEF Labelled, Reading, Listing, ReadStep, Asking
  <2>3. \A e \in stable'[c] : e \in stable[c] /\ EntryOf(e, reg[c].dir)
    BY <1>2, <1>3, <2>1, <2>2 DEF SameCall
  <2>4. \A e \in stable'[c] : e[2] = Head(reg'[c].ids) => e[1] = reg'[c].type \/ e[2] \in Shared'
    <3>1. \A e \in stable'[c] : e[2] = Head(reg[c].ids) => e[1] = reg'[c].type \/ e[2] \in Shared
      BY <2>1, <2>3 DEF EntryOf, Kinds, Shared
    <3> QED
      BY <1>4, <2>1, <3>1
  <2>5. /\ ShownOrLeft(c, "dir") => ShownOrLeft(c, "dir")'
        /\ ShownOrLeft(c, "file") => ShownOrLeft(c, "file")'
    BY <1>4, <2>1, <2>3 DEF ShownOrLeft, SameCall
  <2> QED
    BY <2>1, <2>2, <2>4, <2>5 DEF Sought, Listed, SameCall
<1>21. CASE AskName(c)
  <2>1. ReadStep(c) /\ Reading(c) /\ pc[c] = "name"
    BY <1>21 DEF ReadStep, AskName, Reading, Listing
  <2>2. CASE Labelled
    <3> DEFINE n == Head(reg[c].ids)
               shown == <<reg[c].type, n, Info(reg[c].type)[n].name>>
    <3>1. /\ reg[c].ids # <<>> /\ n \in Number /\ reg[c].type \in Kinds
          /\ n \in DOMAIN Info(reg[c].type)
          /\ \/ reg[c].op = "readdir" /\ pc'[c] = "kind"
             \/ reg[c].op # "readdir" /\ pc'[c] = "name"
          /\ SameCall(reg[c], reg'[c]) /\ reg'[c].ids = Tail(reg[c].ids)
          /\ reg'[c].type = reg[c].type /\ reg'[c].out = Append(reg[c].out, shown)
      BY <1>1, <1>21, <2>2, AskNameEffect DEF Labelled
    <3>2. \A e \in stable'[c] : e \in stable[c] /\ EntryOf(e, reg[c].dir)
      BY <1>2, <1>3, <2>1, <2>2, <3>1 DEF SameCall
    <3>3. shown \in Entry
      <4>1. HasInfo(Info(reg[c].type), n) /\ n \in Nat
        BY <3>1, NumberFacts DEF HasInfo
      <4>2. Info(reg[c].type)[n].name \in Seq(Char)
        BY <1>1, <3>1, <4>1, NamesTyped
      <4> QED
        BY <3>1, <4>1, <4>2 DEF Entry, Kinds
    <3>4. /\ shown \in ToSet(reg'[c].out)
          /\ \A e \in ToSet(reg[c].out) : e \in ToSet(reg'[c].out)
      <4> HIDE DEF shown
      <4> QED
        BY <1>1, <3>1, <3>3, SetOfAppend
    <3>5. \A e \in stable'[c] : e[1] = reg[c].type /\ e[2] = n => e = shown
      BY <3>2 DEF EntryOf, Info, Kinds
    <3> HIDE DEF shown, n
    <3>6. \A e \in stable'[c] : e[2] \in ToSet(reg[c].ids) /\ e[2] # n => e[2] \in ToSet(reg'[c].ids)
      BY <1>7, <3>1 DEF n
    <3>7. CASE reg[c].op = "readdir"
      <4>1. \A e \in stable'[c] : e[2] = n => e[1] = reg[c].type \/ e[2] \in Shared'
        BY <1>4, <2>1, <3>2, <3>7 DEF Listed, n
      <4>2. ShownOrLeft(c, "dir") /\ ShownOrLeft(c, "file")
        BY <2>1, <3>7 DEF Listed
      <4>3. reg'[c].op = reg[c].op
        BY <3>1 DEF SameCall
      <4>4. ShownOrLeft(c, "dir")' /\ ShownOrLeft(c, "file")'
        BY <1>4, <3>2, <3>4, <3>5, <3>6, <3>7, <4>1, <4>2, <4>3 DEF ShownOrLeft
      <4> QED
        BY <3>1, <3>7, <4>3, <4>4 DEF Sought, Listed
    <3>8. CASE reg[c].op # "readdir"
      <4>1. reg'[c].op = reg[c].op /\ pc'[c] = "name"
        BY <3>1, <3>8 DEF SameCall
      <4>2. Shown(c, "dir") => Shown(c, "dir")'
        BY <3>2, <3>4 DEF Shown
      <4>3. reg[c].type = "dir" /\ ShownOrLeft(c, "dir") => ShownOrLeft(c, "dir")'
        BY <3>2, <3>4, <3>5, <3>6, <3>8 DEF ShownOrLeft
      <4>4. reg[c].type = "file" /\ ShownOrLeft(c, "file") => ShownOrLeft(c, "file")'
        BY <3>2, <3>4, <3>5, <3>6, <3>8 DEF ShownOrLeft
      <4> QED
        BY <2>1, <3>1, <3>8, <4>1, <4>2, <4>3, <4>4 DEF Sought, Listed
    <3> QED
      BY <3>7, <3>8
  <2> QED
    BY <1>5, <2>2
<1>22. CASE Return(c)
  BY <1>1, <1>5, <1>22, EndEffect DEF Labelled, Return
<1>23. CASE ListEnd(c)
  <2>1. /\ pc[c] \in {"kind", "name"} /\ reg[c].ids = <<>> /\ reg'[c] = reg[c]
        /\ pc'[c] = IF pc[c] = "name" /\ reg[c].type = "dir" THEN "listfiles" ELSE "done"
    BY <1>1, <1>23, EndEffect DEF ListEnd
  <2>2. Labelled /\ Reading(c) /\ ReadStep(c)
    BY <1>23, <2>1 DEF Labelled, Reading, Listing, ReadStep
  <2>3. \A e \in stable'[c] : e \in stable[c] /\ EntryOf(e, reg[c].dir)
    BY <1>2, <1>3, <2>1, <2>2
  <2>4. CASE reg[c].op = "readdir"
    <3>1. pc[c] = "kind" /\ pc'[c] = "done"
      BY <2>1, <2>4 DEF Asking
    <3>2. \A e \in stable'[c] : e \in ToSet(reg[c].out) \/ e[2] \in Shared
      BY <1>8, <2>1, <2>3, <2>4, <3>1 DEF Listed, ShownOrLeft, EntryOf, Kinds
    <3> QED
      BY <1>4, <2>1, <2>4, <3>1, <3>2 DEF Sought, Listed
  <2>5. CASE reg[c].op # "readdir"
    <3>1. pc[c] = "name" /\ reg[c].type \in Kinds
      BY <2>1, <2>5 DEF Asking
    <3>2. CASE reg[c].type = "dir"
      <4>1. ShownOrLeft(c, "dir") => Shown(c, "dir")'
        BY <1>8, <2>1, <2>3, <2>5 DEF ShownOrLeft, Shown
      <4> QED
        BY <2>1, <2>5, <3>1, <3>2, <4>1 DEF Sought, Listed
    <3>3. CASE reg[c].type = "file"
      <4>1. Shown(c, "dir") /\ ShownOrLeft(c, "file") =>
               \A e \in stable'[c] : e \in ToSet(reg[c].out)
        BY <1>8, <2>1, <2>3, <2>5 DEF ShownOrLeft, Shown, EntryOf, Kinds
      <4> QED
        BY <2>1, <2>5, <3>1, <3>3, <4>1 DEF Sought, Listed
    <3> QED
      BY <3>1, <3>2, <3>3 DEF Kinds
  <2> QED
    BY <2>4, <2>5
<1> QED
  BY <1>9, <1>10, <1>11, <1>12, <1>13, <1>14, <1>15, <1>16, <1>17, <1>18, <1>19, <1>20,
     <1>21, <1>22, <1>23 DEF Step

LEMMA ReadInvStep ==
    ASSUME ReadInv, Next
    PROVE  ReadInv'
<1>1. PICK c \in Client : Begin(c) \/ Step(c)
  BY DEF Next
<1>2. Track /\ Base /\ Typed /\ \A d \in Client : Asking(d) /\ Sought(d) /\ Listed(d)
  BY DEF Next, ReadInv, Base
<1>3. Base' /\ \A d \in Client : Asking(d)'
  BY <1>1, <1>2, BaseStep, AskingKept
<1>4. \A d \in Client : Sought(d)' /\ Listed(d)'
  BY <1>1, <1>2, ReadsOn, OthersRead
<1> QED
  BY <1>3, <1>4 DEF ReadInv

LEMMA ReadInvInit == Init => ReadInv
<1> SUFFICES ASSUME Init PROVE ReadInv
  OBVIOUS
<1>1. \A c \in Client : Sought(c) /\ Listed(c)
  BY DEF Init, Sought, Listed
<1> QED
  BY <1>1, BaseInit DEF ReadInv

LEMMA ReadInvStutter ==
    ASSUME ReadInv, UNCHANGED vars
    PROVE  ReadInv'
<1>1. /\ UNCHANGED <<idCount, created, folderInfo, fileInfo, folders, files, pc, reg, made>>
      /\ UNCHANGED <<stable>>
  BY DEF vars, dbVars, history
<1>2. Base'
  BY <1>1 DEF ReadInv, Base, Typed, StoreTyped, DbTypeOK, Making, Counter, Drawing
<1>3. \A c \in Client : Asking(c)' /\ Sought(c)'
  BY <1>1 DEF ReadInv, Asking, Sought, Left, NoneOf, Wanted
<1>4. \A c \in Client : Listed(c)'
  BY <1>1 DEF ReadInv, Listed, Shown, ShownOrLeft, Shared
<1> QED
  BY <1>2, <1>3, <1>4 DEF ReadInv

\* A lookup does not miss an entry that bore the name all the while, whatever
\* is made, renamed and deleted between its commands.
THEOREM LookupMissesNothing == Spec => []StableFound
<1>1. ReadInv => StableFound
  BY DEF ReadInv, Sought, StableFound
<1> QED
  BY <1>1, ReadInvStep, ReadInvStutter, ReadInvInit, PTL DEF Spec

\* A listing shows every entry that stayed in the folder, as the kind it is;
\* Readdir only where no file and folder have drawn the same number.
THEOREM ListingShowsAll == Spec => []StableListed
<1>1. ReadInv => StableListed
  BY DEF ReadInv, Listed, StableListed
<1> QED
  BY <1>1, ReadInvStep, ReadInvStutter, ReadInvInit, PTL DEF Spec

-----------------------------------------------------------------------------
(* An entry deleted stays deleted.                                         *)

LEMMA AskedStep ==
    ASSUME Typed, NEW c \in Client, Asking(c), Begin(c) \/ Step(c),
           \A d \in Client : Asked(d)
    PROVE  \A d \in Client : Asked(d)'
<1>1. \A d \in Client : d # c => Asked(d)'
  BY OthersStay DEF Asked
<1>2. CASE Begin(c)
  <2>1. PICK call \in Calls[c] : pc'[c] = FirstStep(call)[1] /\ reg'[c] = FirstStep(call)[2]
    BY <1>2, BeginEffect
  <2> QED
    BY <1>1, <2>1, FirstStepIs DEF Asked
<1>3. CASE ReadStep(c)
  <2>1. pc'[c] \notin MakingLabels
    <3>1. PICK label \in Labels \ MakingLabels, r \in Registers : Read(c, label, r)
      BY <1>3, ReadStepsRead
    <3> QED
      BY <3>1, ReadEffect
  <2> QED
    BY <1>1, <2>1 DEF Asked, MakingLabels
<1>4. CASE GetNewId(c)
  BY <1>1, <1>4, MakeEffect DEF Asked
<1>5. CASE IncrNewId(c) \/ AddToList(c) \/ SetInfo(c) \/ vfs_setFileName(c) \/ RemoveFromList(c)
  BY <1>1, <1>5, WriteEffect DEF Asked
<1> QED
  BY <1>2, <1>3, <1>4, <1>5, StepCases

LEMMA CountUp ==
    ASSUME Typed, Counter, NEW c \in Client, Begin(c) \/ Step(c)
    PROVE  /\ idCount \in Nat /\ idCount' \in Nat
           /\ idCount' = IF IncrNewId(c) THEN idCount + 1 ELSE idCount
<1>1. idCount \in Nat
  BY DEF Counter
<1>2. CASE IncrNewId(c)
  BY <1>1, <1>2 DEF IncrNewId, INCR, Absent
<1>3. CASE AddToList(c) \/ SetInfo(c) \/ vfs_setFileName(c) \/ RemoveFromList(c)
  BY <1>1, <1>3 DEF IncrNewId, AddToList, SetInfo, vfs_setFileName, RemoveFromList
<1>4. CASE Begin(c) \/ ReadStep(c) \/ GetNewId(c)
  BY <1>1, <1>4, ReadKeepsStore, ReadLabels DEF IncrNewId, GetNewId, Begin, MakingLabels
<1> QED
  BY <1>2, <1>3, <1>4, StepCases

\* Who is about to put a number on a list drew it before, or has just drawn it.
LEMMA Drawn ==
    ASSUME Typed, NEW c \in Client, Asking(c), Begin(c) \/ Step(c), NEW d \in Client,
           pc'[d] \in {"INCR", "LPUSH"}
    PROVE  /\ reg'[d].kind = reg[d].kind
           /\ \/ pc[d] = pc'[d] /\ reg'[d].id = reg[d].id
              \/ pc[d] = "INCR" /\ pc'[d] = "LPUSH" /\ reg'[d].id = reg[d].id
                 /\ d = c /\ IncrNewId(c)
              \/ pc[d] = "GET" /\ pc'[d] = "INCR" /\ reg'[d].id = idCount
<1>1. CASE d # c
  BY <1>1, OthersStay
<1>2. CASE d = c
  <2>1. ~Begin(c)
    BY <1>2, BeginEffect, FirstStepIs
  <2>2. ~ReadStep(c)
    <3> SUFFICES ASSUME ReadStep(c) PROVE FALSE
      OBVIOUS
    <3>1. PICK label \in Labels \ MakingLabels, r \in Registers : Read(c, label, r)
      BY ReadStepsRead
    <3> QED
      BY <1>2, <3>1, ReadEffect DEF MakingLabels
  <2>3. CASE GetNewId(c)
    BY <1>2, <2>3, MakeEffect
  <2>4. CASE IncrNewId(c) \/ AddToList(c) \/ SetInfo(c) \/ vfs_setFileName(c) \/ RemoveFromList(c)
    <3>1. pc[c] = "INCR" /\ pc'[c] = "LPUSH" /\ reg' = reg
      BY <1>2, <2>4, WriteEffect
    <3> QED
      BY <1>2, <2>4, <3>1 DEF AddToList, SetInfo, vfs_setFileName, RemoveFromList
  <2> QED
    BY <2>1, <2>2, <2>3, <2>4, StepCases
<1> QED
  BY <1>1, <1>2

LEMMA BelowStep ==
    ASSUME Base, NEW c \in Client, Asking(c), Begin(c) \/ Step(c), NEW kind, NEW n,
           Below(kind, n)
    PROVE  Below(kind, n)'
<1>1. Typed /\ Counter
  BY DEF Base
<1>2. n \in Nat /\ n < idCount /\ n < idCount'
  BY <1>1, CountUp DEF Below
<1>3. ASSUME NEW d \in Client, pc'[d] \in {"INCR", "LPUSH"}, reg'[d].kind = kind
      PROVE  n < reg'[d].id
  BY <1>1, <1>2, <1>3, Drawn DEF Below
<1> QED
  BY <1>2, <1>3 DEF Below

LEMMA InStep ==
    ASSUME Typed, NEW c \in Client, Asking(c), Begin(c) \/ Step(c), NEW kind \in Kinds,
           NEW n, NEW m, In(kind, n, m)'
    PROVE  \/ In(kind, n, m)
           \/ /\ AddToList(c) /\ pc[c] = "LPUSH" /\ reg[c].kind = kind /\ reg[c].id = n
              /\ reg[c].parentId = m
BY ListsGrow DEF In, AddToList

LEMMA OnlyStep ==
    ASSUME Typed, NEW c \in Client, Asking(c), Begin(c) \/ Step(c), NEW kind \in Kinds,
           NEW n, NEW dir, Below(kind, n), OnlyIn(kind, n, dir)
    PROVE  OnlyIn(kind, n, dir)'
<1> SUFFICES ASSUME NEW m, In(kind, n, m)' PROVE m = dir
  BY DEF OnlyIn
<1>1. CASE In(kind, n, m)
  BY <1>1 DEF OnlyIn
<1>2. CASE pc[c] = "LPUSH" /\ reg[c].kind = kind /\ reg[c].id = n
  BY <1>2 DEF Below
<1> QED
  BY <1>1, <1>2, InStep

\* The number put on a list is the highest of its kind, and one process makes
\* the entries of the kind.
LEMMA ListedBelow ==
    ASSUME OneMaker, GoneInv, NEW c \in Client, AddToList(c),
           NEW kind, NEW n, NEW dir,
           kind = reg[c].kind, n = reg[c].id, dir = reg[c].parentId
    PROVE  /\ kind \in Kinds /\ n # ROOT_FOLDER_ID
           /\ \A m : ~In(kind, n, m)
           /\ Below(kind, n)' /\ OnlyIn(kind, n, dir)'
<1>1. /\ Base /\ Typed /\ Counter /\ Asking(c) /\ Settled(c) /\ Making(c) /\ Unlisted
      /\ pc[c] = "LPUSH"
  BY DEF GoneInv, Base, Typed, AddToList
<1>2. kind \in Kinds /\ n \in Nat /\ n >= 4 /\ n < idCount
  BY <1>1 DEF Making, Settled, Number
<1>3. \A m : ~In(kind, n, m)
  BY <1>1, <1>2 DEF Unlisted, Below
<1>4. Step(c)
  BY DEF Step
<1>5. pc'[c] = "HMSET" /\ reg' = reg /\ \A d \in Client : d # c => pc'[d] = pc[d]
  BY <1>1, WriteEffect
<1>6. idCount' = idCount
  BY DEF AddToList
<1>7. ASSUME NEW d \in Client, pc'[d] \in {"INCR", "LPUSH"}, reg'[d].kind = kind
      PROVE  FALSE
  <2>1. d # c /\ pc[d] \in {"INCR", "LPUSH"} /\ reg[d].kind = kind
    BY <1>5, <1>7
  <2>2. PICK x \in Calls[c], y \in Calls[d] :
           x.op = "make" /\ y.op = "make" /\ x.kind = y.kind
    BY <1>1, <2>1 DEF GoneInv, Asked
  <2> QED
    BY <2>1, <2>2 DEF OneMaker
<1>8. Below(kind, n)'
  BY <1>2, <1>5, <1>6, <1>7 DEF Below
<1>9. ASSUME NEW m, In(kind, n, m)'
      PROVE  m = dir
  BY <1>1, <1>2, <1>3, <1>4, <1>9, InStep
<1>10. OnlyIn(kind, n, dir)'
  BY <1>9 DEF OnlyIn
<1> QED
  BY <1>2, <1>3, <1>8, <1>10 DEF ROOT_FOLDER_ID

LEMMA GoneStays ==
    ASSUME NEW c \in Client, Begin(c) \/ Step(c), ~RemoveFromList(c)
    PROVE  gone' = gone
<1>1. CASE Begin(c) \/ ReadStep(c) \/ GetNewId(c)
  BY <1>1, ReadKeepsStore
<1>2. CASE IncrNewId(c) \/ AddToList(c) \/ SetInfo(c) \/ vfs_setFileName(c)
  BY <1>2 DEF IncrNewId, AddToList, SetInfo, vfs_setFileName
<1> QED
  BY <1>1, <1>2, StepCases

LEMMA FoldersStay ==
    ASSUME NEW c \in Client, Begin(c) \/ Step(c), ~SetInfo(c)
    PROVE  folderInfo' = folderInfo
<1>1. CASE Begin(c) \/ ReadStep(c) \/ GetNewId(c)
  BY <1>1, ReadKeepsStore
<1>2. CASE IncrNewId(c) \/ AddToList(c) \/ RemoveFromList(c) \/ vfs_setFileName(c)
  BY <1>2 DEF IncrNewId, AddToList, RemoveFromList, vfs_setFileName
<1> QED
  BY <1>1, <1>2, StepCases

\* What is taken off the list of the one folder that names it is on none.
LEMMA TakenOff ==
    ASSUME Typed, NEW c \in Client, Asking(c), Settled(c), RemoveFromList(c),
           NEW kind, NEW n, kind = reg[c].type, n = reg[c].id, NEW m
    PROVE  kind \in Kinds /\ n \in Number /\ Below(kind, n) /\ ~In(kind, n, m)'
<1>1. /\ pc[c] = "LREM" /\ kind \in Kinds /\ n \in Number /\ Below(kind, n)
      /\ OnlyIn(kind, n, reg[c].parentId) /\ StoreTyped /\ Step(c)
  BY DEF RemoveFromList, Asking, Settled, Kinds, Typed, Step
<1>2. ListsOf(kind)' = LREM(ListsOf(kind), reg[c].parentId, n)
  BY <1>1 DEF RemoveFromList, ListsOf, Kinds
<1>3. LET new == LREM(ListsOf(kind), reg[c].parentId, n)
      IN  /\ DOMAIN new = DOMAIN ListsOf(kind)
          /\ \A k \in DOMAIN new : \A i \in ToSet(new[k]) :
                i \in ToSet(ListsOf(kind)[k]) /\ (k = reg[c].parentId => i # n)
  BY <1>1, Removed
<1>4. ASSUME In(kind, n, m)'
      PROVE  In(kind, n, m) /\ m # reg[c].parentId
  BY <1>2, <1>3, <1>4 DEF In
<1> QED
  BY <1>1, <1>4 DEF OnlyIn

LEMMA UnlistedStep ==
    ASSUME OneMaker, GoneInv, NEW c \in Client, Begin(c) \/ Step(c)
    PROVE  Unlisted'
<1>1. /\ Base /\ Typed /\ Unlisted /\ StoreTyped /\ Asking(c) /\ Settled(c) /\ Making(c)
  BY DEF GoneInv, Base, Typed
<1>2. ASSUME NEW kind \in Kinds, NEW n, NEW m, In(kind, n, m)', ~In(kind, n, m)
      PROVE  /\ n # ROOT_FOLDER_ID /\ Below(kind, n)' /\ OnlyIn(kind, n, m)'
  <2>1. AddToList(c) /\ kind = reg[c].kind /\ n = reg[c].id /\ m = reg[c].parentId
    BY <1>1, <1>2, InStep
  <2> QED
    BY <2>1, ListedBelow
<1>3. ASSUME NEW kind \in Kinds, NEW n, NEW m, In(kind, n, m)'
      PROVE  n # ROOT_FOLDER_ID /\ Below(kind, n)' /\ OnlyIn(kind, n, m)'
  <2>1. CASE In(kind, n, m)
    <3>1. n # ROOT_FOLDER_ID /\ Below(kind, n) /\ OnlyIn(kind, n, m)
      BY <1>1, <2>1 DEF Unlisted, OnlyIn
    <3> QED
      BY <1>1, <3>1, BelowStep, OnlyStep
  <2> QED
    BY <1>2, <1>3, <2>1
<1>4. ASSUME NEW kind \in Kinds, NEW n, NEW m1, NEW m2, In(kind, n, m1)', In(kind, n, m2)'
      PROVE  m1 = m2
  BY <1>3, <1>4 DEF OnlyIn
<1>5. ASSUME NEW g \in gone'
      PROVE  g[1] \in Kinds /\ Below(g[1], g[2])' /\ \A m : ~In(g[1], g[2], m)'
  <2>1. CASE g \in gone
    <3>1. g[1] \in Kinds /\ Below(g[1], g[2]) /\ \A m : ~In(g[1], g[2], m)
      BY <1>1, <2>1 DEF Unlisted
    <3>2. Below(g[1], g[2])'
      BY <1>1, <3>1, BelowStep
    <3>3. ASSUME NEW m, In(g[1], g[2], m)'
          PROVE  FALSE
      <4>1. pc[c] = "LPUSH" /\ reg[c].kind = g[1] /\ reg[c].id = g[2]
        BY <1>1, <3>1, <3>3, InStep
      <4> QED
        BY <3>1, <4>1 DEF Below
    <3> QED
      BY <3>1, <3>2, <3>3
  <2>2. CASE g \notin gone
    <3>1. RemoveFromList(c) /\ g[1] = reg[c].type /\ g[2] = reg[c].id
      BY <1>5, <2>2, GoneStays DEF RemoveFromList
    <3>2. g[1] \in Kinds /\ Below(g[1], g[2]) /\ \A m : ~In(g[1], g[2], m)'
      BY <1>1, <3>1, TakenOff
    <3> QED
      BY <1>1, <3>2, BelowStep
  <2> QED
    BY <2>1, <2>2
<1>6. ASSUME NEW n \in DOMAIN folderInfo'
      PROVE  Below("dir", n)' /\ OnlyIn("dir", n, folderInfo[n].parent)'
  <2> DEFINE p == folderInfo[n].parent
  <2>1. CASE n \in DOMAIN folderInfo /\ folderInfo'[n].parent = folderInfo[n].parent
    <3>1. Below("dir", n) /\ OnlyIn("dir", n, p)
      BY <1>1, <2>1 DEF Unlisted
    <3>2. PICK q : q = p
      OBVIOUS
    <3>3. Below("dir", n)' /\ OnlyIn("dir", n, q)'
      BY <1>1, <3>1, <3>2, BelowStep, OnlyStep DEF Kinds
    <3> QED
      BY <2>1, <3>2, <3>3 DEF OnlyIn
  <2>2. CASE ~(n \in DOMAIN folderInfo /\ folderInfo'[n].parent = folderInfo[n].parent)
    <3>1. SetInfo(c) /\ reg[c].kind = "dir"
      BY <1>6, <2>2, FoldersStay DEF SetInfo
    <3>2. /\ pc[c] = "HMSET" /\ reg[c].id \in Nat /\ reg[c].parentId \in Nat
          /\ folderInfo' = HMSET(folderInfo, reg[c].id, FolderHash(reg[c].parentId, Name(c)))
      BY <1>1, <3>1 DEF SetInfo, Making, Number
    <3>3. n = reg[c].id /\ folderInfo'[n].parent = reg[c].parentId
      BY <1>6, <2>2, <3>2, LuNat DEF HMSET, FolderHash
    <3>4. PICK q : q = reg[c].parentId
      OBVIOUS
    <3>5. Below("dir", n) /\ OnlyIn("dir", n, q)
      BY <1>1, <3>1, <3>2, <3>3, <3>4 DEF Settled
    <3>6. Below("dir", n)' /\ OnlyIn("dir", n, q)'
      BY <1>1, <3>5, BelowStep, OnlyStep DEF Kinds
    <3> QED
      BY <3>3, <3>4, <3>6 DEF OnlyIn
  <2> QED
    BY <2>1, <2>2
<1>7. \A kind \in Kinds : \A n, m : In(kind, n, m)' => n # ROOT_FOLDER_ID /\ Below(kind, n)'
  BY <1>3
<1>8. \A n \in DOMAIN folderInfo' : Below("dir", n)' /\ OnlyIn("dir", n, folderInfo[n].parent)'
  BY <1>6
<1> QED
  BY <1>4, <1>5, <1>7, <1>8 DEF Unlisted

LEMMA SettledStay ==
    ASSUME Base, NEW c \in Client, Asking(c), Begin(c) \/ Step(c), NEW d \in Client, d # c,
           Settled(d), Making(d), Asking(d)
    PROVE  Settled(d)'
<1>1. Typed /\ Counter /\ reg[d] \in Registers
  BY DEF Base, Typed
<1>2. pc'[d] = pc[d] /\ reg'[d] = reg[d]
  BY <1>1, OthersStay
<1>3. idCount \in Nat /\ idCount' \in Nat /\ idCount <= idCount'
  BY <1>1, CountUp
<1>4. ASSUME NEW kind \in Kinds, NEW n, NEW dir, Below(kind, n), OnlyIn(kind, n, dir)
      PROVE  Below(kind, n)' /\ OnlyIn(kind, n, dir)'
  BY <1>1, <1>4, BelowStep, OnlyStep
<1> DEFINE r == reg[d]
<1>5. PICK q : q = reg[d]
  OBVIOUS
<1>6. reg'[d] = q
  BY <1>2, <1>5
<1>7. /\ pc[d] = "INCR" => q.id <= idCount'
      /\ pc[d] \in {"INCR", "LPUSH"} => q.id >= 4
      /\ pc[d] \in {"LPUSH", "HMSET"} => q.id < idCount'
  <2>1. pc[d] \in {"INCR", "LPUSH", "HMSET"} => q.id \in Nat
    BY <1>5 DEF Making, Number
  <2> QED
    BY <1>3, <1>5, <2>1 DEF Settled
<1>8. pc[d] = "HMSET" => Below(q.kind, q.id)' /\ OnlyIn(q.kind, q.id, q.parentId)'
  BY <1>4, <1>5 DEF Settled, Making
<1>9. /\ pc[d] = "file" => \A n \in ToSet(q.ids) : Below("file", n)' /\ OnlyIn("file", n, q.dir)'
      /\ pc[d] = "folder" => \A n \in ToSet(q.ids) : Below("dir", n)' /\ OnlyIn("dir", n, q.dir)'
  BY <1>4, <1>5 DEF Settled, Kinds
<1>10. /\ pc[d] \in {"file", "found"} /\ q.type # "none" =>
             q.id \in Number /\ Below(q.type, q.id)' /\ OnlyIn(q.type, q.id, q.dir)'
       /\ pc[d] = "parent" =>
             q.id \in Number /\ Below("dir", q.id)' /\ OnlyIn("dir", q.id, q.dir)'
       /\ pc[d] \in {"parsed", "LREM"} /\ q.type # "none" =>
             q.id \in Number /\ Below(q.type, q.id)' /\ OnlyIn(q.type, q.id, q.parentId)'
  <2>1. q.type # "none" => q.type \in Kinds
    BY <1>1, <1>5 DEF Registers, Kinds
  <2>2. "dir" \in Kinds
    BY DEF Kinds
  <2> QED
    BY <1>4, <1>5, <2>1, <2>2 DEF Settled
<1>11. (pc[d] \in Walking => q.dir \in Number) /\ (pc[d] = "parent" => q.dir \in Number)
  BY <1>5 DEF Settled
<1> QED
  BY <1>2, <1>6, <1>7, <1>8, <1>9, <1>10, <1>11 DEF Settled, Below, OnlyIn, In

\* A list read holds what no other list holds and nobody will draw.
LEMMA ReadSettled ==
    ASSUME StoreTyped, Unlisted, NEW kind \in Kinds, NEW dir \in Number,
           NEW n \in ToSet(LRANGE(ListsOf(kind), dir))
    PROVE  Below(kind, n) /\ OnlyIn(kind, n, dir)
<1>1. ToSet(<<>>) = {}
  <2>1. <<>> \in Seq(Number)
    OBVIOUS
  <2> QED
    BY <2>1, SetOfList
<1>2. In(kind, n, dir)
  BY <1>1, NumberFacts DEF LRANGE, In
<1> QED
  BY <1>2 DEF Unlisted, OnlyIn

LEMMA RootSettled ==
    ASSUME GoneInv
    PROVE  Below("dir", ROOT_FOLDER_ID) /\ \A m : OnlyIn("dir", ROOT_FOLDER_ID, m)
<1>1. idCount \in Nat /\ idCount >= 4
  BY DEF GoneInv, Base, Counter
<1>2. \A d \in Client : pc[d] \in {"INCR", "LPUSH"} => reg[d].id >= 4 /\ reg[d].id \in Nat
  BY DEF GoneInv, Settled, Base, Typed, Making, Number
<1>3. Below("dir", ROOT_FOLDER_ID)
  BY <1>1, <1>2 DEF Below, ROOT_FOLDER_ID
<1>4. \A m : ~In("dir", ROOT_FOLDER_ID, m)
  BY DEF GoneInv, Unlisted, Kinds
<1> QED
  BY <1>3, <1>4 DEF OnlyIn

\* The parent a folder names, as the parser reads it, lists the folder alone.
LEMMA ParentSettled ==
    ASSUME GoneInv, NEW n \in Number, HasInfo(folderInfo, n), NEW dir \in Number,
           OnlyIn("dir", n, dir)
    PROVE  OnlyIn("dir", n, ToInt(HGETparent(folderInfo, n)))
<1> SUFFICES ASSUME NEW m, In("dir", n, m) PROVE m = ToInt(HGETparent(folderInfo, n))
  BY DEF OnlyIn
<1>1. n \in DOMAIN folderInfo /\ HGETparent(folderInfo, n) = Strtol(folderInfo[n].parent)
  BY NumberFacts DEF HasInfo, HGETparent
<1>2. m = dir /\ m = folderInfo[n].parent
  BY <1>1 DEF OnlyIn, GoneInv, Unlisted
<1> QED
  BY <1>1, <1>2, NumberFacts

\* Steps that only read: the invariant of the process after its step, told of
\* the store, which stays.
LEMMA SettledRead ==
    ASSUME GoneInv, NEW c \in Client, ReadStep(c)
    PROVE  Settled(c)'
<1>1. /\ Base /\ Typed /\ Unlisted /\ StoreTyped /\ Asking(c) /\ Settled(c) /\ Step(c)
      /\ reg[c] \in Registers /\ reg[c].ids \in Seq(Number)
  BY StepCases DEF GoneInv, Base, Typed, Registers, Step, ReadStep
<1>2. ASSUME NEW kind \in Kinds, NEW n, NEW dir, Below(kind, n), OnlyIn(kind, n, dir)
      PROVE  Below(kind, n)' /\ OnlyIn(kind, n, dir)'
  BY <1>1, <1>2, BelowStep, OnlyStep
<1> DEFINE Good(k, n, dir) == Below(k, n) /\ OnlyIn(k, n, dir)
<1>3. PICK l, q : l = pc'[c] /\ q = reg'[c]
  OBVIOUS
<1>4. l \notin MakingLabels
  <2>1. PICK label \in Labels \ MakingLabels, r \in Registers : Read(c, label, r)
    BY <1>1, ReadStepsRead
  <2> QED
    BY <1>1, <1>3, <2>1, ReadEffect
<1>5. q.type \in {"none", "file", "dir"}
  <2>1. PICK label \in Labels \ MakingLabels, r \in Registers : Read(c, label, r)
    BY <1>1, ReadStepsRead
  <2> QED
    BY <1>1, <1>3, <2>1, ReadEffect DEF Registers
<1> DEFINE After ==
      /\ l \in Walking => q.dir \in Number
      /\ l = "file" => \A n \in ToSet(q.ids) : Good("file", n, q.dir)
      /\ l = "folder" => \A n \in ToSet(q.ids) : Good("dir", n, q.dir)
      /\ l \in {"file", "found"} /\ q.type # "none" => q.id \in Number /\ Good(q.type, q.id, q.dir)
      /\ l = "parent" => q.id \in Number /\ Good("dir", q.id, q.dir) /\ q.dir \in Number
      /\ l \in {"parsed", "LREM"} /\ q.type # "none" =>
            q.id \in Number /\ Good(q.type, q.id, q.parentId)
<1>6. After => Settled(c)'
  <2> SUFFICES ASSUME After PROVE Settled(c)'
    OBVIOUS
  <2>1. \A kind \in Kinds : \A n, dir : Good(kind, n, dir) => Below(kind, n)' /\ OnlyIn(kind, n, dir)'
    BY <1>2
  <2>2. "file" \in Kinds /\ "dir" \in Kinds /\ (q.type # "none" => q.type \in Kinds)
    BY <1>5 DEF Kinds
  <2>3. /\ l = "file" => \A n \in ToSet(q.ids) : Below("file", n)' /\ OnlyIn("file", n, q.dir)'
        /\ l = "folder" => \A n \in ToSet(q.ids) : Below("dir", n)' /\ OnlyIn("dir", n, q.dir)'
        /\ l \in {"file", "found"} /\ q.type # "none" =>
              q.id \in Number /\ Below(q.type, q.id)' /\ OnlyIn(q.type, q.id, q.dir)'
        /\ l = "parent" => q.id \in Number /\ Below("dir", q.id)' /\ OnlyIn("dir", q.id, q.dir)'
        /\ l \in {"parsed", "LREM"} /\ q.type # "none" =>
              q.id \in Number /\ Below(q.type, q.id)' /\ OnlyIn(q.type, q.id, q.parentId)'
    <3> HIDE DEF Good
    <3> QED
      BY <2>1, <2>2
  <2>4. l \notin {"INCR", "LPUSH", "HMSET"}
    BY <1>4 DEF MakingLabels
  <2> QED
    BY <1>3, <2>3, <2>4 DEF Settled, Below, OnlyIn, In
<1>7. ASSUME NEW kind \in Kinds, reg[c].dir \in Number
      PROVE  \A n \in ToSet(LRANGE(ListsOf(kind), reg[c].dir)) : Good(kind, n, reg[c].dir)
  BY <1>1, <1>7, ReadSettled
<1>8. /\ reg[c].dir \in Number =>
           /\ \A n \in ToSet(LRANGE(files, reg[c].dir)) : Good("file", n, reg[c].dir)
           /\ \A n \in ToSet(LRANGE(folders, reg[c].dir)) : Good("dir", n, reg[c].dir)
  BY <1>7, Zenon DEF Kinds, ListsOf
<1>9. /\ reg[c].ids # <<>> =>
           /\ Head(reg[c].ids) \in ToSet(reg[c].ids)
           /\ \A n \in ToSet(Tail(reg[c].ids)) : n \in ToSet(reg[c].ids)
  BY <1>1, HeadAndTail
<1>10. /\ pc[c] \in Walking => reg[c].dir \in Number
       /\ pc[c] = "file" => \A n \in ToSet(reg[c].ids) : Good("file", n, reg[c].dir)
       /\ pc[c] = "folder" => \A n \in ToSet(reg[c].ids) : Good("dir", n, reg[c].dir)
       /\ pc[c] \in {"file", "found"} /\ reg[c].type # "none" =>
             reg[c].id \in Number /\ Good(reg[c].type, reg[c].id, reg[c].dir)
       /\ pc[c] = "parent" => /\ reg[c].id \in Number /\ Good("dir", reg[c].id, reg[c].dir)
                              /\ reg[c].dir \in Number
       /\ pc[c] \in {"parsed", "LREM"} /\ reg[c].type # "none" =>
             reg[c].id \in Number /\ Good(reg[c].type, reg[c].id, reg[c].parentId)
  BY <1>1 DEF Settled
<1>11. ROOT_FOLDER_ID \in Number
  BY CallsAssumption DEF Number, ROOT_FOLDER_ID
<1>12. pc[c] = "parent" /\ HasInfo(folderInfo, reg[c].id) =>
          Good("dir", reg[c].id, ToInt(HGETparent(folderInfo, reg[c].id)))
  BY <1>10, ParentSettled
<1> HIDE DEF Good
<1> SUFFICES After
  BY <1>6
<1> USE DEF Walking
<1>13. CASE Walk(c)
  BY <1>1, <1>3, <1>10, <1>13, WalkEffect DEF SameCall
<1>14. CASE FindFiles(c) \/ FindFolders(c)
  BY <1>1, <1>3, <1>8, <1>10, <1>14, FindFilesEffect DEF SameCall, Asking
<1>15. CASE FindFile(c)
  BY <1>1, <1>3, <1>9, <1>10, <1>15, FindFileEffect DEF SameCall
<1>16. CASE FindFolder(c)
  BY <1>1, <1>3, <1>9, <1>10, <1>16, FindFolderEffect DEF SameCall
<1>17. CASE FindFileEnd(c) \/ FindFolderEnd(c)
  BY <1>1, <1>3, <1>10, <1>17, FindEndEffect DEF Asking
<1>18. CASE Found(c)
  BY <1>1, <1>3, <1>10, <1>18, FoundEffect DEF SameCall
<1>19. CASE ParseParent(c) \/ Parsed(c) \/ StatParsed(c) \/ StatName(c)
  BY <1>1, <1>3, <1>10, <1>11, <1>12, <1>19, ParsedEffect DEF Asking
<1>20. CASE ListFolders(c) \/ ListFiles(c) \/ AskKind(c) \/ AskName(c) \/ ListEnd(c) \/ Return(c)
  BY <1>1, <1>3, <1>20, ListEffect, AskKindEffect, AskNameEffect, EndEffect
<1> QED
  BY <1>13, <1>14, <1>15, <1>16, <1>17, <1>18, <1>19, <1>20 DEF ReadStep

LEMMA SettledStep ==
    ASSUME OneMaker, GoneInv, NEW c \in Client, Begin(c) \/ Step(c)
    PROVE  Settled(c)'
<1>1. Base /\ Typed /\ Counter /\ Asking(c) /\ Settled(c) /\ Making(c)
  BY DEF GoneInv, Base, Typed
<1>2. idCount \in Nat /\ idCount' = (IF IncrNewId(c) THEN idCount + 1 ELSE idCount)
  BY <1>1, CountUp
<1> USE DEF Walking
<1>3. CASE Begin(c)
  <2>1. PICK call \in Calls[c] : pc'[c] = FirstStep(call)[1] /\ reg'[c] = FirstStep(call)[2]
    BY <1>1, <1>3, BeginEffect
  <2>2. /\ pc'[c] \in {"GET", "HSET", "listfolders", "walk", "parsed"}
        /\ pc'[c] = "walk" => reg'[c].dir = ROOT_FOLDER_ID
        /\ pc'[c] = "parsed" => /\ reg'[c].type = "dir" /\ reg'[c].id = ROOT_FOLDER_ID
                                /\ reg'[c].parentId = ROOT_PARENT_ID
    BY <2>1, FirstStepIs
  <2>3. ROOT_FOLDER_ID \in Number
    BY CallsAssumption DEF Number, ROOT_FOLDER_ID
  <2>4. Below("dir", ROOT_FOLDER_ID)' /\ OnlyIn("dir", ROOT_FOLDER_ID, ROOT_PARENT_ID)'
    BY <1>1, RootSettled, BelowStep, OnlyStep DEF Kinds
  <2> QED
    BY <2>2, <2>3, <2>4 DEF Settled, Below, OnlyIn, In
<1>4. CASE ReadStep(c)
  BY <1>4, SettledRead
<1>5. CASE GetNewId(c)
  <2>1. pc'[c] = "INCR" /\ reg'[c].id = idCount
    BY <1>1, <1>5, MakeEffect
  <2>2. idCount >= 4
    BY <1>1 DEF Counter
  <2>3. idCount' = idCount
    BY <1>5, ReadKeepsStore
  <2> QED
    BY <1>2, <2>1, <2>2, <2>3 DEF Settled
<1>6. CASE IncrNewId(c) \/ SetInfo(c) \/ vfs_setFileName(c) \/ RemoveFromList(c)
  <2>1. CASE IncrNewId(c)
    <3>1. pc[c] = "INCR" /\ pc'[c] = "LPUSH" /\ reg' = reg /\ reg[c].id \in Nat
      BY <1>1, <2>1, WriteEffect DEF IncrNewId, Making, Number
    <3> QED
      BY <1>1, <1>2, <2>1, <3>1 DEF Settled
  <2>2. CASE SetInfo(c) \/ vfs_setFileName(c) \/ RemoveFromList(c)
    <3>1. pc'[c] = "done"
      BY <1>1, <2>2, WriteEffect DEF SetInfo, vfs_setFileName, RemoveFromList
    <3> QED
      BY <3>1 DEF Settled
  <2> QED
    BY <1>6, <2>1, <2>2
<1>7. CASE AddToList(c)
  <2>1. pc[c] = "LPUSH" /\ pc'[c] = "HMSET" /\ reg' = reg /\ idCount' = idCount
    BY <1>1, <1>7, WriteEffect DEF AddToList
  <2>2. PICK kind, n, dir : kind = reg[c].kind /\ n = reg[c].id /\ dir = reg[c].parentId
    OBVIOUS
  <2>3. Below(kind, n)' /\ OnlyIn(kind, n, dir)'
    BY <1>7, <2>2, ListedBelow
  <2>4. reg'[c].kind = kind /\ reg'[c].id = n /\ reg'[c].parentId = dir /\ n < idCount'
    BY <1>1, <2>1, <2>2 DEF Settled
  <2> QED
    BY <2>1, <2>3, <2>4 DEF Settled, Below, OnlyIn, In
<1> QED
  BY <1>3, <1>4, <1>5, <1>6, <1>7, StepCases

LEMMA GoneStep ==
    ASSUME OneMaker, GoneInv, Next
    PROVE  GoneInv'
<1>1. PICK c \in Client : Begin(c) \/ Step(c)
  BY DEF Next
<1>2. Base /\ Typed /\ \A d \in Client : Asking(d) /\ Asked(d) /\ Settled(d) /\ Making(d)
  BY DEF GoneInv, Base, Typed
<1>3. Base' /\ (\A d \in Client : Asking(d)') /\ (\A d \in Client : Asked(d)')
  BY <1>1, <1>2, BaseStep, AskingKept, AskedStep
<1>4. Unlisted'
  BY <1>1, UnlistedStep
<1>5. \A d \in Client : Settled(d)'
  BY <1>1, <1>2, SettledStep, SettledStay
<1> QED
  BY <1>3, <1>4, <1>5 DEF GoneInv

LEMMA GoneInit == Init => GoneInv
<1> SUFFICES ASSUME Init PROVE GoneInv
  OBVIOUS
<1>1. Base /\ \A c \in Client : Asking(c)
  BY BaseInit
<1>2. /\ idCount = 4 /\ DOMAIN folderInfo = {0, 2}
      /\ folderInfo[0] = [parent |-> 0, name |-> RootName]
      /\ folderInfo[2] = [parent |-> 0, name |-> <<"b">>]
      /\ DOMAIN folders = {0} /\ folders[0] = <<2>>
      /\ DOMAIN files = {0, 2} /\ files[0] = <<1>> /\ files[2] = <<3>>
  BY FirstStore DEF Init
<1>3. (\A c \in Client : pc[c] = "idle") /\ gone = {}
  BY DEF Init
<1>4. ToSet(folders[0]) = {2} /\ ToSet(files[0]) = {1} /\ ToSet(files[2]) = {3}
  BY <1>2, ListOfOne
<1>5. /\ \A n, m : In("dir", n, m) <=> n = 2 /\ m = 0
      /\ \A n, m : In("file", n, m) <=> (n = 1 /\ m = 0) \/ (n = 3 /\ m = 2)
  BY <1>2, <1>4 DEF In, ListsOf
<1>6. \A kind : \A n \in 0 .. 3 : Below(kind, n)
  BY <1>2, <1>3 DEF Below
<1>7. folderInfo[0].parent = 0 /\ folderInfo[2].parent = 0
  BY <1>2
<1>8. OnlyIn("dir", 0, 0) /\ OnlyIn("dir", 2, 0)
  BY <1>5 DEF OnlyIn
<1>9. Unlisted
  <2>1. \A kind \in Kinds : \A n, m : In(kind, n, m) => n # ROOT_FOLDER_ID /\ Below(kind, n)
    BY <1>5, <1>6 DEF Kinds, ROOT_FOLDER_ID
  <2>2. \A kind \in Kinds : \A n, m1, m2 : In(kind, n, m1) /\ In(kind, n, m2) => m1 = m2
    BY <1>5 DEF Kinds
  <2> QED
    BY <1>2, <1>3, <1>6, <1>7, <1>8, <2>1, <2>2 DEF Unlisted
<1>10. \A c \in Client : Asked(c) /\ Settled(c)
  BY <1>3 DEF Asked, Settled, Walking
<1> QED
  BY <1>1, <1>9, <1>10 DEF GoneInv

LEMMA GoneStutter ==
    ASSUME GoneInv, UNCHANGED vars
    PROVE  GoneInv'
<1>1. /\ UNCHANGED <<idCount, created, folderInfo, fileInfo, folders, files, pc, reg, made>>
      /\ UNCHANGED <<gone>>
  BY DEF vars, dbVars, history
<1>2. Base'
  BY <1>1 DEF GoneInv, Base, Typed, StoreTyped, DbTypeOK, Making, Counter, Drawing
<1>3. Unlisted'
  BY <1>1 DEF GoneInv, Unlisted, Below, OnlyIn, In, ListsOf
<1>4. \A c \in Client : Asking(c)' /\ Asked(c)' /\ Settled(c)'
  BY <1>1 DEF GoneInv, Asking, Asked, Settled, Below, OnlyIn, In, ListsOf
<1> QED
  BY <1>2, <1>3, <1>4 DEF GoneInv

\* An entry deleted is in no list, then and later, where one process makes
\* the entries of a kind: a number is on one list at most, the parent a
\* folder names is the one that lists it, and numbers only go up.
THEOREM DeletedStaysDeleted ==
    ASSUME OneMaker
    PROVE  Spec => []GoneForGood
<1>1. GoneInv => GoneForGood
  <2> SUFFICES ASSUME GoneInv, NEW g \in gone,
                      NEW n \in DOMAIN (IF g[1] = "dir" THEN folders ELSE files)
               PROVE  g[2] \notin ToSet((IF g[1] = "dir" THEN folders ELSE files)[n])
    BY DEF GoneForGood
  <2> QED
    BY DEF GoneInv, Unlisted, In, ListsOf
<1>2. GoneInv /\ [Next]_vars => GoneInv'
  BY GoneStep, GoneStutter
<1> QED
  BY <1>1, <1>2, GoneInit, PTL DEF Spec
=============================================================================
