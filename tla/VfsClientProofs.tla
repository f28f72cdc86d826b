-------------------------- MODULE VfsClientProofs --------------------------
(***************************************************************************)
(* Proofs about processes that share a file system already built, for any  *)
(* set of processes, of commands, and any widths of long and int, and, at  *)
(* the end, about one process alone on a redis that starts empty.          *)
(***************************************************************************)
EXTENDS VfsClient, FiniteSetTheorems, SequenceTheorems, TLAPS

-----------------------------------------------------------------------------
(* Numbers.                                                                *)

\* A number printed with %lu is a natural number; a negative one, printed,
\* is larger than any long.
LEMMA LuType ==
    ASSUME NEW n \in Long
    PROVE  /\ Lu(n) \in Nat
           /\ n >= 0 => Lu(n) = n
           /\ n < 0 => Lu(n) > LONG_MAX
BY WidthAssumption DEF Lu, Long, ULONG_MAX

\* strtol never reads a number as a larger one.
LEMMA StrtolType ==
    ASSUME NEW n \in Nat
    PROVE  /\ Strtol(n) \in Nat
           /\ Strtol(n) <= n
           /\ n > LONG_MAX => Strtol(n) = LONG_MAX
BY WidthAssumption DEF Strtol

\* A long read as an int is one of the numbers the code keeps, not above
\* the long, and LONG_MAX is read as -1.
LEMMA ToIntType ==
    ASSUME NEW n \in Long
    PROVE  /\ ToInt(n) \in Long
           /\ ToInt(n) <= n
           /\ ToInt(LONG_MAX) = NoId
<1> USE WidthAssumption DEF UINT_SIZE
<1>1. UINT_SIZE \in Nat /\ UINT_SIZE > 0
  OBVIOUS
<1>2. \A m \in Nat : m % UINT_SIZE \in 0 .. UINT_SIZE - 1
  BY <1>1
<1>3. ToInt(LONG_MAX) = NoId
  BY <1>1 DEF ToInt, NoId
<1>4. CASE n \in -INT_MAX - 1 .. INT_MAX
  BY <1>3, <1>4 DEF ToInt, Long
<1>5. CASE n \notin -INT_MAX - 1 .. INT_MAX
  <2>1. n \in Nat /\ n > INT_MAX
    BY <1>5 DEF Long
  <2> DEFINE low == n % UINT_SIZE
  <2>2. low \in 0 .. UINT_SIZE - 1
    BY <1>2, <2>1
  <2>3. ToInt(n) = IF low > INT_MAX THEN low - UINT_SIZE ELSE low
    BY <1>5 DEF ToInt
  <2> HIDE DEF low
  <2> QED
    BY <1>3, <2>1, <2>2, <2>3 DEF Long
<1> QED
  BY <1>4, <1>5

LEMMA ConstantsAreLong == NoId \in Long /\ ROOT_FOLDER_ID \in Long /\ ROOT_PARENT_ID \in Long
BY WidthAssumption DEF NoId, ROOT_FOLDER_ID, ROOT_PARENT_ID, Long

\* A list of ids as it is read is a list of ids.
LEMMA IdsType ==
    ASSUME NEW list \in Seq(Nat)
    PROVE  /\ Ids(list) \in Seq(Nat)
           /\ Len(Ids(list)) = Len(list)
           /\ \A i \in DOMAIN Ids(list) : i \in DOMAIN list /\ Ids(list)[i] <= list[i]
<1>1. \A i \in 1 .. Len(list) : list[i] \in Nat
  OBVIOUS
<1>2. \A i \in 1 .. Len(list) : Strtol(list[i]) \in Nat /\ Strtol(list[i]) <= list[i]
  BY <1>1, StrtolType
<1>3. Ids(list) \in [1 .. Len(list) -> Nat]
  BY <1>2 DEF Ids
<1>4. Ids(list) \in Seq(Nat) /\ Len(Ids(list)) = Len(list)
  BY <1>3, LenProperties, IsASeq
<1>5. DOMAIN list = 1 .. Len(list) /\ DOMAIN Ids(list) = 1 .. Len(list)
  BY <1>3, LenProperties
<1> QED
  BY <1>2, <1>4, <1>5 DEF Ids

-----------------------------------------------------------------------------
(* Strings.                                                                *)

LEMMA FromType ==
    ASSUME NEW str \in Seq(Char), NEW off \in Nat
    PROVE  From(str, off) \in Seq(Char)
BY DEF From

LEMMA NextNameType ==
    ASSUME NEW rest, NEW remaining \in Int
    PROVE  getLengthOfNextName(rest, remaining) \in Nat
<1> DEFINE K == {k \in 1 .. remaining : \A j \in 1 .. k : rest[j] # "/"}
<1>1. IsFiniteSet(1 .. remaining)
  BY FS_Interval
<1>2. IsFiniteSet(K)
  BY <1>1, FS_Subset
<1> QED
  BY <1>2, FS_CardinalityType DEF getLengthOfNextName

LEMMA NameOffsetType ==
    ASSUME NEW path, NEW n \in Nat
    PROVE  vfs_seperatePathAndName(path, n).nameOffset \in Nat
<1> DEFINE K == {k \in 1 .. n : \A j \in n - k + 1 .. n : path[j] # "/"}
<1>1. IsFiniteSet(1 .. n) /\ Cardinality(1 .. n) = n
  BY FS_Interval
<1>2. Cardinality(K) \in Nat /\ Cardinality(K) <= n
  BY <1>1, FS_Subset, FS_CardinalityType
<1> HIDE DEF K
<1>3. n - Cardinality(K) \in Nat
  BY <1>2
<1> QED
  BY <1>3 DEF vfs_seperatePathAndName, K

-----------------------------------------------------------------------------
(* The inductive invariant.                                                *)

BuildLabels == {"FLUSHALL", "mkroot", "SETcount", "SETcreated"}
RestLabels  == {"down", "crashed", "idle", "EXISTS"}

\* The store: built, with the counter above every number in it.
DbInv ==
    /\ DbTypeOK
    /\ created = TRUE
    /\ idCount \in Nat \ {0}
    /\ IdsBelowCounter
    /\ ParentBelowChild

\* Every number a process holds was handed out before, or is negative.  The
\* exception is LONG_MAX, the parent of a folder whose parent was printed
\* from a negative number, which only a climb may reach.  A number being
\* drawn is above the number of the folder that will be its parent: the
\* parent was found before the counter was read.
GoodRegisters(label, r) ==
    /\ r.id < idCount
    /\ r.parentId < idCount
    /\ r.cwdId < idCount
    /\ \A i \in DOMAIN r.ids : r.ids[i] < idCount
    /\ r.dir < idCount \/ (label = "name" /\ r.dir = LONG_MAX)
    /\ label = "INCR" => r.newId \in 1 .. idCount /\ r.parentId < r.newId
    /\ label \in {"LPUSH", "HMSET"} =>
          r.newId \in 1 .. idCount - 1 /\ r.parentId < r.newId
    /\ label \notin RestLabels => r.arg # <<>>

ClientInv ==
    /\ pc \in [Client -> Labels \ BuildLabels]
    /\ cwd \in [Client -> Seq(Char) \ {<<>>}]
    /\ todo \in [Client -> Seq(Routines)]
    /\ reg \in [Client -> Registers]
    /\ \A c \in Client : GoodRegisters(pc[c], reg[c])

AuxInv ==
    /\ issued \in Nat
    /\ kills \in Nat
    /\ lost \subseteq ({"folder", "file"} \X Nat)

IndInv == DbInv /\ ClientInv /\ AuxInv

LEMMA IndInvTypeOK == IndInv => TypeOK
BY DEF IndInv, DbInv, ClientInv, AuxInv, TypeOK

LEMMA BlankIsGood ==
    ASSUME IndInv, NEW label \in RestLabels
    PROVE  Blank \in Registers /\ GoodRegisters(label, Blank)
<1>1. Blank \in Registers
  BY ConstantsAreLong DEF Blank, Registers
<1> QED
  BY <1>1 DEF IndInv, DbInv, Blank, GoodRegisters, RestLabels, NoId

-----------------------------------------------------------------------------
(* Steps of one process that leave the store alone.                        *)

\* One process takes another label and other registers, the counter stays.
LEMMA ClientStep ==
    ASSUME IndInv, NEW c \in Client,
           NEW label \in Labels \ BuildLabels, NEW r \in Registers,
           GoodRegisters(label, r),
           pc' = [pc EXCEPT ![c] = label],
           reg' = [reg EXCEPT ![c] = r],
           todo' \in [Client -> Seq(Routines)],
           cwd' \in [Client -> Seq(Char) \ {<<>>}],
           idCount' = idCount
    PROVE  ClientInv'
<1>1. pc' \in [Client -> Labels \ BuildLabels] /\ reg' \in [Client -> Registers]
  BY DEF IndInv, ClientInv
<1>2. ASSUME NEW d \in Client PROVE GoodRegisters(pc[d], reg[d])'
  <2>1. CASE d = c
    <3>1. pc'[d] = label /\ reg'[d] = r
      BY <2>1 DEF IndInv, ClientInv
    <3> QED
      BY <3>1 DEF GoodRegisters
  <2>2. CASE d # c
    <3>1. pc'[d] = pc[d] /\ reg'[d] = reg[d]
      BY <2>2 DEF IndInv, ClientInv
    <3>2. GoodRegisters(pc[d], reg[d])
      BY DEF IndInv, ClientInv
    <3> QED
      BY <3>1, <3>2 DEF GoodRegisters
  <2> QED
    BY <2>1, <2>2
<1> QED
  BY <1>1, <1>2 DEF ClientInv

LEMMA ProcessStep ==
    ASSUME IndInv, NEW c \in Client,
           NEW label \in Labels \ BuildLabels, NEW r \in Registers,
           GoodRegisters(label, r),
           pc' = [pc EXCEPT ![c] = label],
           reg' = [reg EXCEPT ![c] = r],
           todo' \in [Client -> Seq(Routines)],
           cwd' \in [Client -> Seq(Char) \ {<<>>}],
           UNCHANGED dbVars, AuxInv'
    PROVE  IndInv'
<1>1. DbInv'
  BY DEF IndInv, DbInv, dbVars, DbTypeOK, IdsBelowCounter, ParentBelowChild
<1>2. ClientInv'
  BY ClientStep DEF dbVars
<1> QED
  BY <1>1, <1>2 DEF IndInv

LEMMA LocalStep ==
    ASSUME IndInv, NEW c \in Client,
           NEW label \in Labels \ BuildLabels, NEW r \in Registers,
           GoodRegisters(label, r), Local(c, label, r)
    PROVE  IndInv'
<1>1. AuxInv'
  BY DEF IndInv, AuxInv, Local, auxVars
<1> QED
  BY <1>1, ProcessStep DEF Local, Goto, Set, IndInv, ClientInv

\* A step back to the prompt.
LEMMA PromptClients ==
    ASSUME IndInv, NEW c \in Client, Prompt(c),
           cwd' \in [Client -> Seq(Char) \ {<<>>}], idCount' = idCount
    PROVE  ClientInv'
<1>1. "idle" \in Labels \ BuildLabels /\ "idle" \in RestLabels
  BY DEF Labels, BuildLabels, RestLabels
<1>2. todo' \in [Client -> Seq(Routines)]
  BY DEF Prompt, IndInv, ClientInv
<1> QED
  BY <1>1, <1>2, BlankIsGood, ClientStep DEF Prompt, Goto, Set

\* A routine returns, to the next one or to the prompt.
LEMMA ReturnClients ==
    ASSUME IndInv, NEW c \in Client, NEW r \in Registers,
           GoodRegisters("call", r), Return(c, r),
           cwd' \in [Client -> Seq(Char) \ {<<>>}], idCount' = idCount
    PROVE  ClientInv'
<1>1. CASE Len(todo[c]) <= 1
  <2>1. Prompt(c)
    BY <1>1 DEF Return
  <2> QED
    BY <2>1, PromptClients
<1>2. CASE ~(Len(todo[c]) <= 1)
  <2>1. "call" \in Labels \ BuildLabels
    BY DEF Labels, BuildLabels
  <2>2. todo[c] \in Seq(Routines)
    BY DEF IndInv, ClientInv
  <2>3. Tail(todo[c]) \in Seq(Routines)
    BY <1>2, <2>2
  <2>4. todo' \in [Client -> Seq(Routines)]
    BY <1>2, <2>3 DEF Return, IndInv, ClientInv
  <2> QED
    BY <1>2, <2>1, <2>4, ClientStep DEF Return, Goto, Set
<1> QED
  BY <1>1, <1>2

\* The store and the counts of the model stay as they are.
LEMMA SharedUnchanged ==
    ASSUME IndInv, UNCHANGED <<dbVars, auxVars>>
    PROVE  DbInv' /\ AuxInv' /\ idCount' = idCount
BY DEF IndInv, DbInv, AuxInv, dbVars, auxVars, DbTypeOK, IdsBelowCounter, ParentBelowChild

LEMMA PromptStep ==
    ASSUME IndInv, NEW c \in Client, Prompt(c),
           cwd' \in [Client -> Seq(Char) \ {<<>>}],
           UNCHANGED <<dbVars, auxVars>>
    PROVE  IndInv'
BY SharedUnchanged, PromptClients DEF IndInv

LEMMA ReturnStep ==
    ASSUME IndInv, NEW c \in Client, NEW r \in Registers,
           GoodRegisters("call", r), Return(c, r),
           cwd' \in [Client -> Seq(Char) \ {<<>>}],
           UNCHANGED <<dbVars, auxVars>>
    PROVE  IndInv'
BY SharedUnchanged, ReturnClients DEF IndInv

LEMMA CrashStep ==
    ASSUME IndInv, NEW c \in Client, Crash(c)
    PROVE  IndInv'
<1>1. AuxInv'
  BY DEF IndInv, AuxInv, auxVars, Crash
<1>2. "crashed" \in Labels \ BuildLabels /\ "crashed" \in RestLabels
  BY DEF Labels, BuildLabels, RestLabels
<1>3. todo' \in [Client -> Seq(Routines)]
  BY DEF Crash, IndInv, ClientInv
<1>4. cwd' \in [Client -> Seq(Char) \ {<<>>}]
  BY DEF Crash, IndInv, ClientInv
<1> QED
  BY <1>1, <1>2, <1>3, <1>4, BlankIsGood, ProcessStep DEF Crash, Goto, Set

-----------------------------------------------------------------------------
(* What a step may read.                                                   *)

LEMMA RegisterFacts ==
    ASSUME IndInv, NEW c \in Client
    PROVE  /\ reg[c] \in Registers
           /\ pc[c] \in Labels \ BuildLabels
           /\ GoodRegisters(pc[c], reg[c])
           /\ cwd[c] \in Seq(Char) \ {<<>>}
           /\ todo[c] \in Seq(Routines)
           /\ idCount \in Nat \ {0}
BY DEF IndInv, ClientInv, DbInv

\* The parent of a folder is an older folder, or is read as LONG_MAX.
LEMMA ParentFacts ==
    ASSUME IndInv, NEW n \in Long, HasInfo(folderInfo, n)
    PROVE  /\ HGETparent(folderInfo, n) \in Nat
           /\ HGETparent(folderInfo, n) < idCount \/ HGETparent(folderInfo, n) = LONG_MAX
           /\ n < idCount
<1> DEFINE m == Lu(n)
           p == folderInfo[m].parent
<1>1. m \in Nat /\ m \in DOMAIN folderInfo /\ m < idCount
  BY LuType DEF HasInfo, IndInv, DbInv, IdsBelowCounter
<1>2. p \in Nat
  BY <1>1 DEF IndInv, DbInv, DbTypeOK
<1>3. \/ p < idCount
      \/ p > LONG_MAX
  <2>1. CASE m = ROOT_FOLDER_ID
    BY <1>1, <2>1 DEF IndInv, DbInv, ParentBelowChild, ROOT_FOLDER_ID
  <2>2. CASE m # ROOT_FOLDER_ID
    <3>1. p < m \/ p > LONG_MAX
      BY <1>1, <2>2 DEF IndInv, DbInv, ParentBelowChild
    <3>2. idCount \in Nat
      BY DEF IndInv, DbInv
    <3> HIDE DEF m, p
    <3> QED
      BY <1>1, <1>2, <3>1, <3>2
  <2> QED
    BY <2>1, <2>2
<1>4. HGETparent(folderInfo, n) = Strtol(p)
  BY DEF HGETparent
<1>5. idCount \in Nat
  BY DEF IndInv, DbInv
<1>6. Strtol(p) \in Nat /\ Strtol(p) <= p /\ (p > LONG_MAX => Strtol(p) = LONG_MAX)
  BY <1>2, StrtolType
<1>7. n < idCount
  <2>1. CASE n >= 0
    BY <1>1, <2>1, LuType
  <2>2. CASE ~(n >= 0)
    BY <1>5, <2>2 DEF Long
  <2> QED
    BY <2>1, <2>2
<1> HIDE DEF m, p
<1> QED
  BY <1>2, <1>3, <1>4, <1>5, <1>6, <1>7

\* A folder number read as an int is an older folder's, or negative.
LEMMA FolderNumberAsInt ==
    ASSUME IndInv, NEW n \in Long, n < idCount \/ n = LONG_MAX
    PROVE  ToInt(n) \in Long /\ ToInt(n) < idCount
<1>1. idCount \in Nat \ {0}
  BY DEF IndInv, DbInv
<1>2. ToInt(n) \in Long /\ ToInt(n) <= n /\ ToInt(LONG_MAX) = -1
  BY ToIntType DEF NoId
<1> QED
  BY <1>1, <1>2 DEF Long

\* A list reply holds numbers handed out before.
LEMMA ListFacts ==
    ASSUME IndInv, NEW n \in Long, NEW lists \in {folders, files}
    PROVE  /\ Ids(LRANGE(lists, n)) \in Seq(Nat)
           /\ \A i \in DOMAIN Ids(LRANGE(lists, n)) : Ids(LRANGE(lists, n))[i] < idCount
<1> DEFINE list == LRANGE(lists, n)
<1>1. list \in Seq(Nat)
  BY LuType DEF IndInv, DbInv, DbTypeOK, LRANGE
<1>2. \A i \in DOMAIN list : list[i] < idCount
  BY LuType DEF IndInv, DbInv, IdsBelowCounter, LRANGE
<1>3. \A i \in DOMAIN list : list[i] \in Nat
  BY <1>1
<1>4. idCount \in Nat
  BY DEF IndInv, DbInv
<1> HIDE DEF list
<1>5. /\ Ids(list) \in Seq(Nat)
      /\ \A i \in DOMAIN Ids(list) : i \in DOMAIN list /\ Ids(list)[i] <= list[i]
  BY <1>1, IdsType
<1>6. \A i \in DOMAIN Ids(list) : Ids(list)[i] \in Nat
  BY <1>5
<1>7. \A i \in DOMAIN Ids(list) : Ids(list)[i] < idCount
  BY <1>2, <1>3, <1>4, <1>5, <1>6
<1> QED
  BY <1>5, <1>7 DEF list

LEMMA NameFacts ==
    ASSUME IndInv, NEW n \in Long, HasInfo(folderInfo, n)
    PROVE  HGETname(folderInfo, n) \in Seq(Char)
BY DEF HasInfo, HGETname, IndInv, DbInv, DbTypeOK

LEMMA NameLengthType ==
    ASSUME IndInv, NEW c \in Client
    PROVE  NameLength(c) \in Nat
<1>1. reg[c].arg \in Seq(Char) /\ reg[c].pos \in Nat /\ cwd[c] \in Seq(Char)
  BY RegisterFacts DEF Registers
<1>2. WithSlash(reg[c].arg) \in Seq(Char)
  <2>1. "/" \in Char
    BY CharAssumption
  <2>2. Append(reg[c].arg, "/") \in Seq(Char)
    BY <1>1, <2>1, AppendProperties
  <2> QED
    BY <1>1, <2>2 DEF WithSlash
<1>3. WalkedPath(c) \in Seq(Char)
  BY <1>1, <1>2 DEF WalkedPath
<1>4. Len(WalkedPath(c)) \in Nat
  BY <1>3
<1>5. PathLength(c) \in Int
  BY <1>4 DEF PathLength, FixedPathLength
<1>6. PathLength(c) - reg[c].pos \in Int
  BY <1>1, <1>5
<1> QED
  BY <1>6, NextNameType DEF NameLength

LEMMA NewNameType ==
    ASSUME IndInv, NEW c \in Client, reg[c].arg # <<>>
    PROVE  NewName(c) \in Seq(Char)
<1>1. reg[c].arg \in Seq(Char)
  BY RegisterFacts DEF Registers
<1>2. FixedPathLength(reg[c].arg) \in Nat
  BY <1>1 DEF FixedPathLength
<1> QED
  BY <1>1, <1>2, NameOffsetType, FromType DEF NewName

-----------------------------------------------------------------------------
(* vfs_findObjectInDir answers.                                            *)

Searching == {"files", "file", "dotdot", "folders", "folder"}

LEMMA FoundNothingStep ==
    ASSUME IndInv, NEW c \in Client, pc[c] \in Searching, FoundNothing(c)
    PROVE  IndInv'
<1>1. CASE AtLastName(c)
  <2> DEFINE r == [reg[c] EXCEPT !.parentId = reg[c].dir]
  <2>1. r \in Registers
    BY RegisterFacts DEF Registers
  <2>2. GoodRegisters("call", r)
    BY RegisterFacts DEF Registers, GoodRegisters, Searching, RestLabels
  <2>3. Return(c, r) /\ UNCHANGED <<dbVars, cwd, auxVars>>
    BY <1>1 DEF FoundNothing, ParsedNothing
  <2>4. cwd' \in [Client -> Seq(Char) \ {<<>>}]
    BY <2>3 DEF IndInv, ClientInv
  <2> HIDE DEF r
  <2> QED
    BY <2>1, <2>2, <2>3, <2>4, ReturnStep
<1>2. CASE ~AtLastName(c)
  <2> DEFINE r == [reg[c] EXCEPT !.dir = NoId]
  <2>1. r \in Registers
    BY RegisterFacts, ConstantsAreLong DEF Registers
  <2>2. GoodRegisters("end", r)
    BY RegisterFacts DEF Registers, GoodRegisters, Searching, RestLabels, NoId
  <2>3. Local(c, "end", r)
    BY <1>2 DEF FoundNothing, WalkFails
  <2>4. "end" \in Labels \ BuildLabels
    BY DEF Labels, BuildLabels
  <2> HIDE DEF r
  <2> QED
    BY <2>1, <2>2, <2>3, <2>4, LocalStep
<1> QED
  BY <1>1, <1>2

LEMMA FoundFileStep ==
    ASSUME IndInv, NEW c \in Client, pc[c] \in Searching, FoundFile(c, reg[c].id)
    PROVE  IndInv'
<1>1. CASE AtLastName(c) /\ reg[c].op = "stat"
  <2> DEFINE r == [reg[c] EXCEPT !.kind = "file"]
  <2>1. r \in Registers
    BY RegisterFacts DEF Registers
  <2>2. GoodRegisters("call", r)
    BY RegisterFacts DEF Registers, GoodRegisters, Searching, RestLabels
  <2>3. /\ Goto(c, "call") /\ Set(c, r)
        /\ todo' = [todo EXCEPT ![c] = <<"statname">>]
        /\ UNCHANGED <<dbVars, cwd, auxVars>>
    BY <1>1, RegisterFacts DEF FoundFile, ParsedFile, Registers
  <2>4. "call" \in Labels \ BuildLabels
    BY DEF Labels, BuildLabels
  <2>5. /\ todo' \in [Client -> Seq(Routines)]
        /\ cwd' \in [Client -> Seq(Char) \ {<<>>}]
        /\ AuxInv'
    BY <2>3 DEF IndInv, ClientInv, AuxInv, auxVars, Routines
  <2> HIDE DEF r
  <2> QED
    BY <2>1, <2>2, <2>3, <2>4, <2>5, ProcessStep DEF Goto, Set
<1>2. CASE AtLastName(c) /\ reg[c].op # "stat"
  <2> DEFINE r == [reg[c] EXCEPT !.kind = "file", !.parentId = reg[c].dir]
  <2>1. r \in Registers
    BY RegisterFacts DEF Registers
  <2>2. GoodRegisters("call", r)
    BY RegisterFacts DEF Registers, GoodRegisters, Searching, RestLabels
  <2>3. Return(c, r) /\ UNCHANGED <<dbVars, cwd, auxVars>>
    BY <1>2, RegisterFacts DEF FoundFile, ParsedFile, Registers
  <2>4. cwd' \in [Client -> Seq(Char) \ {<<>>}]
    BY <2>3 DEF IndInv, ClientInv
  <2> HIDE DEF r
  <2> QED
    BY <2>1, <2>2, <2>3, <2>4, ReturnStep
<1>3. CASE ~AtLastName(c)
  <2>1. FoundNothing(c)
    BY <1>3 DEF FoundFile, FoundNothing
  <2> QED
    BY <2>1, FoundNothingStep
<1> QED
  BY <1>1, <1>2, <1>3

LEMMA FoundDirStep ==
    ASSUME IndInv, NEW c \in Client, pc[c] \in Searching,
           NEW id \in Long, id < idCount \/ id = LONG_MAX, FoundDir(c, id)
    PROVE  IndInv'
<1> DEFINE n == ToInt(id)
<1>1. n \in Long /\ n < idCount
  BY FolderNumberAsInt
<1>2. CASE n = NoId
  <2>1. FoundNothing(c)
    BY <1>2 DEF FoundDir
  <2> QED
    BY <2>1, FoundNothingStep
<1>3. CASE n # NoId /\ AtLastName(c)
  <2> DEFINE r == [reg[c] EXCEPT !.id = n, !.kind = "dir"]
  <2>1. Local(c, "parent", r)
    BY <1>3 DEF FoundDir, ParsedDir
  <2> HIDE DEF n
  <2>2. r \in Registers
    BY <1>1, RegisterFacts DEF Registers
  <2>3. GoodRegisters("parent", r)
    BY <1>1, RegisterFacts DEF Registers, GoodRegisters, Searching, RestLabels
  <2>4. "parent" \in Labels \ BuildLabels
    BY DEF Labels, BuildLabels
  <2> HIDE DEF r
  <2> QED
    BY <2>1, <2>2, <2>3, <2>4, LocalStep
<1>4. CASE n # NoId /\ ~AtLastName(c)
  <2> DEFINE r == [reg[c] EXCEPT !.dir = n, !.pos = @ + NameLength(c) + 1]
  <2>1. Local(c, "walk", r)
    BY <1>4 DEF FoundDir, WalkInto
  <2> HIDE DEF n
  <2>2. r \in Registers
    <3>1. reg[c] \in Registers /\ reg[c].pos \in Nat
      BY RegisterFacts DEF Registers
    <3>2. reg[c].pos + NameLength(c) + 1 \in Nat
      BY <3>1, NameLengthType
    <3> QED
      BY <1>1, <3>1, <3>2 DEF Registers
  <2>3. GoodRegisters("walk", r)
    BY <1>1, RegisterFacts DEF Registers, GoodRegisters, Searching, RestLabels
  <2>4. "walk" \in Labels \ BuildLabels
    BY DEF Labels, BuildLabels
  <2> HIDE DEF r
  <2> QED
    BY <2>1, <2>2, <2>3, <2>4, LocalStep
<1> QED
  BY <1>2, <1>3, <1>4

\* The registers a walk starts with.
LEMMA WalkRegisters ==
    ASSUME NEW r \in Registers, NEW pos \in Nat, NEW dir \in Long
    PROVE  [r EXCEPT !.pos = pos, !.dir = dir,
                     !.id = NoId, !.kind = "none", !.parentId = NoId] \in Registers
<1> DEFINE q == [r EXCEPT !.pos = pos, !.dir = dir]
<1>1. q \in Registers
  BY DEF Registers
<1>2. \A s \in Registers :
          [s EXCEPT !.id = NoId, !.kind = "none", !.parentId = NoId] \in Registers
  BY ConstantsAreLong DEF Registers
<1>3. [q EXCEPT !.id = NoId, !.kind = "none", !.parentId = NoId] \in Registers
  <2> HIDE DEF q
  <2> QED
    BY <1>1, <1>2
<1> QED
  BY <1>3

-----------------------------------------------------------------------------
(* One lemma per group of actions: IndInv is preserved.                    *)

\* Routines called at the prompt or by one another.
LEMMA CallSteps ==
    ASSUME IndInv, NEW c \in Client,
           CallRoot(c) \/ CallWalk(c) \/ CallChdir(c) \/ CallCreate(c)
             \/ LsFiles(c) \/ LsFolders(c) \/ Walk(c)
    PROVE  IndInv'
<1> USE RegisterFacts DEF Registers
<1>1. CASE CallRoot(c)
  <2> DEFINE r == [reg[c] EXCEPT !.id = ROOT_FOLDER_ID, !.kind = "dir",
                                 !.parentId = ROOT_PARENT_ID]
  <2>1. r \in Registers
    BY ConstantsAreLong
  <2>2. GoodRegisters("call", r)
    BY <1>1 DEF CallRoot, GoodRegisters, RestLabels, ROOT_FOLDER_ID, ROOT_PARENT_ID
  <2>3. Return(c, r) /\ UNCHANGED <<dbVars, cwd, auxVars>>
    BY <1>1 DEF CallRoot
  <2>4. cwd' \in [Client -> Seq(Char) \ {<<>>}]
    BY <2>3 DEF IndInv, ClientInv
  <2> HIDE DEF r
  <2> QED
    BY <2>1, <2>2, <2>3, <2>4, ReturnStep
<1>2. CASE CallWalk(c)
  <2> DEFINE abs == IsAbsolute(WalkedPath(c))
             pos == IF abs THEN 1 ELSE 0
             dir == IF abs THEN ROOT_FOLDER_ID ELSE reg[c].cwdId
             r == [reg[c] EXCEPT !.pos = pos, !.dir = dir,
                                 !.id = NoId, !.kind = "none", !.parentId = NoId]
  <2>1. Local(c, "walk", r) /\ pc[c] = "call"
    BY <1>2 DEF CallWalk
  <2>5. pos \in Nat
    OBVIOUS
  <2>6. dir \in Long /\ dir < idCount
    BY <2>1, ConstantsAreLong DEF GoodRegisters, ROOT_FOLDER_ID
  <2> HIDE DEF pos, dir
  <2>2. r \in Registers
    <3>1. reg[c] \in Registers
      OBVIOUS
    <3> HIDE RegisterFacts DEF Registers
    <3> QED
      BY <2>5, <2>6, <3>1, WalkRegisters, Zenon
  <2>3. GoodRegisters("walk", r)
    BY <2>1, <2>6 DEF GoodRegisters, RestLabels, NoId
  <2>4. "walk" \in Labels \ BuildLabels
    BY DEF Labels, BuildLabels
  <2> HIDE DEF r
  <2> QED
    BY <2>1, <2>2, <2>3, <2>4, LocalStep
<1>3. CASE CallChdir(c)
  <2> DEFINE r == [reg[c] EXCEPT !.left = <<>>]
  <2>1. Local(c, "name", r)
    BY <1>3 DEF CallChdir
  <2>2. r \in Registers
    <3>1. reg[c] \in Registers /\ <<>> \in Seq(Char)
      OBVIOUS
    <3> HIDE RegisterFacts
    <3> QED
      BY <3>1
  <2>3. GoodRegisters("name", r)
    BY <1>3 DEF CallChdir, GoodRegisters, RestLabels
  <2>4. "name" \in Labels \ BuildLabels
    BY DEF Labels, BuildLabels
  <2> HIDE DEF r
  <2> QED
    BY <2>1, <2>2, <2>3, <2>4, LocalStep
<1>4. CASE CallCreate(c)
  <2>1. Local(c, "GET", reg[c])
    BY <1>4 DEF CallCreate
  <2>2. GoodRegisters("GET", reg[c])
    BY <1>4 DEF CallCreate, GoodRegisters, RestLabels
  <2>3. "GET" \in Labels \ BuildLabels
    BY DEF Labels, BuildLabels
  <2> QED
    BY <2>1, <2>2, <2>3, LocalStep
<1>5. CASE LsFiles(c) \/ LsFolders(c)
  <2> PICK lists \in {folders, files}, label \in {"lsfile", "lsfolder"} :
           /\ pc[c] = "call"
           /\ Local(c, label, [reg[c] EXCEPT !.ids = Ids(LRANGE(lists, reg[c].dir))])
    BY <1>5 DEF LsFiles, LsFolders
  <2> DEFINE list == Ids(LRANGE(lists, reg[c].dir))
             r == [reg[c] EXCEPT !.ids = list]
  <2>1. list \in Seq(Nat) /\ \A i \in DOMAIN list : list[i] < idCount
    BY ListFacts
  <2> HIDE DEF list
  <2>2. r \in Registers
    BY <2>1
  <2>3. GoodRegisters(label, r)
    BY <2>1 DEF GoodRegisters, RestLabels
  <2>4. label \in Labels \ BuildLabels
    BY DEF Labels, BuildLabels
  <2> HIDE DEF r
  <2> QED
    BY <2>2, <2>3, <2>4, LocalStep DEF r, list
<1>6. CASE Walk(c)
  <2> DEFINE label == IF AtLastName(c) THEN "end" ELSE "files"
  <2>1. Local(c, label, reg[c])
    BY <1>6 DEF Walk
  <2>2. GoodRegisters(label, reg[c])
    BY <1>6 DEF Walk, GoodRegisters, RestLabels
  <2>3. label \in Labels \ BuildLabels
    BY DEF Labels, BuildLabels
  <2> HIDE DEF label
  <2> QED
    BY <2>1, <2>2, <2>3, LocalStep
<1> QED
  BY <1>1, <1>2, <1>3, <1>4, <1>5, <1>6

\* The searches of vfs_findObjectInDir.
LEMMA FindSteps ==
    ASSUME IndInv, NEW c \in Client,
           FindFiles(c) \/ FindFile(c) \/ FindFileEnd(c) \/ FindDotDot(c)
             \/ FindFolders(c) \/ FindFolder(c) \/ FindFolderEnd(c)
    PROVE  IndInv'
<1>f. /\ reg[c] \in Registers
      /\ GoodRegisters(pc[c], reg[c])
      /\ reg[c].ids \in Seq(Nat)
      /\ reg[c].id \in Long
      /\ reg[c].dir \in Long
      /\ idCount \in Nat
  BY RegisterFacts DEF Registers
<1>l. /\ {"file", "folder", "folders", "dotdot"} \subseteq Labels \ BuildLabels
      /\ \A label \in {"file", "folder", "folders", "dotdot"} : label \notin RestLabels
  BY DEF Labels, BuildLabels, RestLabels
<1>t. ASSUME reg[c].ids # <<>>
      PROVE  /\ Head(reg[c].ids) \in Nat
             /\ Tail(reg[c].ids) \in Seq(Nat)
             /\ Head(reg[c].ids) < idCount
             /\ \A i \in DOMAIN Tail(reg[c].ids) : Tail(reg[c].ids)[i] < idCount
  <2>1. \A i \in DOMAIN reg[c].ids : reg[c].ids[i] < idCount
    BY <1>f DEF GoodRegisters
  <2>2. 1 \in DOMAIN reg[c].ids /\ Head(reg[c].ids) = reg[c].ids[1]
    BY <1>f, <1>t
  <2>3. \A i \in DOMAIN Tail(reg[c].ids) :
            i + 1 \in DOMAIN reg[c].ids /\ Tail(reg[c].ids)[i] = reg[c].ids[i + 1]
    BY <1>f, <1>t
  <2> QED
    BY <1>f, <1>t, <2>1, <2>2, <2>3
<1>1. CASE FindFiles(c)
  <2> DEFINE list == Ids(LRANGE(files, reg[c].dir))
             r == [reg[c] EXCEPT !.ids = list, !.id = NoId]
  <2>1. list \in Seq(Nat) /\ \A i \in DOMAIN list : list[i] < idCount
    BY <1>f, ListFacts
  <2>2. Local(c, "file", r) /\ pc[c] = "files"
    BY <1>1 DEF FindFiles
  <2> HIDE DEF list
  <2>3. r \in Registers
    BY <1>f, <2>1, ConstantsAreLong DEF Registers
  <2>4. GoodRegisters("file", r)
    BY <1>f, <2>1, <2>2 DEF GoodRegisters, Registers, RestLabels, NoId
  <2> HIDE DEF r
  <2> QED
    BY <1>l, <2>2, <2>3, <2>4, LocalStep
<1>2. CASE FindFile(c)
  <2> DEFINE fileId == Head(reg[c].ids)
             match == IF FileNameMatches(HGETname(fileInfo, fileId), Rest(c), NameLength(c))
                      THEN fileId ELSE reg[c].id
             r == [reg[c] EXCEPT !.ids = Tail(reg[c].ids), !.id = match]
  <2>1. reg[c].ids # <<>> /\ pc[c] = "file"
    BY <1>2 DEF FindFile
  <2>2. Local(c, "file", r) \/ Crash(c)
    BY <1>2, <1>f DEF FindFile, Registers
  <2>3. match \in Long /\ match < idCount
    BY <1>f, <1>t, <2>1 DEF Long, GoodRegisters
  <2> HIDE DEF match
  <2>4. r \in Registers
    BY <1>f, <1>t, <2>1, <2>3 DEF Registers
  <2>5. GoodRegisters("file", r)
    BY <1>f, <1>t, <2>1, <2>3 DEF GoodRegisters, Registers, RestLabels
  <2> HIDE DEF r
  <2> QED
    BY <1>l, <2>2, <2>4, <2>5, LocalStep, CrashStep
<1>3. CASE FindFileEnd(c)
  <2>1. pc[c] = "file" /\ "file" \in Searching
    BY <1>3 DEF FindFileEnd, Searching
  <2>2. reg[c].dir < idCount
    BY <1>f, <2>1 DEF GoodRegisters
  <2>3. \/ FoundFile(c, reg[c].id)
        \/ FoundDir(c, reg[c].dir)
        \/ Local(c, "dotdot", reg[c])
        \/ Local(c, "folders", reg[c])
    BY <1>3 DEF FindFileEnd
  <2>4. GoodRegisters("dotdot", reg[c]) /\ GoodRegisters("folders", reg[c])
    BY <1>f, <2>1 DEF GoodRegisters, RestLabels
  <2> QED
    BY <1>f, <1>l, <2>1, <2>2, <2>3, <2>4, LocalStep, FoundFileStep, FoundDirStep
<1>4. CASE FindDotDot(c)
  <2> DEFINE p == HGETparent(folderInfo, reg[c].dir)
  <2>1. pc[c] = "dotdot" /\ "dotdot" \in Searching
    BY <1>4 DEF FindDotDot, Searching
  <2>2. CASE HasInfo(folderInfo, reg[c].dir)
    <3>1. p \in Long /\ (p < idCount \/ p = LONG_MAX)
      BY <1>f, <2>2, ParentFacts DEF Long
    <3>2. FoundDir(c, p)
      BY <1>4, <2>2 DEF FindDotDot
    <3> HIDE DEF p
    <3> QED
      BY <2>1, <3>1, <3>2, FoundDirStep
  <2>3. CASE ~HasInfo(folderInfo, reg[c].dir)
    <3>1. Crash(c)
      BY <1>4, <2>3 DEF FindDotDot
    <3> QED
      BY <3>1, CrashStep
  <2> QED
    BY <2>2, <2>3
<1>5. CASE FindFolders(c)
  <2> DEFINE list == Ids(LRANGE(folders, reg[c].dir))
             r == [reg[c] EXCEPT !.ids = list]
  <2>1. list \in Seq(Nat) /\ \A i \in DOMAIN list : list[i] < idCount
    BY <1>f, ListFacts
  <2>2. Local(c, "folder", r) /\ pc[c] = "folders"
    BY <1>5 DEF FindFolders
  <2> HIDE DEF list
  <2>3. r \in Registers
    BY <1>f, <2>1 DEF Registers
  <2>4. GoodRegisters("folder", r)
    BY <1>f, <2>1, <2>2 DEF GoodRegisters, Registers, RestLabels
  <2> HIDE DEF r
  <2> QED
    BY <1>l, <2>2, <2>3, <2>4, LocalStep
<1>6. CASE FindFolder(c)
  <2> DEFINE dirId == Head(reg[c].ids)
             r == [reg[c] EXCEPT !.ids = Tail(reg[c].ids)]
  <2>1. reg[c].ids # <<>> /\ pc[c] = "folder" /\ "folder" \in Searching
    BY <1>6 DEF FindFolder, Searching
  <2>2. Local(c, "folder", r) \/ Crash(c) \/ FoundDir(c, dirId)
    BY <1>6, <1>f DEF FindFolder, Registers
  <2>3. dirId \in Long /\ dirId < idCount
    BY <1>t, <2>1 DEF Long
  <2>4. r \in Registers
    BY <1>f, <1>t, <2>1 DEF Registers
  <2>5. GoodRegisters("folder", r)
    BY <1>f, <1>t, <2>1 DEF GoodRegisters, Registers, RestLabels
  <2> HIDE DEF r, dirId
  <2> QED
    BY <1>l, <2>1, <2>2, <2>3, <2>4, <2>5, LocalStep, CrashStep, FoundDirStep
<1>7. CASE FindFolderEnd(c)
  <2>1. FoundNothing(c) /\ pc[c] \in Searching
    BY <1>7 DEF FindFolderEnd, Searching
  <2> QED
    BY <2>1, FoundNothingStep
<1> QED
  BY <1>1, <1>2, <1>3, <1>4, <1>5, <1>6, <1>7

\* What follows a lookup.
LEMMA EndSteps ==
    ASSUME IndInv, NEW c \in Client,
           ParseParent(c) \/ EndCwd(c) \/ EndLeft(c) \/ EndTarget(c) \/ EndParse(c)
    PROVE  IndInv'
<1>f. /\ reg[c] \in Registers
      /\ GoodRegisters(pc[c], reg[c])
      /\ reg[c].id \in Long
      /\ reg[c].dir \in Long
      /\ reg[c].arg \in Seq(Char)
  BY RegisterFacts DEF Registers
<1>c. UNCHANGED cwd => cwd' \in [Client -> Seq(Char) \ {<<>>}]
  BY DEF IndInv, ClientInv
<1>1. CASE ParseParent(c)
  <2> DEFINE n == HGETparent(folderInfo, reg[c].id)
             p == ToInt(n)
             r == [reg[c] EXCEPT !.parentId = p]
  <2>1. CASE HasInfo(folderInfo, reg[c].id)
    <3>1. n \in Long /\ (n < idCount \/ n = LONG_MAX)
      BY <1>f, <2>1, ParentFacts DEF Long
    <3> HIDE DEF n
    <3>2. p \in Long /\ p < idCount
      BY <3>1, FolderNumberAsInt
    <3>3. Return(c, r) /\ UNCHANGED <<dbVars, cwd, auxVars>> /\ pc[c] = "parent"
      BY <1>1, <2>1 DEF ParseParent, n
    <3> HIDE DEF p
    <3>4. r \in Registers
      BY <1>f, <3>2 DEF Registers
    <3>5. GoodRegisters("call", r)
      BY <1>f, <3>2, <3>3 DEF GoodRegisters, Registers, RestLabels
    <3> HIDE DEF r
    <3> QED
      BY <1>c, <3>3, <3>4, <3>5, ReturnStep
  <2>2. CASE ~HasInfo(folderInfo, reg[c].id)
    <3>1. Crash(c)
      BY <1>1, <2>2 DEF ParseParent
    <3> QED
      BY <3>1, CrashStep
  <2> QED
    BY <2>1, <2>2
<1>2. CASE EndCwd(c)
  <2> DEFINE r == [reg[c] EXCEPT !.cwdId = reg[c].dir]
  <2>1. Return(c, r) /\ UNCHANGED <<dbVars, cwd, auxVars>> /\ pc[c] = "end"
    BY <1>2 DEF EndCwd
  <2>2. r \in Registers
    BY <1>f DEF Registers
  <2>3. GoodRegisters("call", r)
    BY <1>f, <2>1 DEF GoodRegisters, Registers, RestLabels
  <2> HIDE DEF r
  <2> QED
    BY <1>c, <2>1, <2>2, <2>3, ReturnStep
<1>3. CASE EndLeft(c)
  <2> DEFINE r == [reg[c] EXCEPT !.left = <<>>]
  <2>1. Crash(c) \/ Local(c, "name", r)
    BY <1>3 DEF EndLeft
  <2>2. pc[c] = "end" /\ <<>> \in Seq(Char)
    BY <1>3 DEF EndLeft
  <2>3. r \in Registers
    BY <1>f, <2>2 DEF Registers
  <2>4. GoodRegisters("name", r)
    BY <1>f, <2>2 DEF GoodRegisters, Registers, RestLabels
  <2>5. "name" \in Labels \ BuildLabels
    BY DEF Labels, BuildLabels
  <2> HIDE DEF r
  <2> QED
    BY <2>1, <2>3, <2>4, <2>5, LocalStep, CrashStep
<1>4. CASE EndTarget(c)
  <2>1. /\ Prompt(c) \/ Return(c, reg[c])
        /\ UNCHANGED <<dbVars, cwd, auxVars>> /\ pc[c] = "end"
    BY <1>4 DEF EndTarget
  <2>2. GoodRegisters("call", reg[c])
    BY <1>f, <2>1 DEF GoodRegisters, RestLabels
  <2> QED
    BY <1>c, <1>f, <2>1, <2>2, ReturnStep, PromptStep
<1>5. CASE EndParse(c)
  <2> DEFINE off == vfs_seperatePathAndName(reg[c].arg, PathLength(c)).nameOffset
             r == [reg[c] EXCEPT !.pos = off]
  <2>1. pc[c] = "end" /\ Routine(c) = "parse"
    BY <1>5 DEF EndParse
  <2>2. \/ Local(c, "files", r)
        \/ (Prompt(c) \/ Return(c, reg[c])) /\ UNCHANGED <<dbVars, cwd, auxVars>>
    BY <1>5 DEF EndParse
  <2>3. reg[c].arg # <<>>
    BY <1>f, <2>1 DEF GoodRegisters, RestLabels
  <2>4. PathLength(c) = FixedPathLength(reg[c].arg)
    BY <2>1 DEF PathLength, WalkedPath
  <2>5. PathLength(c) \in Nat
    BY <1>f, <2>3, <2>4 DEF FixedPathLength
  <2>6. off \in Nat
    BY <2>5, NameOffsetType
  <2> HIDE DEF off
  <2>7. r \in Registers
    BY <1>f, <2>6 DEF Registers
  <2>8. GoodRegisters("files", r)
    BY <1>f, <2>1 DEF GoodRegisters, Registers, RestLabels
  <2>9. GoodRegisters("call", reg[c])
    BY <1>f, <2>1 DEF GoodRegisters, RestLabels
  <2>10. "files" \in Labels \ BuildLabels
    BY DEF Labels, BuildLabels
  <2> HIDE DEF r
  <2> QED
    BY <1>c, <1>f, <2>2, <2>7, <2>8, <2>9, <2>10, LocalStep, ReturnStep, PromptStep
<1> QED
  BY <1>1, <1>2, <1>3, <1>4, <1>5

\* getAbsolutePathFromFolderId.
LEMMA ClimbSteps ==
    ASSUME IndInv, NEW c \in Client, ClimbName(c) \/ ClimbUp(c) \/ ClimbEnd(c)
    PROVE  IndInv'
<1>f. /\ reg[c] \in Registers
      /\ GoodRegisters(pc[c], reg[c])
      /\ reg[c].dir \in Long
      /\ reg[c].left \in Seq(Char)
      /\ reg[c].arg \in Seq(Char)
      /\ idCount \in Nat \ {0}
  BY RegisterFacts DEF Registers
<1>l. {"name", "up"} \subseteq Labels \ BuildLabels /\ {"/"} \subseteq Char
  BY CharAssumption DEF Labels, BuildLabels
<1>1. CASE ClimbName(c)
  <2> DEFINE left == <<"/">> \o HGETname(folderInfo, reg[c].dir) \o reg[c].left
             r == [reg[c] EXCEPT !.left = left]
  <2>1. CASE HasInfo(folderInfo, reg[c].dir)
    <3>1. Local(c, "up", r) /\ pc[c] = "name"
      BY <1>1, <2>1, <1>f DEF ClimbName, Registers
    <3>2. HGETname(folderInfo, reg[c].dir) \in Seq(Char) /\ <<"/">> \in Seq(Char)
      BY <1>f, <1>l, <2>1, NameFacts
    <3>3. left \in Seq(Char)
      BY <1>f, <3>2, ConcatProperties
    <3> HIDE DEF left
    <3>4. r \in Registers
      BY <1>f, <3>3 DEF Registers
    <3>5. reg[c].dir < idCount
      BY <1>f, <2>1, ParentFacts
    <3>6. GoodRegisters("up", r)
      BY <1>f, <3>1, <3>5 DEF GoodRegisters, Registers, RestLabels
    <3> HIDE DEF r
    <3> QED
      BY <1>l, <3>1, <3>4, <3>6, LocalStep
  <2>2. CASE ~HasInfo(folderInfo, reg[c].dir)
    <3>1. Crash(c)
      BY <1>1, <2>2 DEF ClimbName
    <3> QED
      BY <3>1, CrashStep
  <2> QED
    BY <2>1, <2>2
<1>2. CASE ClimbUp(c)
  <2> DEFINE p == IF HasInfo(folderInfo, reg[c].dir)
                  THEN HGETparent(folderInfo, reg[c].dir) ELSE NoId
             r == [reg[c] EXCEPT !.dir = p]
  <2>1. Local(c, "name", r) /\ pc[c] = "up"
    BY <1>2, <1>f DEF ClimbUp, Registers
  <2>2. p \in Long /\ (p < idCount \/ p = LONG_MAX)
    BY <1>f, ParentFacts, ConstantsAreLong DEF Long, NoId
  <2> HIDE DEF p
  <2>3. r \in Registers
    BY <1>f, <2>2 DEF Registers
  <2>4. GoodRegisters("name", r)
    BY <1>f, <2>1, <2>2 DEF GoodRegisters, Registers, RestLabels
  <2> HIDE DEF r
  <2> QED
    BY <1>l, <2>1, <2>3, <2>4, LocalStep
<1>3. CASE ClimbEnd(c)
  <2> DEFINE absolutePath == Append(reg[c].left, "/")
             arg == absolutePath \o removeAnyPathPrefix(reg[c].arg)
             r == [reg[c] EXCEPT !.arg = arg]
  <2>1. absolutePath \in Seq(Char) \ {<<>>}
    BY <1>f, <1>l, AppendProperties
  <2>2. removeAnyPathPrefix(reg[c].arg) \in Seq(Char)
    BY <1>f, FromType DEF removeAnyPathPrefix
  <2>3. /\ pc[c] = "name" /\ reg[c].dir = ROOT_FOLDER_ID
        /\ UNCHANGED <<dbVars, auxVars>>
        /\ \/ Return(c, r) /\ UNCHANGED cwd
           \/ Return(c, reg[c]) /\ cwd' = [cwd EXCEPT ![c] = absolutePath]
    BY <1>3, <1>f DEF ClimbEnd, Registers
  <2> HIDE DEF absolutePath
  <2>4. arg \in Seq(Char) \ {<<>>}
    BY <2>1, <2>2, ConcatProperties
  <2>5. cwd' \in [Client -> Seq(Char) \ {<<>>}]
    BY <2>1, <2>3 DEF IndInv, ClientInv
  <2> HIDE DEF arg
  <2>6. r \in Registers
    BY <1>f, <2>4 DEF Registers
  <2>7. GoodRegisters("call", r)
    BY <1>f, <2>3, <2>4 DEF GoodRegisters, Registers, RestLabels, ROOT_FOLDER_ID
  <2>8. GoodRegisters("call", reg[c])
    BY <1>f, <2>3 DEF GoodRegisters, RestLabels, ROOT_FOLDER_ID
  <2> HIDE DEF r
  <2> QED
    BY <1>f, <2>3, <2>5, <2>6, <2>7, <2>8, ReturnStep
<1> QED
  BY <1>1, <1>2, <1>3

\* ls and stat.
LEMMA ListSteps ==
    ASSUME IndInv, NEW c \in Client, LsEntry(c) \/ LsEnd(c) \/ StatName(c)
    PROVE  IndInv'
<1>f. /\ reg[c] \in Registers
      /\ GoodRegisters(pc[c], reg[c])
      /\ reg[c].ids \in Seq(Nat)
  BY RegisterFacts DEF Registers
<1>1. CASE LsEntry(c)
  <2> DEFINE r == [reg[c] EXCEPT !.ids = Tail(reg[c].ids)]
  <2>1. reg[c].ids # <<>> /\ pc[c] \in {"lsfile", "lsfolder"}
    BY <1>1 DEF LsEntry
  <2>2. Local(c, pc[c], r) \/ Crash(c)
    BY <1>1, <1>f DEF LsEntry, Registers
  <2>3. \A i \in DOMAIN Tail(reg[c].ids) :
            i + 1 \in DOMAIN reg[c].ids /\ Tail(reg[c].ids)[i] = reg[c].ids[i + 1]
    BY <1>f, <2>1
  <2>4. Tail(reg[c].ids) \in Seq(Nat)
    BY <1>f, <2>1
  <2>5. r \in Registers
    BY <1>f, <2>4 DEF Registers
  <2>6. GoodRegisters(pc[c], r)
    BY <1>f, <2>1, <2>3 DEF GoodRegisters, Registers, RestLabels
  <2>7. pc[c] \in Labels \ BuildLabels
    BY RegisterFacts
  <2> HIDE DEF r
  <2> QED
    BY <2>2, <2>5, <2>6, <2>7, LocalStep, CrashStep
<1>2. CASE LsEnd(c) \/ (StatName(c) /\ ~Crash(c))
  <2>1. /\ Return(c, reg[c]) /\ UNCHANGED <<dbVars, cwd, auxVars>>
        /\ pc[c] \in {"lsfile", "lsfolder", "call"}
    BY <1>2 DEF LsEnd, StatName
  <2>2. GoodRegisters("call", reg[c])
    BY <1>f, <2>1 DEF GoodRegisters, RestLabels
  <2>3. cwd' \in [Client -> Seq(Char) \ {<<>>}]
    BY <2>1 DEF IndInv, ClientInv
  <2> QED
    BY <1>f, <2>1, <2>2, <2>3, ReturnStep
<1>3. CASE Crash(c)
  BY <1>3, CrashStep
<1> QED
  BY <1>1, <1>2, <1>3

LEMMA ProgramType ==
    ASSUME NEW op \in Ops, NEW path
    PROVE  Program(op, path) \in Seq(Routines)
<1>0. <<>> \in Seq(Routines)
  OBVIOUS
<1>1. LeftSide(path) \in Seq(Routines)
  <2>1. <<"cwd", "left">> \in Seq(Routines)
    BY DEF Routines
  <2> QED
    BY <1>0, <2>1, Zenon DEF LeftSide
<1>2. CASE op \in {"mkdir", "mkfile"}
  <2>1. <<"cwd", "parse", "create">> \in Seq(Routines)
    BY DEF Routines
  <2>2. Program(op, path) = LeftSide(path) \o <<"cwd", "parse", "create">>
    BY <1>2 DEF Program
  <2> QED
    BY <1>1, <2>1, <2>2, ConcatProperties
<1>3. CASE op = "cd"
  <2>1. <<"cwd", "target", "chdir">> \in Seq(Routines)
    BY DEF Routines
  <2>2. Program(op, path) = LeftSide(path) \o <<"cwd", "target", "chdir">>
    BY <1>3 DEF Program
  <2> QED
    BY <1>1, <2>1, <2>2, ConcatProperties
<1>4. CASE op = "ls"
  BY <1>4 DEF Program, Routines
<1>5. CASE op = "stat"
  <2> DEFINE file == IF Last(path) = "/" THEN <<>> ELSE <<"cwd", "parse">>
  <2>1. /\ <<"cwd", "parse">> \in Seq(Routines)
        /\ <<"cwd", "target", "statname">> \in Seq(Routines)
    BY DEF Routines
  <2>3. file \in Seq(Routines)
    BY <1>0, <2>1, Zenon
  <2>2. Program(op, path) = file \o <<"cwd", "target", "statname">>
    BY <1>5 DEF Program
  <2> HIDE DEF file
  <2> QED
    BY <2>1, <2>2, <2>3, ConcatProperties
<1> QED
  BY <1>2, <1>3, <1>4, <1>5 DEF Ops

\* The start of a process on a built file system, and its end.
LEMMA ProcessSteps ==
    ASSUME IndInv, NEW c \in Client,
           Start(c) \/ isVirtualFileSystemCreated(c) \/ Type(c) \/ Kill(c)
    PROVE  IndInv'
<1>f. /\ reg[c] \in Registers
      /\ GoodRegisters(pc[c], reg[c])
      /\ cwd[c] \in Seq(Char) \ {<<>>}
  BY RegisterFacts
<1>l. /\ {"EXISTS", "idle", "down", "call"} \subseteq Labels \ BuildLabels
      /\ {"EXISTS", "idle", "down"} \subseteq RestLabels
  BY DEF Labels, BuildLabels, RestLabels
<1>1. CASE Start(c)
  <2>1. todo' \in [Client -> Seq(Routines)] /\ AuxInv' /\ UNCHANGED dbVars
    BY <1>1 DEF Start, IndInv, ClientInv, AuxInv, auxVars
  <2>2. cwd' \in [Client -> Seq(Char) \ {<<>>}]
    BY <1>1, CharAssumption DEF Start, IndInv, ClientInv
  <2> QED
    BY <1>1, <1>l, <2>1, <2>2, BlankIsGood, ProcessStep DEF Start, Goto, Set
<1>2. CASE isVirtualFileSystemCreated(c)
  <2>1. created = TRUE /\ pc[c] = "EXISTS"
    BY <1>2 DEF IndInv, DbInv, isVirtualFileSystemCreated
  <2>2. pc' = [pc EXCEPT ![c] = "idle"] /\ UNCHANGED <<dbVars, cwd, todo, reg, auxVars>>
    BY <1>2, <2>1 DEF isVirtualFileSystemCreated, Goto
  <2>3. reg' = [reg EXCEPT ![c] = reg[c]]
    BY <2>2 DEF IndInv, ClientInv
  <2>4. GoodRegisters("idle", reg[c])
    BY <1>f, <2>1 DEF GoodRegisters, RestLabels
  <2>5. /\ todo' \in [Client -> Seq(Routines)] /\ AuxInv'
        /\ cwd' \in [Client -> Seq(Char) \ {<<>>}]
    BY <2>2 DEF IndInv, ClientInv, AuxInv, auxVars
  <2> QED
    BY <1>f, <1>l, <2>2, <2>3, <2>4, <2>5, ProcessStep
<1>3. CASE Type(c)
  <2> PICK cmd \in Commands :
           LET path == IF cmd.path = <<>> THEN cwd[c] ELSE cmd.path
           IN  /\ Goto(c, "call")
               /\ Set(c, [Blank EXCEPT !.op = cmd.op, !.arg = path])
               /\ todo' = [todo EXCEPT ![c] = Program(cmd.op, path)]
    BY <1>3 DEF Type
  <2> DEFINE path == IF cmd.path = <<>> THEN cwd[c] ELSE cmd.path
             r == [Blank EXCEPT !.op = cmd.op, !.arg = path]
  <2>1. cmd.op \in Ops /\ path \in Seq(Char) \ {<<>>}
    BY <1>f, CommandsAssumption
  <2>2. Program(cmd.op, path) \in Seq(Routines)
    BY <2>1, ProgramType
  <2>3. todo' \in [Client -> Seq(Routines)]
    BY <2>2 DEF IndInv, ClientInv
  <2> HIDE DEF path
  <2>4. Blank \in Registers
    BY <1>l, BlankIsGood
  <2>5. r \in Registers
    BY <2>1, <2>4 DEF Registers
  <2>6. GoodRegisters("call", r)
    BY <2>1 DEF IndInv, DbInv, GoodRegisters, Blank, RestLabels, NoId
  <2>7. AuxInv' /\ UNCHANGED dbVars /\ cwd' \in [Client -> Seq(Char) \ {<<>>}]
    <3>1. issued' = issued + 1 /\ UNCHANGED <<dbVars, cwd, kills, lost>>
      BY <1>3 DEF Type
    <3>2. AuxInv'
      BY <3>1 DEF IndInv, AuxInv
    <3> QED
      BY <3>1, <3>2 DEF IndInv, ClientInv
  <2>8. pc' = [pc EXCEPT ![c] = "call"] /\ reg' = [reg EXCEPT ![c] = r]
    BY DEF Goto, Set, path
  <2> HIDE DEF r
  <2> QED
    BY <1>l, <2>3, <2>5, <2>6, <2>7, <2>8, ProcessStep
<1>4. CASE Kill(c)
  <2>1. Lu(reg[c].newId) \in Nat
    BY <1>f, LuType DEF Registers
  <2>2. AuxInv'
    BY <1>4, <2>1 DEF Kill, IndInv, AuxInv
  <2>3. todo' \in [Client -> Seq(Routines)] /\ UNCHANGED dbVars
    BY <1>4 DEF Kill, IndInv, ClientInv
  <2>4. cwd' \in [Client -> Seq(Char) \ {<<>>}]
    BY <1>4 DEF Kill, IndInv, ClientInv
  <2> QED
    BY <1>4, <1>l, <2>2, <2>3, <2>4, BlankIsGood, ProcessStep DEF Kill, Goto, Set
<1> QED
  BY <1>1, <1>2, <1>3, <1>4

\* vfs_mkdir and vfs_createFile.
LEMMA CreateSteps ==
    ASSUME IndInv, NEW c \in Client,
           GetNewId(c) \/ IncrNewId(c) \/ AddToList(c) \/ SetInfo(c)
    PROVE  IndInv'
<1>f. /\ reg[c] \in Registers
      /\ GoodRegisters(pc[c], reg[c])
      /\ reg[c].newId \in Long
      /\ reg[c].parentId \in Long
      /\ idCount \in Nat \ {0}
  BY RegisterFacts DEF Registers
<1>k. UNCHANGED <<cwd, todo>> =>
        /\ cwd' \in [Client -> Seq(Char) \ {<<>>}]
        /\ todo' \in [Client -> Seq(Routines)]
  BY DEF IndInv, ClientInv
<1>l. {"INCR", "LPUSH", "HMSET"} \subseteq Labels \ BuildLabels
  BY DEF Labels, BuildLabels
<1>1. CASE GetNewId(c)
  <2> DEFINE r == [reg[c] EXCEPT !.newId = idCount]
  <2>1. Local(c, "INCR", r) /\ pc[c] = "GET"
    BY <1>1, <1>f DEF GetNewId, Absent
  <2>2. r \in Registers
    BY <1>f DEF Registers, Long
  <2>3. GoodRegisters("INCR", r)
    BY <1>f, <2>1 DEF GoodRegisters, Registers, RestLabels
  <2> HIDE DEF r
  <2> QED
    BY <1>l, <2>1, <2>2, <2>3, LocalStep
<1>2. CASE IncrNewId(c)
  <2>1. /\ pc[c] = "INCR" /\ idCount' = idCount + 1
        /\ pc' = [pc EXCEPT ![c] = "LPUSH"]
        /\ UNCHANGED <<created, folderInfo, fileInfo, folders, files,
                       cwd, todo, reg, auxVars>>
    BY <1>2, <1>f DEF IncrNewId, INCR, Absent, Goto
  <2>2. DbTypeOK' /\ created' = TRUE /\ idCount' \in Nat \ {0}
    BY <1>f, <2>1 DEF IndInv, DbInv, DbTypeOK
  <2>3. ParentBelowChild'
    BY <2>1 DEF IndInv, DbInv, ParentBelowChild
  <2>4. IdsBelowCounter'
    <3>1. \A n \in Nat : n < idCount => n < idCount'
      BY <1>f, <2>1
    <3>2. /\ \A n \in DOMAIN folders : \A i \in DOMAIN folders[n] : folders[n][i] \in Nat
          /\ \A n \in DOMAIN files : \A i \in DOMAIN files[n] : files[n][i] \in Nat
          /\ \A n \in DOMAIN folderInfo : n \in Nat
          /\ \A n \in DOMAIN fileInfo : n \in Nat
      BY DEF IndInv, DbInv, DbTypeOK
    <3>3. IdsBelowCounter
      BY DEF IndInv, DbInv
    <3> QED
      BY <2>1, <3>1, <3>2, <3>3 DEF IdsBelowCounter
  <2>5. ASSUME NEW d \in Client PROVE GoodRegisters(pc[d], reg[d])'
    <3>1. /\ reg[d] \in Registers /\ GoodRegisters(pc[d], reg[d])
          /\ reg'[d] = reg[d]
          /\ pc'[d] = IF d = c THEN "LPUSH" ELSE pc[d]
      BY <2>1 DEF IndInv, ClientInv
    <3>2. /\ reg[d].id \in Int /\ reg[d].parentId \in Int /\ reg[d].cwdId \in Int
          /\ reg[d].dir \in Int /\ reg[d].newId \in Int
          /\ \A i \in DOMAIN reg[d].ids : reg[d].ids[i] \in Int
      BY <3>1 DEF Registers, Long
    <3>3. CASE d # c
      BY <1>f, <2>1, <3>1, <3>2, <3>3 DEF GoodRegisters
    <3>4. CASE d = c
      BY <1>f, <2>1, <3>1, <3>2, <3>4 DEF GoodRegisters, RestLabels
    <3> QED
      BY <3>3, <3>4
  <2>6. ClientInv'
    BY <1>k, <1>l, <2>1, <2>5 DEF IndInv, ClientInv
  <2>7. AuxInv'
    BY <2>1 DEF IndInv, AuxInv, auxVars
  <2> QED
    BY <2>2, <2>3, <2>4, <2>6, <2>7 DEF IndInv, DbInv
<1>h. ASSUME pc[c] \in {"LPUSH", "HMSET"}
      PROVE  /\ reg[c].newId \in Nat \ {0} /\ reg[c].newId < idCount
             /\ reg[c].parentId < reg[c].newId
             /\ Lu(reg[c].newId) = reg[c].newId
             /\ Lu(reg[c].parentId) \in Nat
             /\ \/ Lu(reg[c].parentId) < reg[c].newId
                \/ Lu(reg[c].parentId) > LONG_MAX
  <2>1. reg[c].newId \in Nat \ {0} /\ reg[c].newId < idCount /\ reg[c].parentId < reg[c].newId
    BY <1>f, <1>h DEF GoodRegisters
  <2>2. reg[c].parentId < 0 \/ reg[c].parentId >= 0
    BY <1>f DEF Long
  <2> QED
    BY <1>f, <2>1, <2>2, LuType
<1>3. CASE AddToList(c)
  <2>1. /\ pc[c] = "LPUSH"
        /\ pc' = [pc EXCEPT ![c] = "HMSET"]
        /\ UNCHANGED <<idCount, created, folderInfo, fileInfo,
                       cwd, todo, reg, auxVars>>
    BY <1>3 DEF AddToList, Goto
  <2>2. ASSUME NEW lists \in {folders, files}
        PROVE  LET pushed == LPUSH(lists, reg[c].parentId, reg[c].newId)
               IN  /\ DOMAIN pushed \subseteq Nat
                   /\ \A n \in DOMAIN pushed :
                         /\ pushed[n] \in Seq(Nat)
                         /\ \A i \in DOMAIN pushed[n] : pushed[n][i] < idCount
    <3> DEFINE key == Lu(reg[c].parentId)
               id == reg[c].newId
               old == LRANGE(lists, reg[c].parentId)
               pushed == LPUSH(lists, reg[c].parentId, reg[c].newId)
    <3>1. key \in Nat /\ id \in Nat /\ id < idCount /\ Lu(id) = id
      BY <1>h, <2>1
    <3>2. /\ DOMAIN lists \subseteq Nat
          /\ \A n \in DOMAIN lists :
                /\ lists[n] \in Seq(Nat)
                /\ \A i \in DOMAIN lists[n] : lists[n][i] < idCount
      BY DEF IndInv, DbInv, DbTypeOK, IdsBelowCounter
    <3>3. old \in Seq(Nat) /\ \A i \in DOMAIN old : old[i] < idCount
      BY <3>2 DEF LRANGE
    <3>4. /\ DOMAIN pushed = DOMAIN lists \cup {key}
          /\ pushed[key] = <<id>> \o old
          /\ \A n \in DOMAIN lists \ {key} : pushed[n] = lists[n]
      BY <3>1 DEF LPUSH
    <3> HIDE DEF key, old, pushed, id
    <3>5. <<id>> \in Seq(Nat) /\ Len(<<id>>) = 1 /\ <<id>>[1] = id
      BY <3>1
    <3>6. /\ <<id>> \o old \in Seq(Nat)
          /\ \A i \in DOMAIN (<<id>> \o old) : (<<id>> \o old)[i] < idCount
      BY <3>1, <3>3, <3>5, ConcatProperties, LenProperties
    <3>7. DOMAIN pushed \subseteq Nat
      BY <3>1, <3>2, <3>4
    <3>8. \A n \in DOMAIN pushed :
             /\ pushed[n] \in Seq(Nat)
             /\ \A i \in DOMAIN pushed[n] : pushed[n][i] < idCount
      BY <3>2, <3>4, <3>6
    <3> QED
      BY <3>7, <3>8 DEF pushed
  <2>3. /\ DOMAIN folders' \subseteq Nat
        /\ \A n \in DOMAIN folders' :
              /\ folders'[n] \in Seq(Nat)
              /\ \A i \in DOMAIN folders'[n] : folders'[n][i] < idCount
        /\ DOMAIN files' \subseteq Nat
        /\ \A n \in DOMAIN files' :
              /\ files'[n] \in Seq(Nat)
              /\ \A i \in DOMAIN files'[n] : files'[n][i] < idCount
    <3>1. \/ folders' = LPUSH(folders, reg[c].parentId, reg[c].newId) /\ files' = files
          \/ files' = LPUSH(files, reg[c].parentId, reg[c].newId) /\ folders' = folders
      BY <1>3 DEF AddToList
    <3> QED
      BY <2>2, <3>1 DEF IndInv, DbInv, DbTypeOK, IdsBelowCounter
  <2>4. DbInv'
    BY <2>1, <2>3 DEF IndInv, DbInv, DbTypeOK, IdsBelowCounter, ParentBelowChild
  <2>5. reg' = [reg EXCEPT ![c] = reg[c]]
    BY <2>1 DEF IndInv, ClientInv
  <2>6. GoodRegisters("HMSET", reg[c])
    BY <1>f, <2>1 DEF GoodRegisters, RestLabels
  <2>7. ClientInv'
    BY <1>f, <1>k, <1>l, <2>1, <2>5, <2>6, ClientStep
  <2>8. AuxInv'
    BY <2>1 DEF IndInv, AuxInv, auxVars
  <2> QED
    BY <2>4, <2>7, <2>8 DEF IndInv
<1>4. CASE SetInfo(c)
  <2> DEFINE id == reg[c].newId
             parent == Lu(reg[c].parentId)
             name == NewName(c)
  <2>1. /\ pc[c] = "HMSET"
        /\ Return(c, reg[c])
        /\ UNCHANGED <<idCount, created, folders, files, cwd, auxVars>>
        /\ \/ /\ folderInfo' = HMSET(folderInfo, id, FolderHash(reg[c].parentId, name))
              /\ UNCHANGED fileInfo
           \/ /\ fileInfo' = HMSET(fileInfo, id, FileHash(name))
              /\ UNCHANGED folderInfo
    BY <1>4 DEF SetInfo
  <2>2. /\ id \in Nat \ {0} /\ id < idCount /\ Lu(id) = id
        /\ parent \in Nat /\ (parent < id \/ parent > LONG_MAX)
    BY <1>h, <2>1
  <2>3. name \in Seq(Char)
    BY <1>f, <2>1, NewNameType DEF GoodRegisters, RestLabels
  <2>4. FolderHash(reg[c].parentId, name) = [parent |-> parent, name |-> name]
    BY DEF FolderHash
  <2> HIDE DEF id, parent, name
  <2>5. DbInv /\ idCount' = idCount
    BY <2>1 DEF IndInv
  <2>6. ASSUME folderInfo' = HMSET(folderInfo, id, FolderHash(reg[c].parentId, name)),
               UNCHANGED fileInfo
        PROVE  DbInv'
    <3>1. /\ DOMAIN folderInfo' = DOMAIN folderInfo \cup {id}
          /\ folderInfo'[id] = [parent |-> parent, name |-> name]
          /\ \A n \in DOMAIN folderInfo \ {id} : folderInfo'[n] = folderInfo[n]
      BY <2>2, <2>4, <2>6 DEF HMSET
    <3>2. folderInfo'[id] \in [parent : Nat, name : Seq(Char)]
      BY <2>2, <2>3, <3>1
    <3>3. DbTypeOK'
      BY <2>1, <2>2, <2>5, <2>6, <3>1, <3>2 DEF DbInv, DbTypeOK
    <3>4. IdsBelowCounter'
      BY <2>1, <2>2, <2>5, <2>6, <3>1 DEF DbInv, IdsBelowCounter
    <3>5. ParentBelowChild'
      BY <2>2, <2>5, <3>1 DEF DbInv, ParentBelowChild, ROOT_FOLDER_ID
    <3> QED
      BY <2>1, <2>5, <3>3, <3>4, <3>5 DEF DbInv
  <2>7. ASSUME fileInfo' = HMSET(fileInfo, id, FileHash(name)),
               UNCHANGED folderInfo
        PROVE  DbInv'
    <3>1. /\ DOMAIN fileInfo' = DOMAIN fileInfo \cup {id}
          /\ fileInfo'[id] = [name |-> name]
          /\ \A n \in DOMAIN fileInfo \ {id} : fileInfo'[n] = fileInfo[n]
      BY <2>2, <2>7 DEF HMSET, FileHash
    <3>2. fileInfo'[id] \in [name : Seq(Char)]
      BY <2>3, <3>1
    <3>3. DbTypeOK'
      BY <2>1, <2>2, <2>5, <2>7, <3>1, <3>2 DEF DbInv, DbTypeOK
    <3>4. IdsBelowCounter'
      BY <2>1, <2>2, <2>5, <2>7, <3>1 DEF DbInv, IdsBelowCounter
    <3>5. ParentBelowChild'
      BY <2>5, <2>7 DEF DbInv, ParentBelowChild
    <3> QED
      BY <2>1, <2>5, <3>3, <3>4, <3>5 DEF DbInv
  <2>8. DbInv'
    BY <2>1, <2>6, <2>7
  <2>9. GoodRegisters("call", reg[c])
    BY <1>f, <2>1 DEF GoodRegisters, RestLabels
  <2>10. ClientInv'
    <3>1. cwd' \in [Client -> Seq(Char) \ {<<>>}]
      BY <2>1 DEF IndInv, ClientInv
    <3> QED
      BY <1>f, <2>1, <2>9, <3>1, ReturnClients
  <2>11. AuxInv'
    BY <2>1 DEF IndInv, AuxInv, auxVars
  <2> QED
    BY <2>8, <2>10, <2>11 DEF IndInv
<1> QED
  BY <1>1, <1>2, <1>3, <1>4

-----------------------------------------------------------------------------
(* The invariant holds at the start, in every step, and so for ever.       *)

LEMMA BuiltStore == BuiltDb => DbInv
<1> SUFFICES ASSUME BuiltDb PROVE DbInv
  OBVIOUS
<1>1. /\ idCount = 1 /\ created = TRUE
      /\ DOMAIN folderInfo = {0}
      /\ folderInfo[0] = [parent |-> 0, name |-> RootName]
      /\ DOMAIN fileInfo = {} /\ DOMAIN folders = {} /\ DOMAIN files = {}
  BY DEF BuiltDb, HMSET, FolderHash, EmptyMap, Lu, ROOT_FOLDER_ID
<1>2. RootName \in Seq(Char)
  BY CharAssumption DEF RootName
<1>3. folderInfo[0] \in [parent : Nat, name : Seq(Char)]
  BY <1>1, <1>2
<1> QED
  BY <1>1, <1>3 DEF DbInv, DbTypeOK, IdsBelowCounter, ParentBelowChild, ROOT_FOLDER_ID

LEMMA InitStep == InitBuilt => IndInv
<1> SUFFICES ASSUME InitBuilt PROVE IndInv
  OBVIOUS
<1>1. idCount = 1
  BY DEF InitBuilt, BuiltDb
<1>4. DbInv
  BY BuiltStore DEF InitBuilt
<1>5. Blank \in Registers
  BY ConstantsAreLong DEF Blank, Registers
<1>6. GoodRegisters("down", Blank)
  BY <1>1 DEF Blank, GoodRegisters, RestLabels, NoId
<1>7. {"/"} \subseteq Char
  BY CharAssumption
<1>8. <<"/">> \in Seq(Char) \ {<<>>}
  BY <1>7
<1>9. "down" \in Labels \ BuildLabels
  BY DEF Labels, BuildLabels
<1>10. ClientInv
  BY <1>5, <1>6, <1>8, <1>9 DEF InitBuilt, ClientInit, ClientInv
<1>11. AuxInv
  BY DEF InitBuilt, ClientInit, AuxInv
<1> QED
  BY <1>4, <1>10, <1>11 DEF IndInv

\* A process that meets the flag never builds the database.
LEMMA NoBuild ==
    ASSUME IndInv, NEW c \in Client
    PROVE  ~BuildFlush(c) /\ ~BuildRoot(c) /\ ~BuildCount(c) /\ ~BuildCreated(c)
BY RegisterFacts DEF BuildLabels, BuildFlush, BuildRoot, BuildCount, BuildCreated

LEMMA NextStep == IndInv /\ [Next]_vars => IndInv'
<1> SUFFICES ASSUME IndInv, [Next]_vars PROVE IndInv'
  OBVIOUS
<1>1. CASE UNCHANGED vars
  BY <1>1 DEF IndInv, DbInv, ClientInv, AuxInv, DbTypeOK, IdsBelowCounter,
              ParentBelowChild, GoodRegisters, vars, dbVars, clientVars, auxVars
<1>2. ASSUME NEW c \in Client, Start(c) \/ Type(c) \/ Step(c) \/ Kill(c)
      PROVE  IndInv'
  <2>1. CASE Start(c) \/ Type(c) \/ Kill(c) \/ Boot(c)
    BY <2>1, ProcessSteps, NoBuild DEF Boot
  <2>2. CASE Lookup(c)
    BY <2>2, CallSteps, FindSteps, EndSteps, ClimbSteps, ListSteps DEF Lookup
  <2>3. CASE Create(c)
    BY <2>3, CallSteps, CreateSteps DEF Create
  <2> QED
    BY <1>2, <2>1, <2>2, <2>3 DEF Step
<1> QED
  BY <1>1, <1>2 DEF Next

\* Processes that share a file system already built keep the store and
\* their registers such that no number is ahead of the counter.
THEOREM Inductive == SpecBuilt => []IndInv
BY InitStep, NextStep, PTL DEF SpecBuilt

\* Type correctness: whatever the processes do, the store and the variables
\* of vfs_getDirIdFromPath, vfs_parsePath and their callers keep their
\* types; a number is never below the range of int.
THEOREM TypeCorrect == SpecBuilt => []TypeOK
BY Inductive, IndInvTypeOK, PTL

\* getNewId hands out no number that is in use, however its GET and INCR
\* interleave with those of other processes, up to the two that read the
\* counter at the same time.
THEOREM CounterAhead == SpecBuilt => []IdsBelowCounter
<1>1. IndInv => IdsBelowCounter
  BY DEF IndInv, DbInv
<1> QED
  BY <1>1, Inductive, PTL

\* The parents form no cycle: getAbsolutePathFromFolderId climbs to smaller
\* numbers only, until it meets the root or the LONG_MAX that stands for a
\* negative parent.
THEOREM ParentsAcyclic == SpecBuilt => []ParentBelowChild
<1>1. IndInv => ParentBelowChild
  BY DEF IndInv, DbInv
<1> QED
  BY <1>1, Inductive, PTL

-----------------------------------------------------------------------------
(* Which steps write lists and hashes, and what they do to them.           *)

\* The other processes stay where they are.
Alone(c) == \A d \in Client \ {c} : pc'[d] = pc[d] /\ reg'[d] = reg[d]

Entries == <<folderInfo, fileInfo, folders, files, lost>>

LEMMA AloneFacts ==
    ASSUME IndInv, NEW c \in Client
    PROVE  /\ \A label, r : Goto(c, label) /\ (Set(c, r) \/ UNCHANGED reg) => Alone(c)
           /\ \A label, r : Local(c, label, r) => Alone(c) /\ UNCHANGED Entries
           /\ \A r : Return(c, r) => Alone(c)
           /\ Prompt(c) => Alone(c)
           /\ Crash(c) => Alone(c) /\ UNCHANGED Entries
<1>1. ASSUME NEW label, NEW r, Goto(c, label), Set(c, r) \/ UNCHANGED reg
      PROVE  Alone(c)
  BY <1>1 DEF Goto, Set, Alone, IndInv, ClientInv
<1>2. Prompt(c) => Alone(c)
  BY <1>1 DEF Prompt
<1>3. ASSUME NEW r, Return(c, r) PROVE Alone(c)
  BY <1>1, <1>2, <1>3 DEF Return
<1>4. ASSUME NEW label, NEW r, Local(c, label, r)
      PROVE  Alone(c) /\ UNCHANGED Entries
  BY <1>1, <1>4 DEF Local, dbVars, auxVars, Entries
<1>5. Crash(c) => Alone(c) /\ UNCHANGED Entries
  BY <1>1 DEF Crash, dbVars, auxVars, Entries
<1> QED
  BY <1>1, <1>2, <1>3, <1>4, <1>5

\* Only AddToList and SetInfo write a list or a hash once the database is
\* built, and only SetInfo and Kill leave the place between them.
LEMMA QuietSteps ==
    ASSUME IndInv, NEW c \in Client,
           \/ Start(c) \/ Type(c) \/ isVirtualFileSystemCreated(c)
           \/ Lookup(c)
           \/ CallCreate(c) \/ GetNewId(c) \/ IncrNewId(c)
    PROVE  pc[c] # "HMSET" /\ Alone(c) /\ UNCHANGED Entries
<1>1. CASE Start(c) \/ Type(c) \/ isVirtualFileSystemCreated(c) \/ CallCreate(c)
             \/ GetNewId(c) \/ IncrNewId(c)
  BY <1>1, AloneFacts DEF Start, Type, isVirtualFileSystemCreated, CallCreate,
       GetNewId, IncrNewId, dbVars, auxVars, Entries
<1>2. CASE CallRoot(c) \/ CallWalk(c) \/ Walk(c) \/ CallChdir(c)
             \/ LsFiles(c) \/ LsFolders(c)
  BY <1>2, AloneFacts DEF CallRoot, CallWalk, Walk, CallChdir, LsFiles, LsFolders,
       dbVars, auxVars, Entries
<1>3. CASE FindFiles(c) \/ FindFile(c) \/ FindFileEnd(c) \/ FindDotDot(c)
             \/ FindFolders(c) \/ FindFolder(c) \/ FindFolderEnd(c)
  <2>1. /\ \A id : ParsedFile(c, id) => Alone(c) /\ UNCHANGED Entries
        /\ ParsedNothing(c) => Alone(c) /\ UNCHANGED Entries
    BY AloneFacts DEF ParsedFile, ParsedNothing, dbVars, auxVars, Entries
  <2>2. /\ \A id : FoundFile(c, id) => Alone(c) /\ UNCHANGED Entries
        /\ FoundNothing(c) => Alone(c) /\ UNCHANGED Entries
    BY <2>1, AloneFacts DEF FoundFile, FoundNothing, WalkFails
  <2>3. \A id : FoundDir(c, id) => Alone(c) /\ UNCHANGED Entries
    BY <2>2, AloneFacts DEF FoundDir, ParsedDir, WalkInto
  <2> QED
    BY <1>3, <2>2, <2>3, AloneFacts DEF FindFiles, FindFile, FindFileEnd,
         FindDotDot, FindFolders, FindFolder, FindFolderEnd
<1>4. CASE ParseParent(c) \/ EndCwd(c) \/ EndLeft(c) \/ EndTarget(c) \/ EndParse(c)
  BY <1>4, AloneFacts DEF ParseParent, EndCwd, EndLeft, EndTarget, EndParse,
       dbVars, auxVars, Entries
<1>5. CASE ClimbName(c) \/ ClimbUp(c) \/ ClimbEnd(c)
  BY <1>5, AloneFacts DEF ClimbName, ClimbUp, ClimbEnd, dbVars, auxVars, Entries
<1>6. CASE LsEntry(c) \/ LsEnd(c) \/ StatName(c)
  BY <1>6, AloneFacts DEF LsEntry, LsEnd, StatName, dbVars, auxVars, Entries
<1> QED
  BY <1>1, <1>2, <1>3, <1>4, <1>5, <1>6 DEF Lookup

\* LPUSH puts the number in front of one list and keeps the others.
LEMMA PushedList ==
    ASSUME NEW lists, \A n \in DOMAIN lists : lists[n] \in Seq(Nat),
           NEW dirId \in Long, NEW id \in Long
    PROVE  /\ DOMAIN lists \subseteq DOMAIN LPUSH(lists, dirId, id)
           /\ \A n \in DOMAIN LPUSH(lists, dirId, id) :
                 \/ n \in DOMAIN lists /\ LPUSH(lists, dirId, id)[n] = lists[n]
                 \/ /\ n \in DOMAIN lists
                    /\ LPUSH(lists, dirId, id)[n] = <<Lu(id)>> \o lists[n]
                 \/ /\ n \notin DOMAIN lists
                    /\ LPUSH(lists, dirId, id)[n] = <<Lu(id)>>
<1>1. Lu(id) \in Nat
  BY LuType
<1>2. <<Lu(id)>> \in Seq(Nat) /\ <<>> \in Seq(Nat) /\ <<Lu(id)>> \o <<>> = <<Lu(id)>>
  BY <1>1
<1> QED
  BY <1>2 DEF LPUSH, LRANGE

\* The entries of a longer list are the new one and those of the old list.
LEMMA PushedEntry ==
    ASSUME NEW list \in Seq(Nat), NEW id \in Nat,
           NEW i \in DOMAIN (<<id>> \o list)
    PROVE  \/ (<<id>> \o list)[i] = id
           \/ i - 1 \in DOMAIN list /\ (<<id>> \o list)[i] = list[i - 1]
<1>1. <<id>> \in Seq(Nat) /\ Len(<<id>>) = 1 /\ <<id>>[1] = id
  OBVIOUS
<1>2. Len(<<id>> \o list) = 1 + Len(list)
  BY <1>1, ConcatProperties
<1>3. i \in 1 .. 1 + Len(list)
  BY <1>2, <1>1, ConcatProperties, LenProperties
<1>4. CASE i = 1
  BY <1>1, <1>4, ConcatProperties
<1>5. CASE i # 1
  <2>1. (<<id>> \o list)[i] = list[i - 1]
    BY <1>1, <1>3, <1>5, ConcatProperties
  <2> QED
    BY <1>3, <1>5, <2>1
<1> QED
  BY <1>4, <1>5

\* An entry stays unfinished unless its creator takes a step.
LEMMA UnfinishedKept ==
    ASSUME NEW c \in Client, Alone(c), lost \subseteq lost',
           NEW kind, NEW n, Unfinished(kind, n)
    PROVE  \/ Unfinished(kind, n)'
           \/ /\ pc[c] = "HMSET"
              /\ kind = IF reg[c].op = "mkdir" THEN "folder" ELSE "file"
              /\ n = Lu(reg[c].newId)
BY DEF Alone, Unfinished

-----------------------------------------------------------------------------
(* Every listed entry has its hash, or a creator that owes it one.         *)

\* The numbers in the lists of a family.
Listed(lists) ==
    {x \in Nat : \E n \in DOMAIN lists : \E i \in DOMAIN lists[n] : lists[n][i] = x}

LEMMA ListedAfterPush ==
    ASSUME NEW lists, \A n \in DOMAIN lists : lists[n] \in Seq(Nat),
           NEW dirId \in Long, NEW id \in Long
    PROVE  Listed(LPUSH(lists, dirId, id)) \subseteq Listed(lists) \cup {Lu(id)}
<1> DEFINE pushed == LPUSH(lists, dirId, id)
<1>1. SUFFICES ASSUME NEW n \in DOMAIN pushed, NEW i \in DOMAIN pushed[n]
               PROVE  pushed[n][i] = Lu(id) \/ pushed[n][i] \in Listed(lists)
  BY DEF Listed
<1>2. Lu(id) \in Nat
  BY LuType
<1>3. CASE n \in DOMAIN lists /\ pushed[n] = lists[n]
  <2>1. pushed[n][i] \in Nat /\ i \in DOMAIN lists[n]
    BY <1>3
  <2> QED
    BY <1>3, <2>1 DEF Listed
<1>4. CASE n \in DOMAIN lists /\ pushed[n] = <<Lu(id)>> \o lists[n]
  <2> DEFINE old == lists[n]
  <2>1. old \in Seq(Nat)
    BY <1>4
  <2>2. \/ (<<Lu(id)>> \o old)[i] = Lu(id)
        \/ i - 1 \in DOMAIN old /\ (<<Lu(id)>> \o old)[i] = old[i - 1]
    <3> HIDE DEF old, pushed
    <3> QED
      BY <1>2, <1>4, <2>1, PushedEntry DEF old
  <2>3. \A j \in DOMAIN old : old[j] \in Listed(lists)
    BY <1>4, <2>1 DEF Listed
  <2> QED
    BY <1>4, <2>2, <2>3
<1>5. CASE n \notin DOMAIN lists /\ pushed[n] = <<Lu(id)>>
  BY <1>5
<1> QED
  <2> HIDE DEF pushed
  <2> QED
    BY <1>3, <1>4, <1>5, PushedList DEF pushed

\* What a step has to do for NoDanglingEntry to survive it.
LEMMA CoveredStep ==
    ASSUME IndInv, IndInv', NoDanglingEntry,
           NEW c \in Client, Alone(c), lost \subseteq lost',
           DOMAIN folderInfo \subseteq DOMAIN folderInfo',
           DOMAIN fileInfo \subseteq DOMAIN fileInfo',
           \A x \in Listed(folders') : x \in Listed(folders) \/ Unfinished("folder", x)',
           \A x \in Listed(files') : x \in Listed(files) \/ Unfinished("file", x)',
           \A x : (pc[c] = "HMSET" /\ x = Lu(reg[c].newId)) =>
              IF reg[c].op = "mkdir"
              THEN x \in DOMAIN folderInfo' \/ Unfinished("folder", x)'
              ELSE x \in DOMAIN fileInfo' \/ Unfinished("file", x)'
    PROVE  NoDanglingEntry'
<1>1. /\ \A x \in Listed(folders) : x \in DOMAIN folderInfo \/ Unfinished("folder", x)
      /\ \A x \in Listed(files) : x \in DOMAIN fileInfo \/ Unfinished("file", x)
  BY DEF NoDanglingEntry, Listed
<1>2. ASSUME NEW x \in Listed(folders')
      PROVE  x \in DOMAIN folderInfo' \/ Unfinished("folder", x)'
  BY <1>1, UnfinishedKept
<1>3. ASSUME NEW x \in Listed(files')
      PROVE  x \in DOMAIN fileInfo' \/ Unfinished("file", x)'
  BY <1>1, UnfinishedKept
<1>4. ASSUME NEW n \in DOMAIN folders', NEW i \in DOMAIN folders'[n]
      PROVE  folders'[n][i] \in Listed(folders')
  BY DEF Listed, IndInv, DbInv, DbTypeOK
<1>5. ASSUME NEW n \in DOMAIN files', NEW i \in DOMAIN files'[n]
      PROVE  files'[n][i] \in Listed(files')
  BY DEF Listed, IndInv, DbInv, DbTypeOK
<1> QED
  BY <1>2, <1>3, <1>4, <1>5 DEF NoDanglingEntry

LEMMA DanglingStep ==
    ASSUME IndInv, IndInv', NoDanglingEntry, NEW c \in Client,
           Start(c) \/ Type(c) \/ Step(c) \/ Kill(c)
    PROVE  NoDanglingEntry'
<1>f. /\ reg[c] \in Registers
      /\ reg[c].newId \in Long
      /\ reg[c].parentId \in Long
  BY RegisterFacts DEF Registers
<1>1. CASE pc[c] # "HMSET" /\ Alone(c) /\ UNCHANGED Entries
  BY <1>1, CoveredStep DEF Entries
<1>2. CASE Kill(c)
  <2>1. Alone(c) /\ UNCHANGED <<folderInfo, fileInfo, folders, files>>
    BY <1>2, AloneFacts DEF Kill, dbVars
  <2>2. lost \subseteq lost'
    BY <1>2 DEF Kill
  <2>3. ASSUME NEW x, pc[c] = "HMSET", x = Lu(reg[c].newId)
        PROVE  IF reg[c].op = "mkdir" THEN Unfinished("folder", x)'
                                      ELSE Unfinished("file", x)'
    BY <1>2, <2>3 DEF Kill, Unfinished
  <2> QED
    BY <2>1, <2>2, <2>3, CoveredStep
<1>3. CASE AddToList(c)
  <2>1. /\ pc[c] = "LPUSH"
        /\ Goto(c, "HMSET")
        /\ UNCHANGED <<folderInfo, fileInfo, reg, lost>>
    BY <1>3 DEF AddToList, auxVars
  <2>2. Alone(c)
    BY <2>1, AloneFacts
  <2>3. pc'[c] = "HMSET" /\ reg'[c] = reg[c]
    BY <2>1 DEF Goto, IndInv, ClientInv
  <2>4. CASE reg[c].op = "mkdir"
    <3>1. folders' = LPUSH(folders, reg[c].parentId, reg[c].newId) /\ files' = files
      BY <1>3, <2>4 DEF AddToList
    <3>2. Listed(folders') \subseteq Listed(folders) \cup {Lu(reg[c].newId)}
      BY <1>f, <3>1, ListedAfterPush DEF IndInv, DbInv, DbTypeOK
    <3>3. Unfinished("folder", Lu(reg[c].newId))'
      BY <2>3, <2>4 DEF Unfinished
    <3> QED
      BY <2>1, <2>2, <3>1, <3>2, <3>3, CoveredStep
  <2>5. CASE reg[c].op # "mkdir"
    <3>1. files' = LPUSH(files, reg[c].parentId, reg[c].newId) /\ folders' = folders
      BY <1>3, <2>5 DEF AddToList
    <3>2. Listed(files') \subseteq Listed(files) \cup {Lu(reg[c].newId)}
      BY <1>f, <3>1, ListedAfterPush DEF IndInv, DbInv, DbTypeOK
    <3>3. Unfinished("file", Lu(reg[c].newId))'
      BY <2>3, <2>5 DEF Unfinished
    <3> QED
      BY <2>1, <2>2, <3>1, <3>2, <3>3, CoveredStep
  <2> QED
    BY <2>4, <2>5
<1>4. CASE SetInfo(c)
  <2>1. Alone(c) /\ UNCHANGED <<folders, files, lost>>
    BY <1>4, AloneFacts DEF SetInfo, auxVars
  <2>2. /\ reg[c].op = "mkdir" => /\ DOMAIN folderInfo' = DOMAIN folderInfo \cup {Lu(reg[c].newId)}
                                  /\ fileInfo' = fileInfo
        /\ reg[c].op # "mkdir" => /\ DOMAIN fileInfo' = DOMAIN fileInfo \cup {Lu(reg[c].newId)}
                                  /\ folderInfo' = folderInfo
    BY <1>4 DEF SetInfo, HMSET
  <2> QED
    BY <2>1, <2>2, CoveredStep
<1> QED
  BY <1>1, <1>2, <1>3, <1>4, QuietSteps, NoBuild DEF Step, Boot, Create

\* mkdir and mkfile list an entry before they write its hash: the only
\* entries without one are those of creators that have yet to write it or
\* were killed before they could.
THEOREM NoneDangling == SpecBuilt => []NoDanglingEntry
<1>1. InitBuilt => NoDanglingEntry
  BY DEF InitBuilt, BuiltDb, EmptyMap, NoDanglingEntry
<1>2. IndInv /\ IndInv' /\ NoDanglingEntry /\ [Next]_vars => NoDanglingEntry'
  <2> SUFFICES ASSUME IndInv, IndInv', NoDanglingEntry, [Next]_vars
               PROVE  NoDanglingEntry'
    OBVIOUS
  <2>1. CASE UNCHANGED vars
    BY <2>1 DEF vars, dbVars, clientVars, auxVars, NoDanglingEntry, Unfinished
  <2> QED
    BY <2>1, DanglingStep DEF Next
<1> QED
  BY <1>1, <1>2, Inductive, PTL DEF SpecBuilt

-----------------------------------------------------------------------------
(* Nothing that was listed or has a hash is ever lost.                     *)

\* The shape of a reversed list.
LEMMA ReversedList ==
    ASSUME NEW list \in Seq(Nat)
    PROVE  /\ Reverse(list) \in Seq(Nat)
           /\ Len(Reverse(list)) = Len(list)
           /\ \A i \in 1 .. Len(list) : Reverse(list)[i] = list[Len(list) - i + 1]
<1>1. \A i \in 1 .. Len(list) : list[(Len(list) - i) + 1] \in Nat
  OBVIOUS
<1> QED
  BY <1>1 DEF Reverse

LEMMA SuffixIntro ==
    ASSUME NEW old \in Seq(Nat), NEW new \in Seq(Nat), Len(old) <= Len(new),
           \A i \in 1 .. Len(old) :
              old[Len(old) - i + 1] = new[Len(new) - i + 1]
    PROVE  IsSuffix(old, new)
<1> DEFINE r == Reverse(old)
           s == Reverse(new)
<1>1. /\ r \in Seq(Nat) /\ Len(r) = Len(old)
      /\ s \in Seq(Nat) /\ Len(s) = Len(new)
      /\ \A i \in 1 .. Len(old) : r[i] = s[i]
  BY ReversedList
<1> HIDE DEF r, s
<1>2. ASSUME NEW q \in Seq(Nat), NEW n \in Nat, n <= Len(q)
      PROVE  /\ SubSeq(q, 1, n) \in Seq(Nat)
             /\ Len(SubSeq(q, 1, n)) = n
             /\ \A i \in 1 .. n : SubSeq(q, 1, n)[i] = q[i]
  <2>1. \A i \in 1 .. n : q[i] \in Nat
    BY <1>2
  <2>2. /\ SubSeq(q, 1, n) \in Seq(Nat)
        /\ Len(SubSeq(q, 1, n)) = IF 1 <= n THEN n - 1 + 1 ELSE 0
        /\ \A i \in 1 .. n - 1 + 1 : SubSeq(q, 1, n)[i] = q[1 + i - 1]
    BY <2>1, SubSeqProperties
  <2> QED
    BY <2>2
<1>3. SubSeq(r, 1, Len(r)) = SubSeq(s, 1, Len(r))
  <2> DEFINE a == SubSeq(r, 1, Len(r))
             b == SubSeq(s, 1, Len(r))
  <2>1. /\ a \in Seq(Nat) /\ Len(a) = Len(r)
        /\ b \in Seq(Nat) /\ Len(b) = Len(r)
        /\ \A i \in 1 .. Len(r) : a[i] = r[i] /\ b[i] = s[i]
    BY <1>1, <1>2
  <2> HIDE DEF a, b
  <2> QED
    BY <1>1, <2>1, SeqEqual DEF a, b
<1> QED
  BY <1>1, <1>3 DEF IsSuffix, IsPrefix, r, s

LEMMA PushedSuffix ==
    ASSUME NEW list \in Seq(Nat), NEW id \in Nat
    PROVE  IsSuffix(list, list) /\ IsSuffix(list, <<id>> \o list)
<1>1. <<id>> \in Seq(Nat) /\ Len(<<id>>) = 1
  OBVIOUS
<1> DEFINE new == <<id>> \o list
<1>2. new \in Seq(Nat) /\ Len(new) = 1 + Len(list)
  BY <1>1, ConcatProperties
<1>3. ASSUME NEW j \in 2 .. 1 + Len(list) PROVE new[j] = list[j - 1]
  <2>1. j \in 1 .. Len(<<id>>) + Len(list) /\ ~(j <= Len(<<id>>))
    BY <1>1
  <2> QED
    BY <1>1, <2>1, ConcatProperties
<1> HIDE DEF new
<1>4. ASSUME NEW i \in 1 .. Len(list)
      PROVE  list[Len(list) - i + 1] = new[Len(new) - i + 1]
  <2> DEFINE j == Len(list) - i + 2
  <2>1. /\ j \in 2 .. 1 + Len(list)
        /\ j = Len(new) - i + 1
        /\ j - 1 = Len(list) - i + 1
    BY <1>2
  <2> HIDE DEF j
  <2>2. new[j] = list[j - 1]
    BY <1>3, <2>1
  <2> QED
    BY <2>1, <2>2
<1>5. IsSuffix(list, new)
  <2>1. Len(list) <= Len(new)
    BY <1>2
  <2> QED
    BY <1>2, <1>4, <2>1, SuffixIntro, Zenon
<1>6. IsSuffix(list, list)
  <2>1. Len(list) <= Len(list)
    OBVIOUS
  <2> QED
    BY <2>1, SuffixIntro, Zenon
<1> QED
  BY <1>5, <1>6 DEF new

LEMMA ListsGrowAfterPush ==
    ASSUME NEW lists, \A n \in DOMAIN lists : lists[n] \in Seq(Nat),
           NEW dirId \in Long, NEW id \in Long
    PROVE  /\ ListsGrow(lists, lists)
           /\ ListsGrow(lists, LPUSH(lists, dirId, id))
<1> DEFINE pushed == LPUSH(lists, dirId, id)
<1>1. ASSUME NEW n \in DOMAIN lists
      PROVE  IsSuffix(lists[n], lists[n]) /\ IsSuffix(lists[n], <<Lu(id)>> \o lists[n])
  BY LuType, PushedSuffix
<1>2. ASSUME NEW n \in DOMAIN lists
      PROVE  /\ n \in DOMAIN pushed
             /\ pushed[n] = lists[n] \/ pushed[n] = <<Lu(id)>> \o lists[n]
  BY PushedList
<1> HIDE DEF pushed
<1>3. ListsGrow(lists, lists) /\ ListsGrow(lists, pushed)
  BY <1>1, <1>2, Zenon DEF ListsGrow
<1> QED
  BY <1>3 DEF pushed

\* No start, restart or kill of a process, and no command, takes away what
\* any process has made: getInitialContext flushes only before the flag is
\* set, and LPUSH and HMSET only add.
THEOREM NothingIsLost == SpecBuilt => NothingLost
<1> DEFINE Kept == /\ DOMAIN folderInfo \subseteq DOMAIN folderInfo'
                   /\ DOMAIN fileInfo \subseteq DOMAIN fileInfo'
                   /\ ListsGrow(folders, folders')
                   /\ ListsGrow(files, files')
<1>1. IndInv /\ [Next]_vars => [Kept]_vars
  <2> SUFFICES ASSUME IndInv, NEW c \in Client, Start(c) \/ Type(c) \/ Step(c) \/ Kill(c)
               PROVE  Kept
    BY DEF Next
  <2>f. reg[c].newId \in Long /\ reg[c].parentId \in Long
    BY RegisterFacts DEF Registers
  <2>g. \A dirId \in Long, id \in Long :
           /\ ListsGrow(folders, folders) /\ ListsGrow(folders, LPUSH(folders, dirId, id))
           /\ ListsGrow(files, files) /\ ListsGrow(files, LPUSH(files, dirId, id))
    BY ListsGrowAfterPush DEF IndInv, DbInv, DbTypeOK
  <2>1. CASE UNCHANGED <<folderInfo, fileInfo, folders, files>>
    BY <2>1, <2>f, <2>g
  <2>2. CASE AddToList(c)
    BY <2>2, <2>f, <2>g DEF AddToList
  <2>3. CASE SetInfo(c)
    BY <2>3, <2>f, <2>g DEF SetInfo, HMSET
  <2>4. UNCHANGED Entries \/ Kill(c) \/ AddToList(c) \/ SetInfo(c)
    BY QuietSteps, NoBuild DEF Step, Boot, Create
  <2> QED
    BY <2>1, <2>2, <2>3, <2>4 DEF Entries, Kill, dbVars
<1> QED
  BY <1>1, Inductive, PTL DEF SpecBuilt, NothingLost

-----------------------------------------------------------------------------
(* A process dies of its own doing only with a cause.                      *)

\* The numbers that name a folder: one with a hash, or one in a list.
Known == DOMAIN folderInfo \cup Listed(folders)

\* Every folder number a process holds names a folder or is the -1 of "not
\* found"; a climb may also end in the LONG_MAX that strtol makes of the
\* unsigned -1.  The list replies being read hold numbers still listed, and
\* a file that was found has a hash.
Held(label, r) ==
    /\ r.cwdId \in Known \cup {NoId}
    /\ r.parentId \in Known \cup {NoId}
    /\ r.dir \in Known \cup {NoId} \/ (label = "name" /\ r.dir = LONG_MAX)
    /\ label \in {"file", "lsfile"} => \A i \in DOMAIN r.ids : r.ids[i] \in Listed(files)
    /\ label \in {"folder", "lsfolder"} => \A i \in DOMAIN r.ids : r.ids[i] \in Listed(folders)
    /\ label = "file" => r.id \in DOMAIN fileInfo \cup {NoId}
    /\ label = "parent" => r.id \in Known
    /\ label \in Searching \cup {"walk", "end"} => r.kind = "none"
    /\ r.kind = "file" => r.id \in DOMAIN fileInfo

\* So do the parents in the hashes of folders.
ParentsKnown ==
    \A n \in DOMAIN folderInfo : folderInfo[n].parent \in Known \cup {ULONG_MAX}

HeldInv == ParentsKnown /\ \A c \in Client : Held(pc[c], reg[c])

\* The numbers handed out so far fit in an int.  Beyond, the undeclared
\* vfs_findDirNameInDir cuts a folder's number into that of something else.
FitsInt == idCount <= INT_MAX + 1

\* Why a process may die.
Cause(c) == Dangling \/ reg[c].dir \notin 0 .. idCount - 1

\* What every step of c has to do.
Explained(c) == HeldInv' /\ (pc'[c] = "crashed" => Cause(c))

LEMMA KnownFacts ==
    ASSUME IndInv
    PROVE  /\ ROOT_FOLDER_ID \in Known
           /\ \A x \in Known \cup DOMAIN fileInfo \cup Listed(files) \cup Listed(folders) :
                 x \in Nat /\ x < idCount
           /\ idCount \in Nat
<1>1. ROOT_FOLDER_ID \in Known
  BY DEF IndInv, DbInv, ParentBelowChild, Known
<1> QED
  BY <1>1 DEF IndInv, DbInv, DbTypeOK, IdsBelowCounter, Known, Listed

\* Numbers that fit in an int come through printing, reading and cutting.
LEMMA SmallNumbers ==
    ASSUME IndInv, FitsInt, NEW n \in Nat, n < idCount
    PROVE  /\ n \in Long /\ Lu(n) = n /\ Strtol(n) = n /\ ToInt(n) = n
           /\ n # NoId
<1>1. n <= INT_MAX /\ idCount \in Nat
  BY KnownFacts, WidthAssumption DEF FitsInt
<1> QED
  BY <1>1, WidthAssumption DEF Long, Lu, Strtol, ToInt, NoId

LEMMA ListedReply ==
    ASSUME IndInv, FitsInt, NEW n \in Long, NEW lists \in {folders, files}
    PROVE  \A i \in DOMAIN Ids(LRANGE(lists, n)) :
              Ids(LRANGE(lists, n))[i] \in Listed(lists)
<1> DEFINE list == LRANGE(lists, n)
<1>1. list \in Seq(Nat)
  BY LuType DEF IndInv, DbInv, DbTypeOK, LRANGE
<1>2. \A i \in DOMAIN list : list[i] < idCount /\ list[i] \in Listed(lists)
  BY LuType, <1>1 DEF IndInv, DbInv, IdsBelowCounter, LRANGE, Listed
<1> HIDE DEF list
<1>3. DOMAIN Ids(list) = 1 .. Len(list) /\ DOMAIN list = 1 .. Len(list)
  BY <1>1 DEF Ids
<1>4. \A i \in DOMAIN Ids(list) : Ids(list)[i] = Strtol(list[i])
  BY <1>3 DEF Ids
<1>5. \A i \in DOMAIN list : list[i] \in Nat
  BY <1>1
<1>6. \A i \in DOMAIN list : Strtol(list[i]) = list[i]
  BY <1>2, <1>5, SmallNumbers
<1> QED
  BY <1>2, <1>3, <1>4, <1>6 DEF list

LEMMA ParentKnown ==
    ASSUME IndInv, HeldInv, FitsInt, NEW n \in Long, HasInfo(folderInfo, n)
    PROVE  /\ HGETparent(folderInfo, n) \in Known \cup {LONG_MAX}
           /\ ToInt(HGETparent(folderInfo, n)) \in Known \cup {NoId}
<1> DEFINE p == folderInfo[Lu(n)].parent
<1>1. p \in Known \cup {ULONG_MAX}
  BY DEF HasInfo, HeldInv, ParentsKnown
<1>2. HGETparent(folderInfo, n) = Strtol(p)
  BY DEF HGETparent
<1> HIDE DEF p
<1>3. CASE p = ULONG_MAX
  <2>1. Strtol(p) = LONG_MAX
    BY <1>3, WidthAssumption DEF Strtol, ULONG_MAX
  <2>2. ToInt(LONG_MAX) = NoId
    BY ToIntType, ConstantsAreLong
  <2> QED
    BY <1>2, <2>1, <2>2
<1>4. CASE p \in Known
  BY <1>2, <1>4, KnownFacts, SmallNumbers
<1> QED
  BY <1>1, <1>3, <1>4

\* A process changes its label and registers, and the store only grows.
LEMMA HeldGrows ==
    ASSUME IndInv, HeldInv, ParentsKnown',
           NEW c \in Client, NEW label, NEW r, Held(label, r)',
           pc' = [pc EXCEPT ![c] = label], reg' = [reg EXCEPT ![c] = r],
           Known \subseteq Known', DOMAIN fileInfo \subseteq DOMAIN fileInfo',
           Listed(folders) \subseteq Listed(folders)', Listed(files) \subseteq Listed(files)'
    PROVE  HeldInv' /\ pc'[c] = label
<1>1. pc'[c] = label /\ reg'[c] = r
  BY DEF IndInv, ClientInv
<1>2. ASSUME NEW d \in Client PROVE Held(pc[d], reg[d])'
  <2>1. CASE d = c
    BY <1>1, <2>1 DEF Held
  <2>2. CASE d # c
    <3>1. pc'[d] = pc[d] /\ reg'[d] = reg[d]
      BY <2>2 DEF IndInv, ClientInv
    <3>2. Held(pc[d], reg[d])
      BY DEF HeldInv
    <3> QED
      BY <3>1, <3>2 DEF Held
  <2> QED
    BY <2>1, <2>2
<1> QED
  BY <1>1, <1>2 DEF HeldInv

LEMMA HeldStays ==
    ASSUME IndInv, HeldInv, NEW c \in Client, NEW label, NEW r, Held(label, r),
           pc' = [pc EXCEPT ![c] = label], reg' = [reg EXCEPT ![c] = r],
           UNCHANGED <<folderInfo, fileInfo, folders, files>>
    PROVE  HeldInv' /\ pc'[c] = label
<1>1. ParentsKnown' /\ Held(label, r)'
  BY DEF HeldInv, ParentsKnown, Held, Known, Listed
<1>2. /\ Known \subseteq Known' /\ DOMAIN fileInfo \subseteq DOMAIN fileInfo'
      /\ Listed(folders) \subseteq Listed(folders)' /\ Listed(files) \subseteq Listed(files)'
  BY DEF Known, Listed
<1> QED
  BY <1>1, <1>2, HeldGrows

LEMMA BlankIsHeld ==
    ASSUME NEW label \in RestLabels
    PROVE  Held(label, Blank)
BY DEF RestLabels, Held, Blank, Searching

LEMMA HeldLocal ==
    ASSUME IndInv, HeldInv, NEW c \in Client, NEW label, NEW r, Held(label, r),
           Local(c, label, r), label # "crashed"
    PROVE  Explained(c)
BY HeldStays DEF Local, Goto, Set, dbVars, Explained

LEMMA HeldPrompt ==
    ASSUME IndInv, HeldInv, NEW c \in Client, Prompt(c), UNCHANGED dbVars
    PROVE  Explained(c)
<1>1. Held("idle", Blank)
  BY BlankIsHeld DEF RestLabels
<1>2. /\ pc' = [pc EXCEPT ![c] = "idle"] /\ reg' = [reg EXCEPT ![c] = Blank]
      /\ UNCHANGED <<folderInfo, fileInfo, folders, files>>
  BY DEF Prompt, Goto, Set, dbVars
<1>3. HeldInv' /\ pc'[c] = "idle"
  BY <1>1, <1>2, HeldStays
<1> QED
  BY <1>3 DEF Explained

LEMMA HeldReturn ==
    ASSUME IndInv, HeldInv, NEW c \in Client, NEW r, Held("call", r),
           Return(c, r), UNCHANGED dbVars
    PROVE  Explained(c)
<1>1. CASE Prompt(c)
  BY <1>1, HeldPrompt
<1>2. CASE Goto(c, "call") /\ Set(c, r)
  <2>1. /\ pc' = [pc EXCEPT ![c] = "call"] /\ reg' = [reg EXCEPT ![c] = r]
        /\ UNCHANGED <<folderInfo, fileInfo, folders, files>>
    BY <1>2 DEF Goto, Set, dbVars
  <2>2. HeldInv' /\ pc'[c] = "call"
    BY <2>1, HeldStays
  <2> QED
    BY <2>2 DEF Explained
<1> QED
  BY <1>1, <1>2 DEF Return

LEMMA HeldCrash ==
    ASSUME IndInv, HeldInv, NEW c \in Client, Crash(c), Cause(c)
    PROVE  Explained(c)
<1>1. Held("crashed", Blank)
  BY BlankIsHeld DEF RestLabels
<1> QED
  BY <1>1, HeldStays DEF Crash, Goto, Set, dbVars, Explained

\* What a process reads from its registers.
LEMMA HeldFacts ==
    ASSUME IndInv, HeldInv, NEW c \in Client
    PROVE  /\ reg[c] \in Registers
           /\ reg[c].ids \in Seq(Nat) /\ reg[c].dir \in Long /\ reg[c].id \in Long
           /\ Held(pc[c], reg[c])
BY RegisterFacts DEF HeldInv, Registers

\* A number that names no folder is a cause; so is a listed one without hash.
LEMMA NoFolder ==
    ASSUME IndInv, FitsInt, NEW n \in Known \cup {NoId, LONG_MAX}, ~HasInfo(folderInfo, n)
    PROVE  Dangling \/ n \notin 0 .. idCount - 1
<1>1. CASE n \in Known
  <2>1. Lu(n) = n
    BY <1>1, KnownFacts, SmallNumbers
  <2>2. n \in Listed(folders)
    BY <1>1, <2>1 DEF HasInfo, Known
  <2> QED
    BY <2>1, <2>2 DEF HasInfo, Listed, Dangling
<1>2. CASE n = NoId
  BY <1>2 DEF NoId
<1>3. CASE n = LONG_MAX
  BY <1>3, KnownFacts, WidthAssumption DEF FitsInt
<1> QED
  BY <1>1, <1>2, <1>3

LEMMA KnownNumber ==
    ASSUME IndInv, FitsInt, NEW n \in Known \cup {NoId}
    PROVE  n \in Long /\ ToInt(n) = n
<1>1. CASE n \in Known
  BY <1>1, KnownFacts, SmallNumbers
<1>2. CASE n = NoId
  BY <1>2, WidthAssumption, ConstantsAreLong DEF ToInt, NoId
<1> QED
  BY <1>1, <1>2

\* A listed number without a hash.
LEMMA ListedNumber ==
    ASSUME IndInv, FitsInt
    PROVE  /\ \A x \in Listed(files) : ~HasInfo(fileInfo, x) => Dangling
           /\ \A x \in Listed(folders) : ~HasInfo(folderInfo, x) => Dangling
           /\ \A x \in Listed(files) \cup Listed(folders) \cup DOMAIN fileInfo :
                 x \in Nat /\ Lu(x) = x /\ x # NoId
           /\ \A x \in Listed(folders) : ToInt(x) \in Known
<1>1. \A x \in Listed(files) \cup Listed(folders) \cup DOMAIN fileInfo :
          x \in Nat /\ Lu(x) = x /\ x # NoId /\ ToInt(x) = x
  BY KnownFacts, SmallNumbers
<1> QED
  BY <1>1 DEF HasInfo, Dangling, Listed, Known

LEMMA HeldNothing ==
    ASSUME IndInv, HeldInv, NEW c \in Client, pc[c] \in Searching, FoundNothing(c)
    PROVE  Explained(c)
<1>1. reg[c] \in Registers /\ Held(pc[c], reg[c]) /\ pc[c] # "name"
  BY HeldFacts DEF Searching
<1>2. CASE AtLastName(c)
  <2> DEFINE r == [reg[c] EXCEPT !.parentId = reg[c].dir]
  <2>1. Held("call", r)
    BY <1>1 DEF Registers, Held, Searching
  <2>2. Return(c, r) /\ UNCHANGED dbVars
    BY <1>2 DEF FoundNothing, ParsedNothing
  <2> HIDE DEF r
  <2> QED
    BY <2>1, <2>2, HeldReturn
<1>3. CASE ~AtLastName(c)
  <2> DEFINE r == [reg[c] EXCEPT !.dir = NoId]
  <2>1. Held("end", r)
    BY <1>1 DEF Registers, Held, Searching
  <2>2. Local(c, "end", r)
    BY <1>3 DEF FoundNothing, WalkFails
  <2> HIDE DEF r
  <2> QED
    BY <2>1, <2>2, HeldLocal
<1> QED
  BY <1>2, <1>3

LEMMA HeldFile ==
    ASSUME IndInv, HeldInv, NEW c \in Client, pc[c] = "file", reg[c].id # NoId,
           FoundFile(c, reg[c].id)
    PROVE  Explained(c)
<1>1. reg[c] \in Registers /\ Held("file", reg[c])
  BY HeldFacts
<1>2. CASE AtLastName(c) /\ reg[c].op = "stat"
  <2> DEFINE r == [reg[c] EXCEPT !.id = reg[c].id, !.kind = "file"]
  <2>1. Held("call", r)
    BY <1>1 DEF Registers, Held, Searching
  <2>2. /\ pc' = [pc EXCEPT ![c] = "call"] /\ reg' = [reg EXCEPT ![c] = r]
        /\ UNCHANGED <<folderInfo, fileInfo, folders, files>>
    BY <1>2 DEF FoundFile, ParsedFile, Goto, Set, dbVars
  <2> HIDE DEF r
  <2>3. HeldInv' /\ pc'[c] = "call"
    BY <2>1, <2>2, HeldStays
  <2> QED
    BY <2>3 DEF Explained
<1>3. CASE AtLastName(c) /\ reg[c].op # "stat"
  <2> DEFINE r == [reg[c] EXCEPT !.id = reg[c].id, !.kind = "file", !.parentId = reg[c].dir]
  <2>1. Held("call", r)
    BY <1>1 DEF Registers, Held, Searching
  <2>2. Return(c, r) /\ UNCHANGED dbVars
    BY <1>3 DEF FoundFile, ParsedFile
  <2> HIDE DEF r
  <2> QED
    BY <2>1, <2>2, HeldReturn
<1>4. CASE ~AtLastName(c)
  BY <1>4, HeldNothing DEF FoundFile, FoundNothing, Searching
<1> QED
  BY <1>2, <1>3, <1>4

LEMMA HeldDir ==
    ASSUME IndInv, HeldInv, NEW c \in Client, pc[c] \in Searching,
           NEW id, ToInt(id) \in Known \cup {NoId}, FoundDir(c, id)
    PROVE  Explained(c)
<1> DEFINE n == ToInt(id)
<1>1. reg[c] \in Registers /\ Held(pc[c], reg[c]) /\ pc[c] # "name"
  BY HeldFacts DEF Searching
<1>2. CASE n = NoId
  BY <1>2, HeldNothing DEF FoundDir
<1>3. CASE n # NoId /\ AtLastName(c)
  <2> DEFINE r == [reg[c] EXCEPT !.id = n, !.kind = "dir"]
  <2>1. Local(c, "parent", r)
    BY <1>3 DEF FoundDir, ParsedDir
  <2> HIDE DEF n
  <2>2. Held("parent", r)
    BY <1>1, <1>3 DEF Registers, Held, Searching, n
  <2> HIDE DEF r
  <2> QED
    BY <2>1, <2>2, HeldLocal
<1>4. CASE n # NoId /\ ~AtLastName(c)
  <2> DEFINE r == [reg[c] EXCEPT !.dir = n, !.pos = @ + NameLength(c) + 1]
  <2>1. Local(c, "walk", r)
    BY <1>4 DEF FoundDir, WalkInto
  <2> HIDE DEF n
  <2>2. Held("walk", r)
    BY <1>1, <1>4 DEF Registers, Held, Searching, n
  <2> HIDE DEF r
  <2> QED
    BY <2>1, <2>2, HeldLocal
<1> QED
  BY <1>2, <1>3, <1>4

\* One lemma per group of actions: the numbers a process holds go on naming
\* what they name, and a crash has its cause.
LEMMA HeldCalls ==
    ASSUME IndInv, HeldInv, FitsInt, NEW c \in Client,
           CallRoot(c) \/ CallWalk(c) \/ CallChdir(c) \/ CallCreate(c)
             \/ LsFiles(c) \/ LsFolders(c) \/ Walk(c)
    PROVE  Explained(c)
<1>f. reg[c] \in Registers /\ Held(pc[c], reg[c]) /\ reg[c].dir \in Long
  BY HeldFacts
<1>1. CASE CallRoot(c)
  <2> DEFINE r == [reg[c] EXCEPT !.id = ROOT_FOLDER_ID, !.kind = "dir",
                                 !.parentId = ROOT_PARENT_ID]
  <2>1. pc[c] = "call" /\ Return(c, r) /\ UNCHANGED dbVars
    BY <1>1 DEF CallRoot
  <2>2. Held("call", r)
    BY <1>f, <2>1 DEF Registers, Held, Searching, ROOT_PARENT_ID, NoId
  <2> HIDE DEF r
  <2> QED
    BY <2>1, <2>2, HeldReturn
<1>2. CASE CallWalk(c)
  <2> DEFINE abs == IsAbsolute(WalkedPath(c))
             dir == IF abs THEN ROOT_FOLDER_ID ELSE reg[c].cwdId
             r == [reg[c] EXCEPT !.pos = IF abs THEN 1 ELSE 0, !.dir = dir,
                                 !.id = NoId, !.kind = "none", !.parentId = NoId]
  <2>1. pc[c] = "call" /\ Local(c, "walk", r)
    BY <1>2 DEF CallWalk
  <2>2. dir \in Known \cup {NoId}
    BY <1>f, KnownFacts DEF Held
  <2> HIDE DEF dir
  <2>3. Held("walk", r)
    BY <1>f, <2>1, <2>2 DEF Registers, Held, Searching
  <2> HIDE DEF r
  <2> QED
    BY <2>1, <2>3, HeldLocal
<1>3. CASE CallChdir(c)
  <2> DEFINE r == [reg[c] EXCEPT !.left = <<>>]
  <2>1. pc[c] = "call" /\ Local(c, "name", r)
    BY <1>3 DEF CallChdir
  <2>2. Held("name", r)
    BY <1>f, <2>1 DEF Registers, Held, Searching
  <2> HIDE DEF r
  <2> QED
    BY <2>1, <2>2, HeldLocal
<1>4. CASE CallCreate(c)
  <2>1. pc[c] = "call" /\ Local(c, "GET", reg[c])
    BY <1>4 DEF CallCreate
  <2>2. Held("GET", reg[c])
    BY <1>f, <2>1 DEF Held, Searching
  <2> QED
    BY <2>1, <2>2, HeldLocal
<1>5. CASE LsFiles(c)
  <2> DEFINE list == Ids(LRANGE(files, reg[c].dir))
             r == [reg[c] EXCEPT !.ids = list]
  <2>1. pc[c] = "call" /\ Local(c, "lsfile", r)
    BY <1>5 DEF LsFiles
  <2>2. \A i \in DOMAIN list : list[i] \in Listed(files)
    BY <1>f, ListedReply
  <2> HIDE DEF list
  <2>3. Held("lsfile", r)
    BY <1>f, <2>1, <2>2 DEF Registers, Held, Searching
  <2> HIDE DEF r
  <2> QED
    BY <2>1, <2>3, HeldLocal
<1>6. CASE LsFolders(c)
  <2> DEFINE list == Ids(LRANGE(folders, reg[c].dir))
             r == [reg[c] EXCEPT !.ids = list]
  <2>1. pc[c] = "call" /\ Local(c, "lsfolder", r)
    BY <1>6 DEF LsFolders
  <2>2. \A i \in DOMAIN list : list[i] \in Listed(folders)
    BY <1>f, ListedReply
  <2> HIDE DEF list
  <2>3. Held("lsfolder", r)
    BY <1>f, <2>1, <2>2 DEF Registers, Held, Searching
  <2> HIDE DEF r
  <2> QED
    BY <2>1, <2>3, HeldLocal
<1>7. CASE Walk(c)
  <2> DEFINE label == IF AtLastName(c) THEN "end" ELSE "files"
  <2>1. pc[c] = "walk" /\ Local(c, label, reg[c])
    BY <1>7 DEF Walk
  <2>2. Held(label, reg[c]) /\ label # "crashed"
    BY <1>f, <2>1 DEF Held, Searching
  <2> HIDE DEF label
  <2> QED
    BY <2>1, <2>2, HeldLocal
<1> QED
  BY <1>1, <1>2, <1>3, <1>4, <1>5, <1>6, <1>7

LEMMA HeldFinds ==
    ASSUME IndInv, HeldInv, FitsInt, NEW c \in Client,
           FindFiles(c) \/ FindFile(c) \/ FindFileEnd(c) \/ FindDotDot(c)
             \/ FindFolders(c) \/ FindFolder(c) \/ FindFolderEnd(c)
    PROVE  Explained(c)
<1>f. /\ reg[c] \in Registers /\ Held(pc[c], reg[c])
      /\ reg[c].dir \in Long /\ reg[c].ids \in Seq(Nat)
  BY HeldFacts
<1>t. ASSUME reg[c].ids # <<>>
      PROVE  /\ Head(reg[c].ids) = reg[c].ids[1] /\ 1 \in DOMAIN reg[c].ids
             /\ \A i \in DOMAIN Tail(reg[c].ids) :
                   i + 1 \in DOMAIN reg[c].ids /\ Tail(reg[c].ids)[i] = reg[c].ids[i + 1]
  BY <1>f, <1>t
<1>1. CASE FindFiles(c)
  <2> DEFINE list == Ids(LRANGE(files, reg[c].dir))
             r == [reg[c] EXCEPT !.ids = list, !.id = NoId]
  <2>1. pc[c] = "files" /\ Local(c, "file", r)
    BY <1>1 DEF FindFiles
  <2>2. \A i \in DOMAIN list : list[i] \in Listed(files)
    BY <1>f, ListedReply
  <2> HIDE DEF list
  <2>3. Held("file", r)
    BY <1>f, <2>1, <2>2 DEF Registers, Held, Searching
  <2> HIDE DEF r
  <2> QED
    BY <2>1, <2>3, HeldLocal
<1>2. CASE FindFile(c)
  <2> DEFINE fileId == Head(reg[c].ids)
             match == IF FileNameMatches(HGETname(fileInfo, fileId), Rest(c), NameLength(c))
                      THEN fileId ELSE reg[c].id
             r == [reg[c] EXCEPT !.ids = Tail(reg[c].ids), !.id = match]
  <2>1. reg[c].ids # <<>> /\ pc[c] = "file"
    BY <1>2 DEF FindFile
  <2>2. fileId \in Listed(files)
    BY <1>f, <1>t, <2>1 DEF Held
  <2>3. CASE ~HasInfo(fileInfo, fileId)
    <3>1. Crash(c) /\ Dangling
      BY <1>2, <2>2, <2>3, ListedNumber DEF FindFile
    <3> QED
      BY <3>1, HeldCrash DEF Cause
  <2>4. CASE HasInfo(fileInfo, fileId)
    <3>1. Local(c, "file", r)
      BY <1>2, <1>f, <2>4 DEF FindFile, Registers
    <3>2. fileId \in DOMAIN fileInfo
      BY <2>2, <2>4, ListedNumber DEF HasInfo
    <3>3. match \in DOMAIN fileInfo \cup {NoId}
      BY <1>f, <2>1, <3>2 DEF Held
    <3> HIDE DEF match
    <3>4. Held("file", r)
      BY <1>f, <1>t, <2>1, <3>3 DEF Registers, Held, Searching
    <3> HIDE DEF r
    <3> QED
      BY <3>1, <3>4, HeldLocal
  <2> QED
    BY <2>3, <2>4
<1>3. CASE FindFileEnd(c)
  <2>1. pc[c] = "file" /\ pc[c] \in Searching
    BY <1>3 DEF FindFileEnd, Searching
  <2>2. ToInt(reg[c].dir) \in Known \cup {NoId}
    BY <1>f, <2>1, KnownNumber DEF Held
  <2>3. Held("dotdot", reg[c]) /\ Held("folders", reg[c])
    BY <1>f, <2>1 DEF Held, Searching
  <2>4. \/ reg[c].id # NoId /\ FoundFile(c, reg[c].id)
        \/ FoundDir(c, reg[c].dir)
        \/ Local(c, "dotdot", reg[c])
        \/ Local(c, "folders", reg[c])
    BY <1>3 DEF FindFileEnd
  <2> QED
    BY <2>1, <2>2, <2>3, <2>4, HeldFile, HeldDir, HeldLocal
<1>4. CASE FindDotDot(c)
  <2>1. pc[c] \in Searching /\ pc[c] = "dotdot"
    BY <1>4 DEF FindDotDot, Searching
  <2>2. CASE HasInfo(folderInfo, reg[c].dir)
    <3>1. ToInt(HGETparent(folderInfo, reg[c].dir)) \in Known \cup {NoId}
      BY <1>f, <2>2, ParentKnown
    <3>2. FoundDir(c, HGETparent(folderInfo, reg[c].dir))
      BY <1>4, <2>2 DEF FindDotDot
    <3> QED
      BY <2>1, <3>1, <3>2, HeldDir
  <2>3. CASE ~HasInfo(folderInfo, reg[c].dir)
    <3>1. Crash(c)
      BY <1>4, <2>3 DEF FindDotDot
    <3>2. reg[c].dir \in Known \cup {NoId}
      BY <1>f, <2>1 DEF Held
    <3>3. Cause(c)
      BY <2>3, <3>2, NoFolder DEF Cause
    <3> QED
      BY <3>1, <3>3, HeldCrash
  <2> QED
    BY <2>2, <2>3
<1>5. CASE FindFolders(c)
  <2> DEFINE list == Ids(LRANGE(folders, reg[c].dir))
             r == [reg[c] EXCEPT !.ids = list]
  <2>1. pc[c] = "folders" /\ Local(c, "folder", r)
    BY <1>5 DEF FindFolders
  <2>2. \A i \in DOMAIN list : list[i] \in Listed(folders)
    BY <1>f, ListedReply
  <2> HIDE DEF list
  <2>3. Held("folder", r)
    BY <1>f, <2>1, <2>2 DEF Registers, Held, Searching
  <2> HIDE DEF r
  <2> QED
    BY <2>1, <2>3, HeldLocal
<1>6. CASE FindFolder(c)
  <2> DEFINE dirId == Head(reg[c].ids)
             r == [reg[c] EXCEPT !.ids = Tail(reg[c].ids)]
  <2>1. reg[c].ids # <<>> /\ pc[c] = "folder" /\ pc[c] \in Searching
    BY <1>6 DEF FindFolder, Searching
  <2>2. dirId \in Listed(folders)
    BY <1>f, <1>t, <2>1 DEF Held
  <2>3. CASE ~HasInfo(folderInfo, dirId)
    <3>1. Crash(c) /\ Dangling
      BY <1>6, <2>2, <2>3, ListedNumber DEF FindFolder
    <3> QED
      BY <3>1, HeldCrash DEF Cause
  <2>4. CASE FoundDir(c, dirId)
    BY <2>1, <2>2, <2>4, ListedNumber, HeldDir
  <2>5. CASE Local(c, "folder", r)
    <3>1. Held("folder", r)
      BY <1>f, <1>t, <2>1 DEF Registers, Held, Searching
    <3> HIDE DEF r
    <3> QED
      BY <2>5, <3>1, HeldLocal
  <2>6. ~HasInfo(folderInfo, dirId) \/ FoundDir(c, dirId) \/ Local(c, "folder", r)
    BY <1>6, <1>f DEF FindFolder, Registers
  <2> QED
    BY <2>3, <2>4, <2>5, <2>6
<1>7. CASE FindFolderEnd(c)
  BY <1>7, HeldNothing DEF FindFolderEnd, Searching
<1> QED
  BY <1>1, <1>2, <1>3, <1>4, <1>5, <1>6, <1>7

LEMMA HeldEnds ==
    ASSUME IndInv, HeldInv, FitsInt, NEW c \in Client,
           ParseParent(c) \/ EndCwd(c) \/ EndLeft(c) \/ EndTarget(c) \/ EndParse(c)
    PROVE  Explained(c)
<1>f. /\ reg[c] \in Registers /\ Held(pc[c], reg[c])
      /\ reg[c].dir \in Long /\ reg[c].id \in Long
  BY HeldFacts
<1>1. CASE ParseParent(c)
  <2>1. pc[c] = "parent" /\ reg[c].id \in Known
    BY <1>1, <1>f DEF ParseParent, Held
  <2>2. CASE HasInfo(folderInfo, reg[c].id)
    <3> DEFINE p == ToInt(HGETparent(folderInfo, reg[c].id))
               r == [reg[c] EXCEPT !.parentId = p]
    <3>1. Return(c, r) /\ UNCHANGED dbVars
      BY <1>1, <2>2 DEF ParseParent
    <3>2. p \in Known \cup {NoId}
      BY <1>f, <2>2, ParentKnown
    <3> HIDE DEF p
    <3>3. Held("call", r)
      BY <1>f, <2>1, <3>2 DEF Registers, Held, Searching
    <3> HIDE DEF r
    <3> QED
      BY <3>1, <3>3, HeldReturn
  <2>3. CASE ~HasInfo(folderInfo, reg[c].id)
    <3>1. Crash(c)
      BY <1>1, <2>3 DEF ParseParent
    <3>2. reg[c].id \in 0 .. idCount - 1
      BY <2>1, KnownFacts
    <3>3. Dangling
      BY <2>1, <2>3, <3>2, NoFolder
    <3> QED
      BY <3>1, <3>3, HeldCrash DEF Cause
  <2> QED
    BY <2>2, <2>3
<1>2. CASE EndCwd(c)
  <2> DEFINE r == [reg[c] EXCEPT !.cwdId = reg[c].dir]
  <2>1. pc[c] = "end" /\ Return(c, r) /\ UNCHANGED dbVars
    BY <1>2 DEF EndCwd
  <2>2. Held("call", r)
    BY <1>f, <2>1 DEF Registers, Held, Searching
  <2> HIDE DEF r
  <2> QED
    BY <2>1, <2>2, HeldReturn
<1>3. CASE EndLeft(c)
  <2> DEFINE r == [reg[c] EXCEPT !.left = <<>>]
  <2>1. pc[c] = "end"
    BY <1>3 DEF EndLeft
  <2>2. CASE reg[c].dir = NoId
    BY <1>3, <2>2, HeldCrash DEF EndLeft, Cause, NoId
  <2>3. CASE reg[c].dir # NoId
    <3>1. Local(c, "name", r)
      BY <1>3, <2>3 DEF EndLeft
    <3>2. Held("name", r)
      BY <1>f, <2>1 DEF Registers, Held, Searching
    <3> HIDE DEF r
    <3> QED
      BY <3>1, <3>2, HeldLocal
  <2> QED
    BY <2>2, <2>3
<1>4. CASE EndTarget(c)
  <2>1. Prompt(c) \/ Return(c, reg[c])
    BY <1>4 DEF EndTarget
  <2>2. pc[c] = "end" /\ UNCHANGED dbVars
    BY <1>4 DEF EndTarget
  <2>3. Held("call", reg[c])
    BY <1>f, <2>2 DEF Held, Searching
  <2> QED
    BY <1>f, <2>1, <2>2, <2>3, HeldPrompt, HeldReturn
<1>5. CASE EndParse(c)
  <2> DEFINE off == vfs_seperatePathAndName(reg[c].arg, PathLength(c)).nameOffset
             r == [reg[c] EXCEPT !.pos = off]
  <2>1. pc[c] = "end"
    BY <1>5 DEF EndParse
  <2>2. \/ Local(c, "files", r)
        \/ Prompt(c) /\ UNCHANGED dbVars
        \/ Return(c, reg[c]) /\ UNCHANGED dbVars
    BY <1>5 DEF EndParse
  <2> HIDE DEF off
  <2>3. Held("call", reg[c]) /\ Held("files", r)
    BY <1>f, <2>1 DEF Registers, Held, Searching
  <2> HIDE DEF r
  <2> QED
    BY <1>f, <2>2, <2>3, HeldLocal, HeldPrompt, HeldReturn
<1> QED
  BY <1>1, <1>2, <1>3, <1>4, <1>5

LEMMA HeldClimbs ==
    ASSUME IndInv, HeldInv, FitsInt, NEW c \in Client,
           ClimbName(c) \/ ClimbUp(c) \/ ClimbEnd(c)
    PROVE  Explained(c)
<1>f. /\ reg[c] \in Registers /\ Held(pc[c], reg[c]) /\ reg[c].dir \in Long
      /\ reg[c].dir \in Known \cup {NoId, LONG_MAX}
  BY HeldFacts DEF Held
<1>1. CASE ClimbName(c)
  <2>1. CASE HasInfo(folderInfo, reg[c].dir)
    <3> DEFINE left == <<"/">> \o HGETname(folderInfo, reg[c].dir) \o reg[c].left
               r == [reg[c] EXCEPT !.left = left]
    <3>1. pc[c] = "name" /\ Local(c, "up", r)
      BY <1>1, <1>f, <2>1 DEF ClimbName, Registers
    <3>2. reg[c].dir # LONG_MAX
      <4>1. Lu(reg[c].dir) < idCount
        BY <2>1, KnownFacts DEF HasInfo, Known
      <4>2. Lu(LONG_MAX) = LONG_MAX
        BY WidthAssumption DEF Lu
      <4> QED
        BY <4>1, <4>2, KnownFacts, WidthAssumption DEF FitsInt
    <3> HIDE DEF left
    <3>3. Held("up", r)
      BY <1>f, <3>1, <3>2 DEF Registers, Held, Searching
    <3> HIDE DEF r
    <3> QED
      BY <3>1, <3>3, HeldLocal
  <2>2. CASE ~HasInfo(folderInfo, reg[c].dir)
    <3>1. Crash(c)
      BY <1>1, <2>2 DEF ClimbName
    <3>2. Cause(c)
      BY <1>f, <2>2, NoFolder DEF Cause
    <3> QED
      BY <3>1, <3>2, HeldCrash
  <2> QED
    BY <2>1, <2>2
<1>2. CASE ClimbUp(c)
  <2> DEFINE dir == IF HasInfo(folderInfo, reg[c].dir)
                    THEN HGETparent(folderInfo, reg[c].dir) ELSE NoId
             r == [reg[c] EXCEPT !.dir = dir]
  <2>1. pc[c] = "up" /\ Local(c, "name", r)
    BY <1>2, <1>f DEF ClimbUp, Registers
  <2>2. dir \in Known \cup {NoId, LONG_MAX}
    BY <1>f, ParentKnown
  <2> HIDE DEF dir
  <2>3. Held("name", r)
    BY <1>f, <2>1, <2>2 DEF Registers, Held, Searching
  <2> HIDE DEF r
  <2> QED
    BY <2>1, <2>3, HeldLocal
<1>3. CASE ClimbEnd(c)
  <2> DEFINE arg == Append(reg[c].left, "/") \o removeAnyPathPrefix(reg[c].arg)
             r == [reg[c] EXCEPT !.arg = arg]
  <2>1. /\ pc[c] = "name" /\ reg[c].dir = ROOT_FOLDER_ID
        /\ Return(c, r) \/ Return(c, reg[c])
        /\ UNCHANGED dbVars
    BY <1>3, <1>f DEF ClimbEnd, Registers
  <2> HIDE DEF arg
  <2>2. Held("call", r) /\ Held("call", reg[c])
    BY <1>f, <2>1, KnownFacts DEF Registers, Held, Searching
  <2> HIDE DEF r
  <2> QED
    BY <1>f, <2>1, <2>2, HeldReturn
<1> QED
  BY <1>1, <1>2, <1>3

LEMMA HeldLists ==
    ASSUME IndInv, HeldInv, FitsInt, NEW c \in Client, LsEntry(c) \/ LsEnd(c) \/ StatName(c)
    PROVE  Explained(c)
<1>f. /\ reg[c] \in Registers /\ Held(pc[c], reg[c]) /\ reg[c].ids \in Seq(Nat)
  BY HeldFacts
<1>1. CASE LsEntry(c)
  <2> DEFINE info == IF pc[c] = "lsfile" THEN fileInfo ELSE folderInfo
             r == [reg[c] EXCEPT !.ids = Tail(reg[c].ids)]
  <2>1. pc[c] \in {"lsfile", "lsfolder"} /\ reg[c].ids # <<>>
    BY <1>1 DEF LsEntry
  <2>2. /\ Head(reg[c].ids) = reg[c].ids[1] /\ 1 \in DOMAIN reg[c].ids
        /\ \A i \in DOMAIN Tail(reg[c].ids) :
              i + 1 \in DOMAIN reg[c].ids /\ Tail(reg[c].ids)[i] = reg[c].ids[i + 1]
    BY <1>f, <2>1
  <2>3. CASE HasInfo(info, Head(reg[c].ids))
    <3>1. Local(c, pc[c], r)
      BY <1>1, <1>f, <2>3 DEF LsEntry, Registers
    <3>2. Held(pc[c], r)
      BY <1>f, <2>1, <2>2 DEF Registers, Held, Searching
    <3> HIDE DEF r
    <3> QED
      BY <2>1, <3>1, <3>2, HeldLocal
  <2>4. CASE ~HasInfo(info, Head(reg[c].ids))
    <3>1. Crash(c)
      BY <1>1, <2>4 DEF LsEntry
    <3>2. CASE pc[c] = "lsfile"
      <4>1. Head(reg[c].ids) \in Listed(files)
        BY <1>f, <2>2, <3>2 DEF Held
      <4> QED
        BY <2>4, <3>1, <3>2, <4>1, ListedNumber, HeldCrash DEF Cause
    <3>3. CASE pc[c] = "lsfolder"
      <4>1. Head(reg[c].ids) \in Listed(folders)
        BY <1>f, <2>2, <3>3 DEF Held
      <4> QED
        BY <2>4, <3>1, <3>3, <4>1, ListedNumber, HeldCrash DEF Cause
    <3> QED
      BY <2>1, <3>2, <3>3
  <2> QED
    BY <2>3, <2>4
<1>2. CASE LsEnd(c)
  <2>1. /\ pc[c] \in {"lsfile", "lsfolder"} /\ Return(c, reg[c]) /\ UNCHANGED dbVars
    BY <1>2 DEF LsEnd
  <2>2. Held("call", reg[c])
    BY <1>f, <2>1 DEF Held, Searching
  <2> QED
    BY <1>f, <2>1, <2>2, HeldReturn
<1>3. CASE StatName(c)
  <2>1. pc[c] = "call"
    BY <1>3 DEF StatName
  <2>2. CASE Crash(c) /\ reg[c].kind = "file" /\ ~HasInfo(fileInfo, reg[c].id)
    BY <1>f, <2>2, ListedNumber DEF Held, HasInfo
  <2>3. CASE Crash(c) /\ ~HasInfo(folderInfo, reg[c].dir)
    <3>1. reg[c].dir \in Known \cup {NoId}
      BY <1>f, <2>1 DEF Held
    <3> QED
      BY <2>3, <3>1, NoFolder, HeldCrash DEF Cause
  <2>4. CASE Return(c, reg[c]) /\ UNCHANGED dbVars
    BY <1>f, <2>1, <2>4, HeldReturn
  <2> QED
    BY <1>3, <2>2, <2>3, <2>4 DEF StatName
<1> QED
  BY <1>1, <1>2, <1>3

LEMMA ListedBeforePush ==
    ASSUME NEW lists, \A n \in DOMAIN lists : lists[n] \in Seq(Nat),
           NEW dirId \in Long, NEW id \in Long
    PROVE  Listed(lists) \subseteq Listed(LPUSH(lists, dirId, id))
<1> DEFINE pushed == LPUSH(lists, dirId, id)
<1>1. SUFFICES ASSUME NEW n \in DOMAIN lists, NEW i \in DOMAIN lists[n]
               PROVE  n \in DOMAIN pushed /\ \E j \in DOMAIN pushed[n] : pushed[n][j] = lists[n][i]
  BY DEF Listed
<1>2. n \in DOMAIN pushed
  BY DEF LPUSH
<1>3. pushed[n] = lists[n] \/ pushed[n] = <<Lu(id)>> \o lists[n]
  BY <1>2, PushedList
<1>4. CASE pushed[n] = <<Lu(id)>> \o lists[n]
  <2>1. PICK x \in Nat, list \in Seq(Nat) : x = Lu(id) /\ list = lists[n]
    BY LuType
  <2>2. i + 1 \in DOMAIN (<<x>> \o list) /\ (<<x>> \o list)[i + 1] = list[i]
    BY <2>1
  <2> QED
    BY <1>2, <1>4, <2>1, <2>2
<1> QED
  BY <1>2, <1>3, <1>4

\* Every step is a step of one process.
LEMMA StepAlone ==
    ASSUME IndInv, NEW c \in Client, Start(c) \/ Type(c) \/ Step(c) \/ Kill(c)
    PROVE  Alone(c)
<1>1. CASE AddToList(c) \/ SetInfo(c) \/ Kill(c)
  BY <1>1, AloneFacts DEF AddToList, SetInfo, Kill
<1> QED
  BY <1>1, QuietSteps, NoBuild DEF Step, Boot, Create

LEMMA HeldCreates ==
    ASSUME IndInv, HeldInv, FitsInt, NEW c \in Client,
           GetNewId(c) \/ IncrNewId(c) \/ AddToList(c) \/ SetInfo(c)
    PROVE  Explained(c)
<1>f. /\ reg[c] \in Registers /\ Held(pc[c], reg[c])
      /\ reg[c].newId \in Long /\ reg[c].parentId \in Long
      /\ reg = [reg EXCEPT ![c] = reg[c]]
      /\ GoodRegisters(pc[c], reg[c])
  BY HeldFacts, RegisterFacts DEF Registers, IndInv, ClientInv
<1>1. CASE GetNewId(c)
  <2> DEFINE label == IF idCount = Absent THEN "LPUSH" ELSE "INCR"
             r == [reg[c] EXCEPT !.newId = idCount]
  <2>1. pc[c] = "GET" /\ Local(c, label, r)
    BY <1>1 DEF GetNewId
  <2>2. Held(label, r) /\ label # "crashed"
    BY <1>f, <2>1 DEF Registers, Held, Searching
  <2> HIDE DEF label, r
  <2> QED
    BY <2>1, <2>2, HeldLocal
<1>2. CASE IncrNewId(c)
  <2>1. /\ pc[c] = "INCR" /\ pc' = [pc EXCEPT ![c] = "LPUSH"]
        /\ reg' = [reg EXCEPT ![c] = reg[c]]
        /\ UNCHANGED <<folderInfo, fileInfo, folders, files>>
    BY <1>2, <1>f DEF IncrNewId, Goto
  <2>2. Held("LPUSH", reg[c])
    BY <1>f, <2>1 DEF Held, Searching
  <2>3. HeldInv' /\ pc'[c] = "LPUSH"
    BY <2>1, <2>2, HeldStays
  <2> QED
    BY <2>3 DEF Explained
<1>3. CASE AddToList(c)
  <2>1. /\ pc[c] = "LPUSH" /\ pc' = [pc EXCEPT ![c] = "HMSET"]
        /\ reg' = [reg EXCEPT ![c] = reg[c]]
        /\ UNCHANGED <<folderInfo, fileInfo>>
        /\ folders' = folders \/ folders' = LPUSH(folders, reg[c].parentId, reg[c].newId)
        /\ files' = files \/ files' = LPUSH(files, reg[c].parentId, reg[c].newId)
    BY <1>3, <1>f DEF AddToList, Goto
  <2>2. ASSUME NEW lists \in {folders, files}
        PROVE  Listed(lists) \subseteq Listed(LPUSH(lists, reg[c].parentId, reg[c].newId))
    BY <1>f, ListedBeforePush DEF IndInv, DbInv, DbTypeOK
  <2>3. /\ Listed(folders) \subseteq Listed(folders') /\ Listed(files) \subseteq Listed(files')
    BY <2>1, <2>2
  <2>4. /\ Listed(folders)' = Listed(folders') /\ Listed(files)' = Listed(files')
    BY DEF Listed
  <2>5. Known \subseteq Known'
    BY <2>1, <2>3, <2>4 DEF Known
  <2>6. ParentsKnown'
    BY <2>1, <2>5 DEF ParentsKnown, HeldInv
  <2>7. Held("HMSET", reg[c])
    BY <1>f, <2>1 DEF Held, Searching
  <2>8. PICK r : r = reg[c]
    OBVIOUS
  <2>9. Held("HMSET", r)'
    BY <2>1, <2>3, <2>4, <2>5, <2>7, <2>8 DEF Held, Searching
  <2>10. HeldInv' /\ pc'[c] = "HMSET"
    BY <2>1, <2>3, <2>4, <2>5, <2>6, <2>8, <2>9, HeldGrows
  <2> QED
    BY <2>10 DEF Explained
<1>4. CASE SetInfo(c)
  <2>1. PICK r, label :
           /\ pc' = [pc EXCEPT ![c] = label] /\ reg' = [reg EXCEPT ![c] = r]
           /\ (label = "idle" /\ r = Blank) \/ (label = "call" /\ r = reg[c])
    <3>1. \/ pc' = [pc EXCEPT ![c] = "idle"] /\ reg' = [reg EXCEPT ![c] = Blank]
          \/ pc' = [pc EXCEPT ![c] = "call"] /\ reg' = [reg EXCEPT ![c] = reg[c]]
      BY <1>4 DEF SetInfo, Return, Prompt, Goto, Set
    <3> QED
      BY <3>1
  <2>2. pc[c] = "HMSET" /\ UNCHANGED <<folders, files>>
    BY <1>4 DEF SetInfo
  <2>3. Held(label, r)
    BY <1>f, <2>1, <2>2, BlankIsHeld DEF Held, Searching, RestLabels
  <2>4. /\ DOMAIN folderInfo \subseteq DOMAIN folderInfo'
        /\ DOMAIN fileInfo \subseteq DOMAIN fileInfo'
    BY <1>4 DEF SetInfo, HMSET
  <2>5. /\ Known \subseteq Known' /\ Listed(folders)' = Listed(folders)
        /\ Listed(files)' = Listed(files)
    BY <2>2, <2>4 DEF Known, Listed
  <2>6. Lu(reg[c].parentId) \in Known \cup {ULONG_MAX}
    <3>1. reg[c].parentId \in Known \cup {NoId}
      BY <1>f DEF Held
    <3>2. Lu(NoId) = ULONG_MAX
      BY WidthAssumption DEF Lu, NoId, ULONG_MAX
    <3> QED
      BY <3>1, <3>2, KnownFacts, SmallNumbers
  <2>7. \A n \in DOMAIN folderInfo' :
           \/ n \in DOMAIN folderInfo /\ folderInfo'[n] = folderInfo[n]
           \/ folderInfo'[n].parent = Lu(reg[c].parentId)
    BY <1>4 DEF SetInfo, HMSET, FolderHash
  <2>8. ParentsKnown'
    BY <2>5, <2>6, <2>7 DEF ParentsKnown, HeldInv
  <2>9. Held(label, r)'
    BY <2>3, <2>4, <2>5 DEF Held
  <2>10. HeldInv' /\ pc'[c] = label
    BY <2>1, <2>4, <2>5, <2>8, <2>9, HeldGrows
  <2> QED
    BY <2>1, <2>10 DEF Explained
<1> QED
  BY <1>1, <1>2, <1>3, <1>4

LEMMA HeldProcess ==
    ASSUME IndInv, HeldInv, FitsInt, NEW c \in Client,
           Start(c) \/ isVirtualFileSystemCreated(c) \/ Type(c) \/ Kill(c)
    PROVE  Explained(c)
<1>f. Held(pc[c], reg[c]) /\ reg = [reg EXCEPT ![c] = reg[c]] /\ created = TRUE
  BY HeldFacts DEF IndInv, ClientInv, DbInv
<1>1. PICK label, r :
         /\ pc' = [pc EXCEPT ![c] = label] /\ reg' = [reg EXCEPT ![c] = r]
         /\ \/ label \in {"EXISTS", "down"} /\ r = Blank
            \/ label = "idle" /\ pc[c] = "EXISTS" /\ r = reg[c]
            \/ label = "call" /\ \E op, arg : r = [Blank EXCEPT !.op = op, !.arg = arg]
  <2>1. CASE Start(c)
    <3>1. pc' = [pc EXCEPT ![c] = "EXISTS"] /\ reg' = [reg EXCEPT ![c] = Blank]
      BY <2>1 DEF Start, Goto, Set
    <3> QED
      BY <3>1
  <2>2. CASE isVirtualFileSystemCreated(c)
    <3>1. /\ pc' = [pc EXCEPT ![c] = "idle"] /\ pc[c] = "EXISTS"
          /\ reg' = [reg EXCEPT ![c] = reg[c]]
      BY <1>f, <2>2 DEF isVirtualFileSystemCreated, Goto
    <3> QED
      BY <3>1
  <2>3. CASE Type(c)
    <3>1. PICK cmd, path :
             /\ pc' = [pc EXCEPT ![c] = "call"]
             /\ reg' = [reg EXCEPT ![c] = [Blank EXCEPT !.op = cmd.op, !.arg = path]]
      BY <2>3 DEF Type, Goto, Set
    <3>2. PICK op, r : op = cmd.op /\ r = [Blank EXCEPT !.op = op, !.arg = path]
      OBVIOUS
    <3>3. \E o, arg : r = [Blank EXCEPT !.op = o, !.arg = arg]
      BY <3>2, Zenon
    <3>4. pc' = [pc EXCEPT ![c] = "call"] /\ reg' = [reg EXCEPT ![c] = r]
      BY <3>1, <3>2, Zenon
    <3> QED
      BY <3>3, <3>4, Zenon
  <2>4. CASE Kill(c)
    <3>1. pc' = [pc EXCEPT ![c] = "down"] /\ reg' = [reg EXCEPT ![c] = Blank]
      BY <2>4 DEF Kill, Goto, Set
    <3> QED
      BY <3>1
  <2> QED
    BY <2>1, <2>2, <2>3, <2>4
<1>2. Held(label, r) /\ label # "crashed"
  <2>1. CASE label \in {"EXISTS", "down"} /\ r = Blank
    BY <2>1, BlankIsHeld DEF RestLabels
  <2>2. CASE label = "idle" /\ pc[c] = "EXISTS" /\ r = reg[c]
    BY <1>f, <2>2 DEF Held, Searching
  <2>3. CASE label = "call" /\ \E op, arg : r = [Blank EXCEPT !.op = op, !.arg = arg]
    BY <2>3 DEF Held, Searching, Blank
  <2> QED
    BY <1>1, <2>1, <2>2, <2>3
<1>3. UNCHANGED <<folderInfo, fileInfo, folders, files>>
  BY DEF Start, isVirtualFileSystemCreated, Type, Kill, dbVars
<1>4. HeldInv' /\ pc'[c] = label
  BY <1>1, <1>2, <1>3, HeldStays
<1> QED
  BY <1>2, <1>4 DEF Explained

LEMMA ExplainedStep ==
    ASSUME IndInv, HeldInv, FitsInt, NEW c \in Client,
           Start(c) \/ Type(c) \/ Step(c) \/ Kill(c)
    PROVE  Explained(c)
<1>1. CASE Lookup(c)
  BY <1>1, HeldCalls, HeldFinds, HeldEnds, HeldClimbs, HeldLists DEF Lookup
<1>2. CASE Create(c)
  BY <1>2, HeldCalls, HeldCreates DEF Create
<1> QED
  BY <1>1, <1>2, HeldProcess, NoBuild DEF Step, Boot

LEMMA HeldInit == InitBuilt => HeldInv
<1> SUFFICES ASSUME InitBuilt PROVE HeldInv
  OBVIOUS
<1>1. /\ DOMAIN folderInfo = {0} /\ folderInfo[0].parent = 0
      /\ pc = [c \in Client |-> "down"] /\ reg = [c \in Client |-> Blank]
  BY DEF InitBuilt, BuiltDb, ClientInit, HMSET, FolderHash, EmptyMap, Lu, ROOT_FOLDER_ID
<1>2. ParentsKnown
  BY <1>1 DEF ParentsKnown, Known
<1>3. Held("down", Blank)
  BY BlankIsHeld DEF RestLabels
<1> QED
  BY <1>1, <1>2, <1>3 DEF HeldInv

\* A process dies of its own doing only over a listed entry without a hash
\* or over a number that names no folder: as long as the counter fits in an
\* int, no other order of the steps of vfs_findObjectInDir, vfs_parsePath,
\* getAbsolutePathFromFolderId, ls and stat leads a process to the hash of
\* something that is not there.
THEOREM CrashesExplained ==
    SpecBuilt /\ []FitsInt => CrashHasCause
<1> DEFINE Caused == \A c \in Client :
              (pc[c] # "crashed" /\ pc'[c] = "crashed")
                => Dangling \/ reg[c].dir \notin 0 .. idCount - 1
<1>1. ASSUME IndInv, HeldInv, FitsInt, [Next]_vars
      PROVE  HeldInv' /\ (UNCHANGED vars \/ Caused)
  <2>1. CASE UNCHANGED vars
    <3>1. UNCHANGED <<folderInfo, fileInfo, folders, files, pc, reg>>
      BY <2>1 DEF vars, dbVars, clientVars
    <3>2. HeldInv'
      BY <1>1, <3>1 DEF HeldInv, ParentsKnown, Held, Known, Listed
    <3> QED
      BY <2>1, <3>2
  <2>2. ASSUME NEW c \in Client, Start(c) \/ Type(c) \/ Step(c) \/ Kill(c)
        PROVE  HeldInv' /\ Caused
    <3>1. Explained(c)
      BY <1>1, <2>2, ExplainedStep
    <3>2. Alone(c)
      BY <1>1, <2>2, StepAlone
    <3>3. ASSUME NEW d \in Client, pc[d] # "crashed", pc'[d] = "crashed"
          PROVE  Dangling \/ reg[d].dir \notin 0 .. idCount - 1
      BY <3>1, <3>2, <3>3 DEF Explained, Cause, Alone
    <3> QED
      BY <3>1, <3>3 DEF Explained
  <2> QED
    BY <1>1, <2>1, <2>2 DEF Next
<1>2. SpecBuilt /\ []FitsInt => [][Caused]_vars
  BY <1>1, HeldInit, Inductive, PTL DEF SpecBuilt
<1> QED
  BY <1>2 DEF CrashHasCause

-----------------------------------------------------------------------------
(* One process alone on a redis that starts empty, killed and started       *)
(* again at any step: it builds the database, at most once, and the tree it *)
(* makes afterwards is a tree of numbers used once.                         *)

\* What the properties are claimed for: with two processes none of them
\* holds (runs two_boots and same_id).
OneClient == \E c \in Client : Client = {c}

-----------------------------------------------------------------------------
(* Its inductive invariant.                                                *)

\* The root folder and nothing else.
RootOnly == HMSET(EmptyMap, ROOT_FOLDER_ID, FolderHash(ROOT_FOLDER_ID, RootName))

\* Before the flag is set there is nothing, except the root folder and the
\* counter of a process that is building the database or was killed then.
Early ==
    /\ created = FALSE
    /\ fileInfo = EmptyMap
    /\ folders = EmptyMap
    /\ files = EmptyMap
    /\ idCount \in {Absent, 1}
    /\ folderInfo \in {EmptyMap, RootOnly}
    /\ pc \in [Client -> {"down", "EXISTS"} \cup BuildLabels]
    /\ cwd \in [Client -> {<<"/">>}]
    /\ todo \in [Client -> {<<>>}]
    /\ reg \in [Client -> {Blank}]
    /\ AuxInv
    /\ \A c \in Client :
          /\ pc[c] = "mkroot" => folderInfo = EmptyMap
          /\ pc[c] \in {"SETcount", "SETcreated"} => folderInfo = RootOnly
          /\ pc[c] = "SETcreated" => idCount = 1

\* No number stands at two places of the lists of a family.
Once(lists) ==
    \A n, m \in DOMAIN lists : \A i \in DOMAIN lists[n], j \in DOMAIN lists[m] :
        lists[n][i] = lists[m][j] => n = m /\ i = j

Link ==
    \A n \in DOMAIN folders : \A i \in DOMAIN folders[n] :
        folders[n][i] \in DOMAIN folderInfo => folderInfo[folders[n][i]].parent = n

\* A number being drawn is new until it is listed, and a folder's number is
\* then listed in the folder its hash is about to name.
Drawn(c) ==
    /\ pc[c] = "INCR" => reg[c].newId = idCount
    /\ pc[c] = "LPUSH" =>
          Lu(reg[c].newId) \notin Listed(folders) \cup Listed(files) \cup DOMAIN folderInfo
    /\ (pc[c] = "HMSET" /\ reg[c].op = "mkdir") =>
          \A n \in DOMAIN folders : \A i \in DOMAIN folders[n] :
              folders[n][i] = Lu(reg[c].newId) => n = Lu(reg[c].parentId)

Tree ==
    /\ Once(folders)
    /\ Once(files)
    /\ Listed(folders) \cap Listed(files) = {}
    /\ Link
    /\ \A c \in Client : Drawn(c)

FreshInv == Early \/ (IndInv /\ Tree)

-----------------------------------------------------------------------------
(* The database is built.                                                  *)

\* Only the labels of a start and of the construction occur before the flag
\* is set, and none of the other actions is enabled there.
LEMMA EarlyActions ==
    ASSUME Early, NEW c \in Client, Start(c) \/ Type(c) \/ Step(c) \/ Kill(c)
    PROVE  Start(c) \/ Boot(c) \/ Kill(c)
<1>1. pc[c] \in {"down", "EXISTS"} \cup BuildLabels
  BY DEF Early
<1>2. ~Type(c) /\ ~Create(c)
  BY <1>1 DEF BuildLabels, Type, Create, CallCreate, GetNewId, IncrNewId, AddToList, SetInfo
<1>3. ~Lookup(c)
  BY <1>1 DEF BuildLabels, Lookup, CallRoot, CallWalk, Walk, FindFiles, FindFile,
       FindFileEnd, FindDotDot, FindFolders, FindFolder, FindFolderEnd, ParseParent,
       EndCwd, EndLeft, EndTarget, EndParse, CallChdir, ClimbName, ClimbUp, ClimbEnd,
       LsFiles, LsFolders, LsEntry, LsEnd, StatName
<1> QED
  BY <1>2, <1>3 DEF Step

\* vfs_buildDatabase sets the flag last, and then the store is the one the
\* properties of built file systems start from.
LEMMA EarlyStep ==
    ASSUME Early, NEW c, Client = {c}, Start(c) \/ Boot(c) \/ Kill(c)
    PROVE  FreshInv'
<1>1. /\ pc \in [Client -> {"down", "EXISTS"} \cup BuildLabels]
      /\ cwd \in [Client -> {<<"/">>}]
      /\ todo \in [Client -> {<<>>}]
      /\ reg \in [Client -> {Blank}]
      /\ c \in Client
      /\ \A d \in Client : d = c
  BY DEF Early
<1>2. CASE Start(c)
  <2>1. /\ pc' \in [Client -> {"down", "EXISTS"} \cup BuildLabels] /\ pc'[c] = "EXISTS"
        /\ reg' \in [Client -> {Blank}]
        /\ cwd' \in [Client -> {<<"/">>}]
        /\ UNCHANGED <<dbVars, todo, auxVars>>
    BY <1>1, <1>2 DEF Start, Goto, Set
  <2>2. Early'
    BY <1>1, <2>1 DEF Early, AuxInv, dbVars, auxVars
  <2> QED
    BY <2>2 DEF FreshInv
<1>3. CASE Kill(c)
  <2>1. /\ pc' \in [Client -> {"down", "EXISTS"} \cup BuildLabels] /\ pc'[c] = "down"
        /\ reg' \in [Client -> {Blank}]
        /\ todo' \in [Client -> {<<>>}]
        /\ UNCHANGED <<dbVars, cwd, issued>>
    BY <1>1, <1>3 DEF Kill, Goto, Set
  <2>2. pc[c] # "HMSET"
    BY <1>1 DEF BuildLabels
  <2>3. AuxInv'
    BY <1>3, <2>2 DEF Kill, AuxInv, Early
  <2>4. Early'
    BY <1>1, <2>1, <2>3 DEF Early, dbVars
  <2> QED
    BY <2>4 DEF FreshInv
<1>4. CASE isVirtualFileSystemCreated(c) \/ BuildFlush(c) \/ BuildRoot(c) \/ BuildCount(c)
  <2>1. /\ pc' \in [Client -> {"down", "EXISTS"} \cup BuildLabels]
        /\ UNCHANGED <<cwd, todo, reg, auxVars>>
    BY <1>1, <1>4 DEF isVirtualFileSystemCreated, BuildFlush, BuildRoot, BuildCount,
         Goto, BuildLabels, Early
  <2>2. AuxInv'
    BY <2>1 DEF AuxInv, Early, auxVars
  <2>3. CASE isVirtualFileSystemCreated(c)
    <3>1. pc'[c] = "FLUSHALL" /\ UNCHANGED dbVars
      BY <1>1, <2>3 DEF isVirtualFileSystemCreated, Goto, Early
    <3> QED
      BY <1>1, <2>1, <2>2, <3>1 DEF Early, dbVars, FreshInv
  <2>4. CASE BuildFlush(c)
    <3>1. pc'[c] = "mkroot"
      BY <1>1, <2>4 DEF BuildFlush, Goto
    <3> QED
      BY <1>1, <2>1, <2>2, <2>4, <3>1 DEF Early, FreshInv, BuildFlush
  <2>5. CASE BuildRoot(c)
    <3>1. pc'[c] = "SETcount" /\ folderInfo' = RootOnly
      BY <1>1, <2>5 DEF BuildRoot, Goto, Early, RootOnly
    <3> QED
      BY <1>1, <2>1, <2>2, <2>5, <3>1 DEF Early, FreshInv, BuildRoot
  <2>6. CASE BuildCount(c)
    <3>1. pc'[c] = "SETcreated" /\ folderInfo = RootOnly /\ idCount' = 1
      BY <1>1, <2>6 DEF BuildCount, Goto, Early
    <3> QED
      BY <1>1, <2>1, <2>2, <2>6, <3>1 DEF Early, FreshInv, BuildCount
  <2> QED
    BY <1>4, <2>3, <2>4, <2>5, <2>6
<1>5. CASE BuildCreated(c)
  <2>1. /\ idCount = 1 /\ folderInfo = RootOnly
        /\ UNCHANGED <<idCount, folderInfo, fileInfo, folders, files, cwd, todo, reg, auxVars>>
        /\ created' = TRUE
        /\ pc' = [pc EXCEPT ![c] = "idle"]
    BY <1>1, <1>5 DEF BuildCreated, Goto, Early
  <2>2. BuiltDb'
    BY <2>1 DEF BuiltDb, Early, RootOnly
  <2>3. DbInv'
    BY <2>2, BuiltStore, PTL
  <2>4. ClientInv'
    <3>1. Blank \in Registers /\ \A label \in {"idle"} : GoodRegisters(label, Blank)'
      BY <2>1, ConstantsAreLong DEF Blank, Registers, GoodRegisters, RestLabels, NoId
    <3>2. <<"/">> \in Seq(Char) \ {<<>>}
      <4>1. "/" \in Char
        BY CharAssumption
      <4> QED
        BY <4>1
    <3>3. "idle" \in Labels \ BuildLabels
      BY DEF Labels, BuildLabels
    <3>4. /\ pc' \in [Client -> Labels \ BuildLabels] /\ pc'[c] = "idle"
          /\ cwd' \in [Client -> Seq(Char) \ {<<>>}]
          /\ todo' \in [Client -> Seq(Routines)]
          /\ reg' \in [Client -> Registers] /\ reg'[c] = Blank
      <4>1. pc' \in [Client -> Labels \ BuildLabels] /\ pc'[c] = "idle"
        BY <1>1, <2>1, <3>3
      <4>2. cwd' \in [Client -> Seq(Char) \ {<<>>}]
        BY <1>1, <2>1, <3>2
      <4>3. <<>> \in Seq(Routines)
        OBVIOUS
      <4>4. todo' \in [Client -> Seq(Routines)]
        BY <1>1, <2>1, <4>3
      <4>5. reg' \in [Client -> Registers] /\ reg'[c] = Blank
        BY <1>1, <2>1, <3>1
      <4> QED
        BY <4>1, <4>2, <4>4, <4>5
    <3>5. GoodRegisters(pc[c], reg[c])'
      BY <3>1, <3>4 DEF GoodRegisters
    <3> QED
      BY <1>1, <3>4, <3>5 DEF ClientInv
  <2>5. AuxInv'
    BY <2>1 DEF AuxInv, Early, auxVars
  <2>6. Tree'
    <3>1. pc'[c] = "idle"
      BY <1>1, <2>1
    <3>2. DOMAIN folders' = {} /\ DOMAIN files' = {}
      BY <2>1 DEF Early, EmptyMap
    <3> QED
      BY <1>1, <3>1, <3>2 DEF Tree, Once, Listed, Link, Drawn
  <2> QED
    BY <2>3, <2>4, <2>5, <2>6 DEF FreshInv, IndInv
<1> QED
  BY <1>2, <1>3, <1>4, <1>5 DEF Boot

-----------------------------------------------------------------------------
(* Numbers used once.                                                      *)

\* Where the entries of a pushed list come from.
LEMMA PushedSlot ==
    ASSUME NEW lists, \A n \in DOMAIN lists : lists[n] \in Seq(Nat),
           NEW dirId \in Long, NEW id \in Long,
           NEW n \in DOMAIN LPUSH(lists, dirId, id),
           NEW i \in DOMAIN LPUSH(lists, dirId, id)[n]
    PROVE  /\ i \in Nat
           /\ \/ n = Lu(dirId) /\ i = 1 /\ LPUSH(lists, dirId, id)[n][i] = Lu(id)
              \/ /\ n = Lu(dirId) /\ n \in DOMAIN lists
                 /\ i - 1 \in DOMAIN lists[n]
                 /\ LPUSH(lists, dirId, id)[n][i] = lists[n][i - 1]
              \/ /\ n # Lu(dirId) /\ n \in DOMAIN lists
                 /\ i \in DOMAIN lists[n]
                 /\ LPUSH(lists, dirId, id)[n][i] = lists[n][i]
<1> DEFINE pushed == LPUSH(lists, dirId, id)
           x == Lu(id)
<1>1. x \in Nat
  BY LuType
<1>2. CASE n # Lu(dirId)
  <2>1. n \in DOMAIN lists /\ pushed[n] = lists[n]
    BY <1>2 DEF LPUSH
  <2>2. lists[n] \in Seq(Nat)
    BY <2>1
  <2>3. i \in Nat
    BY <2>1, <2>2
  <2> QED
    BY <1>2, <2>1, <2>3
<1>3. CASE n = Lu(dirId)
  <2> DEFINE old == LRANGE(lists, dirId)
  <2>1. pushed[n] = <<x>> \o old
    BY <1>3 DEF LPUSH
  <2>2. old \in Seq(Nat) /\ (n \in DOMAIN lists => old = lists[n])
                         /\ (n \notin DOMAIN lists => old = <<>>)
    BY <1>3 DEF LRANGE
  <2> HIDE DEF old, x, pushed
  <2>3. /\ Len(<<x>> \o old) = 1 + Len(old)
        /\ (<<x>> \o old)[1] = x
        /\ \A j \in 2 .. 1 + Len(old) : (<<x>> \o old)[j] = old[j - 1]
    BY <1>1, <2>2
  <2>4. i \in 1 .. 1 + Len(old)
    BY <1>1, <2>1, <2>2, <2>3 DEF pushed
  <2>5. CASE i = 1
    BY <1>3, <2>1, <2>3, <2>5 DEF x, pushed
  <2>6. CASE i # 1
    <3>1. i - 1 \in 1 .. Len(old) /\ Len(old) \in Nat /\ (<<x>> \o old)[i] = old[i - 1]
      BY <2>2, <2>3, <2>4, <2>6
    <3>2. old # <<>>
      BY <3>1
    <3>3. n \in DOMAIN lists /\ old = lists[n]
      BY <2>2, <3>2
    <3>4. i - 1 \in DOMAIN lists[n]
      BY <2>2, <3>1, <3>3
    <3> QED
      BY <1>3, <2>1, <2>4, <3>1, <3>3, <3>4 DEF pushed
  <2> QED
    BY <2>5, <2>6
<1> QED
  BY <1>2, <1>3

\* A new number put in front of one list keeps all numbers apart.
LEMMA OnceAfterPush ==
    ASSUME NEW lists, DOMAIN lists \subseteq Nat,
           \A n \in DOMAIN lists : lists[n] \in Seq(Nat),
           NEW dirId \in Long, NEW id \in Long,
           Once(lists), Lu(id) \notin Listed(lists)
    PROVE  Once(LPUSH(lists, dirId, id))
<1> DEFINE pushed == LPUSH(lists, dirId, id)
<1>1. SUFFICES ASSUME NEW n \in DOMAIN pushed, NEW m \in DOMAIN pushed,
                      NEW i \in DOMAIN pushed[n], NEW j \in DOMAIN pushed[m],
                      pushed[n][i] = pushed[m][j]
               PROVE  n = m /\ i = j
  BY DEF Once
<1>2. \A k \in DOMAIN lists : \A l \in DOMAIN lists[k] : lists[k][l] # Lu(id)
  BY LuType DEF Listed
<1>3. \A k, l \in DOMAIN lists : \A a \in DOMAIN lists[k], b \in DOMAIN lists[l] :
          lists[k][a] = lists[l][b] => k = l /\ a = b
  BY DEF Once
<1>4. /\ i \in Nat
      /\ \/ n = Lu(dirId) /\ i = 1 /\ pushed[n][i] = Lu(id)
         \/ /\ n = Lu(dirId) /\ n \in DOMAIN lists
            /\ i - 1 \in DOMAIN lists[n] /\ pushed[n][i] = lists[n][i - 1]
         \/ /\ n # Lu(dirId) /\ n \in DOMAIN lists
            /\ i \in DOMAIN lists[n] /\ pushed[n][i] = lists[n][i]
  BY PushedSlot
<1>5. /\ j \in Nat
      /\ \/ m = Lu(dirId) /\ j = 1 /\ pushed[m][j] = Lu(id)
         \/ /\ m = Lu(dirId) /\ m \in DOMAIN lists
            /\ j - 1 \in DOMAIN lists[m] /\ pushed[m][j] = lists[m][j - 1]
         \/ /\ m # Lu(dirId) /\ m \in DOMAIN lists
            /\ j \in DOMAIN lists[m] /\ pushed[m][j] = lists[m][j]
  BY PushedSlot
<1> HIDE DEF pushed
<1>6. (i - 1 = j - 1) => i = j
  BY <1>4, <1>5
<1>7. CASE n = Lu(dirId) /\ i = 1 /\ pushed[n][i] = Lu(id)
  BY <1>1, <1>2, <1>5, <1>7
<1>8. CASE /\ n = Lu(dirId) /\ n \in DOMAIN lists
           /\ i - 1 \in DOMAIN lists[n] /\ pushed[n][i] = lists[n][i - 1]
  BY <1>1, <1>2, <1>3, <1>5, <1>6, <1>8
<1>9. CASE /\ n # Lu(dirId) /\ n \in DOMAIN lists
           /\ i \in DOMAIN lists[n] /\ pushed[n][i] = lists[n][i]
  BY <1>1, <1>2, <1>3, <1>5, <1>9
<1> QED
  BY <1>4, <1>7, <1>8, <1>9

-----------------------------------------------------------------------------
(* Once the database is built.                                             *)

Drawing == {"INCR", "LPUSH", "HMSET"}

\* Where a process is after a step of its control.
LEMMA Landing ==
    ASSUME IndInv, NEW c \in Client
    PROVE  /\ \A label : Goto(c, label) => pc'[c] = label
           /\ \A label, r : Local(c, label, r) => pc'[c] = label
           /\ \A r : Return(c, r) => pc'[c] \in {"idle", "call"}
           /\ Prompt(c) => pc'[c] = "idle"
           /\ Crash(c) => pc'[c] = "crashed"
BY DEF Goto, Local, Return, Prompt, Crash, IndInv, ClientInv

\* Only getNewId leads to the labels where a number is being drawn.
LEMMA SoftLanding ==
    ASSUME IndInv, NEW c \in Client,
           \/ Start(c) \/ Type(c) \/ isVirtualFileSystemCreated(c) \/ Kill(c)
           \/ Lookup(c) \/ CallCreate(c)
    PROVE  pc'[c] \notin Drawing
<1> USE DEF Drawing
<1>1. CASE Start(c) \/ Type(c) \/ isVirtualFileSystemCreated(c) \/ Kill(c) \/ CallCreate(c)
  <2>1. created = TRUE
    BY DEF IndInv, DbInv
  <2> QED
    BY <1>1, <2>1, Landing DEF Start, Type, isVirtualFileSystemCreated, Kill, CallCreate
<1>2. CASE CallRoot(c) \/ CallWalk(c) \/ Walk(c) \/ CallChdir(c)
             \/ LsFiles(c) \/ LsFolders(c)
  BY <1>2, Landing DEF CallRoot, CallWalk, Walk, CallChdir, LsFiles, LsFolders
<1>3. CASE FindFiles(c) \/ FindFile(c) \/ FindFileEnd(c) \/ FindDotDot(c)
             \/ FindFolders(c) \/ FindFolder(c) \/ FindFolderEnd(c)
  <2>1. /\ \A id : ParsedFile(c, id) => pc'[c] \notin Drawing
        /\ ParsedNothing(c) => pc'[c] \notin Drawing
    BY Landing DEF ParsedFile, ParsedNothing
  <2>2. /\ \A id : FoundFile(c, id) => pc'[c] \notin Drawing
        /\ FoundNothing(c) => pc'[c] \notin Drawing
    BY <2>1, Landing DEF FoundFile, FoundNothing, WalkFails
  <2>3. \A id : FoundDir(c, id) => pc'[c] \notin Drawing
    BY <2>2, Landing DEF FoundDir, ParsedDir, WalkInto
  <2> QED
    BY <1>3, <2>2, <2>3, Landing DEF FindFiles, FindFile, FindFileEnd,
         FindDotDot, FindFolders, FindFolder, FindFolderEnd
<1>4. CASE ParseParent(c) \/ EndCwd(c) \/ EndLeft(c) \/ EndTarget(c) \/ EndParse(c)
  BY <1>4, Landing DEF ParseParent, EndCwd, EndLeft, EndTarget, EndParse
<1>5. CASE ClimbName(c) \/ ClimbUp(c) \/ ClimbEnd(c)
  BY <1>5, Landing DEF ClimbName, ClimbUp, ClimbEnd
<1>6. CASE LsEntry(c) \/ LsEnd(c) \/ StatName(c)
  BY <1>6, Landing DEF LsEntry, LsEnd, StatName
<1> QED
  BY <1>1, <1>2, <1>3, <1>4, <1>5, <1>6 DEF Lookup

\* The numbers of the store as they stand in the lists.
LEMMA StoreFacts ==
    ASSUME IndInv
    PROVE  /\ DOMAIN folders \subseteq Nat /\ DOMAIN files \subseteq Nat
           /\ DOMAIN folderInfo \subseteq Nat
           /\ \A n \in DOMAIN folders : folders[n] \in Seq(Nat)
           /\ \A n \in DOMAIN files : files[n] \in Seq(Nat)
           /\ idCount \in Nat \ {0}
           /\ \A x \in Listed(folders) \cup Listed(files) \cup DOMAIN folderInfo :
                 x \in Nat /\ x < idCount
BY DEF IndInv, DbInv, DbTypeOK, IdsBelowCounter, Listed

\* A step that writes no list and no folder hash.
LEMMA SameTree ==
    ASSUME Tree, NEW c, Client = {c}, UNCHANGED <<folderInfo, folders, files>>, Drawn(c)'
    PROVE  Tree'
BY DEF Tree, Once, Listed, Link

\* vfs_mkdir and vfs_createFile put the new number in front of one list.
LEMMA PushKeepsTree ==
    ASSUME IndInv, Tree, NEW c, Client = {c}, AddToList(c)
    PROVE  Tree'
<1>1. /\ reg[c] \in Registers /\ c \in Client
      /\ reg[c].parentId \in Long /\ reg[c].newId \in Long
      /\ pc[c] = "LPUSH"
      /\ pc'[c] = "HMSET" /\ UNCHANGED <<reg, folderInfo, idCount>>
  BY RegisterFacts, Landing DEF AddToList, Registers
<1> DEFINE x == Lu(reg[c].newId)
           p == Lu(reg[c].parentId)
           pushed == LPUSH(folders, reg[c].parentId, reg[c].newId)
<1>2. x \notin Listed(folders) \cup Listed(files) \cup DOMAIN folderInfo
  BY <1>1 DEF Tree, Drawn
<1>3. x \in Nat
  BY <1>1, LuType
<1>4. CASE reg[c].op = "mkdir"
  <2>1. folders' = pushed /\ UNCHANGED files
    BY <1>1, <1>4 DEF AddToList
  <2>2. Once(pushed)
    BY <1>1, <1>2, StoreFacts, OnceAfterPush DEF Tree
  <2>3. Listed(pushed) \subseteq Listed(folders) \cup {x}
    BY <1>1, StoreFacts, ListedAfterPush
  <2>4. \A n \in DOMAIN pushed : \A i \in DOMAIN pushed[n] :
            \/ n = p /\ pushed[n][i] = x
            \/ n \in DOMAIN folders /\ \E j \in DOMAIN folders[n] : pushed[n][i] = folders[n][j]
    <3>1. SUFFICES ASSUME NEW n \in DOMAIN pushed, NEW i \in DOMAIN pushed[n]
                   PROVE  \/ n = p /\ pushed[n][i] = x
                          \/ /\ n \in DOMAIN folders
                             /\ \E j \in DOMAIN folders[n] : pushed[n][i] = folders[n][j]
      OBVIOUS
    <3>2. \/ n = p /\ i = 1 /\ pushed[n][i] = x
          \/ /\ n = p /\ n \in DOMAIN folders
             /\ i - 1 \in DOMAIN folders[n] /\ pushed[n][i] = folders[n][i - 1]
          \/ /\ n # p /\ n \in DOMAIN folders
             /\ i \in DOMAIN folders[n] /\ pushed[n][i] = folders[n][i]
      BY <1>1, StoreFacts, PushedSlot
    <3> HIDE DEF pushed, x, p
    <3> QED
      BY <3>2
  <2>5. \A n \in DOMAIN folders : \A j \in DOMAIN folders[n] :
            folders[n][j] \in Listed(folders)
    BY StoreFacts DEF Listed
  <2> HIDE DEF pushed, x, p
  <2>6. ASSUME NEW n \in DOMAIN pushed, NEW i \in DOMAIN pushed[n],
               pushed[n][i] \in DOMAIN folderInfo
        PROVE  folderInfo[pushed[n][i]].parent = n
    BY <1>2, <2>4, <2>6 DEF Tree, Link
  <2>7. ASSUME NEW n \in DOMAIN pushed, NEW i \in DOMAIN pushed[n], pushed[n][i] = x
        PROVE  n = p
    BY <1>2, <2>4, <2>5, <2>7
  <2>8. Link'
    BY <1>1, <2>1, <2>6 DEF Link
  <2>9. Drawn(c)'
    <3>1. reg'[c] = reg[c] /\ pc'[c] = "HMSET"
      BY <1>1
    <3> QED
      BY <2>1, <2>7, <3>1 DEF Drawn, x, p
  <2>10. Listed(pushed) \cap Listed(files) = {}
    BY <1>2, <2>3 DEF Tree
  <2> QED
    BY <2>1, <2>2, <2>8, <2>9, <2>10 DEF Tree, Once, Listed
<1>5. CASE reg[c].op # "mkdir"
  <2> DEFINE listed == LPUSH(files, reg[c].parentId, reg[c].newId)
  <2>1. files' = listed /\ UNCHANGED folders
    BY <1>1, <1>5 DEF AddToList
  <2>2. Once(listed)
    BY <1>1, <1>2, StoreFacts, OnceAfterPush DEF Tree
  <2>3. Listed(listed) \subseteq Listed(files) \cup {x}
    BY <1>1, StoreFacts, ListedAfterPush
  <2> HIDE DEF listed, x, p
  <2>4. Link'
    BY <1>1, <2>1 DEF Tree, Link
  <2>5. Drawn(c)'
    <3>1. reg'[c] = reg[c] /\ pc'[c] = "HMSET"
      BY <1>1
    <3> QED
      BY <1>5, <3>1 DEF Drawn
  <2>6. Listed(folders) \cap Listed(listed) = {}
    BY <1>2, <2>3 DEF Tree
  <2> QED
    BY <2>1, <2>2, <2>4, <2>5, <2>6 DEF Tree, Once, Listed
<1> QED
  BY <1>4, <1>5

\* __mkdir writes the parent in whose list the folder already stands.
LEMMA HashKeepsTree ==
    ASSUME IndInv, Tree, NEW c, Client = {c}, SetInfo(c)
    PROVE  Tree'
<1>1. /\ reg[c] \in Registers /\ c \in Client
      /\ pc[c] = "HMSET" /\ pc'[c] \notin Drawing
      /\ UNCHANGED <<folders, files>>
  <2>1. c \in Client
    OBVIOUS
  <2>2. pc'[c] \in {"idle", "call"}
    BY <2>1, Landing DEF SetInfo
  <2> QED
    BY <2>1, <2>2, RegisterFacts DEF SetInfo, Drawing
<1>2. Drawn(c)'
  BY <1>1 DEF Drawn, Drawing
<1>3. CASE reg[c].op # "mkdir"
  BY <1>1, <1>2, <1>3, SameTree DEF SetInfo
<1>4. CASE reg[c].op = "mkdir"
  <2> DEFINE x == Lu(reg[c].newId)
             p == Lu(reg[c].parentId)
  <2>1. /\ DOMAIN folderInfo' = DOMAIN folderInfo \cup {x}
        /\ folderInfo'[x].parent = p
        /\ \A n \in DOMAIN folderInfo \ {x} : folderInfo'[n] = folderInfo[n]
    BY <1>4 DEF SetInfo, HMSET, FolderHash
  <2>2. \A n \in DOMAIN folders : \A i \in DOMAIN folders[n] :
            folders[n][i] = x => n = p
    BY <1>1, <1>4 DEF Tree, Drawn
  <2> HIDE DEF x, p
  <2>3. ASSUME NEW n \in DOMAIN folders, NEW i \in DOMAIN folders[n],
               folders[n][i] \in DOMAIN folderInfo'
        PROVE  folderInfo'[folders[n][i]].parent = n
    BY <2>1, <2>2, <2>3 DEF Tree, Link
  <2>4. Link'
    BY <1>1, <2>3 DEF Link
  <2> QED
    BY <1>1, <1>2, <2>4 DEF Tree, Once, Listed
<1> QED
  BY <1>3, <1>4

LEMMA TreeStep ==
    ASSUME IndInv, Tree, NEW c, Client = {c}, Start(c) \/ Type(c) \/ Step(c) \/ Kill(c)
    PROVE  Tree'
<1>1. c \in Client
  OBVIOUS
<1>2. CASE \/ Start(c) \/ Type(c) \/ isVirtualFileSystemCreated(c) \/ Kill(c)
           \/ Lookup(c) \/ CallCreate(c)
  <2>1. pc'[c] \notin Drawing
    BY <1>1, <1>2, SoftLanding
  <2>2. Drawn(c)'
    BY <2>1 DEF Drawn, Drawing
  <2>3. UNCHANGED <<folderInfo, folders, files>>
    BY <1>1, <1>2, QuietSteps DEF Entries, Kill, dbVars
  <2> QED
    BY <2>2, <2>3, SameTree
<1>3. CASE GetNewId(c)
  <2>1. /\ reg'[c].newId = idCount /\ pc'[c] = "INCR"
        /\ UNCHANGED <<idCount, folderInfo, folders, files>>
    BY <1>1, <1>3, RegisterFacts, Landing DEF GetNewId, Local, Set, Registers, dbVars,
         IndInv, ClientInv, Absent
  <2>2. Drawn(c)'
    BY <2>1 DEF Drawn
  <2> QED
    BY <2>1, <2>2, SameTree
<1>4. CASE IncrNewId(c)
  <2>1. /\ UNCHANGED <<reg, folderInfo, folders, files>>
        /\ pc'[c] = "LPUSH" /\ pc[c] = "INCR"
    BY <1>1, <1>4, Landing DEF IncrNewId
  <2>2. reg[c].newId = idCount
    BY <1>1, <2>1 DEF Tree, Drawn
  <2>3. Lu(reg[c].newId) = idCount /\ idCount \in Nat
    BY <2>2, StoreFacts DEF Lu
  <2>4. idCount \notin Listed(folders) \cup Listed(files) \cup DOMAIN folderInfo
    BY StoreFacts
  <2>5. Drawn(c)'
    BY <2>1, <2>3, <2>4 DEF Drawn, Listed
  <2> QED
    BY <2>1, <2>5, SameTree
<1> QED
  BY <1>1, <1>2, <1>3, <1>4, PushKeepsTree, HashKeepsTree, NoBuild DEF Step, Boot, Create

-----------------------------------------------------------------------------
(* The theorems.                                                           *)

LEMMA FreshInit == OneClient /\ InitFresh => FreshInv
<1> SUFFICES ASSUME InitFresh PROVE Early
  BY DEF FreshInv
<1>1. AuxInv
  BY DEF InitFresh, ClientInit, AuxInv
<1> QED
  BY <1>1 DEF InitFresh, EmptyDb, ClientInit, Early

LEMMA FreshStep == OneClient /\ FreshInv /\ [Next]_vars => FreshInv'
<1> SUFFICES ASSUME NEW c, Client = {c}, FreshInv, [Next]_vars PROVE FreshInv'
  BY DEF OneClient
<1>1. CASE Early /\ Next
  <2>1. Start(c) \/ Type(c) \/ Step(c) \/ Kill(c)
    BY <1>1 DEF Next
  <2> QED
    BY <1>1, <2>1, EarlyActions, EarlyStep
<1>2. CASE IndInv /\ Tree /\ Next
  <2>1. Start(c) \/ Type(c) \/ Step(c) \/ Kill(c)
    BY <1>2 DEF Next
  <2>2. Tree'
    BY <1>2, <2>1, TreeStep
  <2>3. IndInv'
    BY <1>2, NextStep
  <2> QED
    BY <2>2, <2>3 DEF FreshInv
<1>3. CASE UNCHANGED vars
  <2>1. CASE Early
    <3>1. Early'
      BY <1>3, <2>1 DEF Early, AuxInv, vars, dbVars, clientVars, auxVars
    <3> QED
      BY <3>1 DEF FreshInv
  <2>2. CASE IndInv /\ Tree
    <3>1. IndInv'
      BY <1>3, <2>2, NextStep
    <3>2. Drawn(c)'
      BY <1>3, <2>2 DEF Tree, Drawn, Listed, vars, dbVars, clientVars
    <3>3. Tree'
      BY <1>3, <2>2, <3>2, SameTree DEF vars, dbVars
    <3> QED
      BY <3>1, <3>3 DEF FreshInv
  <2> QED
    BY <2>1, <2>2 DEF FreshInv
<1> QED
  BY <1>1, <1>2, <1>3 DEF FreshInv

\* One process, however often it is killed and started again, builds the
\* store once and makes a tree in it.
THEOREM FreshInductive ==
    ASSUME OneClient
    PROVE  SpecFresh => []FreshInv
BY FreshInit, FreshStep, PTL DEF SpecFresh

\* The flag is set only when there is a root folder and a counter, at
\* whatever step of vfs_buildDatabase an earlier start was killed.
THEOREM BuiltBeforeFlag ==
    ASSUME OneClient
    PROVE  SpecFresh => []RootedWhenCreated
<1>1. FreshInv => RootedWhenCreated
  BY DEF FreshInv, Early, IndInv, DbInv, ParentBelowChild, RootedWhenCreated, Absent
<1> QED
  BY <1>1, FreshInductive, PTL

\* Places as pairs, as UniqueIds and LinkMatchesParent name them.
LEMMA SlotPair ==
    ASSUME NEW lists, NEW s \in Slots(lists)
    PROVE  /\ s[1] \in DOMAIN lists /\ s[2] \in DOMAIN lists[s[1]]
           /\ s = <<s[1], s[2]>>
BY DEF Slots

LEMMA NoSlots ==
    ASSUME NEW lists, DOMAIN lists = {}
    PROVE  Slots(lists) = {}
BY DEF Slots

\* No number names two entries, whatever the step at which getNewId was
\* interrupted by a kill.
THEOREM NumbersUsedOnce ==
    ASSUME OneClient
    PROVE  SpecFresh => []UniqueIds
<1>1. ASSUME NEW lists, Once(lists), NEW s \in Slots(lists), NEW t \in Slots(lists),
             lists[s[1]][s[2]] = lists[t[1]][t[2]]
      PROVE  s = t
  BY <1>1, SlotPair DEF Once
<1>2. ASSUME IndInv, Tree, NEW s \in Slots(folders), NEW t \in Slots(files)
      PROVE  folders[s[1]][s[2]] # files[t[1]][t[2]]
  <2>1. folders[s[1]][s[2]] \in Listed(folders)
    BY <1>2, SlotPair, StoreFacts DEF Listed
  <2>2. files[t[1]][t[2]] \in Listed(files)
    BY <1>2, SlotPair, StoreFacts DEF Listed
  <2> QED
    BY <1>2, <2>1, <2>2 DEF Tree
<1>3. FreshInv => UniqueIds
  <2>1. CASE Early
    BY <2>1, NoSlots DEF Early, EmptyMap, UniqueIds
  <2>2. CASE IndInv /\ Tree
    BY <1>1, <1>2, <2>2 DEF Tree, UniqueIds
  <2> QED
    BY <2>1, <2>2 DEF FreshInv
<1> QED
  BY <1>3, FreshInductive, PTL

\* The folder that lists a folder is its parent: a climb retraces a walk.
THEOREM LinksAgree ==
    ASSUME OneClient
    PROVE  SpecFresh => []LinkMatchesParent
<1>1. FreshInv => LinkMatchesParent
  <2>1. CASE Early
    BY <2>1, NoSlots DEF Early, EmptyMap, LinkMatchesParent
  <2>2. CASE Link
    BY <2>2, SlotPair DEF Link, LinkMatchesParent
  <2> QED
    BY <2>1, <2>2 DEF FreshInv, Tree
<1> QED
  BY <1>1, FreshInductive, PTL
=============================================================================
