------------------------------ MODULE RedisDb ------------------------------
(***************************************************************************)
(* The file system as it is kept in redis, and the single redis commands   *)
(* vfs.c and vfs_safe.cc issue on it.  Redis executes one command at a     *)
(* time, so a command is the unit of atomicity of the whole system.        *)
(*                                                                         *)
(* Keys: current_id_count, isVirtualFileSystemCreated, and for every n     *)
(* FOLDER_n_info (a hash with parent and name), FILE_n_info (a hash with   *)
(* name, size, urls: only the name is kept here), FOLDER_n_folders and     *)
(* FOLDER_n_files (lists of ids).  A missing key is a number outside the   *)
(* domain of the function that models the family of keys.                  *)
(***************************************************************************)
EXTENDS Integers, SequencesExt

CONSTANTS
    Char,                   \* the characters of paths and names
    LONG_MAX,               \* largest value of the C type long
    INT_MAX                 \* largest value of the C type int

ASSUME CharAssumption == {"/", ".", "r", "o", "t"} \subseteq Char

\* Both have two's complement, and long has more bits than int.
ASSUME WidthAssumption ==
    /\ LONG_MAX \in Nat
    /\ INT_MAX \in Nat
    /\ INT_MAX < LONG_MAX
    /\ LONG_MAX % (2 * INT_MAX + 2) = 2 * INT_MAX + 1

VARIABLES
    idCount,                \* current_id_count, or Absent
    created,                \* does isVirtualFileSystemCreated exist?
    folderInfo,             \* FOLDER_n_info : n -> [parent, name]
    fileInfo,               \* FILE_n_info   : n -> name
    folders,                \* FOLDER_n_folders : n -> sequence of ids
    files                   \* FOLDER_n_files   : n -> sequence of ids

dbVars == <<idCount, created, folderInfo, fileInfo, folders, files>>

Absent == -1                \* GET of a missing key
NoId   == -1                \* the code's "not found"
ROOT_FOLDER_ID == 0
ROOT_PARENT_ID == -1

(***************************************************************************)
(* Numbers travel as text.  %lu prints a negative long as the unsigned     *)
(* number with the same bits; strtol reads it back and saturates.          *)
(* vfsPathParser.c calls vfs_findDirNameInDir and vfs_getDirParent without *)
(* a declaration, so it takes their long results for ints: gcc keeps the   *)
(* low half and extends its sign.                                          *)
(***************************************************************************)
ULONG_MAX == 2 * LONG_MAX + 1
UINT_SIZE == 2 * INT_MAX + 2

\* Mutant: numbers printed with %ld, as __removeIdFromFolderList does.
Ld(id) == id

Lu(id)    == IF id < 0 THEN id + ULONG_MAX + 1 ELSE id
Strtol(n) == IF n > LONG_MAX THEN LONG_MAX ELSE n
ToInt(n)  == IF n \in -INT_MAX - 1 .. INT_MAX THEN n
             ELSE LET low == n % UINT_SIZE
                  IN  IF low > INT_MAX THEN low - UINT_SIZE ELSE low

\* The numbers the code keeps in a long: one read from redis, or an int.
Long == Nat \cup (-INT_MAX - 1 .. -1)

-----------------------------------------------------------------------------
(* Reading commands.                                                       *)

LRANGE(lists, dirId) ==
    IF Lu(dirId) \in DOMAIN lists THEN lists[Lu(dirId)] ELSE <<>>

\* The ids of a list reply, as strtol reads them.
Ids(list) == [i \in 1 .. Len(list) |-> Strtol(list[i])]

HasInfo(info, id) == Lu(id) \in DOMAIN info
HGETname(info, id) == info[Lu(id)].name
HGETparent(info, id) == Strtol(info[Lu(id)].parent)

-----------------------------------------------------------------------------
(* Writing commands, as functions of the old value of what they write.     *)

HMSET(info, id, fields) ==
    [n \in DOMAIN info \cup {Lu(id)} |->
        IF n = Lu(id) THEN fields ELSE info[n]]

LPUSH(lists, dirId, id) ==
    [n \in DOMAIN lists \cup {Lu(dirId)} |->
        IF n = Lu(dirId) THEN <<Lu(id)>> \o LRANGE(lists, dirId)
                         ELSE lists[n]]

\* INCR of a missing key starts from 0.
INCR(count) == IF count = Absent THEN 1 ELSE count + 1

EmptyMap == [n \in {} |-> n]

\* The hash __mkdir writes.
FolderHash(parentId, name) == [parent |-> Lu(parentId), name |-> name]

\* The root folder's name, "root".
RootName == <<"r", "o", "o", "t">>

\* The hash __createFile writes.
FileHash(name) == [name |-> name]

-----------------------------------------------------------------------------
\* Nothing in redis.
EmptyDb ==
    /\ idCount = Absent
    /\ created = FALSE
    /\ folderInfo = EmptyMap
    /\ fileInfo = EmptyMap
    /\ folders = EmptyMap
    /\ files = EmptyMap

\* What vfs_buildDatabase leaves behind when nothing interferes.
BuiltDb ==
    /\ idCount = 1
    /\ created = TRUE
    /\ folderInfo = HMSET(EmptyMap, ROOT_FOLDER_ID,
                          FolderHash(ROOT_FOLDER_ID, RootName))
    /\ fileInfo = EmptyMap
    /\ folders = EmptyMap
    /\ files = EmptyMap

DbTypeOK ==
    /\ idCount \in Nat \cup {Absent}
    /\ created \in BOOLEAN
    /\ DOMAIN folderInfo \subseteq Nat
    /\ \A n \in DOMAIN folderInfo :
          folderInfo[n] \in [parent : Nat, name : Seq(Char)]
    /\ DOMAIN fileInfo \subseteq Nat
    /\ \A n \in DOMAIN fileInfo : fileInfo[n] \in [name : Seq(Char)]
    /\ DOMAIN folders \subseteq Nat
    /\ \A n \in DOMAIN folders : folders[n] \in Seq(Nat)
    /\ DOMAIN files \subseteq Nat
    /\ \A n \in DOMAIN files : files[n] \in Seq(Nat)

=============================================================================
