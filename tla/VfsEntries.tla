----------------------------- MODULE VfsEntries -----------------------------
(***************************************************************************)
(* Processes that make, rename, delete, look up and list entries of one    *)
(* file system at the same time, through the parts of the library that     *)
(* module VfsClient leaves out: vfs_deleteObjectWithPath, vfs_setFileName, *)
(* vfs_ls and vfs_listUnixStyle, ls of the wrapper, and the FUSE calls     *)
(* Getattr and Readdir.  One redis command is one step, as in VfsClient.   *)
(*                                                                         *)
(* What VfsClient is about is kept simple: a path is an absolute path,     *)
(* given as the sequence of its names, no name begins with another one,    *)
(* and the new entries of vfs_mkdir and vfs_createFile go to a folder      *)
(* known by its number.                                                    *)
(***************************************************************************)
EXTENDS RedisDb, Lists

CONSTANTS
    Client,         \* the processes
    Calls,          \* the calls a process may make: [Client -> sets of calls]
    MaxCalls        \* bound: calls made in a behaviour

\* dir is the number of a folder ("make", "list") or of a file ("rename").
Call == [op   : {"make", "rename", "delete", "getattr", "readdir", "list"},
         kind : {"file", "dir", "none"},
         dir  : Nat,
         path : Seq(Seq(Char))]

\* What is made or renamed is given a name, and what is made is of a kind.
ASSUME CallsAssumption ==
    /\ Calls \in [Client -> SUBSET Call] /\ MaxCalls \in Nat
    /\ \A c \in Client : \A call \in Calls[c] :
          /\ call.op \in {"make", "rename"} => call.path # <<>>
          /\ call.op = "make" => call.kind \in {"file", "dir"}

\* An int holds the number of every entry (VfsClient is about those it does
\* not hold): there are four numbers to begin with, and a call draws one.
ASSUME NumbersFit == MaxCalls + 4 <= INT_MAX

\* The names of the entries there are to begin with.
ASSUME NamesAssumption == {"a", "b"} \subseteq Char

VARIABLES
    pc,             \* what the process does next
    reg,            \* local variables of the call
    made,           \* calls made so far
    gone,           \* history: the entries deleted, as <<kind, id>>
    stable,         \* history: entries of the folder c reads that were there,
                    \*   under the same name, ever since c began to read it
    held,           \* history: has some entry had the name c looks for, at
                    \*   every moment since the lookup began?
    saw             \* history: has a new entry lacked its hash during c's call?

history == <<gone, stable, held, saw>>
vars    == <<dbVars, pc, reg, made, history>>

Blank == [op |-> "none", kind |-> "none", path |-> <<>>, routine |-> "none",
          pos |-> 1, dir |-> NoId, ids |-> <<>>, id |-> NoId, type |-> "none",
          existing |-> TRUE, parentId |-> NoId, ret |-> 0, out |-> <<>>]

Labels == {"idle", "crashed", "done", "GET", "INCR", "LPUSH", "HMSET", "HSET",
           "walk", "files", "file", "folders", "folder", "found", "parent",
           "parsed", "LREM", "statname", "listfolders", "listfiles",
           "kind", "name"}

Goto(c, label) == pc' = [pc EXCEPT ![c] = label]
Set(c, r)      == reg' = [reg EXCEPT ![c] = r]

\* A step that only reads the store.
Read(c, label, r) ==
    Goto(c, label) /\ Set(c, r) /\ UNCHANGED <<dbVars, made, gone>>

\* An empty reply is dereferenced.
Crash(c) == Read(c, "crashed", Blank)

-----------------------------------------------------------------------------
(* A call begins.                                                          *)

\* vfs_parsePath answers "/" without a lookup.
StartParse(r) ==
    IF r.path = <<>>
    THEN [r EXCEPT !.routine = "parsed", !.id = ROOT_FOLDER_ID, !.type = "dir",
                   !.parentId = ROOT_PARENT_ID]
    ELSE [r EXCEPT !.routine = "parse", !.pos = 1, !.dir = ROOT_FOLDER_ID]

\* getFolderIdFromPath: the working directory of these processes is "/".
StartTarget(r) ==
    [r EXCEPT !.routine = "target", !.pos = 1, !.dir = ROOT_FOLDER_ID,
              !.type = "none"]

FirstStep(call) ==
    LET r == [Blank EXCEPT !.op = call.op, !.kind = call.kind, !.path = call.path]
    IN  CASE call.op = "make"    -> <<"GET", [r EXCEPT !.parentId = call.dir]>>
          [] call.op = "rename"  -> <<"HSET", [r EXCEPT !.id = call.dir]>>
          [] call.op = "list"    -> <<"listfolders", [r EXCEPT !.dir = call.dir]>>
          [] call.op = "readdir" -> <<"walk", StartTarget(r)>>
          \* getDirItemInfo looks for a file unless the path ends in '/'.
          [] call.op = "getattr" -> <<"walk", IF r.path = <<>> THEN StartTarget(r)
                                              ELSE StartParse(r)>>
          [] call.op = "delete"  -> <<IF r.path = <<>> THEN "parsed" ELSE "walk",
                                      StartParse(r)>>

Begin(c) ==
    /\ pc[c] = "idle"
    /\ made < MaxCalls
    /\ \E call \in Calls[c] : LET first == FirstStep(call)
                              IN  Goto(c, first[1]) /\ Set(c, first[2])
    /\ made' = made + 1
    /\ UNCHANGED <<dbVars, gone>>

Return(c) ==
    /\ pc[c] = "done"
    /\ Read(c, "idle", Blank)

-----------------------------------------------------------------------------
(* vfs_mkdir, vfs_createFile and vfs_setFileName.                          *)

GetNewId(c) ==
    /\ pc[c] = "GET"
    /\ Read(c, "INCR", [reg[c] EXCEPT !.id = idCount])

IncrNewId(c) ==
    /\ pc[c] = "INCR"
    /\ idCount' = INCR(idCount)
    /\ Goto(c, "LPUSH")
    /\ UNCHANGED <<created, folderInfo, fileInfo, folders, files, reg, made, gone>>

AddToList(c) ==
    /\ pc[c] = "LPUSH"
    /\ IF reg[c].kind = "dir"
       THEN /\ folders' = LPUSH(folders, reg[c].parentId, reg[c].id)
            /\ UNCHANGED files
       ELSE /\ files' = LPUSH(files, reg[c].parentId, reg[c].id)
            /\ UNCHANGED folders
    /\ Goto(c, "HMSET")
    /\ UNCHANGED <<idCount, created, folderInfo, fileInfo, reg, made, gone>>

Name(c) == reg[c].path[1]

\* Mutant: the parent written is always the root.
SetInfoInRoot(c) ==
    /\ pc[c] = "HMSET"
    /\ folderInfo' = HMSET(folderInfo, reg[c].id,
                           FolderHash(ROOT_FOLDER_ID, Name(c)))
    /\ Goto(c, "done")
    /\ UNCHANGED <<idCount, created, fileInfo, folders, files, reg, made, gone>>

SetInfo(c) ==
    /\ pc[c] = "HMSET"
    /\ IF reg[c].kind = "dir"
       THEN /\ folderInfo' = HMSET(folderInfo, reg[c].id,
                                   FolderHash(reg[c].parentId, Name(c)))
            /\ UNCHANGED fileInfo
       ELSE /\ fileInfo' = HMSET(fileInfo, reg[c].id, FileHash(Name(c)))
            /\ UNCHANGED folderInfo
    /\ Goto(c, "done")
    /\ UNCHANGED <<idCount, created, folders, files, reg, made, gone>>

vfs_setFileName(c) ==
    /\ pc[c] = "HSET"
    /\ fileInfo' = HMSET(fileInfo, reg[c].id, FileHash(Name(c)))
    /\ Goto(c, "done")
    /\ UNCHANGED <<idCount, created, folderInfo, folders, files, reg, made, gone>>

-----------------------------------------------------------------------------
(* A walk: the names of a path are looked up one after the other, the last *)
(* one too, by the parser as an entry and by getDirIdFromPath as a folder. *)

Wanted(c) == reg[c].path[reg[c].pos]

Walk(c) ==
    /\ pc[c] = "walk"
    /\ IF reg[c].pos <= Len(reg[c].path)
       THEN Read(c, "files", [reg[c] EXCEPT !.id = NoId, !.type = "none"])
       ELSE \* getDirIdFromPath returns the folder it has reached.
            Read(c, IF reg[c].op = "readdir" THEN "listfolders" ELSE "statname",
                 [reg[c] EXCEPT !.id = reg[c].dir, !.type = "dir"])

FindFiles(c) ==
    /\ pc[c] = "files"
    /\ Read(c, "file", [reg[c] EXCEPT !.ids = Ids(LRANGE(files, reg[c].dir))])

\* Mutant: the search gives up at the first file of another name.
FindFileFirst(c) ==
    /\ pc[c] = "file"
    /\ reg[c].ids # <<>>
    /\ LET fileId == Head(reg[c].ids)
       IN  IF ~HasInfo(fileInfo, fileId) THEN Crash(c)
           ELSE IF HGETname(fileInfo, fileId) = Wanted(c)
                THEN Read(c, "found", [reg[c] EXCEPT !.id = fileId, !.type = "file"])
           ELSE Read(c, "found", reg[c])

FindFile(c) ==
    /\ pc[c] = "file"
    /\ reg[c].ids # <<>>
    /\ LET fileId == Head(reg[c].ids)
           rest   == [reg[c] EXCEPT !.ids = Tail(@)]
       IN  IF ~HasInfo(fileInfo, fileId) THEN Crash(c)
           ELSE IF HGETname(fileInfo, fileId) = Wanted(c)
                THEN Read(c, "file", [rest EXCEPT !.id = fileId, !.type = "file"])
           ELSE Read(c, "file", rest)

FindFileEnd(c) ==
    /\ pc[c] = "file"
    /\ reg[c].ids = <<>>
    /\ Read(c, IF reg[c].type = "file" THEN "found" ELSE "folders", reg[c])

FindFolders(c) ==
    /\ pc[c] = "folders"
    /\ Read(c, "folder", [reg[c] EXCEPT !.ids = Ids(LRANGE(folders, reg[c].dir))])

\* vfs_findObjectInDir takes the long it is given for an int, and -1 for
\* nothing found.
FoundDir(c, id) == IF id = NoId THEN reg[c]
                   ELSE [reg[c] EXCEPT !.id = id, !.type = "dir"]

FindFolder(c) ==
    /\ pc[c] = "folder"
    /\ reg[c].ids # <<>>
    /\ LET dirId == Head(reg[c].ids)
       IN  IF ~HasInfo(folderInfo, dirId) THEN Crash(c)
           ELSE IF HGETname(folderInfo, dirId) = Wanted(c)
                THEN Read(c, "found", FoundDir(c, ToInt(dirId)))
           ELSE Read(c, "folder", [reg[c] EXCEPT !.ids = Tail(@)])

FindFolderEnd(c) ==
    /\ pc[c] = "folder"
    /\ reg[c].ids = <<>>
    /\ Read(c, "found", reg[c])

\* The walk cannot go on: parsePath returns -1 before it has looked for the
\* last name, so isExistingObject keeps its initial 1.
WalkFails(c) ==
    LET r == [reg[c] EXCEPT !.id = NoId, !.type = "none", !.dir = NoId]
    IN  IF r.routine = "parse" THEN Read(c, "parsed", r)
        ELSE IF r.op = "readdir"        \* ls does not test the number
             THEN Read(c, "listfolders", r)
        ELSE \* stat returns an info whose type was never set
             \E type \in {"file", "dir"} :
                Read(c, "done", [r EXCEPT !.type = type])

\* vfs_findObjectInDir has returned.
Found(c) ==
    /\ pc[c] = "found"
    /\ IF reg[c].routine = "parse" /\ reg[c].pos = Len(reg[c].path)
       THEN IF reg[c].type = "dir" THEN Read(c, "parent", reg[c])
            ELSE Read(c, "parsed", [reg[c] EXCEPT !.parentId = reg[c].dir,
                                        !.existing = (reg[c].type = "file")])
       ELSE IF reg[c].type = "dir"
            THEN Read(c, "walk", [reg[c] EXCEPT !.dir = reg[c].id, !.pos = @ + 1])
       ELSE WalkFails(c)

ParseParent(c) ==
    /\ pc[c] = "parent"
    /\ IF HasInfo(folderInfo, reg[c].id)
       THEN Read(c, "parsed", [reg[c] EXCEPT
                !.parentId = ToInt(HGETparent(folderInfo, reg[c].id))])
       ELSE Crash(c)

-----------------------------------------------------------------------------
(* vfs_deleteObjectWithPath.                                               *)

\* What vfs_parsePath returns is not looked at.
Parsed(c) ==
    /\ pc[c] = "parsed" /\ reg[c].op = "delete"
    /\ IF ~reg[c].existing THEN Read(c, "done", [reg[c] EXCEPT !.ret = -1])
       ELSE Read(c, IF reg[c].type = "none" THEN "done" ELSE "LREM", reg[c])

\* LREM FOLDER_%ld_... 0 %ld: every element equal to the id, and the hash
\* of the entry stays.
LREM(lists, dirId, id) ==
    [n \in DOMAIN lists |->
        IF n = Ld(dirId) THEN Without(lists[n], Ld(id)) ELSE lists[n]]

RemoveFromList(c) ==
    /\ pc[c] = "LREM"
    /\ IF reg[c].type = "dir"
       THEN /\ folders' = LREM(folders, reg[c].parentId, reg[c].id)
            /\ UNCHANGED files
       ELSE /\ files' = LREM(files, reg[c].parentId, reg[c].id)
            /\ UNCHANGED folders
    /\ gone' = gone \cup {<<reg[c].type, reg[c].id>>}
    /\ Goto(c, "done")
    /\ UNCHANGED <<idCount, created, folderInfo, fileInfo, reg, made>>

-----------------------------------------------------------------------------
(* RedisFs::Getattr, through stat and getDirItemInfo of a path.            *)

StatParsed(c) ==
    /\ pc[c] = "parsed" /\ reg[c].op = "getattr"
    /\ IF reg[c].type = "file" THEN Read(c, "statname", reg[c])
       ELSE Read(c, "walk", StartTarget(reg[c]))

StatName(c) ==
    /\ pc[c] = "statname"
    /\ IF HasInfo(IF reg[c].type = "file" THEN fileInfo ELSE folderInfo, reg[c].id)
       THEN Read(c, "done", reg[c])
       ELSE Crash(c)

-----------------------------------------------------------------------------
(* Listing.  Readdir takes all numbers first, the folders', then the       *)
(* files', and asks for the kind of each one with EXISTS FOLDER_n_info.    *)
(* vfs_ls and vfs_listUnixStyle list the folders, names included, and then *)
(* the files.  The parent and the size an entry is also asked for cannot   *)
(* fail and are not used.                                                  *)

ListFolders(c) ==
    /\ pc[c] = "listfolders"
    /\ LET ids == Ids(LRANGE(folders, reg[c].dir))
       IN  IF reg[c].op = "readdir"
           THEN Read(c, "listfiles", [reg[c] EXCEPT !.ids = ids])
           ELSE Read(c, "name", [reg[c] EXCEPT !.ids = ids, !.type = "dir"])

\* Mutant: the files replace the folders in the result.
ListFilesOnly(c) ==
    /\ pc[c] = "listfiles"
    /\ LET ids == Ids(LRANGE(files, reg[c].dir))
       IN  IF reg[c].op = "readdir"
           THEN Read(c, "kind", [reg[c] EXCEPT !.ids = ids])
           ELSE Read(c, "name", [reg[c] EXCEPT !.ids = ids, !.type = "file"])

ListFiles(c) ==
    /\ pc[c] = "listfiles"
    /\ LET ids == Ids(LRANGE(files, reg[c].dir))
       IN  IF reg[c].op = "readdir"
           THEN Read(c, "kind", [reg[c] EXCEPT !.ids = @ \o ids])
           ELSE Read(c, "name", [reg[c] EXCEPT !.ids = ids, !.type = "file"])

\* Mutant: the numbers are asked for in one order and named in another.
AskKindOfLast(c) ==
    /\ pc[c] = "kind" /\ reg[c].ids # <<>>
    /\ LET isDirectory == HasInfo(folderInfo, reg[c].ids[Len(reg[c].ids)])
       IN  Read(c, "name", [reg[c] EXCEPT !.type = IF isDirectory THEN "dir"
                                                   ELSE "file"])

AskKind(c) ==
    /\ pc[c] = "kind" /\ reg[c].ids # <<>>
    /\ LET isDirectory == HasInfo(folderInfo, Head(reg[c].ids))
       IN  Read(c, "name", [reg[c] EXCEPT !.type = IF isDirectory THEN "dir"
                                                   ELSE "file"])

AskName(c) ==
    /\ pc[c] = "name" /\ reg[c].ids # <<>>
    /\ LET id   == Head(reg[c].ids)
           info == IF reg[c].type = "dir" THEN folderInfo ELSE fileInfo
       IN  IF ~HasInfo(info, id) THEN Crash(c)
           ELSE Read(c, IF reg[c].op = "readdir" THEN "kind" ELSE "name",
                     [reg[c] EXCEPT !.ids = Tail(@),
                        !.out = Append(@, <<reg[c].type, id, HGETname(info, id)>>)])

ListEnd(c) ==
    /\ pc[c] \in {"kind", "name"} /\ reg[c].ids = <<>>
    /\ Read(c, IF pc[c] = "name" /\ reg[c].type = "dir" THEN "listfiles" ELSE "done",
            reg[c])

-----------------------------------------------------------------------------
(* History.                                                                *)

\* The entries of a folder: listed and named.
Entries(dir) ==
    LET Of(kind, lists, info) ==
            {<<kind, n, info[n].name>> :
                n \in ToSet(LRANGE(lists, dir)) \cap DOMAIN info}
    IN  Of("dir", folders, folderInfo) \cup Of("file", files, fileInfo)

Lookup  == {"files", "file", "folders", "folder", "found"}
Listing == {"listfolders", "listfiles", "kind", "name", "done"}

\* Does c read the folder reg[c].dir, and what does it look for there?
Reading(c)    == pc[c] \in Lookup \cup Listing
Searching(c)  == pc[c] \in Lookup
Bears(c)      == {e \in Entries(reg[c].dir) : e[3] = Wanted(c)} # {}

\* What is remembered of a step.
Track ==
    /\ stable' = [c \in Client |->
          IF ~Reading(c)' THEN {}
          ELSE IF ~Reading(c) THEN Entries(reg[c].dir)'
          ELSE IF pc[c] = "done" THEN stable[c]
          ELSE stable[c] \cap Entries(reg[c].dir)']
    /\ held' = [c \in Client |->
          Searching(c)' /\ Bears(c)' /\ (Searching(c) => held[c])]
    /\ saw' = [c \in Client |->
          pc'[c] # "idle" /\ (saw[c] \/ \E d \in Client : pc'[d] = "HMSET")]

-----------------------------------------------------------------------------
Step(c) ==
    \/ GetNewId(c) \/ IncrNewId(c) \/ AddToList(c) \/ SetInfo(c)
    \/ vfs_setFileName(c)
    \/ Walk(c) \/ FindFiles(c) \/ FindFile(c) \/ FindFileEnd(c)
    \/ FindFolders(c) \/ FindFolder(c) \/ FindFolderEnd(c) \/ Found(c)
    \/ ParseParent(c) \/ Parsed(c) \/ RemoveFromList(c) \/ StatParsed(c) \/ StatName(c)
    \/ ListFolders(c) \/ ListFiles(c) \/ AskKind(c) \/ AskName(c) \/ ListEnd(c)
    \/ Return(c)

Next == /\ \E c \in Client : Begin(c) \/ Step(c)
        /\ Track

\* A file system with the file 1 and the folder 2, which holds the file 3.
Populated(fileName, folderName) ==
    /\ idCount = 4
    /\ created = TRUE
    /\ folderInfo = HMSET(HMSET(EmptyMap, ROOT_FOLDER_ID,
                                FolderHash(ROOT_FOLDER_ID, RootName)),
                          2, FolderHash(ROOT_FOLDER_ID, folderName))
    /\ fileInfo = HMSET(HMSET(EmptyMap, 1, FileHash(fileName)), 3, FileHash(fileName))
    /\ folders = LPUSH(EmptyMap, ROOT_FOLDER_ID, 2)
    /\ files = LPUSH(LPUSH(EmptyMap, ROOT_FOLDER_ID, 1), 2, 3)

Init ==
    /\ Populated(<<"a">>, <<"b">>)
    /\ pc = [c \in Client |-> "idle"]
    /\ reg = [c \in Client |-> Blank]
    /\ made = 0
    /\ gone = {}
    /\ stable = [c \in Client |-> {}]
    /\ held = [c \in Client |-> FALSE]
    /\ saw = [c \in Client |-> FALSE]

Spec == Init /\ [][Next]_vars

-----------------------------------------------------------------------------
(* Properties.                                                             *)

\* The types of the store and of a call's results, whatever was renamed or
\* removed meanwhile.
TypeOK ==
    /\ DbTypeOK
    /\ pc \in [Client -> Labels]
    /\ \A c \in Client : /\ reg[c].dir \in Long
                         /\ reg[c].id \in Long
                         /\ reg[c].parentId \in Long
                         /\ reg[c].ids \in Seq(Nat)

\* vfs_findObjectInDir reads the list of files, their names one by one, the
\* list of folders and their names, with commands of others in between: an
\* entry that bore the name all the while is not missed.
StableFound ==
    \A c \in Client : pc[c] = "found" /\ reg[c].type = "none"
        => ~\E e \in stable[c] : e[3] = Wanted(c)

\* Numbers two entries of different kinds have drawn: INCR comes after GET.
Shared == DOMAIN folderInfo \cap DOMAIN fileInfo

\* A listing (ls of Readdir, vfs_ls) shows every entry that was in the
\* folder, under one name, from its first command to its last, as the kind
\* it is, while others are made, renamed and deleted.  Readdir decides by
\* EXISTS FOLDER_n_info what n is, and goes wrong only where a folder and a
\* file have drawn the same number.
StableListed ==
    \A c \in Client : pc[c] = "done" /\ reg[c].op \in {"readdir", "list"}
        => \A e \in stable[c] :
             \/ e \in ToSet(reg[c].out)
             \/ reg[c].op = "readdir" /\ e[2] \in Shared

\* An entry deleted is in no list, then and later: the parent a folder
\* names is the one that lists it, and the number is not handed out again.
GoneForGood ==
    \A g \in gone : LET lists == IF g[1] = "dir" THEN folders ELSE files
                    IN  \A n \in DOMAIN lists : g[2] \notin ToSet(lists[n])

\* A process dies only when an entry lacked its hash at some moment of its
\* call; deleting and renaming leave nothing that cannot be read.
CrashNeedsUnfinished ==
    \A c \in Client : pc[c] = "crashed" => saw[c]

-----------------------------------------------------------------------------
(* What comments of the code claim and the code does not keep.             *)

\* "this finds a "name" in a directory (either a file or a folder)"
\* (vfs_findObjectInDir): a name some entry bears at every moment is found.
MissMeansAbsent ==
    \A c \in Client : pc[c] = "found" /\ reg[c].type = "none" => ~held[c]

\* "returns 0 if success, non-0 otherwise" (vfs_deleteObjectWithPath).
ZeroMeansDeleted ==
    \A c \in Client : pc[c] = "done" /\ reg[c].op = "delete" /\ reg[c].ret = 0
        => <<reg[c].type, reg[c].id>> \in gone

\* DIR_ITEM_UNKNOWN is "used when you can't tell the type": Getattr of a path
\* that leads nowhere reports neither a file nor a folder.
MissingHasNoKind ==
    \A c \in Client : pc[c] = "done" /\ reg[c].op = "getattr" /\ reg[c].id = NoId
        => reg[c].type \notin {"file", "dir"}

=============================================================================
