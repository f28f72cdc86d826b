----------------------------- MODULE VfsClient -----------------------------
(***************************************************************************)
(* Processes that use the virtual file system at the same time: terminals  *)
(* (tests/terminalTest.cc) or any other program linked with the library.   *)
(* They share nothing but the redis server of module RedisDb.              *)
(*                                                                         *)
(* A process runs one command at a time.  Every redis command it issues is *)
(* one step here, so other processes run between any two of them.  What    *)
(* it computes between two redis commands is joined to one of them or is a *)
(* step on its own registers ("call", "walk", "end").                      *)
(*                                                                         *)
(* todo[c] is the call stack of c written as the list of library routines  *)
(* still to be run for the command:                                        *)
(*   "cwd"     getCwdId                                                    *)
(*   "left"    the left side in formatToValidPath                          *)
(*   "parse"   vfs_parsePath on the path                                   *)
(*   "target"  vfs_getDirIdFromPath on the path                            *)
(*   "create"  vfs_mkdir or vfs_createFile                                 *)
(*   "chdir"   getAbsolutePathFromFolderId into the working directory      *)
(*   "lsfiles", "lsfolders"  redis_getFiles, redis_getFolders              *)
(*   "statname"  the name lookup that ends stat                            *)
(***************************************************************************)
EXTENDS RedisDb, VfsPath

CONSTANTS
    Client,         \* the processes
    Commands,       \* what a user may type: a set of [op, path]
    MaxCommands,    \* bound: commands typed in a behaviour
    MaxKills        \* bound: processes killed in a behaviour

Ops == {"mkdir", "mkfile", "cd", "ls", "stat"}

\* Only ls may be typed without a path; the terminal drops empty arguments.
ASSUME CommandsAssumption ==
    /\ Commands \subseteq [op : Ops, path : Seq(Char)]
    /\ \A cmd \in Commands : cmd.path # <<>> \/ cmd.op = "ls"
ASSUME BoundsAssumption == MaxCommands \in Nat /\ MaxKills \in Nat

VARIABLES
    pc,             \* what the process does next
    cwd,            \* FsContext.cwd, a string
    todo,           \* routines still to run for the command
    reg,            \* local variables of those routines
    issued,         \* commands typed so far
    kills,          \* processes killed so far
    lost            \* entries whose process was killed between LPUSH and HMSET

clientVars == <<pc, cwd, todo, reg>>
auxVars    == <<issued, kills, lost>>
vars       == <<dbVars, clientVars, auxVars>>

Routines == {"cwd", "left", "parse", "target", "create", "chdir",
             "lsfiles", "lsfolders", "statname"}

Labels == {"down", "crashed", "idle",
           "EXISTS", "FLUSHALL", "mkroot", "SETcount", "SETcreated",
           "call", "walk", "end",
           "files", "file", "folders", "folder", "dotdot", "parent",
           "name", "up",
           "GET", "INCR", "LPUSH", "HMSET",
           "lsfile", "lsfolder"}

Registers ==
    [op       : Ops \cup {"none"},
     arg      : Seq(Char),    \* the path, then the formatted path
     pos      : Nat,            \* currPtr - path
     dir      : Long,           \* currDir, then currentId while climbing
     ids      : Seq(Nat),       \* rest of the LRANGE reply
     id       : Long,           \* matchId, then parserState.id
     kind     : {"none", "file", "dir"},    \* isFilePath, isDir
     parentId : Long,           \* parserState.parentId
     cwdId    : Long,           \* result of getCwdId
     left     : Seq(Char),    \* output of getAbsolutePathFromFolderId
     newId    : Long]            \* result of getNewId

Blank == [op |-> "none", arg |-> <<>>, pos |-> 0, dir |-> NoId, ids |-> <<>>,
          id |-> NoId, kind |-> "none", parentId |-> NoId, cwdId |-> NoId,
          left |-> <<>>, newId |-> NoId]

\* The types of the store and of the processes' variables.  A number is
\* what strtol or an implicit int result can give: natural, or not below
\* the smallest int, also after a folder was made with parent -1, whose
\* text is that of ULONG_MAX.
TypeOK ==
    /\ DbTypeOK
    /\ pc \in [Client -> Labels]
    /\ cwd \in [Client -> Seq(Char)]
    /\ todo \in [Client -> Seq(Routines)]
    /\ reg \in [Client -> Registers]
    /\ issued \in Nat
    /\ kills \in Nat
    /\ lost \subseteq ({"folder", "file"} \X Nat)

-----------------------------------------------------------------------------
(* Control of one process.                                                 *)

Goto(c, label) == pc' = [pc EXCEPT ![c] = label]
Set(c, r)      == reg' = [reg EXCEPT ![c] = r]

\* A step that changes only the process: label, registers, nothing else.
Local(c, label, r) ==
    /\ Goto(c, label)
    /\ Set(c, r)
    /\ UNCHANGED <<dbVars, cwd, todo, auxVars>>

\* The command is over: back to the prompt.
Prompt(c) ==
    /\ Goto(c, "idle")
    /\ Set(c, Blank)
    /\ todo' = [todo EXCEPT ![c] = <<>>]

\* The running routine returns to the next one on the list.
Return(c, r) ==
    IF Len(todo[c]) <= 1
    THEN Prompt(c)
    ELSE /\ Goto(c, "call")
         /\ Set(c, r)
         /\ todo' = [todo EXCEPT ![c] = Tail(@)]

\* The process dies of its own doing: it dereferences the NULL of an empty
\* reply, or throws an exception nobody catches.
Crash(c) ==
    /\ Goto(c, "crashed")
    /\ Set(c, Blank)
    /\ todo' = [todo EXCEPT ![c] = <<>>]
    /\ UNCHANGED <<dbVars, cwd, auxVars>>

Routine(c) == Head(todo[c])

-----------------------------------------------------------------------------
(* getInitialContext: a new process, and vfs_buildDatabase if no process   *)
(* has said yet that the file system exists.                               *)

Start(c) ==
    /\ pc[c] \in {"down", "crashed"}
    /\ Goto(c, "EXISTS")
    /\ Set(c, Blank)
    /\ cwd' = [cwd EXCEPT ![c] = <<"/">>]
    /\ UNCHANGED <<dbVars, todo, auxVars>>

\* Mutant: the database is built at every start.
AlwaysBuild(c) ==
    /\ pc[c] = "EXISTS"
    /\ Goto(c, "FLUSHALL")
    /\ UNCHANGED <<dbVars, cwd, todo, reg, auxVars>>

isVirtualFileSystemCreated(c) ==
    /\ pc[c] = "EXISTS"
    /\ Goto(c, IF created THEN "idle" ELSE "FLUSHALL")
    /\ UNCHANGED <<dbVars, cwd, todo, reg, auxVars>>

BuildFlush(c) ==
    /\ pc[c] = "FLUSHALL"
    /\ idCount' = Absent
    /\ created' = FALSE
    /\ folderInfo' = EmptyMap
    /\ fileInfo' = EmptyMap
    /\ folders' = EmptyMap
    /\ files' = EmptyMap
    /\ Goto(c, "mkroot")
    /\ UNCHANGED <<cwd, todo, reg, auxVars>>

\* Mutant: the counter is not initialised.
BuildRootOnly(c) ==
    /\ pc[c] = "mkroot"
    /\ folderInfo' = HMSET(folderInfo, ROOT_FOLDER_ID,
                           FolderHash(ROOT_FOLDER_ID, RootName))
    /\ Goto(c, "SETcreated")
    /\ UNCHANGED <<idCount, created, fileInfo, folders, files,
                   cwd, todo, reg, auxVars>>

BuildRoot(c) ==
    /\ pc[c] = "mkroot"
    /\ folderInfo' = HMSET(folderInfo, ROOT_FOLDER_ID,
                           FolderHash(ROOT_FOLDER_ID, RootName))
    /\ Goto(c, "SETcount")
    /\ UNCHANGED <<idCount, created, fileInfo, folders, files,
                   cwd, todo, reg, auxVars>>

BuildCount(c) ==
    /\ pc[c] = "SETcount"
    /\ idCount' = 1
    /\ Goto(c, "SETcreated")
    /\ UNCHANGED <<created, folderInfo, fileInfo, folders, files,
                   cwd, todo, reg, auxVars>>

BuildCreated(c) ==
    /\ pc[c] = "SETcreated"
    /\ created' = TRUE
    /\ Goto(c, "idle")
    /\ UNCHANGED <<idCount, folderInfo, fileInfo, folders, files,
                   cwd, todo, reg, auxVars>>

-----------------------------------------------------------------------------
(* The prompt: handleCommand calls the library.                            *)

\* formatToValidPath asks redis only for a relative path; an absolute path
\* is its own formatted path.
LeftSide(path) == IF IsAbsolute(path) THEN <<>> ELSE <<"cwd", "left">>

Program(op, path) ==
    CASE op \in {"mkdir", "mkfile"} ->
            LeftSide(path) \o <<"cwd", "parse", "create">>
      [] op = "cd" ->
            LeftSide(path) \o <<"cwd", "target", "chdir">>
      [] op = "ls" ->
            <<"cwd", "target", "lsfiles", "cwd", "target", "lsfolders">>
      [] op = "stat" ->
            (IF Last(path) = "/" THEN <<>> ELSE <<"cwd", "parse">>)
                \o <<"cwd", "target", "statname">>

Type(c) ==
    /\ pc[c] = "idle"
    /\ issued < MaxCommands
    /\ \E cmd \in Commands :
          LET path == IF cmd.path = <<>> THEN cwd[c] ELSE cmd.path
          IN  /\ Goto(c, "call")
              /\ Set(c, [Blank EXCEPT !.op = cmd.op, !.arg = path])
              /\ todo' = [todo EXCEPT ![c] = Program(cmd.op, path)]
    /\ issued' = issued + 1
    /\ UNCHANGED <<dbVars, cwd, kills, lost>>

-----------------------------------------------------------------------------
(* vfs_getDirIdFromPath: follow a path, one name after the other.          *)

\* The path the running routine follows, and its length as it was passed.
WalkedPath(c) ==
    CASE Routine(c) \in {"cwd", "left"} -> cwd[c]
      [] Routine(c) = "target"          -> WithSlash(reg[c].arg)
      [] OTHER                          -> reg[c].arg

PathLength(c) == IF Routine(c) = "parse" THEN FixedPathLength(WalkedPath(c))
                                         ELSE Len(WalkedPath(c))

\* The name under the pointer, its length, and whether no '/' follows it.
Rest(c) == From(WalkedPath(c), reg[c].pos)
NameLength(c) == getLengthOfNextName(Rest(c), PathLength(c) - reg[c].pos)
AtLastName(c) == reg[c].pos + NameLength(c) >= PathLength(c)

\* vfs_parsePath answers "/" without a lookup.
IsRootPath(c) == Routine(c) = "parse" /\ PathLength(c) = 0

CallRoot(c) ==
    /\ pc[c] = "call"
    /\ IsRootPath(c)
    /\ Return(c, [reg[c] EXCEPT !.id = ROOT_FOLDER_ID, !.kind = "dir",
                                !.parentId = ROOT_PARENT_ID])
    /\ UNCHANGED <<dbVars, cwd, auxVars>>

CallWalk(c) ==
    /\ pc[c] = "call"
    /\ Routine(c) \in {"cwd", "left", "target", "parse"}
    /\ ~IsRootPath(c)
    /\ LET abs == IsAbsolute(WalkedPath(c))
       IN  Local(c, "walk",
                 [reg[c] EXCEPT !.pos = IF abs THEN 1 ELSE 0,
                                !.dir = IF abs THEN ROOT_FOLDER_ID ELSE reg[c].cwdId,
                                !.id = NoId, !.kind = "none",
                                !.parentId = NoId])

\* The last name is not followed.
Walk(c) ==
    /\ pc[c] = "walk"
    /\ Local(c, IF AtLastName(c) THEN "end" ELSE "files", reg[c])

-----------------------------------------------------------------------------
(* vfs_findObjectInDir: a file of that name, else a folder of that name.   *)

\* A lookup made on the way: only a folder lets the walk go on.
WalkInto(c, id) ==
    Local(c, "walk", [reg[c] EXCEPT !.dir = id, !.pos = @ + NameLength(c) + 1])

WalkFails(c) ==
    Local(c, "end", [reg[c] EXCEPT !.dir = NoId])

\* The lookup of the last name in vfs_parsePath.
ParsedFile(c, id) ==
    /\ IF reg[c].op = "stat"        \* getFileIdFromPath succeeded
       THEN /\ Goto(c, "call")
            /\ Set(c, [reg[c] EXCEPT !.id = id, !.kind = "file"])
            /\ todo' = [todo EXCEPT ![c] = <<"statname">>]
       ELSE Return(c, [reg[c] EXCEPT !.id = id, !.kind = "file",
                                     !.parentId = reg[c].dir])
    /\ UNCHANGED <<dbVars, cwd, auxVars>>

ParsedDir(c, id) ==
    Local(c, "parent", [reg[c] EXCEPT !.id = id, !.kind = "dir"])

ParsedNothing(c) ==
    /\ Return(c, [reg[c] EXCEPT !.parentId = reg[c].dir])
    /\ UNCHANGED <<dbVars, cwd, auxVars>>

FoundFile(c, id) == IF AtLastName(c) THEN ParsedFile(c, id) ELSE WalkFails(c)
FoundNothing(c)  == IF AtLastName(c) THEN ParsedNothing(c) ELSE WalkFails(c)

\* The result of vfs_findDirNameInDir, as its caller reads it.
FoundDir(c, id) ==
    IF ToInt(id) = NoId THEN FoundNothing(c)
    ELSE IF AtLastName(c) THEN ParsedDir(c, ToInt(id))
    ELSE WalkInto(c, ToInt(id))

\* Mutant: the search for a file reads the list of folders.
FindFilesInFolders(c) ==
    /\ pc[c] = "files"
    /\ Local(c, "file", [reg[c] EXCEPT !.ids = Ids(LRANGE(folders, reg[c].dir)),
                                       !.id = NoId])

FindFiles(c) ==
    /\ pc[c] = "files"
    /\ Local(c, "file", [reg[c] EXCEPT !.ids = Ids(LRANGE(files, reg[c].dir)),
                                       !.id = NoId])

\* Every file of the folder is compared: the last match stands.
FindFile(c) ==
    /\ pc[c] = "file"
    /\ reg[c].ids # <<>>
    /\ LET fileId == Head(reg[c].ids)
       IN  IF HasInfo(fileInfo, fileId)
           THEN Local(c, "file",
                  [reg[c] EXCEPT
                     !.ids = Tail(@),
                     !.id = IF FileNameMatches(HGETname(fileInfo, fileId),
                                               Rest(c), NameLength(c))
                            THEN fileId ELSE @])
           ELSE Crash(c)

FindFileEnd(c) ==
    /\ pc[c] = "file"
    /\ reg[c].ids = <<>>
    /\ IF reg[c].id # NoId THEN FoundFile(c, reg[c].id)
       ELSE IF IsDot(Rest(c), NameLength(c))
            THEN FoundDir(c, reg[c].dir)
       ELSE IF IsDotDot(Rest(c), NameLength(c)) THEN Local(c, "dotdot", reg[c])
       ELSE Local(c, "folders", reg[c])

FindDotDot(c) ==
    /\ pc[c] = "dotdot"
    /\ IF HasInfo(folderInfo, reg[c].dir)
       THEN FoundDir(c, HGETparent(folderInfo, reg[c].dir))
       ELSE Crash(c)

FindFolders(c) ==
    /\ pc[c] = "folders"
    /\ Local(c, "folder", [reg[c] EXCEPT !.ids = Ids(LRANGE(folders, reg[c].dir))])

\* The first folder that matches ends the search.
FindFolder(c) ==
    /\ pc[c] = "folder"
    /\ reg[c].ids # <<>>
    /\ LET dirId == Head(reg[c].ids)
       IN  IF ~HasInfo(folderInfo, dirId) THEN Crash(c)
           ELSE IF DirNameMatches(HGETname(folderInfo, dirId),
                                  Rest(c), NameLength(c))
                THEN FoundDir(c, dirId)
           ELSE Local(c, "folder", [reg[c] EXCEPT !.ids = Tail(@)])

FindFolderEnd(c) ==
    /\ pc[c] = "folder"
    /\ reg[c].ids = <<>>
    /\ FoundNothing(c)

\* vfs_parsePath asks the folder it found for its parent.
ParseParent(c) ==
    /\ pc[c] = "parent"
    /\ IF HasInfo(folderInfo, reg[c].id)
       THEN /\ Return(c, [reg[c] EXCEPT
                            !.parentId = ToInt(HGETparent(folderInfo, reg[c].id))])
            /\ UNCHANGED <<dbVars, cwd, auxVars>>
       ELSE Crash(c)

-----------------------------------------------------------------------------
(* vfs_getDirIdFromPath has returned reg.dir.                              *)

EndCwd(c) ==
    /\ pc[c] = "end" /\ Routine(c) = "cwd"
    /\ Return(c, [reg[c] EXCEPT !.cwdId = reg[c].dir])
    /\ UNCHANGED <<dbVars, cwd, auxVars>>

\* formatToValidPath throws when the working directory cannot be found.
EndLeft(c) ==
    /\ pc[c] = "end" /\ Routine(c) = "left"
    /\ IF reg[c].dir = NoId THEN Crash(c)
       ELSE Local(c, "name", [reg[c] EXCEPT !.left = <<>>])

\* cd and stat give up on a folder that does not exist; ls does not.
EndTarget(c) ==
    /\ pc[c] = "end" /\ Routine(c) = "target"
    /\ IF reg[c].dir = NoId /\ reg[c].op # "ls" THEN Prompt(c)
       ELSE Return(c, reg[c])
    /\ UNCHANGED <<dbVars, cwd, auxVars>>

\* vfs_parsePath: mkdir and mkfile give up without a parent folder, stat
\* goes on to look for a folder.
EndParse(c) ==
    /\ pc[c] = "end" /\ Routine(c) = "parse"
    /\ LET name == vfs_seperatePathAndName(reg[c].arg, PathLength(c))
       IN  IF reg[c].dir # NoId /\ name.nameLength > 0
           THEN Local(c, "files", [reg[c] EXCEPT !.pos = name.nameOffset])
           ELSE /\ IF reg[c].dir = NoId /\ reg[c].op # "stat" THEN Prompt(c)
                   ELSE Return(c, reg[c])
                /\ UNCHANGED <<dbVars, cwd, auxVars>>

-----------------------------------------------------------------------------
(* getAbsolutePathFromFolderId: climb from a folder to the root.           *)

CallChdir(c) ==
    /\ pc[c] = "call" /\ Routine(c) = "chdir"
    /\ Local(c, "name", [reg[c] EXCEPT !.left = <<>>])

ClimbName(c) ==
    /\ pc[c] = "name"
    /\ reg[c].dir # ROOT_FOLDER_ID
    /\ IF HasInfo(folderInfo, reg[c].dir)
       THEN Local(c, "up", [reg[c] EXCEPT
                !.left = <<"/">> \o HGETname(folderInfo, reg[c].dir) \o @])
       ELSE Crash(c)

ClimbUp(c) ==
    /\ pc[c] = "up"
    /\ Local(c, "name", [reg[c] EXCEPT
            !.dir = IF HasInfo(folderInfo, @) THEN HGETparent(folderInfo, @)
                                              ELSE NoId])

\* The absolute path is the left side of a relative path, or the new
\* working directory.
ClimbEnd(c) ==
    /\ pc[c] = "name"
    /\ reg[c].dir = ROOT_FOLDER_ID
    /\ LET absolutePath == Append(reg[c].left, "/")
       IN  IF Routine(c) = "left"
           THEN /\ Return(c, [reg[c] EXCEPT
                        !.arg = absolutePath \o removeAnyPathPrefix(@)])
                /\ UNCHANGED cwd
           ELSE /\ cwd' = [cwd EXCEPT ![c] = absolutePath]
                /\ Return(c, reg[c])
    /\ UNCHANGED <<dbVars, auxVars>>

-----------------------------------------------------------------------------
(* vfs_mkdir and vfs_createFile.                                           *)

\* The name is everything from its offset on, a trailing '/' included.
NewName(c) ==
    From(reg[c].arg,
         vfs_seperatePathAndName(reg[c].arg,
                                 FixedPathLength(reg[c].arg)).nameOffset)

CallCreate(c) ==
    /\ pc[c] = "call" /\ Routine(c) = "create"
    /\ Local(c, "GET", reg[c])

\* getNewId, first half: without a counter there is no second half.
GetNewId(c) ==
    /\ pc[c] = "GET"
    /\ Local(c, IF idCount = Absent THEN "LPUSH" ELSE "INCR",
             [reg[c] EXCEPT !.newId = idCount])

\* Mutant: the counter is read and not incremented.
ReadOnlyNewId(c) ==
    /\ pc[c] = "INCR"
    /\ Goto(c, "LPUSH")
    /\ UNCHANGED <<dbVars, cwd, todo, reg, auxVars>>

IncrNewId(c) ==
    /\ pc[c] = "INCR"
    /\ idCount' = INCR(idCount)
    /\ Goto(c, "LPUSH")
    /\ UNCHANGED <<created, folderInfo, fileInfo, folders, files,
                   cwd, todo, reg, auxVars>>

\* Mutant: the entry is listed and its hash is never written.
AddToListOnly(c) ==
    /\ pc[c] = "LPUSH"
    /\ folders' = LPUSH(folders, reg[c].parentId, reg[c].newId)
    /\ Prompt(c)
    /\ UNCHANGED <<idCount, created, folderInfo, fileInfo, files, cwd, auxVars>>

AddToList(c) ==
    /\ pc[c] = "LPUSH"
    /\ IF reg[c].op = "mkdir"
       THEN /\ folders' = LPUSH(folders, reg[c].parentId, reg[c].newId)
            /\ UNCHANGED files
       ELSE /\ files' = LPUSH(files, reg[c].parentId, reg[c].newId)
            /\ UNCHANGED folders
    /\ Goto(c, "HMSET")
    /\ UNCHANGED <<idCount, created, folderInfo, fileInfo,
                   cwd, todo, reg, auxVars>>

\* Mutant: the two numbers __mkdir takes are swapped.
SetInfoSwapped(c) ==
    /\ pc[c] = "HMSET"
    /\ folderInfo' = HMSET(folderInfo, reg[c].parentId,
                           FolderHash(reg[c].newId, NewName(c)))
    /\ Return(c, reg[c])
    /\ UNCHANGED <<idCount, created, fileInfo, folders, files, cwd, auxVars>>

\* Mutant: the parent written is the working directory.
SetInfoInCwd(c) ==
    /\ pc[c] = "HMSET"
    /\ folderInfo' = HMSET(folderInfo, reg[c].newId,
                           FolderHash(reg[c].cwdId, NewName(c)))
    /\ Return(c, reg[c])
    /\ UNCHANGED <<idCount, created, fileInfo, folders, files, cwd, auxVars>>

SetInfo(c) ==
    /\ pc[c] = "HMSET"
    /\ IF reg[c].op = "mkdir"
       THEN /\ folderInfo' = HMSET(folderInfo, reg[c].newId,
                                   FolderHash(reg[c].parentId, NewName(c)))
            /\ UNCHANGED fileInfo
       ELSE /\ fileInfo' = HMSET(fileInfo, reg[c].newId, FileHash(NewName(c)))
            /\ UNCHANGED folderInfo
    /\ Return(c, reg[c])
    /\ UNCHANGED <<idCount, created, folders, files, cwd, auxVars>>

-----------------------------------------------------------------------------
(* lsPrettyPrint and stat.  The parent each entry is also asked for cannot *)
(* fail and is not used, so it is not read here.                           *)

LsFiles(c) ==
    /\ pc[c] = "call" /\ Routine(c) = "lsfiles"
    /\ Local(c, "lsfile", [reg[c] EXCEPT !.ids = Ids(LRANGE(files, reg[c].dir))])

LsFolders(c) ==
    /\ pc[c] = "call" /\ Routine(c) = "lsfolders"
    /\ Local(c, "lsfolder", [reg[c] EXCEPT !.ids = Ids(LRANGE(folders, reg[c].dir))])

\* Mutant: the loop over the entries does not move on.
LsEntryStuck(c) ==
    /\ pc[c] \in {"lsfile", "lsfolder"}
    /\ reg[c].ids # <<>>
    /\ Local(c, pc[c], reg[c])

LsEntry(c) ==
    /\ pc[c] \in {"lsfile", "lsfolder"}
    /\ reg[c].ids # <<>>
    /\ LET info == IF pc[c] = "lsfile" THEN fileInfo ELSE folderInfo
       IN  IF HasInfo(info, Head(reg[c].ids))
           THEN Local(c, pc[c], [reg[c] EXCEPT !.ids = Tail(@)])
           ELSE Crash(c)

LsEnd(c) ==
    /\ pc[c] \in {"lsfile", "lsfolder"}
    /\ reg[c].ids = <<>>
    /\ Return(c, reg[c])
    /\ UNCHANGED <<dbVars, cwd, auxVars>>

StatName(c) ==
    /\ pc[c] = "call" /\ Routine(c) = "statname"
    /\ IF IF reg[c].kind = "file" THEN HasInfo(fileInfo, reg[c].id)
                                  ELSE HasInfo(folderInfo, reg[c].dir)
       THEN /\ Return(c, reg[c])
            /\ UNCHANGED <<dbVars, cwd, auxVars>>
       ELSE Crash(c)

-----------------------------------------------------------------------------
\* The process is killed from outside, wherever it is.
Kill(c) ==
    /\ pc[c] \notin {"down", "crashed"}
    /\ kills < MaxKills
    /\ kills' = kills + 1
    /\ lost' = IF pc[c] # "HMSET" THEN lost
               ELSE lost \cup {<<IF reg[c].op = "mkdir" THEN "folder" ELSE "file",
                                 Lu(reg[c].newId)>>}
    /\ Goto(c, "down")
    /\ Set(c, Blank)
    /\ todo' = [todo EXCEPT ![c] = <<>>]
    /\ UNCHANGED <<dbVars, cwd, issued>>

-----------------------------------------------------------------------------
Boot(c) ==
    \/ isVirtualFileSystemCreated(c)
    \/ BuildFlush(c) \/ BuildRoot(c) \/ BuildCount(c) \/ BuildCreated(c)

Lookup(c) ==
    \/ CallRoot(c) \/ CallWalk(c) \/ Walk(c)
    \/ FindFiles(c) \/ FindFile(c) \/ FindFileEnd(c) \/ FindDotDot(c)
    \/ FindFolders(c) \/ FindFolder(c) \/ FindFolderEnd(c) \/ ParseParent(c)
    \/ EndCwd(c) \/ EndLeft(c) \/ EndTarget(c) \/ EndParse(c)
    \/ CallChdir(c) \/ ClimbName(c) \/ ClimbUp(c) \/ ClimbEnd(c)
    \/ LsFiles(c) \/ LsFolders(c) \/ LsEntry(c) \/ LsEnd(c) \/ StatName(c)

Create(c) ==
    \/ CallCreate(c)
    \/ GetNewId(c) \/ IncrNewId(c) \/ AddToList(c) \/ SetInfo(c)

\* What a running process does without its user.
Step(c) == Boot(c) \/ Lookup(c) \/ Create(c)

Next == \E c \in Client : Start(c) \/ Type(c) \/ Step(c) \/ Kill(c)

ClientInit ==
    /\ pc = [c \in Client |-> "down"]
    /\ cwd = [c \in Client |-> <<"/">>]
    /\ todo = [c \in Client |-> <<>>]
    /\ reg = [c \in Client |-> Blank]
    /\ issued = 0
    /\ kills = 0
    /\ lost = {}

\* Processes that meet an empty redis, and processes that meet a file
\* system some earlier process has built.
InitFresh == EmptyDb /\ ClientInit
InitBuilt == BuiltDb /\ ClientInit

SpecFresh == InitFresh /\ [][Next]_vars
SpecBuilt == InitBuilt /\ [][Next]_vars

\* A process that has a redis command to send sends it; nobody promises
\* that a user types, that a process is started or that one is killed.
FairBuilt == SpecBuilt /\ \A c \in Client : WF_vars(Step(c))

-----------------------------------------------------------------------------
(* Properties of processes that share a file system already built.         *)

\* Nothing carries a number the counter has still to hand out: getNewId's
\* GET and INCR may interleave with those of other processes, yet a number
\* read is never one of an entry that was there when it was read.
IdsBelowCounter ==
    /\ \A n \in DOMAIN folders : \A i \in DOMAIN folders[n] :
          folders[n][i] < idCount
    /\ \A n \in DOMAIN files : \A i \in DOMAIN files[n] : files[n][i] < idCount
    /\ \A n \in DOMAIN folderInfo : n < idCount
    /\ \A n \in DOMAIN fileInfo : n < idCount

\* The root is its own parent, and any other folder's parent is an older
\* folder or a negative number printed as %lu.  So the parents form no
\* cycle and getAbsolutePathFromFolderId, which follows them, ends: even
\* when two processes have drawn the same number and one has overwritten
\* the hash of the other.
ParentBelowChild ==
    /\ ROOT_FOLDER_ID \in DOMAIN folderInfo
    /\ folderInfo[ROOT_FOLDER_ID].parent = ROOT_FOLDER_ID
    /\ \A n \in DOMAIN folderInfo \ {ROOT_FOLDER_ID} :
          \/ folderInfo[n].parent < n
          \/ folderInfo[n].parent > LONG_MAX

\* The creator of the entry is between LPUSH and HMSET, or was killed there.
Unfinished(kind, n) ==
    \/ <<kind, n>> \in lost
    \/ \E c \in Client : /\ pc[c] = "HMSET"
                         /\ kind = IF reg[c].op = "mkdir" THEN "folder" ELSE "file"
                         /\ n = Lu(reg[c].newId)

\* A listed entry has its hash, or its creator has still to write it, or
\* was killed before it could: no other order of steps leaves a name that
\* cannot be read.
NoDanglingEntry ==
    /\ \A n \in DOMAIN folders : \A i \in DOMAIN folders[n] :
          folders[n][i] \in DOMAIN folderInfo \/ Unfinished("folder", folders[n][i])
    /\ \A n \in DOMAIN files : \A i \in DOMAIN files[n] :
          files[n][i] \in DOMAIN fileInfo \/ Unfinished("file", files[n][i])

\* Some listed entry has no hash.
Dangling ==
    \/ \E n \in DOMAIN folders : \E i \in DOMAIN folders[n] :
          folders[n][i] \notin DOMAIN folderInfo
    \/ \E n \in DOMAIN files : \E i \in DOMAIN files[n] :
          files[n][i] \notin DOMAIN fileInfo

\* Every list of ids only gets new ids in front.
ListsGrow(old, new) ==
    \A n \in DOMAIN old : n \in DOMAIN new /\ IsSuffix(old[n], new[n])

\* An entry, once listed, stays listed at the same place from the end, and
\* a hash stays: no start, restart or kill of a process wipes what others
\* have made (getInitialContext flushes only before the flag is set).
NothingLost ==
    [][/\ DOMAIN folderInfo \subseteq DOMAIN folderInfo'
       /\ DOMAIN fileInfo \subseteq DOMAIN fileInfo'
       /\ ListsGrow(folders, folders')
       /\ ListsGrow(files, files')]_vars

\* A process dies of its own doing only over an entry without a hash, or
\* over a folder number that names no folder: -1 for a working directory
\* that is not found any more, LONG_MAX for the parent of a folder made
\* with parent -1.
CrashHasCause ==
    [][\A c \in Client :
          (pc[c] # "crashed" /\ pc'[c] = "crashed")
            => Dangling \/ reg[c].dir \notin 0 .. idCount - 1]_vars

\* A command, and the start of a process, come to an end: the walk down a
\* path, the search of a folder and the climb to the root all stop, however
\* the other processes change the tree meanwhile.
CommandReturns ==
    \A c \in Client :
        pc[c] \notin {"idle", "down", "crashed"}
            ~> pc[c] \in {"idle", "down", "crashed"}

-----------------------------------------------------------------------------
(* Properties of one process alone, from an empty redis on.                *)

\* The places of all lists of a family.
Slots(lists) == UNION {{<<n, i>> : i \in DOMAIN lists[n]} : n \in DOMAIN lists}

\* No number is handed out twice (getNewId), kills and restarts included:
\* an id names one entry of one folder.
UniqueIds ==
    /\ \A s, t \in Slots(folders) :
          folders[s[1]][s[2]] = folders[t[1]][t[2]] => s = t
    /\ \A s, t \in Slots(files) :
          files[s[1]][s[2]] = files[t[1]][t[2]] => s = t
    /\ \A s \in Slots(folders), t \in Slots(files) :
          folders[s[1]][s[2]] # files[t[1]][t[2]]

\* The two directions of the tree agree: the folder that lists a folder is
\* the one its hash names as parent, so a climb retraces a walk.
LinkMatchesParent ==
    \A s \in Slots(folders) :
        LET id == folders[s[1]][s[2]]
        IN  id \in DOMAIN folderInfo => folderInfo[id].parent = s[1]

\* The flag that keeps later processes from building the database is set
\* only when there is a root folder and a counter (vfs_buildDatabase), at
\* whatever step an earlier process was killed.
RootedWhenCreated ==
    created => ROOT_FOLDER_ID \in DOMAIN folderInfo /\ idCount # Absent

-----------------------------------------------------------------------------
(* What comments of the code claim and the code does not keep.             *)

\* "After preprocessing and checking if root there will always be
\* characters in the name" (vfs_parsePath).
NameNotEmpty ==
    \A c \in Client :
        (pc[c] = "end" /\ todo[c] # <<>> /\ Routine(c) = "parse")
            => vfs_seperatePathAndName(reg[c].arg, PathLength(c)).nameLength > 0

\* "this finds a "name" in a directory" (vfs_findObjectInDir): the folder
\* found bears the name that was asked for.
FolderFoundByName ==
    [][\A c \in Client :
          (pc[c] = "folder" /\ pc'[c] \in {"walk", "parent"})
            => HGETname(folderInfo, Head(reg[c].ids))
                 = SubSeq(Rest(c), 1, NameLength(c))]_vars

=============================================================================
