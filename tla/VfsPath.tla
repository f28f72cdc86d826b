------------------------------ MODULE VfsPath ------------------------------
(***************************************************************************)
(* The string handling of vfsPathParser.c and virtualFileSystemWrapper.cc: *)
(* how a path is cut into names, how a name is compared with a stored one, *)
(* and how a relative path is glued to the working directory.              *)
(*                                                                         *)
(* A C string is a sequence of one-character strings.  Offsets are the     *)
(* 0-based offsets of the code.  `rest' is always what a char pointer into *)
(* a path designates: the path from that offset up to its terminator, not  *)
(* only the name the caller has in mind, because strncmp reads on.         *)
(***************************************************************************)
EXTENDS Integers, FiniteSets, SequencesExt

\* What the pointer str + off designates.
From(str, off) == SubSeq(str, off + 1, Len(str))

IsAbsolute(path) == path # <<>> /\ path[1] = "/"

\* Both loops below count: the positions k up to which no '/' was met.

\* Number of characters before the next '/', or all that remain.
getLengthOfNextName(rest, remaining) ==
    Cardinality({k \in 1 .. remaining : \A j \in 1 .. k : rest[j] # "/"})

\* The name is what follows the last '/' among the first n characters.
vfs_seperatePathAndName(path, n) ==
    LET i == Cardinality({k \in 1 .. n : \A j \in n - k + 1 .. n : path[j] # "/"})
    IN  [nameOffset |-> n - i, nameLength |-> i]

\* vfs_parsePath cuts one '/' off the end before it looks at the path.
FixedPathLength(path) ==
    IF Last(path) = "/" THEN Len(path) - 1 ELSE Len(path)

\* strncmp over the longer of the asked and the stored length: the stored
\* name must be a prefix of what the pointer designates, and be no shorter
\* than the asked name.
FileNameMatches(stored, rest, len) ==
    Len(stored) >= len /\ IsPrefix(stored, rest)

\* strncmp over the asked length only: any stored name that starts with
\* the asked one matches.
DirNameMatches(stored, rest, len) ==
    IsPrefix(SubSeq(rest, 1, len), stored)

\* The two names vfs_findDirNameInDir answers without reading the list.
IsDot(rest, len)    == len = 1 /\ rest[1] = "."
IsDotDot(rest, len) == len = 2 /\ rest[1] = "." /\ rest[2] = "."

\* getDirIdFromPath of the wrapper: the path to a folder ends in '/'.
WithSlash(path) == IF Last(path) = "/" THEN path ELSE Append(path, "/")

removeAnyPathPrefix(path) ==
    IF IsAbsolute(path) THEN From(path, 1)
    ELSE IF IsPrefix(<<".", "/">>, path) THEN From(path, 2)
    ELSE path

=============================================================================
