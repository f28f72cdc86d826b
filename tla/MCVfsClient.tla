---------------------------- MODULE MCVfsClient ----------------------------
(* Instances of VfsClient for TLC: who runs, and what users type.          *)
EXTENDS VfsClient

CONSTANTS c1, c2

One  == {c1}
Two  == {c1, c2}
Symmetry == Permutations(Two)

Letters == {"/", ".", "a", "b", "r", "o", "t"}

\* Paths, spelled out.
Root   == <<"/">>
A      == <<"/", "a">>
AB     == <<"/", "a", "/", "b">>
ASlash == <<"/", "a", "/">>
RelA   == <<"a">>
RelB   == <<"b">>
DotA   == <<".", "/", "a">>
Up     == <<".", ".">>
Twice  == <<"/", "a", "/", "/">>
NameAB == <<"/", "a", "b">>

Cmd(op, path) == [op |-> op, path |-> path]

\* Two processes that make and visit the same few entries.
SharedCommands ==
    {Cmd("mkdir", A), Cmd("mkdir", AB), Cmd("mkfile", A), Cmd("mkfile", AB),
     Cmd("cd", A), Cmd("ls", A), Cmd("stat", AB)}

\* The paths the parser has special cases for.
OddCommands ==
    {Cmd("mkdir", A), Cmd("mkdir", Root), Cmd("mkdir", Twice), Cmd("mkdir", DotA),
     Cmd("mkfile", RelB), Cmd("cd", RelA), Cmd("cd", Up), Cmd("ls", <<>>),
     Cmd("stat", RelB), Cmd("stat", ASlash)}

\* Both, for one process alone.
SoloCommands == SharedCommands \cup OddCommands

\* One command of every kind: loops over paths, lists and parents.
FairCommands ==
    {Cmd("mkdir", A), Cmd("mkfile", AB), Cmd("mkdir", Root),
     Cmd("cd", RelA), Cmd("cd", Up), Cmd("ls", A), Cmd("stat", A)}

\* Names of which one begins with the other.
PrefixCommands == {Cmd("mkdir", NameAB), Cmd("cd", A), Cmd("stat", NameAB)}

MakeCommands == {Cmd("mkdir", A), Cmd("mkfile", A)}

=============================================================================
