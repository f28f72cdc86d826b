---------------------------- MODULE MCVfsEntries ----------------------------
(* Instances of VfsEntries for TLC: who makes which calls.                 *)
EXTENDS VfsEntries

CONSTANTS maker, changer, reader

Three == {maker, changer, reader}

Letters == {"/", ".", "a", "b", "r", "o", "t"}

A == <<"a">>
B == <<"b">>

Make(kind, dir, name) == [op |-> "make", kind |-> kind, dir |-> dir, path |-> <<name>>]
Rename(id, name) == [op |-> "rename", kind |-> "none", dir |-> id, path |-> <<name>>]
On(op, path)     == [op |-> op, kind |-> "none", dir |-> 0, path |-> path]

\* One process makes folders and deletes one; one makes a file, renames it and
\* deletes, also where there is nothing to delete; one looks up and lists.
ThreeProcesses ==
    [c \in Three |->
        CASE c = maker   -> {Make("dir", 0, A), Make("dir", 2, A), On("delete", <<B>>)}
          [] c = changer -> {Make("file", 0, B), Rename(1, B), On("delete", <<A>>),
                             On("delete", <<B>>), On("delete", <<B, A>>),
                             On("delete", <<A, B>>), On("delete", <<>>)}
          [] OTHER       -> {On("getattr", <<B>>), On("getattr", <<B, A>>),
                             On("getattr", <<A, B>>), On("getattr", <<>>),
                             On("readdir", <<>>), On("readdir", <<B>>),
                             On("readdir", <<A>>), On("list", <<>>)}]
=============================================================================
