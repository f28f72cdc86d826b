# redisVirtualFileSystem: a TLA+ verification project

The repository keeps a tree of folders and files in redis and offers it as a
C/C++ library, a test terminal and a FUSE front end. It talks to redis through
hiredis, whose source it carries and builds. Nothing but the redis server is
shared between the processes that use it, and the library uses no transaction,
no lock and no script: the atom of the file system is one redis command.

The project has two halves. The first models the file system, redis command by
redis command, with any number of processes. The second models hiredis below
it: how a connection is made, how a command is put together, sent and answered,
how a byte stream becomes replies, what the asynchronous context does with
callbacks, and the hash table and the strings these stand on. TLC checks small
instances of all of it; TLAPS proves, for any instance, the safety properties of
the file system, of connections, sessions and both kinds of context, of the
commands, and of the hash table and the strings.

## 1. The system

### Components

| component | state it keeps | operations | models |
|---|---|---|---|
| store (`vfs.c`) | redis keys `current_id_count`, `isVirtualFileSystemCreated`, `FOLDER_n_info` (hash: parent, name), `FILE_n_info` (hash: name, size, urls), `FOLDER_n_folders`, `FOLDER_n_files` (lists of numbers) | `getNewId`, `vfs_mkdir`, `vfs_createFile`, the searches, name, parent and list getters, `__removeIdFromFolderList`, `vfs_setFileName`, `vfs_ls`, `vfs_listUnixStyle` | `RedisDb`, `VfsClient`, `VfsEntries` |
| bootstrap (`isVirtualFileSystemCreated`, `vfs_buildDatabase`) | the flag, the root, the counter | test, flush, build | `VfsClient` |
| path parser (`vfsPathParser.c`) | a pointer into the path, the current folder, a parser state | `vfs_seperatePathAndName`, `vfs_findObjectInDir`, `vfs_getDirIdFromPath`, `vfs_parsePath`, `vfs_deleteObjectWithPath` | `VfsPath`, `VfsClient`, `VfsEntries` |
| reply conversion (`vfs_safe.cc`) | none; an empty reply is dereferenced | `redis_get...`, `redis_is...` | `RedisDb`, `VfsClient`, `VfsEntries` |
| wrapper (`virtualFileSystemWrapper.cc`) | `FsContext.cwd`, a string resolved again for every command | `getInitialContext`, `mkdir`, `cd`, `createFile`, `lsPrettyPrint`, `getDirItemInfo`, `ls`, `ls_info`, `mv` (empty) | `VfsPath`, `VfsClient`, `VfsEntries` |
| terminal (`tests/terminalTest.cc`) | an `FsContext` | the prompt loop and `handleCommand` | `VfsClient` |
| FUSE front end (`redisfs.cc`) | an `FsContext` | `Getattr`, `Readdir`; no other handler touches redis | `VfsEntries` |
| making a connection (`net.c`, constructors of `hiredis.c`) | the socket and the error of a `redisContext` | eight constructors, `redisSetTimeout`, `redisEnableKeepAlive`, `redisFree` | `RedisConnect`, `RedisSession` |
| blocking context (`hiredis.c`) | output buffer, sticky error, the reader | `redisCommand`, `redisAppendCommand`, `redisGetReply`, `redisBufferWrite`, `redisBufferRead` | `RedisContext`, `RedisSession` |
| command formatting (`hiredis.c`) | the argument under construction, the arguments, their length | `redisvFormatCommand`, `redisFormatCommandArgv`, `redisFormatSdsCommandArgv` | `CommandFormat` |
| reply reader (`read.c`) | buffer, cursor, task stack, sticky error, half a reply | `redisReaderFeed`, `redisReaderGetReply` | `RedisReader` |
| asynchronous context (`async.c`) | flags, list of callbacks, dictionaries of subscriptions, hooks of an event loop | commands, disconnect, free, the read and write handlers | `RedisAsync` |
| hash table (`dict.c`) | slots with chains | add, replace, delete, find, clear, iterate | `Dict` |
| dynamic strings (`sds.c`) | length, free space, buffer | append, copy, cut, trim, split, join, quote, numbers | `Sds`, `SdsSplit`, `SdsArgs`, `SdsNumber`, `SdsConversions` |
| FUSE sample (`examplefs.cc`), event loop adapters, googletest | - | third-party | no |

### How they interact

A front end hands a path to the wrapper. The wrapper makes it absolute
(`formatToValidPath`: resolve the working directory to a folder number, climb
from that number to the root for its name, put the path behind it), then lets
the parser walk it (`vfs_getDirIdFromPath`: one search of files and one of
folders per name) and acts on the number found. Every search reads a list
(`LRANGE`) and then one hash per entry (`HGET`). To create something takes
`GET` and `INCR` of the counter, an `LPUSH` that lists the number and an
`HMSET` that writes its hash. To delete takes a walk, the parent's number and
an `LREM`. All of these are separate redis commands.

Each redis command is one `redisCommand` of the blocking context:
`redisvFormatCommand` makes the bytes, `redisAppendCommand` puts them into the
output buffer (a string of `sds.c`), `redisBufferWrite` sends what the socket
takes, `redisBufferRead` feeds what comes to the reader, and the reader hands
out a reply once it is whole. `RedisReader` and `RedisContext` are both shown
to implement `ReplyStream`, which is what the step of `VfsClient` and
`VfsEntries` ("the command is executed and its reply is read") relies on: a
command that was answered was executed, once and in order, with its own reply.
The asynchronous context uses the same reader and buffers and keeps its
subscription callbacks in the hash table; the repository builds it and does not
use it.

### What is hard here

* **Interleaving.** Another process runs between any two redis commands:
  between `GET` and `INCR` (two entries get one number), between `LPUSH` and
  `HMSET` (a listed entry has no hash, and whoever reads it dereferences
  NULL), between `EXISTS` and `FLUSHALL` at start (a second builder wipes what
  the first has built), between the walk to a parent and its use, between the
  files and the folders of one lookup, between a listing's numbers and their
  names.
* **Kills.** A process that dies inside a creation or inside the building of
  the database leaves what it has written so far.
* **Termination.** The walk, the search and above all the climb to the root
  are loops over data that other processes change.
* **Numbers as text.** `%lu` prints -1 as `ULONG_MAX`, `strtol` saturates it
  to `LONG_MAX`, and `vfsPathParser.c` calls two functions without a
  declaration and so reads their `long` results as `int`.
* **Path rules.** Folders match by prefix, files by the whole name; the oldest
  file and the newest folder of a name win; one trailing slash is cut and the
  name is stored with it.
* **Bytes in pieces.** `write` takes a part of a command, `read` brings a part
  of a reply, cut between CR and LF or inside a nested array.
* **Failure in the middle.** Any system call or allocation may fail when a
  socket is half configured, a reply half built or an argument half read.
* **Callbacks that call back.** A callback of the asynchronous context may send
  a command, disconnect or free the very context that runs it.
* **Order of replies.** Replies are matched with callbacks by position while
  messages of subscriptions arrive between them.
* **Buffers and tables that grow**, with two or three counters that must agree.

### What makes each component correct

* Store: a number in use is below the counter; one process alone never gives a
  number twice; a listed entry has its hash unless its creator is still to
  write it; nothing made is lost unless it is deleted, and nothing deleted
  comes back; the two directions of the tree agree.
* Bootstrap: the flag implies a root and a counter; a start on a finished
  database changes nothing.
* Parser, wrapper, front ends: every command returns; a process dies only over
  an entry without a hash or a number that names no folder; what stays in
  place during a lookup or a listing is found and listed as what it is.
* Connection: every path closes the socket or hands it out in the right mode,
  and says which.
* Context: the server executes a prefix of the commands, and none appended once
  the context has an error; a call returns its own reply, or NULL on a context
  with an error. Replies that were in the reader's buffer by then are still
  handed out by later calls.
* Formatting: the arguments are those the format stands for, the buffer fits,
  what was allocated on the way is freed.
* Reader: the replies the server sent, in order, each once, however cut.
* Asynchronous context: every callback runs, with its own reply, in order.
* Table and strings: what a map and a byte string would be.

## 2. Modules

### The file system

* **`RedisDb`**: the keys as functions from numbers to hashes and lists (a
  missing key is a number outside the domain), the redis commands the code
  sends as operators on them (`LPUSH`, `HMSET`, `LRANGE`, ...), and the ways
  numbers change on their way through text and through `int` (`Lu`, `Strtol`,
  `ToInt`). The widths of `long` and `int` are constants.
* **`VfsPath`**: the string rules of the parser and the wrapper, on sequences of
  characters: the next name of a path, the split of path and name, how file
  and folder names are compared, the prefixes that are cut.
* **`VfsClient`**: the processes. `pc[c]` is what process `c` does next; where it
  is a redis command the label is that command or the thing it reads. `reg[c]`
  holds the local variables of the running call chain, `todo[c]` the library
  routines still to be run for the typed command, `cwd[c]` the string in
  `FsContext`. An action is one redis command together with the computation up
  to the next one, or a step on the process's own registers. A crash
  (`Crash`) is a NULL reply that is dereferenced or an uncaught exception; a
  kill (`Kill`) may happen at any label. A process that crashed or was killed
  may be started again (`Start`).
* **`VfsEntries`**: the calls `VfsClient` does not make, again with one redis
  command per step: `vfs_deleteObjectWithPath`, `vfs_setFileName`, `vfs_ls`,
  `vfs_listUnixStyle`, the wrapper's `ls(path)`, FUSE `Getattr` and `Readdir`,
  with entries being made beside them. Paths are sequences of names here and no
  name begins with another, as `VfsClient` has the strings. `stable`, `held`,
  `gone` and `saw` are history: which entries have been in the folder being read
  since the reading began, whether some entry bore the name all that time, what
  has been deleted, and whether an entry was without its hash during the call.
  Numbers are counted, not wrapped: `NumbersFit` says that an `int` holds the
  number of every entry the calls can make (`VfsClient` has the rest).
* **`Lists`**: `Without(s, e)`, a list without an element: what `LREM` leaves, and
  for the contexts of hiredis the answers that are not NULL and the replies
  that are whole. It is a recursive function, so that proofs can speak of it.

| code | in `VfsClient` |
|---|---|
| `getInitialContext`, `vfs_buildDatabase` | `Start`, `isVirtualFileSystemCreated`, `BuildFlush`, `BuildRoot`, `BuildCount`, `BuildCreated` |
| `handleCommand` and the wrapper's calls | `Type`, `Program` |
| `vfs_getDirIdFromPath` | `CallWalk`, `Walk`, `WalkInto`, `WalkFails`, `EndCwd`, `EndLeft`, `EndTarget` |
| `vfs_parsePath` | `CallRoot`, `CallWalk`, `EndParse`, `ParsedFile`, `ParsedDir`, `ParsedNothing`, `ParseParent` |
| `vfs_findObjectInDir` and the two searches | `FindFiles`, `FindFile`, `FindFileEnd`, `FindDotDot`, `FindFolders`, `FindFolder`, `FindFolderEnd`, `FoundFile`, `FoundDir`, `FoundNothing` |
| `getAbsolutePathFromFolderId` | `CallChdir`, `ClimbName`, `ClimbUp`, `ClimbEnd` |
| `getNewId`, `vfs_mkdir`, `vfs_createFile` | `CallCreate`, `GetNewId`, `IncrNewId`, `AddToList`, `SetInfo` |
| `lsPrettyPrint`, `getDirItemInfo` | `LsFiles`, `LsFolders`, `LsEntry`, `LsEnd`, `StatName` |

| code | in `VfsEntries` |
|---|---|
| a call and its return | `Begin`, `Return` |
| `getNewId`, `vfs_mkdir`, `vfs_createFile`, `vfs_setFileName` | `GetNewId`, `IncrNewId`, `AddToList`, `SetInfo`, `vfs_setFileName` |
| `vfs_parsePath`, `vfs_getDirIdFromPath`, `vfs_findObjectInDir` | `Walk`, `FindFiles` ... `FindFolderEnd`, `WalkFails`, `Found`, `ParseParent`, `Parsed` |
| `vfs_deleteObjectWithPath`, `__removeIdFromFolderList` | `RemoveFromList` |
| `Getattr` | `StatParsed`, `StatName` |
| `Readdir`, `ls(path)`, `vfs_ls`, `vfs_listUnixStyle` | `ListFolders`, `ListFiles`, `AskKind`, `AskName`, `ListEnd` |

### hiredis

* **`ReplyStream`**: what a program may expect of replies: a prefix of what was
  sent, in order, each once, and silence after a failure. `RedisReader` is
  shown to implement all of it. `RedisContext` implements the prefix and the
  order: there the failure of the stream is never reached (`failed` is `FALSE`),
  because a context with an error still hands out the replies it has buffered.
* **`RedisConnect`**: a constructor, one system call at a time (`at` is the next
  one), over all addresses of a name, and what it does when a call fails;
  `redisFree`. `open` and `blocking` are the kernel's view of the sockets.
* **`RedisContext`**: the use of a blocking context: commands appended to `obuf`,
  written in pieces, executed by a server, answered over a stream read in
  pieces. A command and its reply are `Size` bytes each.
* **`RedisSession`**: both together, from constructor to `redisFree`. The error
  field of the context is the one variable both set and test; it stands in
  **`RedisError`**, which both extend.
* **`RedisReader`**: `redisReaderFeed` and one step per iteration of the loop in
  `redisReaderGetReply`, with the buffer, its cutting, the task stack and the
  reply under construction. The text of a number is one symbol of the stream.
* **`RedisAsync`**: `redisAsyncContext` under an event loop. What the program and
  its callbacks call is a constant (`Programs`): `program` is one of several,
  each with its own set of calls and bounds. A function that runs a callback is
  split there; what lies between two callbacks is one step.
* **`KeyMap`**, **`Dict`**: a map from keys to values, and the hash table with
  slots, chains, expansion and an iterator, shown to implement it.
* **`ByteString`**, **`Sds`**: a string of bytes, and the header with its buffer,
  shown to implement it: each call has the effect its comment states, and
  what is behind the terminator is junk no caller sees.
* **`SdsSplit`**, **`SdsArgs`**, **`SdsNumber`**: splitting and joining, quoting
  and argument splitting, numbers to text in a `long long` with the largest
  value `LLONG_MAX`. **`SdsConversions`** has the three side by side.
* **`CommandFormat`**: `redisvFormatCommand` with the argument under
  construction, the arguments collected, the length summed up, and every
  allocation that may fail.

| code | actions |
|---|---|
| `_redisContextConnectTcp`, `redisContextConnectUnix` and helpers of `net.c` | `Resolve`, `Socket`, `redisCreateSocket`, `NonBlock`, `Bind`, `Connect`, `Poll`, `Block`, `NoDelay`, `NoAddressLeft` |
| `redisSetTimeout`, `redisEnableKeepAlive`, `redisFree` | the same names |
| `redisAppendCommand`, `redisCommand`, `redisGetReply` | `redisAppendCommand`, `redisCommand`, `redisCommandFails`, `redisGetReply` |
| `redisBufferWrite`, `redisBufferRead` | `Write`, `WriteDone`, `Read`, `ReadEOF`, `IOFails` |
| redis (external) | `Execute`, `Close` |
| `redisReaderFeed`, `redisReaderGetReply` | `Feed`, `GetReply`, `Return` |
| `processItem` | `ReadType`, `processLineItem`, `processBulkItem`, `processMultiBulkItem`, `NestedTooDeep`, `CreateFails` |
| `redisAsyncCommand` | `redisAsyncCommand` (get, forget, subscribe, unsubscribe, monitor) |
| `redisAsyncDisconnect`, `redisAsyncFree`, `__redisAsyncFree`, `__redisAsyncDisconnect` | the first two names; `Pending`, `FreeDone`, `AsyncDisconnect` |
| `redisAsyncHandleRead`, `redisProcessCallbacks` | `HandleRead`, `GotReply`, `NoReply`, `ReaderFails`, `ReturnFromCallback` |
| `redisAsyncHandleWrite`, `__redisAsyncHandleConnect` | `HandleWrite`, `Connected`, `ConnectFails`, `IOFails` |
| redis (external) | `Serve`, `Unasked`, `Close` |
| `dict.c` | `dictAdd`, `dictReplace`, `dictDelete`, `dictFind`, `dictClear`, `dictGetIterator`, `dictNext` |
| `sds.c` | `cat`, `catfmt`, `cpy`, `clear`, `growzero`, `range`, `trim`, `updatelen`, `lower`, `mapchars`, `room`, `incrLen` |
| `redisvFormatCommand` | `Separator`, `Literal`, `Interpolate`, `Build`, `FormatError`, `MemoryError` |
| `redisFormatCommandArgv`, `redisFormatSdsCommandArgv` | the same names; `Measure`, `WriteBuffer`, `Refused` |

How the halves meet: the file system modules let a command be executed and its
reply be read in one step. `session` shows that this is what a blocking context
gives as long as no error occurs, and `RedisSessionProofs` that after
an error nothing new reaches the server: it has executed a prefix of the
commands, which for the store is what a kill at that command leaves (`Kill` of `VfsClient`).

Data left out: sizes and URLs of files (no property is about them), what is
printed, redis's own limit on the counter, the fixed buffers for redis keys.
Operators introduced as "Mutant" in a comment are alternative, faulty forms of
the definition below them; no specification uses them. They show that a
property can tell the code from a plausible mistake.

Starting points of the processes: `SpecFresh` starts with an empty redis and
processes that are down; `SpecBuilt` with the database one undisturbed
`vfs_buildDatabase` leaves; `FairBuilt` adds fairness. Building and use are
separated because two processes that build at the same time can break the
store for good (finding 2), after which no property of its use is worth asking.
`VfsEntries` starts with a file, a folder and a file in it.

## 3. What TLC checks

| run | specification | instance | properties |
|---|---|---|---|
| `shared` | `SpecBuilt` | 2 processes, 7 commands on `/a` and `/a/b`, 4 typed, 1 kill | `IdsBelowCounter`, `ParentBelowChild`, `NoDanglingEntry`, `NothingLost`, `CrashHasCause` |
| `odd_paths` | `SpecBuilt` | 2 processes, 10 commands on `/`, `/a//`, `./a`, `..`, `/a/`, bare names, no path, 3 typed, 1 kill | `TypeOK`, `CrashHasCause` |
| `returns` | `FairBuilt` | 2 processes, 7 commands, 3 typed, 1 kill | `CommandReturns` |
| `solo` | `SpecFresh` | 1 process, all commands of the first two runs, 4 typed, 2 kills | `UniqueIds`, `LinkMatchesParent`, `RootedWhenCreated` |
| `entries` | `Spec` of `VfsEntries` | a process that makes folders and deletes one, one that makes, renames and deletes, one that looks up and lists; 3 calls | `StableFound`, `StableListed`, `GoneForGood`, `CrashNeedsUnfinished` |
| `session` | `SessionSpec` | 8 constructors, 3 addresses, 10 retries, 3 commands of 2 bytes, 5 calls, every failure | `NoLeak`, `UpIsUsable`, `ErrorReported`, `ExecutedIsPrefix`, `NothingAfterError`, `NullMeansError`, `ImplementsStream`, `CallReturns`, `ConstructorReturns` |
| `async` | `Spec` of `RedisAsync` | three programs: 2 commands of any kind, 3 plain ones, 3 plain or subscribing ones; 2 channels, 1 or 2 unasked lines, every failure | `OwnReplyOnce`, `OwnChannel`, `NoneForgotten`, `CleanMeansAnswered`, `HooksSet`, `AbortExplained`, `QuietWhileFreeing` |
| `parts` | `PartsSpec` of `MCHiredisParts` | the parts of hiredis that share no state, one per behaviour, see below | `StackAsserted`, `SeesEachOnce`, `BufferRight`, `ConversionsRight`, `FormatRight`, `ImplementsStream`, `EventuallyDelivered`, `ImplementsMap`, `ImplementsByteString` |
| `same_id`, `two_boots`, `empty_name`, `prefix` | `SpecBuilt`, `SpecFresh` | the findings of section 4 | one each, violated |

What they show:

* `shared`: although two processes can draw the same number, the counter stays
  ahead of the store, parents stay older than children, every listed entry is
  backed by a hash or by a creator that owes it one, nothing is lost, and a
  process only dies where an entry lacks its hash or a folder number names
  nothing.
* `odd_paths`: with folders made with parent -1 and working directories that
  stop resolving, the conversions between `long`, text and `int` stay in range
  and a process dies of nothing else.
* `returns`: every command and every start comes to an end under fairness.
* `solo`: without a second process numbers are unique, lists and parents agree,
  and the flag is never ahead of root and counter, at whatever redis command
  the process is killed and restarted.
* `entries`: an entry that stays put and keeps its name through a lookup or a
  listing is found and listed, as the kind it is unless a file and a folder
  share its number; a deleted entry is in no list, then or later; a process
  dies only if an entry was without its hash at some moment of its call.
* `session`: no path through constructor, addresses and failures leaves a socket
  behind, hands out a socket in the wrong mode or fails without an error; the
  server executes a prefix of the commands and none after an error; replies
  come in order; calls and constructors return.
* `async`: callbacks get their own replies, once, in order, and whoever takes the
  reply to a plain command from the reader runs its callback with it in that
  step; `OwnReplyOnce` grants one exception (`EndsContext`): `async.c:454` ends
  the context at an error reply to a command that was sent after a
  subscription, and that command's callback gets NULL (section 4). No callback
  is forgotten when the context goes; a clean disconnect means that all was answered; while
  the loop waits every unanswered command has the hook it needs; and the two
  assertions of `async.c` fail only for a program that disconnects with replies
  outstanding or unsubscribes.
* `parts`: the reader delivers the replies of any stream, cut anywhere, keeps
  its stack as asserted, and stops at the first breach of the protocol; the
  hash table is a map and its iterator hands out every key once, also when its
  user deletes the entries it got; the string is a byte string and never
  shows what was in its buffer by chance; what is split joins, what is quoted
  reads back, numbers read back, and a command has the arguments its format
  stands for in a buffer of the right length. Whichever allocation of the
  formatting fails, everything is freed but one string: the one
  `redisFormatSdsCommandArgv` loses at `hiredis.c:500` (section 4).

`parts` puts seven components side by side that share no state. `part` says
which of them a behaviour exercises; the others stay in an initial state, and
each property speaks of its own part. The instances: nine well-formed replies
(nested, empty and nil arrays, strings that hold line ends) and two breaches,
two messages per stream, stack index up to 3, buffer cut at 3 bytes; three
keys that collide before and after an expansion; strings of up to 3 bytes with
NUL and both cases of a letter, `sdsrange` with ends from -4 to 3; strings of
7 bytes over 2 bytes to split, which need more than the 5 tokens the array has
at first; lines of up to 4 characters of every class the quoting distinguishes,
and up to 4 behind an opening quote and a backslash; all numbers of a `long
long` of 8 bits; formats of up to 3 elements, or 4 with two blanks, and values
that are empty, hold blanks, hold NUL, or need a length of two digits; lists of
up to 2 arguments (`MaxArgs`).

**Bounds.** For the processes: characters `/ . a b r o t`, `LONG_MAX` 127,
`INT_MAX` 15. Two processes suffice for every pairwise race the code has; a
third could only repeat the race on the same number or entry. `entries` has
three, because a reader is observed while one process moves and deletes entries
and another draws the same numbers. Three to four commands reach the shortest
histories in which entries collide: two that draw the same number, one that
visits the result, one that uses the working directory afterwards. One kill
leaves one half-made entry; two kills in `solo` interrupt the building and then
a creation. Seven characters give a name, a second name, a prefix of one, and
the root's name. `LONG_MAX` 127 and `INT_MAX` 15 keep the relation the code
depends on (both all ones in binary, `long` wider), so that `LONG_MAX` reads as
the `int` -1 as it does on a 64-bit machine; no run reaches 15 entries, so small
numbers are unaffected, and what an `int` makes of a number beyond `INT_MAX`
other than `LONG_MAX` is not exercised. For a session: with two bytes a command can be cut and
two commands can share a read; three commands give one answered, one sent and
one appended when the connection fails; five calls allow for calls on a dead
context; three addresses a first, a middle and a last one; the retries are the
code's own. For the asynchronous context: two commands of every kind are enough
for each pair to cross on the wire; three are needed for a callback in the
middle. The bounds are constants (`MaxCommands`, `MaxKills`, `MaxCalls`,
`MaxSent`, `MaxLen`) and appear in the guards of the actions that count.

**Symmetry** is used in `shared` and `odd_paths`: the processes are
interchangeable in every initial state and property.

**Deadlock** is not checked: a terminal at its prompt waits for its user, a
program may make no further call, a server may have nothing to send, a
computation of `parts` ends with its result; a behaviour in which the bounds
are used up ends there.

**Fairness.** `FairBuilt` has weak fairness of `Step(c)` for each process: a
program that has a redis command to send sends it, and redis, which serves one
command at a time, answers. The operating system's scheduler and the blocking
`redisCommand` justify it. Nothing is assumed about users (`Type`), starts or
kills. A kill disables `Step` and ends the command, which `CommandReturns`
counts as an end. `SessionSpec` has weak fairness of the constructor's next
system call, of a running call's next read or write, and of the server's
execution of what it has received: system calls return and redis serves.
`PartsSpec` has weak fairness of the reader's loop, which the caller runs, and
strong fairness of the arrival of bytes: the reader's caller alternates between
feeding and asking for replies, so that arrival is enabled again and again and
not continually. Nothing has to fail, in any of them.

## 4. Where the code and its comments disagree

Each of these is a run that checks one property and finds it violated.

1. `same_id`: `getNewId` (`vfs.c:37`) reads the counter and increments it in two
   commands. Two processes that create at the same time get one number, and the
   second `HMSET` overwrites the first one's name and parent (`UniqueIds`).
   What remains true nevertheless is in `shared` and in the theorems.
2. `two_boots`: two processes that start on an empty redis both build it. The
   second's `FLUSHALL` may fall just before the first's last `SET`, which leaves
   the flag without root and counter (`RootedWhenCreated`).
3. `empty_name`: `vfs_parsePath` states that the name is never empty; the path
   `/a//` makes it empty (`NameNotEmpty`).
4. `prefix`: `vfs_findObjectInDir` is said to find a name in a directory; with a
   folder `ab` the lookup of `a` answers `ab` (`FolderFoundByName`).

The following have no run of their own. Their properties stand in the modules;
add one to the named configuration and TLC prints a behaviour.

* `MissMeansAbsent` (`entries`): a name can be missed though some entry bore it
  at every moment, when a rename moves it between the search of the files and
  that of the folders.
* `ZeroMeansDeleted` (`entries`): `vfs_deleteObjectWithPath` promises a non-zero
  result on failure (`vfsPathParser.c:211`) and returns 0 for what it did not
  delete.
* `MissingHasNoKind` (`entries`): `Getattr` reads the kind of a path that leads
  nowhere from a field nobody has set.
* `NotAborted` (`async`): the assertion at `async.c:339` fails after a disconnect
  with part of a reply read; the one at `async.c:461` when a subscribe crosses
  the answer to the last unsubscribe.
* `MonitorKept` (`async`): a read that completes no reply puts a NULL callback
  back in monitor mode (`async.c:426`), and the next line has none.
* `RefusalPassed` (`async`): `async.c:632-633` says that the error reply to a plain
  command sent on a subscribed context "needs to be received and passed to the
  callback". Its callback waits in `sub.invalid`, from which only
  `__redisGetSubscribeCallback` takes it (`async.c:404`); but with `replies` empty
  an error reply ends the context before that call (`async.c:454-458`), and the
  callback runs with NULL. A subscribe and a get suffice.
* `OwnChannel` without its condition on `Kinds` (`async`): with unsubscribes, a
  message whose callback is gone runs the callback of the reply before
  (`async.c:463`).
* `NoLeak` and `ErrorReported` without their condition `~mode.reuse` (`session`):
  the retry after `EADDRNOTAVAIL` (`net.c:330-333`) leaves the socket of the
  failed attempt open, and neither the last retry nor a `setsockopt` that fails
  (`net.c:303-305`) leaves an error in the context.
* `AllFreed` (`parts`): `redisFormatSdsCommandArgv` assigns the result of
  `sdsMakeRoomFor` to the variable that holds the string of `sdsempty`
  (`hiredis.c:495-502`). When memory runs out in between, that string is lost.
* `EmptyGivesNULL` (`parts`): a string of
  length zero gives an empty array, where `sds.c:646` says NULL.

One divergence is part of the model and of the abstract string as well:
`sdstrim` says it removes the characters of `cset`, a C string (`sds.c:529-530`),
and `strchr` finds the terminator of `cset` too (`sds.c:550-551`), so that NUL is
removed from both ends of a binary string whatever `cset` is.

## 5. What is proved

| module | theorem | statement |
|---|---|---|
| `VfsClientProofs` | `Inductive` | `SpecBuilt => []IndInv` |
| | `TypeCorrect` | `SpecBuilt => []TypeOK` |
| | `CounterAhead` | `SpecBuilt => []IdsBelowCounter` |
| | `ParentsAcyclic` | `SpecBuilt => []ParentBelowChild` |
| | `NoneDangling` | `SpecBuilt => []NoDanglingEntry` |
| | `NothingIsLost` | `SpecBuilt => NothingLost` |
| | `CrashesExplained` | `SpecBuilt /\ []FitsInt => CrashHasCause` |
| | `FreshInductive` | `OneClient`: `SpecFresh => []FreshInv` |
| | `BuiltBeforeFlag` | `OneClient`: `SpecFresh => []RootedWhenCreated` |
| | `NumbersUsedOnce` | `OneClient`: `SpecFresh => []UniqueIds` |
| | `LinksAgree` | `OneClient`: `SpecFresh => []LinkMatchesParent` |
| `VfsEntriesProofs` | `EntriesTyped` | `Spec => []TypeOK` |
| | `CrashesOnlyUnfinished` | `Spec => []CrashNeedsUnfinished` |
| | `LookupMissesNothing` | `Spec => []StableFound` |
| | `ListingShowsAll` | `Spec => []StableListed` |
| | `DeletedStaysDeleted` | `OneMaker`: `Spec => []GoneForGood` |
| `RedisProtocolProofs` | `ReaderTypeCorrect` | `Spec => []TypeOK` |
| | `AssertionsHold` | `Spec => []StackAsserted` |
| | `FormatCorrect` | `FormatsRight`: `FormatSpec => []FormatRight` |
| `RedisSessionProofs` | `UpUsable` | `ConnectSpec => []UpIsUsable` |
| | `NothingLeaks` | `ConnectSpec => []NoLeak` |
| | `ErrorsReported` | `ConnectSpec => []ErrorReported` |
| | `ContextTypeCorrect` | `Spec => []TypeOK` |
| | `PrefixExecuted` | `Spec => []ExecutedIsPrefix` |
| | `SilentAfterError` | `Spec => []NothingAfterError` |
| | `NullIsError` | `Spec => []NullMeansError` |
| | `StreamImplemented` | `Spec => ImplementsStream` |
| | `SessionSafe` | `SessionSpec =>` always the six invariants above but the types |
| | `SessionStreams` | `SessionSpec => ImplementsStream` |
| `RedisAsyncProofs` | `AsyncTyped` | `Spec => []TypeOK` |
| | `NothingNewWhileFreeing` | `Spec => QuietWhileFreeing` |
| | `HooksAlwaysSet` | `Spec => []HooksSet` |
| | `EveryCallbackRuns` | `Spec => []NoneForgotten` |
| | `CleanlyDone` | `Spec => []CleanMeansAnswered` |
| | `AbortsExplained` | `Spec => []AbortExplained` |
| | `RepliesReachTheirCommands` | `Spec => OwnReplyOnce` |
| | `MessagesReachTheirChannel` | `Spec => []OwnChannel` |
| `DictProofs` | `MapImplemented` | `HashRight`: `HashSpec => ImplementsMap` |
| | `DictTypeCorrect` | `HashRight`: `HashSpec => []HashTypeOK` |
| | `EachSeenOnce` | `HashRight`: `HashSpec => []SeesEachOnce` |
| `SdsProofs` | `BufferKept` | `SdsRight`: `SdsSpec => []BufferRight` |
| | `ByteStringImplemented` | `SdsRight`: `SdsSpec => ImplementsByteString` |
| | `SplitsRight` | `StringLength \in Nat`: `Cut!Spec => []Cut!SplitRight` |
| | `ArgumentsReadBack` | `Arg!LinesRight`: `Arg!Spec => []Arg!ArgsRight` |
| | `NumbersReadBack` | `Num!NumberRight`: `Num!Spec => []Num!ReadsBack` |
| | `ConversionsCorrect` | `ConversionsAssumed`: `Cut!Spec /\ Arg!Spec /\ Num!Spec => []ConversionsRight` |

They hold for every value of the constants: any set of processes and commands,
any widths of `int` and `long`, any messages, stack depth and buffer limit, any
constructors, addresses and retries, any size and number of commands, any
programs, keys and callbacks of an asynchronous context, any hash function and
any number of keys, strings of any bytes and length, any formats and values,
any lines and arguments, and numbers of any width.

**Assumptions.** `CharAssumption` (the characters the code names are
characters), `WidthAssumption` (`int` and `long` are two's complement and `long`
is wider), `CommandsAssumption` (only `ls` is typed without a path: the terminal
drops empty arguments), `CallsAssumption` (a path that makes or renames has a
name), `NamesAssumption`, `NumbersFit`, `BoundsAssumption`, `CountsAssumption`,
`SizeAssumption`, `ProgramsAssumption` and the assumptions on the constants of
`RedisReader`. `HashRight` (hashes are numbers, a table does not start empty, NULL
is no key), `SdsRight` (NUL is a byte, `tolower` gives a byte), `FormatsRight`
(formats and values are sequences, `MaxArgs` is a natural number) and `ConversionsAssumed` (lines and
arguments are made of characters, of which the terminator is none;
`SDS_LLSTR_SIZE` has room for a sign, the digits of the largest numbers and a
terminator, as 21 has for 64 bits) say what the constants of a part are, as
hypotheses of its theorems and assumptions of `MCHiredisParts`. TLC evaluates
all of them. Four hypotheses stand in theorems
because the property fails without them, and a run or a sentence of section 4
shows the failure or its cause:

* `OneClient` (the theorems on `SpecFresh`): with two processes, runs `two_boots` and
  `same_id` violate the properties.
* `OneMaker` (`DeletedStaysDeleted`): no two processes make entries of the same
  kind. If two draw one number, the `LPUSH` of the slower one lists it again
  after it has been deleted.
* `FitsInt` (`CrashesExplained`): the counter is at most `INT_MAX + 1`. Beyond
  that `vfs_findObjectInDir`'s callers read another number than was listed.
* `~mode.reuse` (inside `NoLeak` and `ErrorReported`): see section 4.

**Processes.** `ParentBelowChild` is not inductive: that a new folder's number is
above its parent's depends on the process having found the parent before it
read the counter. `IndInv` therefore adds to the store's invariant (`DbInv`)
what a process's registers hold (`GoodRegisters`): every number a process
carries is below the counter, a number read but not yet incremented is at most
the counter and above the parent's, a number drawn is below the counter and
above the parent's, and `LONG_MAX`, the one number that may be ahead, occurs only
during a climb. A second process that increments in between only raises the
counter, which is why the race of finding 1 breaks uniqueness and not this.
The proof has one lemma per group of actions (`ProcessSteps`, `CallSteps`,
`FindSteps`, `EndSteps`, `ClimbSteps`, `ListSteps`, `CreateSteps`) and one case
per action; the lemmas `LocalStep`, `ReturnStep`, `PromptStep` and `CrashStep`
say once what each way of ending a step preserves. `NoneDangling` and
`NothingIsLost` use that only `AddToList` and `SetInfo` write lists and hashes
(`QuietSteps`), and that only `SetInfo` and `Kill` leave the place between them.
TLC has checked `IndInv` as an invariant of `shared` and `odd_paths` beforehand.

**Deaths.** `CrashHasCause` is about a step, and a process dies over a number it
read steps ago. `HeldInv` says what is known of the numbers in the registers at
each label: a folder number names a folder (it has a hash or is in a list,
`Known`), or is the -1 of "not found", or the `LONG_MAX` a climb may end in; a
list being read holds numbers still listed; a file that was found has its hash;
and the parent in a folder's hash is a folder too, or `ULONG_MAX`. It is
inductive because nothing is unlisted and no hash is taken away
(`NothingIsLost`). `FitsInt` makes the number used the number that was read.

**One process.** `FreshInv` has two halves. `Early`: before the flag is set there
is at most the root's hash and a counter of 1, and the label says which of them
a builder has written; a kill leaves one of these states and the next start
flushes it. `IndInv /\ Tree` afterwards: the step that sets the flag makes the
store `SpecBuilt` starts from, so that what is proved of it carries over, and `Tree`
adds that no number stands at two places of the lists (`Once`), that a listed
folder names the folder that lists it (`Link`), and that the number a process
is drawing is nowhere yet (`Drawn`). That last part is the one other processes
break.

**Entries.** `VfsEntriesProofs` rests on three invariants over common types.
`HashInv` is about hashes: a listed entry without one has a maker at `HMSET`, and
then everyone in the middle of a call has seen an entry without a hash (`AllSaw`);
an index a process holds (`Asking`) was listed. `ReadInv` is about what a lookup
(`Sought`) or a listing (`Listed`) has read so far: every entry that has been
stable is still to come in the list being read, or already found or shown. It
is inductive because a list is read in one `LRANGE` and what is stable only
shrinks. `GoneInv` is about numbers: a number is in one list of its kind at most,
the parent in a hash is the folder that lists it, and nothing at or above the
counter, nor a number being drawn, has been deleted; so the `LREM` of a walk that
took its time strikes the list it means, or nothing.

**Reader.** `StackAsserted` and the reader's types are inductive only together:
the stack index grows where the entry below is an array with elements left, and
`moveToNextTask` pops as long as an array is exhausted. The largest index whose
array is not exhausted exists because the stack is finite (`LargestOf`, from
the library's theorem on least elements).

**Constructors.** `SocketMade` says at each label whether the context's socket is
open and whether it blocks; `OneSocket`, that no other socket is open and that a
failure has left an error. `OneSocket` needs the constructor not to be the one
with `SO_REUSEADDR`, as it should.

**Context.** The bytes in the output buffer, on the wire and in the reader's
buffer are stretches of one sequence, the bytes of all commands, in which command
`k` ends at byte `k * Size`. `Flow` says that the stretches meet: what is on its
way to the server follows what the server has executed, what is buffered follows
that, and both together end where the last command appended ends. `Errors` says
that no later command than the last one before the error is on its way. Partial
writes move bytes from one stretch to the next, and that the server's next whole
command is the next number is a fact about multiples of `Size`.
`StreamImplemented` adds `Replies`: what the calls have returned, NULLs taken out
(`Answers`), is 1, 2, 3, ..., and the bytes of replies on their way continue
where the answers end. A call that returns a reply is then a step of
`ReplyStream`; every other step, one that returns NULL included, stutters.

**Session.** `SessionInv` is the conjunction of the two sides' invariants and
`Waiting`: no call runs while the constructor does. A step of the constructor or of
`redisSetTimeout` changes of the context at most the error; `NotedStep` shows that
the context's invariants do not mind who set it. A step of a call or of the
server leaves the socket alone (`UseStep`). Only the error is shared.

**Lists.** What a recursive function computes is a fact for every length, and a
proof by induction needs a theorem with an operator as parameter. `ListsProofs`
gets the facts about `Without` (its members, their order, what appending,
concatenating and taking out do to it) another way: if a fact failed for some
prefix of a list, there would be a least such prefix, by the library's theorem
on least elements of a set of naturals, and the function's equation at that
point contradicts it.

**Hash table.** `TableOf` says that each chain holds the entries of its slot, no key
twice; `Stored` is the set of entries, which is all that the abstract map knows
of a table. Each operation has a lemma that says what it does to both, and the
refinement is read off `Stored`. `dictExpand` pushes the entries one after
another, in a recursive function: after `i` of them the new table is a `TableOf`
that stores the first `i` (a least counterexample, as for the lists). `EachSeenOnce`
needs what the iterator has still to hand out (`Rest`): the entries behind its
slot, and in its chain those from the entry saved in advance on. What has been
handed out and the rest are `before` and have nothing in common (`OpenRight`); a
deletion of the entry just handed out is a deletion outside of the rest, which
is why the entry is saved.

**Strings.** `Buffer` says that the header accounts for the allocation and that
what the string shows are bytes, `Ended` that it is terminated, `Shows` which
bytes it shows. The calls are made of few primitives (`Write`, `SetLen`,
`Realloc`), each with one lemma on what it keeps of `Buffer` and of what is shown;
each call has one that adds them up and compares the bytes with the abstract
operation's. `Ended` is not among the primitives' lemmas: `sdscatfmt` leaves the
string unterminated between two pieces, and only the call as a whole ends it.

**Conversions.** Each is a loop whose invariant says what has been read of the
text and what has been written. Splitting (`CutInv`): the tokens so far, each
followed by the separator, are the string up to the start of the next token
(`Glued`), no separator begins between that start and the search, and the array
has a slot more than there are tokens. Arguments (`ArgsInv`): on every line the scan stays
in it and what is allocated is counted (`ArgsBase`); on a line that `sdscatrepr`
wrote, `ReadingBack` says where the scan is, as the line is laid out (`Laid`, of
`ListsProofs`: where each list ends in what `FlattenSeq` makes of them) argument
by argument and, within one, character by character (`Spelled`), so that a turn
of the loop reads exactly what `ReprOf` wrote for one character; on a line
without quotes, `ReadingPlain` says that the vector holds the runs that start
before the scan, each at the place that counting the starts gives it (`Told`).
Numbers (`NumInv`): the digits written and what is left make up the magnitude
(`Peeled`); while they are turned around, the bytes outside of `lo` and `hi` have
changed places and those inside have not (`Turned`). That the digits fit into
the buffer is a comparison of the number with powers of ten.

**Commands.** `FormatIInv` says what the scan has got of the format (`Scanned`):
the complete arguments and the one being written are what the elements read so
far stand for, argument by argument (`Built`), and the number of arguments
begun is the number of words so far. It says also (`Sized`) that the sum is the
length of what will be written, which needs that `countDigits`, four digits a
turn, counts the digits the decimal conversion writes one by one (a least
counterexample again), and that the strings allocated are the complete
arguments and the current one. The two functions that take a list of arguments
are the same statement for a format of pairs; `NoLeak` names the function and
the result with which one string may be left.

**Asynchronous context.** Every invariant has a proof by cases of `Next`; what a
callback may call (a command, `redisAsyncDisconnect`, `redisAsyncFree`) is one of
the cases, so that the theorems hold for callbacks that call back.

* `Typed`: the types of every variable but the count of unasked lines, and
  `TypeOK` with it. That the two lists, the buffers and what the server holds
  contain numbers of accepted commands only is what the other invariants
  build on.
* `Quiet`: who is being freed is flagged, which is why `__redisAsyncCommand`
  refuses.
* `Hooked`: with something to send the write hook is set, and a command that is
  not to be sent any more has the read hook. `HooksSet` speaks of the waiting loop
  only, but between two waits a callback sends and a handler drops the write
  hook, so the invariant holds at every control point.
* `Remembered`: the callback of a command has run or is in one of the two lists.
  With `Emptied` (a freed context has empty lists) that is `NoneForgotten`.
* `Owed` and `Said`: with plain commands only, a command is answered or its
  callback is in the list, until an error or a free; leaving without either
  means that the list is empty; and `onDisconnect` is told which it was.
* `Listening`: a program that never unsubscribes keeps its flags and gets no
  answer to an unsubscribe. `Aligned` is the matching by position: there is a
  last plain command before the first subscription (`Split`), the callbacks
  listed are those of the commands up to it that are not answered, in order, the
  replies that have arrived begin with theirs and go on with pushed messages
  (`Arriving`), and the server has got as far as the numbers of both say
  (`Serving`). It holds while the context lives. `AbortExplained` follows: at
  either assertion a callback would be missing that `Aligned` says is there.
* `Subscribers`, `Waits`, `RanWell`: a subscription's callback is kept under its
  own channel; who waits is later than who has run; who has run got its own
  reply. `OwnReplies` and `OwnChannel` are read off `RanWell`; with
  unsubscribes they fail (section 4), and their hypothesis says so.
* `Fits`: a reply on its way to a plain command is no array, and an error only if
  the command was sent after a subscription. With `Aligned` the step that takes it finds its callback at the
  head of the list, or an empty list; in the second case the reply is an error
  and the context ends. That is the
  second half of `OwnReplyOnce`.

Apart from the types, the properties these theorems state are those of the runs
of section 3: TLC has checked each on a small instance, and the proofs cover
every instance.

**Model-checked only.** Liveness, which needs fairness: `CommandReturns`,
`CallReturns`, `ConstructorReturns`, `EventuallyDelivered`. `RedisReader`'s
`ImplementsStream`, as the stream of symbols is related to replies by data of
unbounded depth.

## 6. Not modelled

* The 32-bit fields of a string's header and the size of allocations: strings
  are short.
* Functions without a caller: `vfs_setDirParent`, `vfs_getDirPathFromId`, the
  accessors of sizes and URLs. Routines with an empty body: `mv`, `redis_mv...`.
* `ls_info` of a path that does not exist; the answer of `Readdir` when the
  kernel's buffer is full; the 20000 characters of `vfs_listUnixStyle`'s line.
* The other FUSE handlers. Most print and return 0; `Read` returns -1, and
  `Utime` hands an uninitialised buffer to `utime()`. None touches redis.
* An empty line at the prompt makes the terminal read the first element of an
  empty vector; no such line is typed here.
* The counter's limit in redis, fixed key buffers, allocation failure in `vfs.c`,
  output.
* The loss of the connection in mid-call of the library: `vfs.c` dereferences the
  NULL its next read gets. `session` shows what the server has executed by
  then; the two are not composed.
* `redisConnectFd` and `redisFreeKeepFd`, which take and give away the caller's
  socket; the values of timeouts and keep-alive intervals.
* `sdscatprintf` (`vsnprintf`), `sdscmp`, `sdsfromlonglong` (`sdsll2str` and a
  copy); formats that end inside a specification.
* Asynchronous context: `onConnect` and `onDisconnect` that call the context;
  event loops that drop a hook when it fires (the hooks are persistent, as in
  `adapters/ae.h`); commands of which only a part is written; more than one
  channel per subscribe; plain commands whose reply is an array; out of memory
  in a list of callbacks; `redisAsyncCommandArgv`, which takes the -1 of a failed
  `redisFormatSdsCommandArgv` for a length. Its progress is
  stated as an invariant of the waiting loop (`HooksSet`) and not as liveness.
* The event loop adapters, googletest, and the pass-through FUSE sample
  (`examplefs.cc`): third-party, and no part of them touches redis.

## 7. Plan

Done: the file system (`RedisDb`, `VfsPath`, `VfsClient`, `VfsEntries`) and
hiredis (`RedisConnect`, `RedisContext`, `RedisSession`, `RedisReader`,
`RedisAsync`, `CommandFormat`, `Dict`, `Sds...`), their runs, findings and the
theorems of section 5.

1. `VfsSession`: one process alone with each library call as one atomic action on
   an abstract tree, and `VfsClient` with one process shown to implement it (a
   command takes effect at its `HMSET`); `FreshInv` is its invariant.
2. A lost connection as a step of `VfsClient`.
