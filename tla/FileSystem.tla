------------------------------- MODULE FileSystem -------------------------------
(***************************************************************************)
(* The file system of MP4 (filesys/filesys.cc, directory.cc, openfile.cc). *)
(* It "assumes there is no concurrent access", so that each call is one    *)
(* step.  What is on the disk outlives the process: each command line      *)
(* (nachos -mkdir, -cp, -r, -rr) is a process of its own that finds what   *)
(* the last one left, also when an ASSERT ended that one.                  *)
(*                                                                         *)
(* A path is a sequence of names, as strtok cuts it.  A directory's table  *)
(* takes one sector.  The bitmap of free sectors is kept in a file; here   *)
(* it is the variable marked: PersistentBitmap(freeMapFile) reads it and   *)
(* freeMap->WriteBack assigns it.                                          *)
(***************************************************************************)
EXTENDS FileHeader

CONSTANTS
  Names,         \* names of files and directories
  MaxDepth,      \* bound: the length of a path
  Sizes,         \* sizes of new files, in sectors
  Values,        \* what programs write into a sector
  Ids,           \* bound: the open files of a program
  NumDirEntries, \* entries of a directory
  Recursives,    \* the remove commands in use: FALSE for -r, TRUE for -rr
  Careful        \* whether callers only use paths below directories that exist,
                 \* and open no directory

ASSUME CallersAssumption ==
  Recursives \subseteq BOOLEAN /\ Careful \in BOOLEAN /\ 0 \notin Values

\* The disk has room for the bitmap and the root directory.
ASSUME FormatAssumption ==
  /\ NumSectors > 3
  /\ MaxDepth \in Nat \ {0} /\ NumDirEntries \in Nat
  /\ Sizes \subseteq Nat /\ 0 \notin Ids

VARIABLES
  disk,   \* what the sectors hold
  marked, \* the bitmap of free sectors on disk
  opened, \* the OpenFile objects of the running program
  opfile  \* FileSystem::opfile, which names one of them

vars == <<disk, marked, opened, opfile>>

Nil == 0                                 \* a NULL pointer
Closed == [file |-> None, seek |-> 0]    \* no OpenFile
FreeMapSector == 0
DirectorySector == 1
Paths == UNION {[1..n -> Names] : n \in 1..MaxDepth}

-----------------------------------------------------------------------------
(* Directory.  A table that was never written, or the data of a regular    *)
(* file read as a table, has no entry in use.                              *)

Slots == 1..NumDirEntries
Unused == [inUse |-> FALSE]
Entry(name, sector, isDir) ==
  [inUse |-> TRUE, name |-> name, sector |-> sector, isDir |-> isDir]
EmptyTable == [i \in Slots |-> Unused]
Table(entries) == [kind |-> "table", entries |-> entries]
Tables == [Slots -> {Unused} \cup [inUse : {TRUE}, name : Names, sector : Int, isDir : BOOLEAN]]
Disks ==
  [Sectors -> [kind : {"data"}, value : Values \cup {0}]
              \cup [kind : {"header"}, size : Nat, data : [1..NumDirect -> Int]]
              \cup [kind : {"table"}, entries : Tables]]

Having(table, name) == {i \in Slots : table[i].inUse /\ table[i].name = name}
FreeSlots(table) == {i \in Slots : ~table[i].inUse}
Find(table, name) ==
  IF Having(table, name) = {} THEN None ELSE table[Min(Having(table, name))].sector
IsDir(table, name) ==
  Having(table, name) # {} /\ table[Min(Having(table, name))].isDir
Add(table, name, sector, isDir) ==
  [table EXCEPT ![Min(FreeSlots(table))] = Entry(name, sector, isDir)]
RemoveEntry(table, name) ==
  IF Having(table, name) = {} THEN table
  ELSE [table EXCEPT ![Min(Having(table, name))] = Unused]

\* The sector with the table of the directory whose header is at s.
TableSector(d, s) == ByteToSector(d, FetchFrom(d, s), 0)

\* FetchFrom reads nothing from an empty file: the old table stays.
FetchTable(table, d, s) ==
  IF FetchFrom(d, s).size = 0 THEN table
  ELSE LET content == d[TableSector(d, s)]
       IN  IF content.kind = "table" THEN content.entries ELSE EmptyTable

WriteTable(d, table, s) ==
  IF FetchFrom(d, s).size = 0 THEN d ELSE [d EXCEPT ![TableSector(d, s)] = Table(table)]

-----------------------------------------------------------------------------
(* Formatting the disk.                                                    *)

Init ==
  LET blank == [s \in Sectors |-> Zero]
      map == Allocate(blank, {FreeMapSector, DirectorySector}, 1)
      dir == Allocate(map.disk, map.marked, 1)
      headers == [dir.disk EXCEPT ![FreeMapSector] = map.hdr, ![DirectorySector] = dir.hdr]
  IN  /\ disk = WriteTable(headers, EmptyTable, DirectorySector)
      /\ marked = dir.marked
      /\ opened = [id \in Ids |-> Closed]
      /\ opfile = Nil

-----------------------------------------------------------------------------
(* The loops over the tokens of a path.  table is what *directory holds,   *)
(* file the header of file_temp, last that of last_level_dir_file.         *)

AtRoot ==
  [table |-> FetchTable(EmptyTable, disk, DirectorySector), depth |-> 0,
   file |-> DirectorySector, last |-> DirectorySector]

Enter(w, s) ==
  [table |-> FetchTable(w.table, disk, s), depth |-> w.depth + 1, file |-> s, last |-> w.file]

\* dirsOnly: Open stops at a regular file, the others enter it as a directory.
Follow(w, path, dirsOnly) ==
  IF w.depth = Len(path) THEN w
  ELSE LET token == path[w.depth + 1]
       IN  IF Find(w.table, token) = None \/ (dirsOnly /\ ~IsDir(w.table, token)) THEN w
           ELSE Enter(w, Find(w.table, token))

\* One turn for each token; a loop that has stopped stays where it is.
WalkFrom(w, path, dirsOnly) ==
  LET after[n \in 0..Len(path)] == IF n = 0 THEN w ELSE Follow(after[n - 1], path, dirsOnly)
  IN  after[Len(path)]

Walk(path) == WalkFrom(AtRoot, path, FALSE)
WalkDirs(path) == WalkFrom(AtRoot, path, TRUE)

NamesDirectory(path) == WalkDirs(path).depth = Len(path)

\* The path is in the root or in a directory that exists.
HasParent(path) == Len(path) = 1 \/ NamesDirectory(Front(path))

Calls(path) == Careful => HasParent(path)

-----------------------------------------------------------------------------
(* Create and CreateDir, which differ in isDir and in the size only.       *)

\* What a call leaves: on disk, and whether an ASSERT ended the process.
Left(ok, d, map, dies) == [ok |-> ok, disk |-> d, marked |-> map, dies |-> dies]
Fails == Left(FALSE, disk, marked, FALSE)

\* Mutants of Flush: the bitmap is not written back; the table is written to the
\* directory one level up.
FlushKeepsMap(r, w, table, sector) ==
  Left(TRUE, WriteTable([r.disk EXCEPT ![sector] = r.hdr], table, w.file), marked, FALSE)
FlushOneUp(r, w, table, sector) ==
  Left(TRUE, WriteTable([r.disk EXCEPT ![sector] = r.hdr], table, w.last), r.marked, FALSE)

\* Everything worked: write the header, the directory and the bitmap.
Flush(r, w, table, sector) ==
  Left(TRUE, WriteTable([r.disk EXCEPT ![sector] = r.hdr], table, w.file), r.marked, FALSE)

\* The last token, in the table one level up, when the whole path was found; else
\* the first that was not found.
Creation(path, size, isDir) ==
  LET w      == Walk(path)
      whole  == w.depth = Len(path)
      token  == path[IF whole THEN w.depth ELSE w.depth + 1]
      table  == IF whole THEN FetchTable(w.table, disk, w.last) ELSE w.table
      sector == First(marked)
      r      == Allocate(disk, marked \cup {sector}, size)
  IN  IF Find(table, token) # None \/ sector = None \/ FreeSlots(table) = {} \/ ~r.ok
      THEN Fails
      ELSE IF r.aborts THEN Left(FALSE, r.disk, marked, TRUE)
      ELSE Flush(r, w, Add(table, token, sector, isDir), sector)

NoneOpen == [id \in Ids |-> Closed]

Becomes(r) ==
  /\ disk' = r.disk /\ marked' = r.marked
  /\ opened' = IF r.dies THEN NoneOpen ELSE opened
  /\ opfile' = IF r.dies THEN Nil ELSE opfile

\* SC_Create, or Copy in main.
Create(path, size) ==
  /\ Calls(path)
  /\ Becomes(Creation(path, size, FALSE))

\* The commands of main, before any program runs.
NoProgram == opfile = Nil /\ opened = NoneOpen

CreateDir(path) ==
  /\ NoProgram /\ Calls(path)
  /\ Becomes(Creation(path, 1, TRUE))

-----------------------------------------------------------------------------
(* Open, Read, Write, Close, by a program.  An OpenFile keeps its header   *)
(* and its seekPosition; nothing changes the header on disk while a        *)
(* program runs, so file names it.                                         *)

\* Mutant of OpenSector: the name is looked up in the root.
OpenSectorAtRoot(path) == Find(AtRoot.table, Last(path))

OpenSector(path) ==
  LET w == WalkDirs(path)
  IN  Find(w.table, path[IF w.depth = Len(path) THEN w.depth ELSE w.depth + 1])

Open(id, path) ==
  /\ opened[id] = Closed /\ Calls(path) /\ (Careful => ~NamesDirectory(path))
  /\ OpenSector(path) # None
  /\ opened' = [opened EXCEPT ![id] = [file |-> OpenSector(path), seek |-> 0]]
  /\ opfile' = id
  /\ UNCHANGED <<disk, marked>>

\* Open returns NULL: opfile is lost.
OpenFails(path) ==
  /\ Calls(path)
  /\ OpenSector(path) = None
  /\ opfile' = Nil
  /\ UNCHANGED <<disk, marked, opened>>

Block(f) == ByteToSector(disk, FetchFrom(disk, f.file), f.seek)
\* Where there is no sector, an ASSERT of the disk ends the process, as Exit does.
InFile(f) == f.seek < FetchFrom(disk, f.file).size /\ Block(f) # None
Seek == opened' = [opened EXCEPT ![opfile].seek = @ + 1]

\* One sector at the seek position of opfile, whatever file the program names.
Write(id, value) ==
  /\ opened[id] # Closed /\ opfile # Nil
  /\ InFile(opened[opfile])
  /\ disk' = [disk EXCEPT ![Block(opened[opfile])] = Data(value)]
  /\ Seek
  /\ UNCHANGED <<marked, opfile>>

Read(id) ==
  /\ opened[id] # Closed /\ opfile # Nil
  /\ InFile(opened[opfile])
  /\ Seek
  /\ UNCHANGED <<disk, marked, opfile>>

\* Close deletes opfile; a further call of the program would use it again.
Close(id) ==
  /\ opened[id] # Closed /\ opfile # Nil
  /\ opened' = [opened EXCEPT ![opfile] = Closed]
  /\ opfile' = Nil
  /\ UNCHANGED <<disk, marked>>

Exit ==
  /\ ~NoProgram
  /\ opened' = NoneOpen
  /\ opfile' = Nil
  /\ UNCHANGED <<disk, marked>>

-----------------------------------------------------------------------------
(* Directory::RecursiveRemove: of the entries of a table, each with a copy *)
(* of the bitmap of its own, read before and written after the recursion.  *)

RecursiveRemove[d \in Disks, map \in SUBSET Sectors, table \in Tables] ==
  LET RemoveOne(st, i) ==
        LET e   == st.table[i]
            del == Deallocate(st.disk, st.marked, FetchFrom(st.disk, e.sector))
            sub == RecursiveRemove[st.disk, st.marked,
                                   FetchTable(EmptyTable, st.disk, e.sector)]
            cleared == del.marked \ {e.sector}
        IN  IF st.aborts \/ ~e.inUse THEN st
            ELSE IF del.aborts THEN [st EXCEPT !.aborts = TRUE]
            ELSE IF ~e.isDir
                 THEN [st EXCEPT !.marked = cleared, !.table = RemoveEntry(@, e.name)]
            ELSE IF sub.aborts
                 THEN [sub EXCEPT !.table = st.table]
            ELSE [disk |-> WriteTable(sub.disk, sub.table, e.sector), marked |-> cleared,
                  table |-> RemoveEntry(st.table, e.name), aborts |-> FALSE]
  IN  FoldLeft(RemoveOne, [disk |-> d, marked |-> map, table |-> table, aborts |-> FALSE],
               [i \in Slots |-> i])

-----------------------------------------------------------------------------
(* Remove(name, Recursive).                                                *)

\* Mutants of RemoveHeader: the header's sector stays marked; the entry stays.
RemoveHeaderKeepsHeader(d, map, sector, token, last, table) ==
  LET del == Deallocate(d, marked, FetchFrom(d, sector))
  IN  IF del.aborts THEN Left(FALSE, d, map, TRUE)
      ELSE Left(TRUE, WriteTable(d, RemoveEntry(table, token), last), del.marked, FALSE)
RemoveHeaderKeepsEntry(d, map, sector, token, last, table) ==
  LET del == Deallocate(d, marked, FetchFrom(d, sector))
  IN  IF del.aborts THEN Left(FALSE, d, map, TRUE)
      ELSE Left(TRUE, d, del.marked \ {sector}, FALSE)

\* Of a file, or at last of the directory itself: freeMap was read before the
\* directory was emptied, and is written now.
RemoveHeader(d, map, sector, token, last, table) ==
  LET del == Deallocate(d, marked, FetchFrom(d, sector))
  IN  IF del.aborts THEN Left(FALSE, d, map, TRUE)
      ELSE Left(TRUE, WriteTable(d, RemoveEntry(table, token), last),
                del.marked \ {sector}, FALSE)

\* Mutant of Removal: the directory one level up is not read again.
RemovalForgetsLast(path, recursive) ==
  LET w == Walk(path)
      r == RecursiveRemove[disk, marked, FetchTable(EmptyTable, disk, w.file)]
  IN  IF w.depth < Len(path) THEN Fails
      ELSE RemoveHeader(WriteTable(r.disk, r.table, w.file), r.marked, w.file, Last(path),
                        w.last, r.table)

Removal(path, recursive) ==
  LET w      == Walk(path)
      sector == w.file
      token  == Last(path)
      table  == FetchTable(w.table, disk, w.last)
      r      == RecursiveRemove[disk, marked, FetchTable(table, disk, sector)]
      emptied == WriteTable(r.disk, r.table, sector)
  IN  IF w.depth < Len(path) THEN Fails
      ELSE IF ~IsDir(table, token) THEN RemoveHeader(disk, marked, sector, token, w.last, table)
      ELSE IF ~recursive THEN Fails
      ELSE IF r.aborts THEN Left(FALSE, r.disk, r.marked, TRUE)
      ELSE RemoveHeader(emptied, r.marked, sector, token, w.last,
                        FetchTable(r.table, emptied, w.last))

RemoveFile(path, recursive) ==
  /\ NoProgram /\ Calls(path)
  /\ Becomes(Removal(path, recursive))

-----------------------------------------------------------------------------
Next ==
  \/ \E path \in Paths :
       \/ \E size \in Sizes : Create(path, size)
       \/ CreateDir(path)
       \/ \E recursive \in Recursives : RemoveFile(path, recursive)
       \/ \E id \in Ids : Open(id, path)
       \/ OpenFails(path)
  \/ \E id \in Ids : Read(id) \/ Close(id) \/ \E value \in Values : Write(id, value)
  \/ Exit

Spec == Init /\ [][Next]_vars

-----------------------------------------------------------------------------
(* The tree on the disk, and what each file in it holds.                   *)

\* The files and directories in the directory that is the node dir.
Root == [path |-> <<>>, sector |-> DirectorySector, isDir |-> TRUE]
Children(d, dir) ==
  LET table == FetchTable(EmptyTable, d, dir.sector)
  IN  {[path |-> Append(dir.path, table[i].name), sector |-> table[i].sector,
        isDir |-> table[i].isDir] : i \in {j \in Slots : table[j].inUse}}

NodesOn(d) ==
  LET level[n \in 0..(MaxDepth + 1)] ==
        IF n = 0 THEN {Root}
        ELSE UNION {Children(d, dir) : dir \in {m \in level[n - 1] : m.isDir}}
  IN  UNION {level[n] : n \in 1..(MaxDepth + 1)}

Nodes == NodesOn(disk)

\* The sectors of the file whose header is at s, each with its part in it.
Parts(owner, s) ==
  LET hdr == FetchFrom(disk, s)
      data == Blocks(disk, hdr)
  IN  {[owner |-> owner, part |-> -1, sector |-> s]}
      \cup {[owner |-> owner, part |-> i, sector |-> data[i]] : i \in DOMAIN data}
      \cup {[owner |-> owner, part |-> 0, sector |-> t] : t \in SubHeaders(disk, hdr)}

Holdings ==
  Parts(<<0>>, FreeMapSector) \cup Parts(<<>>, DirectorySector)
  \cup UNION {Parts(n.path, n.sector) : n \in Nodes}
Held == {h.sector : h \in Holdings}

-----------------------------------------------------------------------------
(* Properties.                                                             *)

TypeOK ==
  /\ \A s \in Sectors : disk[s].kind \in {"data", "header", "table"}
  /\ marked \subseteq Sectors
  /\ \A id \in Ids : opened[id] = Closed \/ (opened[id].file \in Sectors /\ opened[id].seek \in Nat)
  /\ opfile \in Ids \cup {Nil}

\* No sector belongs to two files, or twice to one, and none is a header and
\* data at a time, after any sequence of calls.
SectorsOwnedOnce == Cardinality(Held) = Cardinality(Holdings)

\* What a file or directory holds is marked, so no later Allocate can take it.
OwnedAreMarked == Held \subseteq marked

\* And nothing else is marked: sectors come back.
FreeMapExact == Held = marked

\* A file has as many sectors as its size says.
FilesAreWhole ==
  \A n \in Nodes : LET hdr == FetchFrom(disk, n.sector) IN Len(Blocks(disk, hdr)) = hdr.size

\* Each call is about the path it is given, however the loops over its names have
\* ended: Create and CreateDir put nothing else in the tree, Remove of what is not
\* there changes nothing, and Open opens the file of that path.
FollowsItsPath ==
  [][ /\ \A n \in Nodes' \ Nodes, path \in Paths :
           (CreateDir(path) \/ \E size \in Sizes : Create(path, size)) => n.path = path
      /\ \A path \in Paths \ {n.path : n \in Nodes}, recursive \in Recursives :
           RemoveFile(path, recursive) => UNCHANGED <<disk, marked>>
      /\ \A id \in Ids, path \in Paths :
           Open(id, path) => \E n \in Nodes : n.path = path /\ n.sector = opened'[id].file
    ]_vars

\* The file system implements the tree, whatever was moved on the disk by the
\* calls before: each call changes what its path names, and only that.
Contents(s) ==
  LET data == Blocks(disk, FetchFrom(disk, s)) IN [i \in 1..Len(data) |-> disk[data[i]]]

Tree ==
  {[path |-> n.path, isDir |-> n.isDir,
    data |-> IF n.isDir THEN <<>> ELSE Contents(n.sector)] : n \in Nodes}

T == INSTANCE FileTree WITH
       tree <- Tree, Values <- {Data(v) : v \in Values}, Blank <- Zero

ImplementsTree == T!TSpec
===============================================================================
