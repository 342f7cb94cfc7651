------------------------------- MODULE FileHeader -------------------------------
(***************************************************************************)
(* The file headers of MP4 (filesys/filehdr.cc) with the bitmap of free    *)
(* sectors (lib/bitmap.cc).  A header holds NumDirect sector numbers: of   *)
(* the data, or for longer files of further headers, up to four levels.    *)
(*                                                                         *)
(* Sizes are in sectors: every comparison of the code with a number of     *)
(* bytes is one with a multiple of SectorSize.  The disk is a function     *)
(* from sectors to what was last written there.                            *)
(*                                                                         *)
(* The operations are recursive in the code, once for each level.  Here an *)
(* operator ...By is the body, with the call that it makes for the parts   *)
(* of the file as its parameter Part, and is applied once for each level.  *)
(* The operations return what they changed; the field aborts says that an  *)
(* ASSERT failed on the way, which ends the program.                       *)
(***************************************************************************)
EXTENDS Integers, SequencesExt

CONSTANTS
  NumSectors, \* the size of the disk
  NumDirect   \* the sector numbers in a header

ASSUME DiskAssumption == NumSectors \in Nat \ {0} /\ NumDirect \in Nat \ {0, 1}

Sectors == 0..(NumSectors - 1)
None == -1

\* What a sector can hold.  A header keeps numSectors (size) and dataSectors.
Data(value) == [kind |-> "data", value |-> value]
Zero == Data(0)
NoSectors == [i \in 1..NumDirect |-> None]
Header(size, sectors) == [kind |-> "header", size |-> size, data |-> sectors]

\* FileHeader::FetchFrom.  A sector that holds no header reads as zeroes.
FetchFrom(disk, s) ==
  IF disk[s].kind = "header" THEN disk[s] ELSE Header(0, [i \in 1..NumDirect |-> 0])

DivRoundUp(n, s) == (n + s - 1) \div s

-----------------------------------------------------------------------------
(* Bitmap.                                                                 *)

Free(marked) == Sectors \ marked
\* FindAndSet returns the first clear bit.
First(marked) ==
  IF Free(marked) = {} THEN None
  ELSE CHOOSE s \in Free(marked) : \A t \in Free(marked) : s <= t
\* n calls of it: the i-th returns the i-th free sector.
FirstFree(marked, n) ==
  [i \in 1..n |-> CHOOSE s \in Free(marked) : Cardinality({t \in Free(marked) : t < s}) = i - 1]

-----------------------------------------------------------------------------
(* FileHeader::Allocate.                                                   *)

\* num_of_bytes_1level to _4level; the share of the file below each entry of a
\* header: the greatest that is less than the file.
LevelSizes == {NumDirect ^ k : k \in 1..4}
Share(size) == Max({u \in LevelSizes : u < size})

\* Mutant of Shares: rounded down.
SharesRoundedDown(size) == [i \in 1..(size \div Share(size)) |-> Share(size)]

\* The sizes of the files below the entries of a header.
Shares(size) ==
  [i \in 1..DivRoundUp(size, Share(size)) |->
     Min({Share(size), size - (i - 1) * Share(size)})]

Fill(sectors) == sectors \o [i \in 1..(NumDirect - Len(sectors)) |-> None]

\* One turn of the loops for the levels above the last: a sector for the header
\* of the next part, and the part.  What Allocate returns for it is not looked at.
AllocateShare(Part(_, _, _), st, size) ==
  LET s   == First(st.marked)
      sub == Part(st.disk, st.marked \cup {s}, size)
  IN  IF st.aborts THEN st
      ELSE IF s = None THEN [st EXCEPT !.aborts = TRUE]
      ELSE [disk |-> [sub.disk EXCEPT ![s] = sub.hdr], marked |-> sub.marked,
            sectors |-> Append(st.sectors, s), aborts |-> sub.aborts]

AllocateBy(Part(_, _, _), disk, marked, size) ==
  IF Cardinality(Free(marked)) < size
  THEN [ok |-> FALSE, aborts |-> FALSE, hdr |-> Header(size, NoSectors),
        disk |-> disk, marked |-> marked]
  ELSE IF size <= NumDirect
  THEN LET new == FirstFree(marked, size)
       IN  [ok |-> TRUE, aborts |-> FALSE, hdr |-> Header(size, Fill(new)),
            disk |-> [s \in Sectors |-> IF s \in Range(new) THEN Zero ELSE disk[s]],
            marked |-> marked \cup Range(new)]
  ELSE LET st == FoldLeft(LAMBDA sofar, share : AllocateShare(Part, sofar, share),
                          [disk |-> disk, marked |-> marked, sectors |-> <<>>,
                           aborts |-> FALSE],
                          Shares(size))
       IN  [ok |-> TRUE, aborts |-> st.aborts, hdr |-> Header(size, Fill(st.sectors)),
            disk |-> st.disk, marked |-> st.marked]

\* num_of_bytes_4level leaves at most five levels of headers.
AllocatePast(disk, marked, size) ==
  [ok |-> FALSE, aborts |-> TRUE, hdr |-> Header(size, NoSectors), disk |-> disk, marked |-> marked]
Allocate1(disk, marked, size) == AllocateBy(AllocatePast, disk, marked, size)
Allocate2(disk, marked, size) == AllocateBy(Allocate1, disk, marked, size)
Allocate3(disk, marked, size) == AllocateBy(Allocate2, disk, marked, size)
Allocate4(disk, marked, size) == AllocateBy(Allocate3, disk, marked, size)
Allocate(disk, marked, size) == AllocateBy(Allocate4, disk, marked, size)

-----------------------------------------------------------------------------
(* FileHeader::Deallocate.  At every level the loop has numSectors /       *)
(* NumDirect turns, rounded up.  (Past the end of dataSectors the code     *)
(* reads other memory; an entry before that was never set, but for files   *)
(* that fill their header.)                                                *)

\* ASSERT(freeMap->Test(s)); freeMap->Clear(s), for each of the sectors.
ClearBlocks(marked, sectors) ==
  IF IsInjective(sectors) /\ Range(sectors) \subseteq marked
  THEN [marked |-> marked \ Range(sectors), aborts |-> FALSE]
  ELSE [marked |-> marked, aborts |-> TRUE]

DeallocateBy(Part(_, _, _), disk, marked, hdr) ==
  LET Below(state, i) ==
        IF state.aborts \/ i > NumDirect \/ hdr.data[i] = None
        THEN [state EXCEPT !.aborts = TRUE]
        ELSE Part(disk, state.marked, FetchFrom(disk, hdr.data[i]))
  IN  IF hdr.size <= NumDirect THEN ClearBlocks(marked, SubSeq(hdr.data, 1, hdr.size))
      ELSE FoldLeft(Below, [marked |-> marked, aborts |-> FALSE],
                    [i \in 1..DivRoundUp(hdr.size, NumDirect) |-> i])

DeallocatePast(disk, marked, hdr) == [marked |-> marked, aborts |-> TRUE]
Deallocate1(disk, marked, hdr) == DeallocateBy(DeallocatePast, disk, marked, hdr)
Deallocate2(disk, marked, hdr) == DeallocateBy(Deallocate1, disk, marked, hdr)
Deallocate3(disk, marked, hdr) == DeallocateBy(Deallocate2, disk, marked, hdr)
Deallocate4(disk, marked, hdr) == DeallocateBy(Deallocate3, disk, marked, hdr)
Deallocate(disk, marked, hdr) == DeallocateBy(Deallocate4, disk, marked, hdr)

-----------------------------------------------------------------------------
(* FileHeader::ByteToSector of the first byte of block i (from 0).         *)

\* Mutant of ByteToSector: the offset is not reduced below an entry.
ByteToSectorFlat(disk, hdr, i) ==
  IF hdr.size <= NumDirect THEN hdr.data[1 + (i % NumDirect)]
  ELSE LET sub == FetchFrom(disk, hdr.data[1 + (i \div Share(hdr.size))])
       IN  sub.data[1 + (i % NumDirect)]

ByteToSectorBy(Part(_, _, _), disk, hdr, i) ==
  IF hdr.size <= NumDirect THEN hdr.data[i + 1]
  ELSE LET entry == i \div Share(hdr.size)
           s     == hdr.data[entry + 1]
       IN  IF s = None THEN None
           ELSE Part(disk, FetchFrom(disk, s), i - Share(hdr.size) * entry)

ByteToSectorPast(disk, hdr, i) == None
ByteToSector1(disk, hdr, i) == ByteToSectorBy(ByteToSectorPast, disk, hdr, i)
ByteToSector2(disk, hdr, i) == ByteToSectorBy(ByteToSector1, disk, hdr, i)
ByteToSector3(disk, hdr, i) == ByteToSectorBy(ByteToSector2, disk, hdr, i)
ByteToSector4(disk, hdr, i) == ByteToSectorBy(ByteToSector3, disk, hdr, i)
ByteToSector(disk, hdr, i) == ByteToSectorBy(ByteToSector4, disk, hdr, i)

-----------------------------------------------------------------------------
(* What a header stands for, from its entries alone: the sectors of its    *)
(* data in order, and those of the headers below it.                       *)

\* Fill sets the entries from the first on.
Entries(hdr) ==
  SubSeq(hdr.data, 1, Cardinality({i \in 1..NumDirect : hdr.data[i] # None}))

BlocksBy(Part(_, _), disk, hdr) ==
  LET entries == Entries(hdr)
      below[s \in Range(entries)] == Part(disk, FetchFrom(disk, s))
  IN  IF hdr.size <= NumDirect THEN SubSeq(entries, 1, Min({hdr.size, Len(entries)}))
      ELSE FoldLeft(LAMBDA data, s : data \o below[s], <<>>, entries)

BlocksPast(disk, hdr) == <<>>
Blocks1(disk, hdr) == BlocksBy(BlocksPast, disk, hdr)
Blocks2(disk, hdr) == BlocksBy(Blocks1, disk, hdr)
Blocks3(disk, hdr) == BlocksBy(Blocks2, disk, hdr)
Blocks4(disk, hdr) == BlocksBy(Blocks3, disk, hdr)
Blocks(disk, hdr) == BlocksBy(Blocks4, disk, hdr)

\* The headers that the entries of a header name, and those below these.
SubEntries(hdr) == IF hdr.size <= NumDirect THEN {} ELSE Range(Entries(hdr))
Below(disk, sectors) == UNION {SubEntries(FetchFrom(disk, s)) : s \in sectors}
SubHeaders(disk, hdr) ==
  LET second == Below(disk, SubEntries(hdr))
      third  == Below(disk, second)
  IN  SubEntries(hdr) \cup second \cup third \cup Below(disk, third)
===============================================================================
