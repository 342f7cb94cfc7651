---------------------------- MODULE FileSystemProofs ----------------------------
(***************************************************************************)
(* What FileSystem promises, proved for every size of the disk, of the     *)
(* headers and of the directories, for callers as PlainCalls has them.     *)
(*                                                                         *)
(* The invariant says that the disk represents a tree of nodes: each node  *)
(* has one entry in one directory's table, each header the sectors that    *)
(* its size says, no sector has two owners, and the bitmap marks the owned *)
(* ones.  A loop over the names of a path then ends at the node of that    *)
(* path, or fails; and a call writes only what keeps a tree represented.   *)
(***************************************************************************)
EXTENDS FileSystem, FiniteSetTheorems, WellFoundedInduction, TLAPS

-----------------------------------------------------------------------------
(* Numbers.                                                                *)

\* The order of the natural numbers is well founded.
LEMMA NatOrder ==
  \E R : IsWellFoundedOn(R, Nat) /\ \A x, y \in Nat : x < y => <<x, y>> \in R
<1>1. \A x, y \in Nat : x < y => <<x, y>> \in OpToRel(<, Nat)
  BY Zenon DEF OpToRel
<1> QED BY <1>1, NatLessThanWellFounded, Zenon

\* A set of numbers has a least element.
LEMMA Least ==
  ASSUME NEW S \in SUBSET Nat, S # {}
  PROVE  \E x \in S : \A y \in S : x <= y
<1>1. PICK R : IsWellFoundedOn(R, Nat) /\ \A x, y \in Nat : x < y => <<x, y>> \in R
  BY NatOrder
<1>2. IsWellFoundedOn(R, Nat) /\ S \subseteq Nat
  BY <1>1
<1>3. \E x \in S : \A y \in S : ~(<<y, x>> \in R)
  BY <1>2, WFMin, Zenon
<1>4. PICK x \in S : \A y \in S : ~(<<y, x>> \in R)
  BY <1>3
<1>5. \A y \in S : y < x => <<y, x>> \in R
  BY <1>1
<1>6. \A y \in S : x \in Nat /\ y \in Nat /\ ~(y < x)
  BY <1>4, <1>5
<1>7. \A y \in S : x <= y
  BY <1>6
<1> QED BY <1>7

\* Induction, with a set in the place of a predicate.
LEMMA Induct ==
  ASSUME NEW S, 0 \in S, \A n \in Nat : n \in S => n + 1 \in S
  PROVE  Nat \subseteq S
<1> SUFFICES ASSUME Nat \ S # {} PROVE FALSE
  OBVIOUS
<1>1. PICK x \in Nat \ S : \A y \in Nat \ S : x <= y
  BY Least
<1>2. x \in Nat /\ x # 0 /\ x \notin S
  OBVIOUS
<1>3. x - 1 \in Nat /\ (x - 1) + 1 = x /\ ~(x <= x - 1)
  BY <1>2
<1>4. x - 1 \in S
  BY <1>1, <1>3
<1> QED BY <1>2, <1>3, <1>4

\* Min is the least element.
LEMMA MinIs ==
  ASSUME NEW S \in SUBSET Nat, S # {}
  PROVE  Min(S) \in S /\ \A y \in S : Min(S) <= y
BY Least DEF Min

-----------------------------------------------------------------------------
(* The bitmap.                                                             *)

\* Sets of sectors are finite.
LEMMA SectorsFinite ==
  ASSUME NEW S \in SUBSET Sectors
  PROVE  IsFiniteSet(S) /\ Cardinality(S) \in Nat
<1>1. NumSectors \in Nat
  BY DiskAssumption
<1>2. IsFiniteSet(Sectors)
  BY <1>1, FS_Interval DEF Sectors
<1>3. IsFiniteSet(S)
  BY <1>2, FS_Subset
<1> QED BY <1>3, FS_CardinalityType

\* FindAndSet finds a clear bit, if there is one.
LEMMA FirstIs ==
  ASSUME NEW map \in SUBSET Sectors
  PROVE  /\ First(map) = None => Free(map) = {}
         /\ First(map) # None => First(map) \in Sectors \ map
<1>1. NumSectors \in Nat /\ Free(map) \subseteq Nat /\ None = -1 /\ None \notin Nat
  BY DiskAssumption DEF Free, Sectors, None
<1>2. CASE Free(map) = {}
  BY <1>2 DEF First
<1>3. CASE Free(map) # {}
  <2>1. \E x \in Free(map) : \A y \in Free(map) : x <= y
    BY <1>1, <1>3, Least
  <2>2. First(map) = CHOOSE s \in Free(map) : \A t \in Free(map) : s <= t
    BY <1>3 DEF First
  <2>3. First(map) \in Free(map)
    BY <2>1, <2>2
  <2> QED BY <2>3, <1>1 DEF Free
<1> QED BY <1>2, <1>3

\* The i-th of the free sectors is there, for every i up to their number.
LEMMA RankIs ==
  ASSUME NEW F \in SUBSET Sectors, NEW i \in 1 .. Cardinality(F)
  PROVE  \E s \in F : Cardinality({t \in F : t < s}) = i - 1
<1> DEFINE Under(m) == {t \in F : t < m}
<1>1. NumSectors \in Nat /\ F \subseteq Nat /\ Cardinality(F) \in Nat /\ i \in Nat
  BY DiskAssumption, SectorsFinite DEF Sectors
<1>2. \A m \in Nat : Under(m) \in SUBSET Sectors /\ IsFiniteSet(Under(m)) /\ Cardinality(Under(m)) \in Nat
  BY SectorsFinite
<1>3. /\ Under(NumSectors) = F
      /\ Under(0) = {}
  <2>1. \A s \in F : s \in Nat /\ s < NumSectors /\ ~(s < 0)
    BY <1>1 DEF Sectors
  <2> QED BY <2>1
<1> DEFINE Reach == {m \in Nat : i <= Cardinality(Under(m))}
<1> HIDE DEF Under
<1>4. Cardinality(Under(0)) = 0
  BY <1>3, FS_EmptySet
<1>5. NumSectors \in Reach /\ 0 \notin Reach
  BY <1>1, <1>3, <1>4
<1>6. PICK m \in Reach : \A k \in Reach : m <= k
  BY <1>5, Least
<1>7. m \in Nat /\ m # 0 /\ m - 1 \in Nat /\ ~(m <= m - 1)
  BY <1>5, <1>6
<1>8. Cardinality(Under(m - 1)) \in Nat /\ Cardinality(Under(m)) \in Nat /\ i <= Cardinality(Under(m))
  BY <1>2, <1>6, <1>7
<1>9. m - 1 \notin Reach
  BY <1>6, <1>7
<1>10. Cardinality(Under(m - 1)) < i
  BY <1>1, <1>7, <1>8, <1>9
<1>11. CASE m - 1 \notin F
  <2>1. \A s \in F : s < m <=> s < m - 1
    BY <1>1, <1>7, <1>11
  <2>2. Under(m) = Under(m - 1)
    BY <2>1 DEF Under
  <2> QED BY <2>2, <1>1, <1>8, <1>10
<1>12. CASE m - 1 \in F
  <2>0. \A s \in F : s < m <=> (s < m - 1 \/ s = m - 1)
    BY <1>1, <1>7
  <2>1. Under(m) = Under(m - 1) \cup {m - 1} /\ m - 1 \notin Under(m - 1)
    BY <2>0, <1>7, <1>12 DEF Under
  <2>2. IsFiniteSet(Under(m - 1))
    BY <1>2, <1>7
  <2>3. Cardinality(Under(m)) = Cardinality(Under(m - 1)) + 1
    BY <2>1, <2>2, FS_AddElement
  <2>4. Cardinality(Under(m - 1)) = i - 1
    BY <2>3, <1>1, <1>8, <1>10
  <2> QED BY <2>4, <1>12 DEF Under
<1> QED BY <1>11, <1>12

\* New(f, n, free): f is what n calls of FindAndSet return, out of the set free.
New(f, n, free) ==
  /\ f \in [1..n -> free]
  /\ \A i, j \in 1..n : f[i] = f[j] => i = j

\* n calls of FindAndSet find n different clear bits, if there are as many.
LEMMA FirstFreeIs ==
  ASSUME NEW map \in SUBSET Sectors, NEW n \in Nat, n <= Cardinality(Free(map))
  PROVE  New(FirstFree(map, n), n, Sectors \ map)
<1> DEFINE Place(s) == Cardinality({t \in Free(map) : t < s})
           f == FirstFree(map, n)
<1>1. Free(map) = Sectors \ map /\ Free(map) \in SUBSET Sectors /\ Cardinality(Free(map)) \in Nat
  BY SectorsFinite DEF Free
<1>2. f = [i \in 1..n |-> CHOOSE s \in Free(map) : Place(s) = i - 1]
  BY DEF FirstFree
<1>3. ASSUME NEW i \in 1..n PROVE f[i] \in Free(map) /\ Place(f[i]) = i - 1
  <2>1. i \in 1 .. Cardinality(Free(map))
    BY <1>1
  <2>2. \E s \in Free(map) : Place(s) = i - 1
    BY <2>1, <1>1, RankIs
  <2>3. f[i] = CHOOSE s \in Free(map) : Place(s) = i - 1
    BY <1>2
  <2> HIDE DEF Place, f
  <2> QED BY <2>2, <2>3
<1>4. DOMAIN f = 1..n /\ f = [i \in 1..n |-> f[i]]
  BY <1>2
<1> HIDE DEF f, Place
<1>5. \A i, j \in 1..n : f[i] = f[j] => i - 1 = j - 1
  BY <1>3
<1>6. \A i, j \in 1..n : f[i] = f[j] => i = j
  BY <1>5
<1>7. f \in [1..n -> Sectors \ map]
  BY <1>3, <1>4, <1>1
<1>8. New(f, n, Sectors \ map)
  BY <1>6, <1>7 DEF New
<1> QED BY <1>8 DEF f

-----------------------------------------------------------------------------
(* Files that fit their header.                                            *)

Small == 0..NumDirect

\* What a concatenation holds.
LEMMA ConcatIs ==
  ASSUME NEW S, NEW a \in Seq(S), NEW b \in Seq(S)
  PROVE  /\ a \o b \in Seq(S) /\ Len(a \o b) = Len(a) + Len(b)
         /\ \A i \in 1..(Len(a) + Len(b)) : (a \o b)[i] = IF i <= Len(a) THEN a[i] ELSE b[i - Len(a)]
OBVIOUS

\* A header's entries are set from the first on, and then no more.
LEMMA FillIs ==
  ASSUME NEW n \in Small, NEW f \in [1..n -> Sectors]
  PROVE  /\ Fill(f) \in [1..NumDirect -> Sectors \cup {None}]
         /\ \A i \in 1..n : Fill(f)[i] = f[i]
         /\ \A i \in 1..NumDirect : Fill(f)[i] = None <=> i > n
<1>1. NumDirect \in Nat /\ NumSectors \in Nat /\ n \in Nat /\ n <= NumDirect
  BY DiskAssumption DEF Small
<1>2. f \in Seq(Sectors \cup {None}) /\ Len(f) = n
  BY <1>1
<1> DEFINE rest == [i \in 1..(NumDirect - n) |-> None]
<1>3. rest \in Seq(Sectors \cup {None}) /\ Len(rest) = NumDirect - n
  BY <1>1
<1>4. Fill(f) = f \o rest
  BY <1>2 DEF Fill
<1> HIDE DEF rest
<1>5. /\ Fill(f) \in Seq(Sectors \cup {None}) /\ Len(Fill(f)) = n + (NumDirect - n)
      /\ \A i \in 1..(n + (NumDirect - n)) : Fill(f)[i] = IF i <= n THEN f[i] ELSE rest[i - n]
  BY <1>2, <1>3, <1>4, ConcatIs
<1>6. Len(Fill(f)) = NumDirect /\ \A i \in 1..n : Fill(f)[i] = f[i]
  BY <1>1, <1>5
<1>7. \A i \in 1..NumDirect : i > n => Fill(f)[i] = None
  <2> SUFFICES ASSUME NEW i \in 1..NumDirect, i > n PROVE Fill(f)[i] = None
    OBVIOUS
  <2>1. Fill(f)[i] = rest[i - n] /\ i - n \in 1..(NumDirect - n)
    BY <1>1, <1>5
  <2> QED BY <2>1 DEF rest
<1>8. \A s \in Sectors : s # None
  BY <1>1 DEF Sectors, None
<1> QED BY <1>1, <1>5, <1>6, <1>7, <1>8

\* What Allocate leaves, with the sectors that f names.
Allocated(r, d, map, n, f) ==
  /\ New(f, n, Sectors \ map)
  /\ r.hdr = Header(n, Fill(f))
  /\ r.marked = map \cup {f[i] : i \in 1..n}
  /\ r.disk = [s \in Sectors |-> IF s \in {f[i] : i \in 1..n} THEN Zero ELSE d[s]]

\* Allocate, for a file that fits its header: it fails if there are too few free
\* sectors, and else takes as many as the size says.
LEMMA AllocateIs ==
  ASSUME NEW d, NEW map \in SUBSET Sectors, NEW n \in Small, NEW r, r = Allocate(d, map, n)
  PROVE  /\ r.ok \in BOOLEAN /\ r.aborts = FALSE
         /\ r.ok <=> n <= Cardinality(Free(map))
         /\ r.ok => \E f : Allocated(r, d, map, n, f)
<1>1. NumDirect \in Nat /\ n \in Nat /\ n <= NumDirect
  BY DiskAssumption DEF Small
<1>2. Cardinality(Free(map)) \in Nat
  BY SectorsFinite DEF Free
<1> DEFINE new == FirstFree(map, n)
<1>3. CASE Cardinality(Free(map)) < n
  <2>1. r = [ok |-> FALSE, aborts |-> FALSE, hdr |-> Header(n, NoSectors), disk |-> d, marked |-> map]
    BY <1>3 DEF Allocate, AllocateBy
  <2> QED BY <2>1, <1>1, <1>2, <1>3
<1>4. CASE n <= Cardinality(Free(map))
  <2>1. r = [ok |-> TRUE, aborts |-> FALSE, hdr |-> Header(n, Fill(new)),
             disk |-> [s \in Sectors |-> IF s \in Range(new) THEN Zero ELSE d[s]], marked |-> map \cup Range(new)]
    BY <1>1, <1>2, <1>4 DEF Allocate, AllocateBy
  <2>2. New(new, n, Sectors \ map)
    BY <1>1, <1>4, FirstFreeIs
  <2> HIDE DEF new
  <2>3. Range(new) = {new[i] : i \in 1..n} /\ Range(new) \subseteq Sectors
    BY <2>2 DEF Range, New
  <2>6. r.ok = TRUE /\ r.aborts = FALSE /\ r.hdr = Header(n, Fill(new))
    BY <2>1
  <2>7. r.marked = map \cup {new[i] : i \in 1..n}
    BY <2>1, <2>3
  <2>8. r.disk = [s \in Sectors |-> IF s \in {new[i] : i \in 1..n} THEN Zero ELSE d[s]]
    BY <2>1, <2>3
  <2>9. Allocated(r, d, map, n, new)
    BY <2>2, <2>6, <2>7, <2>8 DEF Allocated
  <2> QED BY <2>6, <2>9, <1>4
<1>5. Cardinality(Free(map)) < n \/ n <= Cardinality(Free(map))
  BY <1>1, <1>2
<1> QED BY <1>3, <1>4, <1>5, Zenon

-----------------------------------------------------------------------------
(* A header that stands for a small file.                                  *)

\* The first entries are the sectors of the file, and the others were never set.
HeaderAt(d, s) ==
  /\ d[s].kind = "header" /\ d[s] = Header(d[s].size, d[s].data)
  /\ d[s].size \in Small
  /\ d[s].data \in [1..NumDirect -> Sectors \cup {None}]
  /\ \A i \in 1..NumDirect : d[s].data[i] = None <=> i > d[s].size

DataOf(d, s) == {d[s].data[i] : i \in 1..d[s].size}

\* No sector twice among the data.
Apart(d, s) == \A i, j \in 1..d[s].size : d[s].data[i] = d[s].data[j] => i = j

\* The entries of a header, up to its size, are sectors.
LEMMA HeaderIs ==
  ASSUME NEW d, NEW s \in Sectors, HeaderAt(d, s)
  PROVE  /\ FetchFrom(d, s) = d[s]
         /\ d[s].size \in Nat /\ d[s].size <= NumDirect
         /\ d[s].data \in Seq(Sectors \cup {None}) /\ Len(d[s].data) = NumDirect
         /\ \A i \in 1..d[s].size : i \in 1..NumDirect /\ d[s].data[i] \in Sectors /\ d[s].data[i] # None
<1>1. NumDirect \in Nat
  BY DiskAssumption
<1>2. FetchFrom(d, s) = d[s]
  BY DEF FetchFrom, HeaderAt
<1>3. d[s].size \in Nat /\ d[s].size <= NumDirect
  BY <1>1 DEF Small, HeaderAt
<1>4. d[s].data \in Seq(Sectors \cup {None}) /\ Len(d[s].data) = NumDirect
  BY <1>1 DEF HeaderAt
<1>5. ASSUME NEW i \in 1..d[s].size PROVE i \in 1..NumDirect /\ d[s].data[i] \in Sectors /\ d[s].data[i] # None
  <2>1. i \in 1..NumDirect /\ ~(i > d[s].size)
    BY <1>1, <1>3
  <2>2. d[s].data[i] # None /\ d[s].data[i] \in Sectors \cup {None}
    BY <2>1 DEF HeaderAt
  <2> QED BY <2>1, <2>2
<1> QED BY <1>2, <1>3, <1>4, <1>5

\* ByteToSector, of a file that fits its header, reads an entry.
LEMMA ByteToSectorIs ==
  ASSUME NEW d, NEW s \in Sectors, HeaderAt(d, s), NEW i
  PROVE  ByteToSector(d, FetchFrom(d, s), i) = d[s].data[i + 1]
<1>1. FetchFrom(d, s) = d[s] /\ d[s].size <= NumDirect
  BY HeaderIs
<1> QED BY <1>1 DEF ByteToSector, ByteToSectorBy

\* Entries are those up to the size.
LEMMA EntriesAre ==
  ASSUME NEW d, NEW s \in Sectors, HeaderAt(d, s)
  PROVE  /\ Entries(d[s]) \in Seq(Sectors \cup {None}) /\ Len(Entries(d[s])) = d[s].size
         /\ \A i \in 1..d[s].size : Entries(d[s])[i] = d[s].data[i]
<1> DEFINE n == d[s].size
<1>1. n \in Nat /\ n <= NumDirect /\ NumDirect \in Nat
      /\ d[s].data \in Seq(Sectors \cup {None}) /\ Len(d[s].data) = NumDirect
  BY HeaderIs, DiskAssumption
<1>2. {i \in 1..NumDirect : d[s].data[i] # None} = 1..n
  BY <1>1 DEF HeaderAt
<1>3. Cardinality(1..n) = n
  BY <1>1, FS_Interval
<1>4. Entries(d[s]) = SubSeq(d[s].data, 1, n)
  BY <1>2, <1>3 DEF Entries
<1> QED BY <1>1, <1>4

\* What the header stands for: its data, in order, and no header below it.
LEMMA BlocksAre ==
  ASSUME NEW d, NEW s \in Sectors, HeaderAt(d, s)
  PROVE  /\ Blocks(d, FetchFrom(d, s)) \in Seq(Sectors \cup {None})
         /\ Len(Blocks(d, FetchFrom(d, s))) = d[s].size
         /\ \A i \in 1..d[s].size : Blocks(d, FetchFrom(d, s))[i] = d[s].data[i]
<1>1. FetchFrom(d, s) = d[s] /\ d[s].size \in Nat /\ d[s].size <= NumDirect
  BY HeaderIs
<1> DEFINE e == Entries(d[s])
<1>2. /\ e \in Seq(Sectors \cup {None}) /\ Len(e) = d[s].size
      /\ \A i \in 1..d[s].size : e[i] = d[s].data[i]
  BY EntriesAre
<1>3. Min({d[s].size, d[s].size}) = d[s].size
  <2>1. {d[s].size, d[s].size} \in SUBSET Nat
    BY <1>1
  <2> QED BY <2>1, MinIs
<1>4. Blocks(d, FetchFrom(d, s)) = SubSeq(e, 1, Min({d[s].size, Len(e)}))
  BY <1>1 DEF Blocks, BlocksBy
<1> HIDE DEF e
<1>5. Blocks(d, FetchFrom(d, s)) = SubSeq(e, 1, d[s].size)
  BY <1>2, <1>3, <1>4
<1> QED BY <1>1, <1>2, <1>5

\* There are no further headers below.
LEMMA NoSubHeaders ==
  ASSUME NEW d, NEW s \in Sectors, HeaderAt(d, s)
  PROVE  SubHeaders(d, FetchFrom(d, s)) = {}
<1>1. FetchFrom(d, s) = d[s] /\ d[s].size <= NumDirect
  BY HeaderIs
<1>2. SubEntries(FetchFrom(d, s)) = {}
  BY <1>1 DEF SubEntries
<1>3. Below(d, {}) = {}
  BY DEF Below
<1> QED BY <1>2, <1>3 DEF SubHeaders

\* Deallocate clears what the header names, and no ASSERT fails.
LEMMA DeallocateIs ==
  ASSUME NEW d, NEW map, NEW s \in Sectors, HeaderAt(d, s), Apart(d, s), DataOf(d, s) \subseteq map
  PROVE  Deallocate(d, map, FetchFrom(d, s)) = [marked |-> map \ DataOf(d, s), aborts |-> FALSE]
<1>1. /\ FetchFrom(d, s) = d[s] /\ d[s].size \in Nat /\ d[s].size <= NumDirect /\ NumDirect \in Nat
      /\ d[s].data \in Seq(Sectors \cup {None}) /\ Len(d[s].data) = NumDirect
  BY HeaderIs, DiskAssumption
<1> DEFINE sectors == SubSeq(d[s].data, 1, d[s].size)
<1>2. DOMAIN sectors = 1..d[s].size /\ \A i \in 1..d[s].size : sectors[i] = d[s].data[i]
  BY <1>1
<1>3. Deallocate(d, map, FetchFrom(d, s)) = ClearBlocks(map, sectors)
  BY <1>1 DEF Deallocate, DeallocateBy
<1> HIDE DEF sectors
<1>4. Range(sectors) = DataOf(d, s)
  BY <1>2 DEF Range, DataOf
<1>5. IsInjective(sectors)
  BY <1>2 DEF IsInjective, Apart
<1> QED BY <1>3, <1>4, <1>5 DEF ClearBlocks

-----------------------------------------------------------------------------
(* The tree that a disk represents.                                        *)

Directories(nodes) == {n \in nodes \cup {Root} : n.isDir}
Headers(nodes) == {FreeMapSector, DirectorySector} \cup {n.sector : n \in nodes}
TableOf(d, dir) == FetchTable(EmptyTable, d, dir.sector)

\* The entry i of the table of the directory dir is for the node n.
Holds(table, dir, i, n) ==
  \E x \in Names : n.path = Append(dir.path, x) /\ table[i] = Entry(x, n.sector, n.isDir)

NodesTyped(nodes) ==
  /\ nodes \subseteq [path : Paths, sector : Sectors, isDir : BOOLEAN]
  /\ \A n \in nodes : n.sector \notin {FreeMapSector, DirectorySector}
  /\ \A n, m \in nodes : n.path = m.path \/ n.sector = m.sector => n = m

\* No name twice in a table, and a node for each entry.
TableFits(table, dir, nodes) ==
  /\ table \in Tables
  /\ \A i, j \in Slots : table[i].inUse /\ table[j].inUse /\ table[i].name = table[j].name => i = j
  /\ \A i \in Slots : table[i].inUse => \E n \in nodes : Holds(table, dir, i, n)

TablesFit(d, nodes) ==
  \A dir \in Directories(nodes) : d[dir.sector].size = 1 /\ TableFits(TableOf(d, dir), dir, nodes)

Placed(d, nodes) ==
  \A n \in nodes : \E dir \in Directories(nodes), i \in Slots : Holds(TableOf(d, dir), dir, i, n)

HeadersFit(d, nodes) == \A s \in Headers(nodes) : HeaderAt(d, s)

\* No sector is in two places, and no header's sector holds data.
OwnedApart(d, hs) ==
  \A s, t \in hs : \A i \in 1..d[s].size, j \in 1..d[t].size :
    /\ d[s].data[i] = d[t].data[j] => s = t /\ i = j
    /\ d[s].data[i] \notin hs

Marks(d, map, hs) == map = hs \cup UNION {DataOf(d, s) : s \in hs}

Represents(d, map, nodes) ==
  /\ d \in Disks
  /\ NodesTyped(nodes) /\ HeadersFit(d, nodes) /\ TablesFit(d, nodes) /\ Placed(d, nodes)
  /\ OwnedApart(d, Headers(nodes))
  /\ Marks(d, map, Headers(nodes))

\* A path has at least one name.
LEMMA PathsAre ==
  /\ MaxDepth \in Nat
  /\ \A p : p \in Paths <=> p \in Seq(Names) /\ Len(p) \in 1..MaxDepth
<1>1. MaxDepth \in Nat
  BY FormatAssumption
<1>2. ASSUME NEW p \in Paths PROVE p \in Seq(Names) /\ Len(p) \in 1..MaxDepth
  <2>1. PICK n \in 1..MaxDepth : p \in [1..n -> Names]
    BY DEF Paths
  <2> QED BY <1>1, <2>1
<1>3. ASSUME NEW p \in Seq(Names), Len(p) \in 1..MaxDepth PROVE p \in Paths
  <2>1. p \in [1..Len(p) -> Names]
    BY <1>3
  <2> QED BY <1>3, <2>1 DEF Paths
<1> QED BY <1>1, <1>2, <1>3

\* The root directory.
LEMMA RootIs == Root.path = <<>> /\ Root.sector = DirectorySector /\ Root.isDir = TRUE
BY DEF Root

\* The two headers at fixed places.
LEMMA SectorsAre ==
  /\ FreeMapSector \in Sectors /\ DirectorySector \in Sectors /\ FreeMapSector # DirectorySector
  /\ None \notin Sectors
BY FormatAssumption, DiskAssumption DEF FreeMapSector, DirectorySector, Sectors, None

\* A directory is the root or a node, and is known by its path or its sector.
LEMMA DirectoriesAre ==
  ASSUME NEW nodes, NodesTyped(nodes), NEW dir \in Directories(nodes)
  PROVE  /\ dir.path \in Seq(Names) /\ dir.sector \in Headers(nodes) /\ dir.sector \in Sectors
         /\ dir.isDir = TRUE
         /\ dir.path = <<>> => dir = Root
         /\ dir = Root \/ dir \in nodes
         /\ \A other \in Directories(nodes) :
              dir.path = other.path \/ dir.sector = other.sector => dir = other
<1>1. ASSUME NEW n \in nodes
      PROVE  n.path \in Seq(Names) /\ n.path # <<>> /\ n.sector \in Sectors /\ n.isDir \in BOOLEAN
  BY PathsAre DEF NodesTyped
<1>2. CASE dir = Root
  <2>1. dir.path \in Seq(Names) /\ dir.sector \in Headers(nodes) /\ dir.sector \in Sectors /\ dir.isDir = TRUE
    BY <1>2, RootIs, SectorsAre DEF Headers
  <2>2. ASSUME NEW other \in Directories(nodes), dir.path = other.path \/ dir.sector = other.sector PROVE dir = other
    BY <1>1, <1>2, <2>2, RootIs DEF Directories, NodesTyped
  <2> QED BY <1>2, <2>1, <2>2
<1>3. CASE dir \in nodes
  <2>1. dir.path \in Seq(Names) /\ dir.path # <<>> /\ dir.sector \in Headers(nodes) /\ dir.sector \in Sectors
    BY <1>1, <1>3 DEF Headers
  <2>2. dir.isDir = TRUE
    BY <1>1, <1>3 DEF Directories
  <2>3. ASSUME NEW other \in Directories(nodes), dir.path = other.path \/ dir.sector = other.sector PROVE dir = other
    BY <1>1, <1>3, <2>3, RootIs DEF Directories, NodesTyped
  <2> QED BY <1>3, <2>1, <2>2, <2>3
<1> QED BY <1>2, <1>3 DEF Directories

\* What the entry of a node is.
LEMMA HoldsIs ==
  ASSUME NEW nodes, NodesTyped(nodes), NEW dir \in Directories(nodes), NEW n \in nodes,
         NEW table, NEW i, Holds(table, dir, i, n)
  PROVE  /\ table[i].inUse /\ table[i].name \in Names
         /\ n.path = Append(dir.path, table[i].name) /\ n.sector = table[i].sector /\ n.isDir = table[i].isDir
         /\ Len(n.path) = Len(dir.path) + 1
<1>1. PICK x \in Names : n.path = Append(dir.path, x) /\ table[i] = Entry(x, n.sector, n.isDir)
  BY DEF Holds
<1>2. dir.path \in Seq(Names)
  BY DirectoriesAre
<1>3. Len(Append(dir.path, x)) = Len(dir.path) + 1
  BY <1>2
<1> QED BY <1>1, <1>3 DEF Entry

\* What a table lists are the nodes that are in the directory.
LEMMA ChildrenAre ==
  ASSUME NEW d, NEW map, NEW nodes, Represents(d, map, nodes), NEW dir \in Directories(nodes)
  PROVE  /\ \A n \in nodes, i \in Slots : Holds(TableOf(d, dir), dir, i, n) => n \in Children(d, dir)
         /\ \A m \in Children(d, dir) : m \in nodes /\ Len(m.path) = Len(dir.path) + 1
<1> DEFINE table == TableOf(d, dir)
           Used == {j \in Slots : table[j].inUse}
           Child(i) == [path |-> Append(dir.path, table[i].name), sector |-> table[i].sector,
                        isDir |-> table[i].isDir]
<1>1. Children(d, dir) = {Child(i) : i \in Used}
  BY DEF Children, TableOf
<1>2. NodesTyped(nodes) /\ TableFits(table, dir, nodes)
  BY DEF Represents, TablesFit
<1> HIDE DEF table
<1>3. ASSUME NEW n \in nodes, NEW i \in Slots, Holds(table, dir, i, n)
      PROVE  i \in Used /\ Child(i) = n /\ Len(n.path) = Len(dir.path) + 1
  <2>1. /\ table[i].inUse
        /\ n.path = Append(dir.path, table[i].name) /\ n.sector = table[i].sector /\ n.isDir = table[i].isDir
        /\ Len(n.path) = Len(dir.path) + 1
    BY <1>2, <1>3, HoldsIs
  <2>2. n = [path |-> n.path, sector |-> n.sector, isDir |-> n.isDir]
    BY <1>2 DEF NodesTyped
  <2> QED BY <2>1, <2>2
<1>4. ASSUME NEW i \in Used PROVE \E n \in nodes : Holds(table, dir, i, n)
  BY <1>2 DEF TableFits
<1> HIDE DEF Child
<1>5. ASSUME NEW m \in Children(d, dir) PROVE m \in nodes /\ Len(m.path) = Len(dir.path) + 1
  <2>1. PICK i \in Used : m = Child(i)
    BY <1>1
  <2>2. PICK n \in nodes : Holds(table, dir, i, n)
    BY <1>4
  <2> QED BY <2>1, <2>2, <1>3
<1>6. ASSUME NEW n \in nodes, NEW i \in Slots, Holds(table, dir, i, n) PROVE n \in Children(d, dir)
  BY <1>1, <1>3, <1>6
<1> QED BY <1>5, <1>6 DEF table

\* The tree on a disk is the one that the disk represents.
LEMMA NodesAre ==
  ASSUME NEW d, NEW map, NEW nodes, Represents(d, map, nodes)
  PROVE  NodesOn(d) = nodes
<1> DEFINE Deep == 0..(MaxDepth + 1)
           Deeper(S) == UNION {Children(d, dir) : dir \in {m \in S : m.isDir}}
           Levels(f) == [n \in Deep |-> IF n = 0 THEN {Root} ELSE Deeper(f[n - 1])]
           At(n) == IF n = 0 THEN {Root} ELSE {m \in nodes : Len(m.path) = n}
           level == CHOOSE f : f = Levels(f)
<1>1. NodesOn(d) = UNION {level[n] : n \in 1..(MaxDepth + 1)}
  BY DEF NodesOn
<1>2. MaxDepth \in Nat /\ NodesTyped(nodes) /\ Placed(d, nodes)
      /\ \A m \in nodes : m.path \in Seq(Names) /\ Len(m.path) \in 1..MaxDepth
  BY PathsAre DEF Represents, NodesTyped
<1>3. ASSUME NEW n \in Deep, n # 0 PROVE Deeper(At(n - 1)) = At(n)
  <2>1. n - 1 \in Nat /\ (n - 1) + 1 = n
    BY <1>2, <1>3
  <2>2. ASSUME NEW dir \in At(n - 1), dir.isDir
        PROVE  dir \in Directories(nodes) /\ Len(dir.path) = n - 1
    <3>1. Len(Root.path) = 0
      BY RootIs
    <3> QED BY <2>2, <3>1 DEF Directories
  <2>3. ASSUME NEW m \in Deeper(At(n - 1)) PROVE m \in At(n)
    <3>1. PICK dir \in At(n - 1) : dir.isDir /\ m \in Children(d, dir)
      BY <2>3
    <3>2. dir \in Directories(nodes) /\ Len(dir.path) = n - 1
      BY <2>2, <3>1
    <3>3. m \in nodes /\ Len(m.path) = Len(dir.path) + 1
      BY <3>1, <3>2, ChildrenAre
    <3> QED BY <1>3, <2>1, <3>2, <3>3
  <2>4. ASSUME NEW m \in At(n) PROVE m \in Deeper(At(n - 1))
    <3>1. m \in nodes /\ Len(m.path) = n
      BY <1>3
    <3>2. PICK dir \in Directories(nodes), i \in Slots : Holds(TableOf(d, dir), dir, i, m)
      BY <1>2, <3>1 DEF Placed
    <3>3. m \in Children(d, dir)
      BY <3>1, <3>2, ChildrenAre
    <3>4. Len(dir.path) = n - 1 /\ dir.isDir = TRUE
      <4>1. dir.path \in Seq(Names) /\ dir.isDir = TRUE /\ Len(m.path) = Len(dir.path) + 1
        BY <1>2, <3>1, <3>3, ChildrenAre, DirectoriesAre
      <4> QED BY <2>1, <3>1, <4>1
    <3>5. dir \in At(n - 1)
      <4>1. CASE dir = Root
        BY <4>1, <3>4, RootIs
      <4>2. CASE dir \in nodes
        BY <4>2, <3>4, <1>2
      <4> QED BY <4>1, <4>2 DEF Directories
    <3> QED BY <3>3, <3>4, <3>5
  <2> QED BY <2>3, <2>4
<1> HIDE DEF Deeper, At
<1>4. level = Levels(level)
  <2> DEFINE g == [n \in Deep |-> At(n)]
  <2>1. ASSUME NEW n \in Deep PROVE g[n] = IF n = 0 THEN {Root} ELSE Deeper(g[n - 1])
    <3>1. n = 0 \/ n - 1 \in Deep
      BY <1>2
    <3> QED BY <1>3, <3>1 DEF At
  <2>2. g = Levels(g)
    BY <2>1
  <2> HIDE DEF g, Levels
  <2>3. \E f : f = Levels(f)
    BY <2>2
  <2> QED BY <2>3
<1>5. \A n \in Deep : level[n] = IF n = 0 THEN {Root} ELSE Deeper(level[n - 1])
  BY <1>4
<1> HIDE DEF level
<1> DEFINE Same == {n \in Nat : n \in Deep => level[n] = At(n)}
<1>6. Nat \subseteq Same
  <2>1. 0 \in Same
    BY <1>2, <1>5 DEF At
  <2>2. ASSUME NEW n \in Nat, n \in Same PROVE n + 1 \in Same
    <3>1. SUFFICES ASSUME n + 1 \in Deep PROVE level[n + 1] = At(n + 1)
      OBVIOUS
    <3>2. n \in Deep /\ n + 1 # 0 /\ (n + 1) - 1 = n
      BY <1>2, <3>1
    <3>3. level[n + 1] = Deeper(level[n])
      BY <1>5, <3>1, <3>2
    <3> QED BY <2>2, <3>1, <3>2, <3>3, <1>3
  <2> HIDE DEF Same
  <2> QED BY <2>1, <2>2, Induct
<1>7. ASSUME NEW n \in 1..(MaxDepth + 1) PROVE level[n] = {m \in nodes : Len(m.path) = n}
  <2>1. n \in Nat /\ n \in Deep /\ n # 0
    BY <1>2
  <2>2. level[n] = At(n)
    BY <1>6, <2>1
  <2> QED BY <2>1, <2>2 DEF At
<1>8. \A m \in nodes : Len(m.path) \in 1..(MaxDepth + 1)
  BY <1>2
<1> QED BY <1>1, <1>7, <1>8

-----------------------------------------------------------------------------
(* Paths and tables.                                                       *)

\* A path and its last name.
LEMMA AppendIs ==
  ASSUME NEW S, NEW p \in Seq(S), NEW x \in S, NEW q \in Seq(S), NEW y \in S
  PROVE  /\ Append(p, x) \in Seq(S) /\ Len(Append(p, x)) = Len(p) + 1
         /\ Append(p, x) = Append(q, y) => p = q /\ x = y
<1>1. /\ Append(p, x) \in Seq(S) /\ Len(Append(p, x)) = Len(p) + 1
      /\ Append(p, x)[Len(p) + 1] = x /\ \A i \in 1..Len(p) : Append(p, x)[i] = p[i]
  OBVIOUS
<1>2. /\ Len(Append(q, y)) = Len(q) + 1
      /\ Append(q, y)[Len(q) + 1] = y /\ \A i \in 1..Len(q) : Append(q, y)[i] = q[i]
  OBVIOUS
<1>3. ASSUME Append(p, x) = Append(q, y) PROVE p = q /\ x = y
  <2>1. Len(p) = Len(q)
    BY <1>1, <1>2, <1>3
  <2>2. \A i \in 1..Len(p) : p[i] = q[i]
    BY <1>1, <1>2, <1>3, <2>1
  <2> QED BY <1>1, <1>2, <1>3, <2>1, <2>2
<1> QED BY <1>1, <1>3

\* A path without some of its last names.
LEMMA PrefixIs ==
  ASSUME NEW S, NEW p \in Seq(S), NEW k \in 0..(Len(p) - 1)
  PROVE  /\ SubSeq(p, 1, k) \in Seq(S) /\ Len(SubSeq(p, 1, k)) = k
         /\ p[k + 1] \in S
         /\ SubSeq(p, 1, k + 1) = Append(SubSeq(p, 1, k), p[k + 1])
         /\ SubSeq(p, 1, Len(p)) = p
<1>1. Len(p) \in Nat /\ k \in Nat /\ k + 1 \in 1..Len(p) /\ p[k + 1] \in S
  OBVIOUS
<1>2. SubSeq(p, 1, k) \in Seq(S) /\ Len(SubSeq(p, 1, k)) = k
  BY <1>1
<1>3. SubSeq(p, 1, k + 1) \in Seq(S) /\ Len(SubSeq(p, 1, k + 1)) = k + 1
  BY <1>1
<1>4. \A i \in 1..(k + 1) : SubSeq(p, 1, k + 1)[i] = p[i]
  BY <1>1
<1>5. \A i \in 1..k : SubSeq(p, 1, k)[i] = p[i]
  BY <1>1
<1> DEFINE q == Append(SubSeq(p, 1, k), p[k + 1])
<1>6. q \in Seq(S) /\ Len(q) = k + 1 /\ \A i \in 1..(k + 1) : q[i] = p[i]
  BY <1>1, <1>2, <1>5
<1>7. SubSeq(p, 1, k + 1) = q
  BY <1>1, <1>3, <1>4, <1>6
<1>8. SubSeq(p, 1, Len(p)) = p
  BY <1>1
<1> QED BY <1>1, <1>2, <1>7, <1>8

\* The table of a directory, whatever the loop over the names held before.
LEMMA TableIs ==
  ASSUME NEW d, NEW map, NEW nodes, Represents(d, map, nodes), NEW dir \in Directories(nodes)
  PROVE  /\ d[dir.sector].size = 1 /\ 1 \in 1..d[dir.sector].size
         /\ TableSector(d, dir.sector) = d[dir.sector].data[1]
         /\ d[dir.sector].data[1] \in Sectors
         /\ FetchFrom(d, dir.sector) = d[dir.sector]
         /\ \A table : FetchTable(table, d, dir.sector) = TableOf(d, dir)
         /\ TableOf(d, dir) = IF d[d[dir.sector].data[1]].kind = "table"
                              THEN d[d[dir.sector].data[1]].entries ELSE EmptyTable
<1>1. dir.sector \in Headers(nodes) /\ dir.sector \in Sectors
  BY DirectoriesAre DEF Represents
<1>2. HeaderAt(d, dir.sector) /\ d[dir.sector].size = 1
  BY <1>1 DEF Represents, HeadersFit, TablesFit
<1>3. FetchFrom(d, dir.sector) = d[dir.sector] /\ d[dir.sector].data[1] \in Sectors
  BY <1>1, <1>2, HeaderIs
<1>4. TableSector(d, dir.sector) = d[dir.sector].data[1]
  <2>1. ByteToSector(d, FetchFrom(d, dir.sector), 0) = d[dir.sector].data[0 + 1]
    BY <1>1, <1>2, ByteToSectorIs
  <2> QED BY <2>1 DEF TableSector
<1> QED BY <1>2, <1>3, <1>4 DEF TableOf, FetchTable

\* No node of that name in the directory; and the node n at the entry i.
Absent(table, dir, x, nodes) ==
  /\ Having(table, x) = {} /\ Find(table, x) = None
  /\ \A n \in nodes : n.path # Append(dir.path, x)
Present(table, dir, x, n, i) ==
  /\ n.path = Append(dir.path, x) /\ Holds(table, dir, i, n)
  /\ Having(table, x) = {i} /\ Min({i}) = i
  /\ Find(table, x) = n.sector /\ n.sector # None
  /\ IsDir(table, x) = n.isDir

\* A name is in no entry of a table, or in one only.
LEMMA FindIs ==
  ASSUME NEW d, NEW map, NEW nodes, Represents(d, map, nodes), NEW dir \in Directories(nodes),
         NEW x \in Names
  PROVE  \/ Absent(TableOf(d, dir), dir, x, nodes)
         \/ \E n \in nodes, i \in Slots : Present(TableOf(d, dir), dir, x, n, i)
<1> DEFINE table == TableOf(d, dir)
<1>1. NodesTyped(nodes) /\ TableFits(table, dir, nodes) /\ Placed(d, nodes)
  BY DEF Represents, TablesFit
<1>2. dir.path \in Seq(Names)
  BY <1>1, DirectoriesAre
<1> HIDE DEF table
<1>3. CASE Having(table, x) = {}
  <2>1. ASSUME NEW n \in nodes, n.path = Append(dir.path, x) PROVE FALSE
    <3>1. PICK other \in Directories(nodes), j \in Slots : Holds(TableOf(d, other), other, j, n)
      BY <1>1 DEF Placed
    <3>2. /\ TableOf(d, other)[j].inUse /\ TableOf(d, other)[j].name \in Names
          /\ n.path = Append(other.path, TableOf(d, other)[j].name)
      BY <1>1, <3>1, HoldsIs
    <3>3. other.path \in Seq(Names)
      BY <1>1, DirectoriesAre
    <3>4. other.path = dir.path /\ TableOf(d, other)[j].name = x
      <4>1. PICK y \in Names, q \in Seq(Names) : y = TableOf(d, other)[j].name /\ q = other.path
        BY <3>2, <3>3
      <4>2. PICK p \in Seq(Names) : p = dir.path
        BY <1>2
      <4>3. Append(q, y) = Append(p, x)
        BY <2>1, <3>2, <4>1, <4>2
      <4>4. p = q /\ x = y
        BY <4>3, AppendIs
      <4> QED BY <4>1, <4>2, <4>4
    <3>5. other = dir
      BY <1>1, <3>4, DirectoriesAre
    <3> QED BY <1>3, <3>2, <3>4, <3>5 DEF Having, table
  <2> QED BY <1>3, <2>1 DEF Find, table, Absent
<1>4. CASE Having(table, x) # {}
  <2>1. PICK i \in Slots : table[i].inUse /\ table[i].name = x
    BY <1>4 DEF Having
  <2>2. PICK n \in nodes : Holds(table, dir, i, n)
    BY <1>1, <2>1 DEF TableFits
  <2>3. n.path = Append(dir.path, x) /\ n.sector = table[i].sector /\ n.isDir = table[i].isDir
    BY <1>1, <2>1, <2>2, HoldsIs
  <2>4. Having(table, x) = {i}
    BY <1>1, <2>1 DEF Having, TableFits
  <2>5. i \in Nat /\ {i} \in SUBSET Nat
    BY FormatAssumption DEF Slots
  <2>6. Min({i}) = i
    BY <2>5, MinIs
  <2>7. n.sector \in Sectors /\ n.sector # None /\ n.isDir \in BOOLEAN
    BY <1>1, SectorsAre DEF NodesTyped
  <2>8. Find(table, x) = n.sector
    BY <2>3, <2>4, <2>6 DEF Find
  <2>9. IsDir(table, x) = n.isDir
    BY <2>3, <2>4, <2>6, <2>7 DEF IsDir
  <2> QED BY <2>2, <2>3, <2>4, <2>6, <2>7, <2>8, <2>9 DEF table, Present
<1> QED BY <1>3, <1>4

-----------------------------------------------------------------------------
(* The loops over the names of a path.                                     *)

\* The two kinds of loop (dirsOnly).
Modes == BOOLEAN
DirsOnly == TRUE

\* WalkFrom, turn by turn.
LEMMA WalkFromIs ==
  ASSUME NEW w, NEW path \in Seq(Names), NEW dirsOnly \in Modes
  PROVE  \E after :
           /\ after[0] = w
           /\ \A k \in 0..(Len(path) - 1) : after[k + 1] = Follow(after[k], path, dirsOnly)
           /\ WalkFrom(w, path, dirsOnly) = after[Len(path)]
<1> DEFINE Turns(f, m) == [k \in 0..m |-> IF k = 0 THEN w ELSE Follow(f[k - 1], path, dirsOnly)]
           Runs == {m \in Nat : \E f : f = Turns(f, m)}
<1>1. Len(path) \in Nat
  OBVIOUS
<1>2. 0 \in Runs
  <2>1. [k \in {0} |-> w] = Turns([k \in {0} |-> w], 0)
    OBVIOUS
  <2> QED BY <2>1
<1>3. ASSUME NEW m \in Nat, m \in Runs PROVE m + 1 \in Runs
  <2>1. PICK f : f = Turns(f, m)
    BY <1>3
  <2>2. \A k \in 0..m : f[k] = IF k = 0 THEN w ELSE Follow(f[k - 1], path, dirsOnly)
    BY <2>1
  <2> DEFINE g == [k \in 0..(m + 1) |-> IF k = m + 1 THEN Follow(f[m], path, dirsOnly) ELSE f[k]]
  <2>3. ASSUME NEW k \in 0..(m + 1)
        PROVE  g[k] = IF k = 0 THEN w ELSE Follow(g[k - 1], path, dirsOnly)
    <3>1. CASE k = m + 1
      <4>1. k # 0 /\ k - 1 = m /\ m \in 0..(m + 1) /\ m # m + 1
        BY <3>1
      <4> QED BY <3>1, <4>1
    <3>2. CASE k = 0
      <4>1. 0 \in 0..m /\ 0 \in 0..(m + 1) /\ 0 # m + 1
        OBVIOUS
      <4> QED BY <2>2, <3>2, <4>1
    <3>3. CASE k \in 0..m /\ k # 0
      <4>1. k # m + 1 /\ k - 1 \in 0..(m + 1) /\ k - 1 # m + 1
        BY <3>3
      <4> QED BY <2>2, <3>3, <4>1
    <3> QED BY <3>1, <3>2, <3>3
  <2>4. g = Turns(g, m + 1)
    BY <2>3
  <2> HIDE DEF g, Turns
  <2> QED BY <2>4
<1>4. Len(path) \in Runs
  <2> HIDE DEF Runs
  <2> QED BY <1>1, <1>2, <1>3, Induct
<1> DEFINE after == CHOOSE f : f = Turns(f, Len(path))
<1>5. WalkFrom(w, path, dirsOnly) = after[Len(path)]
  BY DEF WalkFrom
<1>6. after = Turns(after, Len(path))
  <2> HIDE DEF Turns
  <2> QED BY <1>4
<1> HIDE DEF after
<1>7. \A k \in 0..Len(path) : after[k] = IF k = 0 THEN w ELSE Follow(after[k - 1], path, dirsOnly)
  BY <1>6
<1>8. after[0] = w
  BY <1>1, <1>7
<1>9. ASSUME NEW k \in 0..(Len(path) - 1) PROVE after[k + 1] = Follow(after[k], path, dirsOnly)
  <2>1. k + 1 \in 0..Len(path) /\ k + 1 # 0 /\ (k + 1) - 1 = k
    BY <1>1
  <2> QED BY <1>7, <2>1
<1> QED BY <1>5, <1>8, <1>9

\* What the loop holds when it has come to a directory.
In(dir, last) ==
  [table |-> TableOf(disk, dir), depth |-> Len(dir.path), file |-> dir.sector, last |-> last]

\* Where it is after the turn for the name of the node n in the directory dir.
Comes(w, dir, last, n, dirsOnly) ==
  /\ ~n.isDir /\ dirsOnly => w = In(dir, last)
  /\ ~n.isDir /\ ~dirsOnly =>
       w.depth = Len(dir.path) + 1 /\ w.file = n.sector /\ w.last = dir.sector
  /\ n.isDir => w = In(n, dir.sector)

\* A turn for a name in a directory: the loop stops, or comes to the node of that name.
LEMMA FollowIs ==
  ASSUME NEW map, NEW nodes, Represents(disk, map, nodes), NEW dir \in Directories(nodes), NEW last,
         NEW path \in Seq(Names), Len(dir.path) < Len(path), NEW dirsOnly \in Modes,
         NEW x \in Names, x = path[Len(dir.path) + 1]
  PROVE  \/ /\ Absent(TableOf(disk, dir), dir, x, nodes)
            /\ Follow(In(dir, last), path, dirsOnly) = In(dir, last)
         \/ \E n \in nodes, i \in Slots :
              /\ Present(TableOf(disk, dir), dir, x, n, i)
              /\ Comes(Follow(In(dir, last), path, dirsOnly), dir, last, n, dirsOnly)
<1> DEFINE w == In(dir, last)
           table == TableOf(disk, dir)
<1>1. NodesTyped(nodes) /\ dir.path \in Seq(Names)
  BY DirectoriesAre DEF Represents
<1>2. Len(dir.path) \in Nat /\ Len(path) \in Nat /\ x \in Names
  BY <1>1
<1>3. w.table = table /\ w.depth = Len(dir.path) /\ w.depth # Len(path) /\ w.file = dir.sector
  BY <1>2 DEF In
<1>4. Follow(w, path, dirsOnly) =
        IF Find(table, x) = None \/ (dirsOnly /\ ~IsDir(table, x)) THEN w ELSE Enter(w, Find(table, x))
  BY <1>3 DEF Follow
<1> HIDE DEF w, table
<1>5. Absent(table, dir, x, nodes) => Follow(w, path, dirsOnly) = w
  BY <1>4 DEF Absent
<1>6. ASSUME NEW n \in nodes, NEW i \in Slots, Present(table, dir, x, n, i)
      PROVE  Comes(Follow(w, path, dirsOnly), dir, last, n, dirsOnly)
  <2>0. n.path = Append(dir.path, x) /\ Find(table, x) = n.sector /\ n.sector # None
        /\ IsDir(table, x) = n.isDir
    BY <1>6 DEF Present
  <2>1. n.isDir \in BOOLEAN /\ dirsOnly \in BOOLEAN
    BY <1>1 DEF NodesTyped, Modes
  <2>2. ~(dirsOnly /\ ~n.isDir) => Follow(w, path, dirsOnly) = Enter(w, n.sector)
    BY <1>4, <2>0, <2>1
  <2>3. dirsOnly /\ ~n.isDir => Follow(w, path, dirsOnly) = w
    BY <1>4, <2>0, <2>1
  <2>4. Enter(w, n.sector).depth = Len(dir.path) + 1 /\ Enter(w, n.sector).file = n.sector
        /\ Enter(w, n.sector).last = dir.sector
    BY <1>3 DEF Enter
  <2>5. ASSUME n.isDir PROVE Enter(w, n.sector) = In(n, dir.sector)
    <3>1. n \in Directories(nodes)
      BY <2>5 DEF Directories
    <3>2. FetchTable(w.table, disk, n.sector) = TableOf(disk, n)
      BY <3>1, TableIs
    <3>3. Len(n.path) = Len(dir.path) + 1
      BY <1>1, <1>2, <2>0, AppendIs
    <3> QED BY <1>3, <3>2, <3>3 DEF Enter, In
  <2> QED BY <2>1, <2>2, <2>3, <2>4, <2>5 DEF Comes, w
<1>7. \/ Absent(table, dir, x, nodes)
      \/ \E n \in nodes, i \in Slots : Present(table, dir, x, n, i)
  BY FindIs DEF table
<1> QED BY <1>5, <1>6, <1>7 DEF table, w

\* Where the loops start.
LEMMA AtRootIs ==
  ASSUME NEW map, NEW nodes, Represents(disk, map, nodes)
  PROVE  Root \in Directories(nodes) /\ AtRoot = In(Root, DirectorySector)
<1>1. Root \in Directories(nodes) /\ Root.sector = DirectorySector /\ Len(Root.path) = 0
  BY RootIs DEF Directories
<1>2. FetchTable(EmptyTable, disk, DirectorySector) = TableOf(disk, Root)
  BY <1>1 DEF TableOf
<1> QED BY <1>1, <1>2 DEF AtRoot, In

\* f holds what the loop holds after each of its turns.
Runs(f, path, dirsOnly) ==
  /\ f[0] = AtRoot
  /\ \A k \in 0..(Len(path) - 1) : f[k + 1] = Follow(f[k], path, dirsOnly)

IsFront(front, path) == Len(front) <= Len(path) /\ \A k \in 1..Len(front) : front[k] = path[k]

\* The loops start in the root directory.
LEMMA RunsIs ==
  ASSUME NEW path \in Seq(Names), NEW dirsOnly \in Modes
  PROVE  \E f : Runs(f, path, dirsOnly) /\ WalkFrom(AtRoot, path, dirsOnly) = f[Len(path)]
<1> DEFINE w == AtRoot
<1> HIDE DEF w
<1>1. \E after :
           /\ after[0] = w
           /\ \A k \in 0..(Len(path) - 1) : after[k + 1] = Follow(after[k], path, dirsOnly)
           /\ WalkFrom(w, path, dirsOnly) = after[Len(path)]
  BY WalkFromIs
<1> QED BY <1>1 DEF w, Runs

\* As long as the loop of WalkDirs goes on, it holds the directory of the names it
\* has seen, and so does any other loop over these names.
LEMMA SameWalk ==
  ASSUME NEW map, NEW nodes, Represents(disk, map, nodes), NEW path \in Seq(Names), NEW dirsOnly \in Modes,
         NEW front \in Seq(Names), IsFront(front, path), 
         NEW f, Runs(f, path, dirsOnly), NEW g, Runs(g, front, DirsOnly), g[Len(front)].depth = Len(front)
  PROVE  \E dir \in Directories(nodes), last \in Sectors :
           /\ dir.path = front
           /\ f[Len(front)] = In(dir, last) /\ g[Len(front)] = In(dir, last)
<1> DEFINE Along(k) == \E dir \in Directories(nodes), last \in Sectors :
                         /\ dir.path = SubSeq(front, 1, k)
                         /\ f[k] = In(dir, last) /\ g[k] = In(dir, last)
           Behind(k) == g[k].depth \in Nat /\ g[k].depth < k
           Ok == {k \in Nat : k <= Len(front) => Along(k) \/ Behind(k)}
<1>1. Len(front) \in Nat /\ Len(path) \in Nat /\ Len(front) <= Len(path) /\ NodesTyped(nodes)
      /\ DirsOnly \in Modes
  BY DEF Represents, IsFront, Modes, DirsOnly
<1>2. 0 \in Ok
  <2>1. Root \in Directories(nodes) /\ AtRoot = In(Root, DirectorySector)
    BY AtRootIs
  <2>2. SubSeq(front, 1, 0) = <<>>
    OBVIOUS
  <2> QED BY <2>1, <2>2, RootIs, SectorsAre DEF Runs
<1>3. ASSUME NEW k \in Nat, k \in Ok PROVE k + 1 \in Ok
  <2> SUFFICES ASSUME k + 1 <= Len(front) PROVE Along(k + 1) \/ Behind(k + 1)
    OBVIOUS
  <2>1. k \in 0..(Len(front) - 1) /\ k \in 0..(Len(path) - 1) /\ k <= Len(front)
    BY <1>1
  <2>2. f[k + 1] = Follow(f[k], path, dirsOnly) /\ g[k + 1] = Follow(g[k], front, DirsOnly)
    BY <2>1 DEF Runs
  <2>3. CASE Behind(k)
    <3>1. g[k + 1].depth = g[k].depth \/ g[k + 1].depth = g[k].depth + 1
      BY <2>2 DEF Follow, Enter
    <3> QED BY <2>3, <3>1
  <2>4. CASE Along(k)
    <3>1. PICK dir \in Directories(nodes), last \in Sectors :
                 /\ dir.path = SubSeq(front, 1, k)
                 /\ f[k] = In(dir, last) /\ g[k] = In(dir, last)
      BY <2>4
    <3>2. PICK x \in Names : x = front[k + 1]
      BY <2>1, PrefixIs
    <3>3. /\ dir.path \in Seq(Names) /\ Len(dir.path) = k
          /\ SubSeq(front, 1, k + 1) = Append(dir.path, x)
      BY <2>1, <3>1, <3>2, PrefixIs
    <3>4. x = front[Len(dir.path) + 1] /\ Len(dir.path) < Len(front)
      BY <1>1, <2>1, <3>2, <3>3
    <3>9. x = path[Len(dir.path) + 1] /\ Len(dir.path) < Len(path)
      BY <1>1, <2>1, <3>2, <3>3 DEF IsFront
    <3>5. \/ /\ Absent(TableOf(disk, dir), dir, x, nodes)
             /\ Follow(In(dir, last), front, DirsOnly) = In(dir, last)
          \/ \E n \in nodes, i \in Slots :
               /\ Present(TableOf(disk, dir), dir, x, n, i)
               /\ Comes(Follow(In(dir, last), front, DirsOnly), dir, last, n, DirsOnly)
      BY <1>1, <3>4, FollowIs
    <3>6. \/ /\ Absent(TableOf(disk, dir), dir, x, nodes)
             /\ Follow(In(dir, last), path, dirsOnly) = In(dir, last)
          \/ \E n \in nodes, i \in Slots :
               /\ Present(TableOf(disk, dir), dir, x, n, i)
               /\ Comes(Follow(In(dir, last), path, dirsOnly), dir, last, n, dirsOnly)
      BY <3>9, FollowIs
    <3>7. ASSUME g[k + 1] = In(dir, last) PROVE Behind(k + 1)
      BY <3>3, <3>7 DEF In
    <3>8. ASSUME NEW n \in nodes, NEW i \in Slots, Present(TableOf(disk, dir), dir, x, n, i),
                 Comes(g[k + 1], dir, last, n, DirsOnly)
          PROVE  Along(k + 1) \/ Behind(k + 1)
      <4>1. CASE ~n.isDir
        BY <3>7, <3>8, <4>1 DEF Comes, DirsOnly
      <4>2. CASE n.isDir
        <5>1. g[k + 1] = In(n, dir.sector) /\ n \in Directories(nodes) /\ n.path = SubSeq(front, 1, k + 1)
          BY <3>3, <3>8, <4>2 DEF Comes, Directories, Present
        <5>2. ~Absent(TableOf(disk, dir), dir, x, nodes)
          BY <3>3, <5>1 DEF Absent
        <5>3. PICK m \in nodes, j \in Slots :
                     /\ Present(TableOf(disk, dir), dir, x, m, j)
                     /\ Comes(f[k + 1], dir, last, m, dirsOnly)
          BY <2>2, <3>1, <3>6, <5>2
        <5>4. m = n
          BY <1>1, <3>8, <5>3 DEF Present, NodesTyped
        <5>5. f[k + 1] = In(n, dir.sector)
          BY <4>2, <5>3, <5>4 DEF Comes
        <5>6. dir.sector \in Sectors
          BY <1>1, <3>1, DirectoriesAre
        <5> QED BY <5>1, <5>5, <5>6
      <4> QED BY <4>1, <4>2
    <3> QED BY <2>2, <3>1, <3>5, <3>7, <3>8
  <2> QED BY <1>3, <2>1, <2>3, <2>4
<1>4. Len(front) \in Ok
  <2> HIDE DEF Ok
  <2> QED BY <1>1, <1>2, <1>3, Induct
<1>5. ~Behind(Len(front))
  BY <1>1
<1>6. Along(Len(front))
  BY <1>1, <1>4, <1>5
<1>7. SubSeq(front, 1, Len(front)) = front
  OBVIOUS
<1> QED BY <1>6, <1>7

\* A path that the loop of WalkDirs follows to its end is that of a directory.
LEMMA NamesDirectoryIs ==
  ASSUME NEW map, NEW nodes, Represents(disk, map, nodes), NEW path \in Seq(Names), NamesDirectory(path)
  PROVE  \E dir \in Directories(nodes), last \in Sectors : dir.path = path /\ WalkDirs(path) = In(dir, last)
<1>0. DirsOnly \in Modes
  BY DEF Modes, DirsOnly
<1>1. PICK g : Runs(g, path, DirsOnly) /\ WalkFrom(AtRoot, path, DirsOnly) = g[Len(path)]
  BY <1>0, RunsIs
<1>2. g[Len(path)].depth = Len(path)
  BY <1>0, <1>1 DEF NamesDirectory, WalkDirs, DirsOnly
<1>3. IsFront(path, path)
  BY DEF IsFront
<1>4. \E dir \in Directories(nodes), last \in Sectors :
           /\ dir.path = path
           /\ g[Len(path)] = In(dir, last) /\ g[Len(path)] = In(dir, last)
  BY <1>0, <1>1, <1>2, <1>3, SameWalk
<1> QED BY <1>1, <1>4 DEF WalkDirs, DirsOnly

\* A loop over the names of a path below a directory comes to that directory before
\* its last turn.
LEMMA WalkIs ==
  ASSUME NEW map, NEW nodes, Represents(disk, map, nodes), NEW path \in Paths, HasParent(path),
         NEW dirsOnly \in Modes
  PROVE  \E dir \in Directories(nodes), x \in Names, last \in Sectors :
           /\ path = Append(dir.path, x) /\ x = path[Len(path)] /\ Len(dir.path) = Len(path) - 1
           /\ WalkFrom(AtRoot, path, dirsOnly) = Follow(In(dir, last), path, dirsOnly)
<1> DEFINE k == Len(path) - 1
<1>1. path \in Seq(Names) /\ Len(path) \in Nat /\ k \in 0..(Len(path) - 1) /\ k + 1 = Len(path)
  BY PathsAre
<1>2. PICK f : Runs(f, path, dirsOnly) /\ WalkFrom(AtRoot, path, dirsOnly) = f[Len(path)]
  BY <1>1, RunsIs
<1>3. f[Len(path)] = Follow(f[k], path, dirsOnly)
  BY <1>1, <1>2 DEF Runs
<1>4. PICK x \in Names : x = path[k + 1]
  BY <1>1, PrefixIs
<1>5. path = Append(SubSeq(path, 1, k), x) /\ Len(SubSeq(path, 1, k)) = k
  BY <1>1, <1>4, PrefixIs
<1>6. \E dir \in Directories(nodes), last \in Sectors : dir.path = SubSeq(path, 1, k) /\ f[k] = In(dir, last)
  <2>1. CASE Len(path) = 1
    <3>1. Root \in Directories(nodes) /\ AtRoot = In(Root, DirectorySector)
      BY AtRootIs
    <3>2. SubSeq(path, 1, k) = <<>> /\ k = 0
      BY <1>1, <2>1
    <3> QED BY <1>2, <3>1, <3>2, RootIs, SectorsAre DEF Runs
  <2>2. CASE NamesDirectory(Front(path))
    <3>1. Front(path) = SubSeq(path, 1, k)
      BY DEF Front
    <3>2. PICK front \in Seq(Names) : front = SubSeq(path, 1, k)
      BY <1>1, PrefixIs
    <3>3. Len(front) = k /\ IsFront(front, path)
      BY <1>1, <3>2 DEF IsFront
    <3>0. DirsOnly \in Modes
      BY DEF Modes, DirsOnly
    <3>4. PICK g : Runs(g, front, DirsOnly) /\ WalkFrom(AtRoot, front, DirsOnly) = g[Len(front)]
      BY <3>0, RunsIs
    <3>5. g[Len(front)].depth = Len(front)
      BY <2>2, <3>0, <3>1, <3>2, <3>4 DEF NamesDirectory, WalkDirs, DirsOnly
    <3>6. \E dir \in Directories(nodes), last \in Sectors :
             /\ dir.path = front
             /\ f[Len(front)] = In(dir, last) /\ g[Len(front)] = In(dir, last)
      BY <1>1, <1>2, <3>0, <3>3, <3>4, <3>5, SameWalk
    <3> QED BY <3>2, <3>3, <3>6
  <2> QED BY <2>1, <2>2 DEF HasParent
<1>7. PICK dir \in Directories(nodes), last \in Sectors : dir.path = SubSeq(path, 1, k) /\ f[k] = In(dir, last)
  BY <1>6
<1> QED BY <1>1, <1>2, <1>3, <1>4, <1>5, <1>7

\* How a loop over the names of such a path ends.
LEMMA WalkEnds ==
  ASSUME NEW map, NEW nodes, Represents(disk, map, nodes), NEW path \in Paths, HasParent(path),
         NEW dirsOnly \in Modes
  PROVE  \E dir \in Directories(nodes), x \in Names, last \in Sectors :
           /\ path = Append(dir.path, x) /\ x = path[Len(path)] /\ Len(dir.path) = Len(path) - 1
           /\ \/ /\ Absent(TableOf(disk, dir), dir, x, nodes)
                 /\ WalkFrom(AtRoot, path, dirsOnly) = In(dir, last)
              \/ \E n \in nodes, i \in Slots :
                   /\ Present(TableOf(disk, dir), dir, x, n, i)
                   /\ Comes(WalkFrom(AtRoot, path, dirsOnly), dir, last, n, dirsOnly)
<1>1. PICK dir \in Directories(nodes), x \in Names, last \in Sectors :
             /\ path = Append(dir.path, x) /\ x = path[Len(path)] /\ Len(dir.path) = Len(path) - 1
             /\ WalkFrom(AtRoot, path, dirsOnly) = Follow(In(dir, last), path, dirsOnly)
  BY WalkIs
<1>2. path \in Seq(Names) /\ Len(dir.path) < Len(path) /\ x = path[Len(dir.path) + 1]
  <2>1. path \in Seq(Names) /\ Len(path) \in Nat
    BY PathsAre
  <2>2. Len(dir.path) + 1 = Len(path) /\ Len(dir.path) < Len(path)
    BY <1>1, <2>1
  <2> QED BY <1>1, <2>1, <2>2
<1>3. \/ /\ Absent(TableOf(disk, dir), dir, x, nodes)
         /\ Follow(In(dir, last), path, dirsOnly) = In(dir, last)
      \/ \E n \in nodes, i \in Slots :
           /\ Present(TableOf(disk, dir), dir, x, n, i)
           /\ Comes(Follow(In(dir, last), path, dirsOnly), dir, last, n, dirsOnly)
  BY <1>2, FollowIs
<1> QED BY <1>1, <1>3

-----------------------------------------------------------------------------
(* What the calls change on the disk.                                      *)

\* Writing a sector leaves a disk.
LEMMA CellsAre ==
  ASSUME NEW d \in Disks, NEW s \in Sectors, NEW c,
         \/ \E v \in Values \cup {0} : c = Data(v)
         \/ \E table \in Tables : c = Table(table)
         \/ \E n \in Small, f \in [1..NumDirect -> Sectors \cup {None}] : c = Header(n, f)
  PROVE  [d EXCEPT ![s] = c] \in Disks
<1> DEFINE Cells == [kind : {"data"}, value : Values \cup {0}]
                    \cup [kind : {"header"}, size : Nat, data : [1..NumDirect -> Int]]
                    \cup [kind : {"table"}, entries : Tables]
<1>1. Disks = [Sectors -> Cells]
  BY DEF Disks
<1>2. ASSUME NEW v \in Values \cup {0}, c = Data(v) PROVE c \in Cells
  BY <1>2 DEF Data
<1>3. ASSUME NEW table \in Tables, c = Table(table) PROVE c \in Cells
  BY <1>3 DEF Table
<1>4. ASSUME NEW n \in Small, NEW f \in [1..NumDirect -> Sectors \cup {None}], c = Header(n, f) PROVE c \in Cells
  <2>1. n \in Nat /\ f \in [1..NumDirect -> Int]
    BY DiskAssumption DEF Small, Sectors, None
  <2> QED BY <1>4, <2>1 DEF Header
<1>5. c \in Cells
  BY <1>2, <1>3, <1>4
<1> HIDE DEF Cells
<1> QED BY <1>1, <1>5

\* A directory's table is in the first sector of its file.
LEMMA TableAt ==
  ASSUME NEW d, NEW s \in Sectors, HeaderAt(d, s), d[s].size = 1
  PROVE  /\ TableSector(d, s) = d[s].data[1] /\ d[s].data[1] \in Sectors
         /\ FetchFrom(d, s) = d[s]
         /\ \A table : FetchTable(table, d, s) =
              IF d[d[s].data[1]].kind = "table" THEN d[d[s].data[1]].entries ELSE EmptyTable
         /\ \A table : WriteTable(d, table, s) = [d EXCEPT ![d[s].data[1]] = Table(table)]
<1>1. FetchFrom(d, s) = d[s] /\ d[s].data[1] \in Sectors
  BY HeaderIs
<1>2. TableSector(d, s) = d[s].data[1]
  <2>1. ByteToSector(d, FetchFrom(d, s), 0) = d[s].data[0 + 1]
    BY ByteToSectorIs
  <2> QED BY <2>1 DEF TableSector
<1> QED BY <1>1, <1>2 DEF FetchTable, WriteTable

\* Whose a sector is.
LEMMA Owners ==
  ASSUME NEW d, NEW map, NEW nodes, Represents(d, map, nodes), NEW s \in Headers(nodes)
  PROVE  /\ s \in map /\ s \in Sectors /\ HeaderAt(d, s) /\ map \subseteq Sectors
         /\ \A i \in 1..d[s].size :
              /\ d[s].data[i] \in Sectors /\ d[s].data[i] \in map /\ d[s].data[i] \notin Headers(nodes)
              /\ \A t \in Headers(nodes) : \A j \in 1..d[t].size :
                   d[s].data[i] = d[t].data[j] => s = t /\ i = j
<1>1. \A t \in Headers(nodes) : t \in Sectors /\ HeaderAt(d, t)
  BY SectorsAre DEF Represents, NodesTyped, Headers, HeadersFit
<1>2. \A t \in Headers(nodes) : \A i \in 1..d[t].size : d[t].data[i] \in Sectors
  BY <1>1, HeaderIs
<1>3. map = Headers(nodes) \cup UNION {DataOf(d, t) : t \in Headers(nodes)}
  BY DEF Represents, Marks
<1>4. map \subseteq Sectors
  BY <1>1, <1>2, <1>3 DEF DataOf
<1>5. \A i \in 1..d[s].size : d[s].data[i] \in map
  BY <1>3 DEF DataOf
<1> QED BY <1>1, <1>2, <1>3, <1>4, <1>5 DEF Represents, OwnedApart

\* What stays when the headers stay.
LEMMA HeaderKept ==
  ASSUME NEW d, NEW d2, NEW s, d2[s] = d[s]
  PROVE  /\ HeaderAt(d, s) => HeaderAt(d2, s)
         /\ DataOf(d2, s) = DataOf(d, s)
BY DEF HeaderAt, DataOf

\* The table of a directory whose header stays.
LEMMA TableKept ==
  ASSUME NEW d, NEW map, NEW nodes, Represents(d, map, nodes), NEW dir \in Directories(nodes),
         NEW d2, d2[dir.sector] = d[dir.sector]
  PROVE  /\ d2[d[dir.sector].data[1]] = d[d[dir.sector].data[1]] => TableOf(d2, dir) = TableOf(d, dir)
         /\ \A table : d2[d[dir.sector].data[1]] = Table(table) => TableOf(d2, dir) = table
<1>1. dir.sector \in Headers(nodes) /\ dir.sector \in Sectors
  BY DirectoriesAre DEF Represents
<1>2. HeaderAt(d, dir.sector) /\ d[dir.sector].size = 1
  BY <1>1 DEF Represents, HeadersFit, TablesFit
<1>3. HeaderAt(d2, dir.sector) /\ d2[dir.sector].size = 1
  BY <1>2, HeaderKept
<1>4. TableOf(d, dir) = IF d[d[dir.sector].data[1]].kind = "table" THEN d[d[dir.sector].data[1]].entries ELSE EmptyTable
  BY <1>1, <1>2, TableAt DEF TableOf
<1>5. TableOf(d2, dir) = IF d2[d[dir.sector].data[1]].kind = "table" THEN d2[d[dir.sector].data[1]].entries ELSE EmptyTable
  BY <1>1, <1>3, TableAt DEF TableOf
<1> QED BY <1>4, <1>5 DEF Table

\* The sectors that a function on 1..n names.
Taken(f) == {f[k] : k \in DOMAIN f}

\* The new node in an unused entry of a directory's table, with its sectors out of
\* those that were free.
AddsNode(d, d2, map, dir, i, new, x, f) ==
  /\ new.sector \in Sectors \ map
  /\ \E n \in Small : /\ New(f, n, Sectors \ (map \cup {new.sector}))
                      /\ d2[new.sector] = Header(n, Fill(f))
                      /\ new.isDir => n = 1
  /\ \A k \in DOMAIN f : d2[f[k]] = Zero
  /\ ~TableOf(d, dir)[i].inUse
  /\ d2[d[dir.sector].data[1]] = Table([TableOf(d, dir) EXCEPT ![i] = Entry(x, new.sector, new.isDir)])
  /\ \A t \in Sectors : \/ t = d[dir.sector].data[1] \/ t = new.sector \/ t \in {f[k] : k \in DOMAIN f}
                        \/ d2[t] = d[t]

\* A new node, with an entry and sectors of its own, keeps the disk in order.
LEMMA AddNode ==
  ASSUME NEW d, NEW map, NEW nodes, Represents(d, map, nodes), NEW dir \in Directories(nodes),
         NEW x \in Names, NEW new \in [path : Paths, sector : Sectors, isDir : BOOLEAN],
         new.path = Append(dir.path, x), \A n \in nodes : n.path # new.path,
         NEW i \in Slots, NEW f, NEW d2 \in Disks, AddsNode(d, d2, map, dir, i, new, x, f)
  PROVE  Represents(d2, map \cup {new.sector} \cup Taken(f), nodes \cup {new})
<1> DEFINE s == new.sector
           hs == Headers(nodes)
           ts == d[dir.sector].data[1]
           table == TableOf(d, dir)
           table2 == [table EXCEPT ![i] = Entry(x, s, new.isDir)]
           all == nodes \cup {new}
           taken == {f[k] : k \in DOMAIN f}
<1>1. PICK n \in Small : /\ New(f, n, Sectors \ (map \cup {s}))
                         /\ d2[s] = Header(n, Fill(f))
                         /\ new.isDir => n = 1
  BY DEF AddsNode
<1>2. /\ n \in Nat /\ DOMAIN f = 1..n /\ f \in [1..n -> Sectors]
      /\ \A k \in 1..n : f[k] \in Sectors /\ f[k] \notin map /\ f[k] # s
      /\ \A j, k \in 1..n : f[j] = f[k] => j = k
  BY <1>1, DiskAssumption DEF New, Small
<1>3. /\ s \in Sectors /\ s \notin map /\ ~table[i].inUse
      /\ d2[ts] = Table(table2)
      /\ \A k \in 1..n : d2[f[k]] = Zero
      /\ \A t \in Sectors : t = ts \/ t = s \/ t \in taken \/ d2[t] = d[t]
  BY <1>2 DEF AddsNode
<1>4. NodesTyped(nodes) /\ dir.sector \in hs /\ table \in Tables
      /\ 1 \in 1..d[dir.sector].size
  BY DirectoriesAre, TableIs DEF Represents, TablesFit, TableFits
<1>5. ts \in map /\ ts \notin hs /\ ts \in Sectors
  BY <1>4, Owners
<1>6. ASSUME NEW t \in hs PROVE t \in map /\ d2[t] = d[t] /\ t # s
  <2>1. t \in map /\ t \in Sectors /\ t # ts
    BY <1>5, Owners
  <2> QED BY <1>2, <1>3, <2>1
<1>7. Headers(all) = hs \cup {s} /\ s \notin hs
  BY <1>3, <1>6 DEF Headers
<1>8. /\ d2[s].size = n /\ d2[s].data = Fill(f) /\ HeaderAt(d2, s)
      /\ \A k \in 1..n : d2[s].data[k] = f[k]
  BY <1>1, <1>2, FillIs DEF Header, HeaderAt
<1>9. NodesTyped(all)
  <2>1. \A m \in nodes : m.sector # s
    BY <1>6 DEF Headers
  <2>2. s \notin {FreeMapSector, DirectorySector}
    BY <1>7 DEF Headers
  <2> QED BY <1>4, <2>1, <2>2 DEF NodesTyped
<1>10. HeadersFit(d2, all)
  <2>1. \A t \in hs : HeaderAt(d2, t)
    BY <1>6, HeaderKept DEF Represents, HeadersFit
  <2> QED BY <1>7, <1>8, <2>1 DEF HeadersFit
<1>11. Holds(table2, dir, i, new) /\ table2[i].inUse /\ table2[i].name = x
  <2>1. table2[i] = Entry(x, new.sector, new.isDir)
    BY <1>4 DEF Tables
  <2> HIDE DEF table2
  <2>2. Holds(table2, dir, i, new)
    BY <2>1 DEF Holds
  <2> QED BY <2>1, <2>2 DEF Entry
<1>12. \A j \in Slots : j # i => table2[j] = table[j]
  BY <1>4 DEF Tables
<1>13. TableOf(d2, dir) = table2
  BY <1>3, <1>4, <1>6, TableKept
<1>14. ASSUME NEW other \in Directories(nodes), other # dir PROVE TableOf(d2, other) = TableOf(d, other)
  <2> DEFINE us == d[other.sector].data[1]
  <2>1. other.sector \in hs /\ 1 \in 1..d[other.sector].size /\ other.sector # dir.sector
    BY <1>4, <1>14, DirectoriesAre, TableIs
  <2>2. us \in Sectors /\ us \in map /\ us # ts
    BY <1>4, <2>1, Owners
  <2>3. us # s /\ us \notin taken
    BY <1>2, <1>3, <2>2
  <2>4. d2[us] = d[us]
    BY <1>3, <2>2, <2>3
  <2>5. d2[other.sector] = d[other.sector]
    BY <1>6, <2>1
  <2> QED BY <2>4, <2>5, TableKept
<1>15. ASSUME new.isDir PROVE TableOf(d2, new) = EmptyTable /\ d2[s].size = 1
  <2>1. n = 1 /\ d2[s].size = 1 /\ d2[s].data[1] = f[1] /\ d2[f[1]] = Zero
    BY <1>1, <1>3, <1>8, <1>15
  <2>2. Zero.kind # "table"
    BY DEF Zero, Data
  <2> QED BY <1>3, <1>8, <2>1, <2>2, TableAt DEF TableOf
<1> HIDE DEF table2, table, taken, ts
<1>16. ASSUME NEW other \in Directories(nodes)
       PROVE  /\ TableFits(TableOf(d, other), other, nodes) /\ d[other.sector].size = 1
              /\ d2[other.sector].size = 1
  <2>1. other.sector \in hs
    BY <1>4, DirectoriesAre
  <2> QED BY <1>6, <2>1 DEF Represents, TablesFit
<1>17. TableFits(table2, dir, all)
  <2>1. TableFits(table, dir, nodes)
    BY <1>16 DEF table
  <2>2. table2 \in Tables
    <3>1. Entry(x, s, new.isDir) \in [inUse : {TRUE}, name : Names, sector : Int, isDir : BOOLEAN]
      <4>1. s \in Int
        BY <1>3, DiskAssumption DEF Sectors
      <4> QED BY <4>1 DEF Entry
    <3> QED BY <1>4, <3>1 DEF Tables, table2
  <2>3. ASSUME NEW j \in Slots, j # i, table2[j].inUse
        PROVE  table2[j].name # x /\ \E m \in nodes : Holds(table2, dir, j, m)
    <3>1. table2[j] = table[j]
      BY <1>12, <2>3
    <3>2. PICK m \in nodes : Holds(table, dir, j, m)
      BY <2>1, <2>3, <3>1 DEF TableFits
    <3>3. m.path = Append(dir.path, table[j].name)
      BY <1>4, <3>2, HoldsIs
    <3> QED BY <3>1, <3>2, <3>3 DEF Holds
  <2>4. ASSUME NEW j \in Slots, NEW k \in Slots, table2[j].inUse, table2[k].inUse, table2[j].name = table2[k].name
        PROVE  j = k
    BY <1>11, <1>12, <2>1, <2>3, <2>4 DEF TableFits
  <2> QED BY <1>11, <2>2, <2>3, <2>4 DEF TableFits
<1>18. ASSUME NEW other \in Directories(nodes), other # dir PROVE TableFits(TableOf(d2, other), other, all)
  BY <1>14, <1>16, <1>18 DEF TableFits
<1>19. new.isDir => TableFits(EmptyTable, new, all)
  BY DEF TableFits, EmptyTable, Unused, Tables
<1>20. TablesFit(d2, all)
  <2> SUFFICES ASSUME NEW other \in Directories(all)
               PROVE  d2[other.sector].size = 1 /\ TableFits(TableOf(d2, other), other, all)
    BY DEF TablesFit
  <2>1. other \in Directories(nodes) \/ (other = new /\ new.isDir)
    BY DEF Directories
  <2> QED BY <1>13, <1>15, <1>16, <1>17, <1>18, <1>19, <2>1
<1>21. Directories(nodes) \subseteq Directories(all)
  BY DEF Directories
<1>22. Placed(d2, all)
  <2>1. ASSUME NEW m \in nodes
        PROVE  \E other \in Directories(nodes), j \in Slots : Holds(TableOf(d2, other), other, j, m)
    <3>1. PICK other \in Directories(nodes), j \in Slots : Holds(TableOf(d, other), other, j, m)
      BY DEF Represents, Placed
    <3>2. CASE other # dir
      BY <1>14, <3>1, <3>2
    <3>3. CASE other = dir
      <4>1. Holds(table, dir, j, m)
        BY <3>1, <3>3 DEF table
      <4>2. j # i
        BY <1>3, <1>4, <4>1, HoldsIs
      <4>3. Holds(table2, dir, j, m)
        BY <1>12, <4>1, <4>2 DEF Holds
      <4> QED BY <1>13, <4>3
    <3> QED BY <3>2, <3>3
  <2> QED BY <1>11, <1>13, <1>21, <2>1 DEF Placed
<1>23. OwnedApart(d2, Headers(all))
  <2>1. ASSUME NEW t \in hs, NEW k \in 1..d2[t].size
        PROVE  /\ k \in 1..d[t].size /\ d2[t].data[k] = d[t].data[k] /\ d2[t].data[k] \in map
               /\ d2[t].data[k] \notin hs \cup {s}
               /\ \A u \in hs : \A j \in 1..d2[u].size : d2[t].data[k] = d2[u].data[j] => t = u /\ k = j
    <3>1. k \in 1..d[t].size /\ d2[t].data[k] = d[t].data[k]
      BY <1>6
    <3>2. d[t].data[k] \in map /\ d[t].data[k] \notin hs
          /\ \A u \in hs : \A j \in 1..d[u].size : d[t].data[k] = d[u].data[j] => t = u /\ k = j
      BY <3>1, Owners
    <3> QED BY <1>3, <1>6, <3>1, <3>2
  <2>2. ASSUME NEW k \in 1..d2[s].size
        PROVE  /\ d2[s].data[k] \notin map /\ d2[s].data[k] # s
               /\ \A j \in 1..d2[s].size : d2[s].data[k] = d2[s].data[j] => k = j
    BY <1>2, <1>8
  <2>3. hs \subseteq map
    BY <1>6
  <2> HIDE DEF hs, s, all
  <2> SUFFICES OwnedApart(d2, hs \cup {s})
    BY <1>7
  <2> SUFFICES ASSUME NEW t \in hs \cup {s}, NEW u \in hs \cup {s}, NEW k \in 1..d2[t].size, NEW j \in 1..d2[u].size
               PROVE  /\ d2[t].data[k] = d2[u].data[j] => t = u /\ k = j
                      /\ d2[t].data[k] \notin hs \cup {s}
    BY DEF OwnedApart
  <2>4. CASE t \in hs
    BY <2>1, <2>2, <2>4
  <2>5. CASE t = s
    BY <2>1, <2>2, <2>3, <2>5
  <2> QED BY <2>4, <2>5
<1>24. Marks(d2, map \cup {s} \cup taken, Headers(all))
  <2>1. \A t \in hs : DataOf(d2, t) = DataOf(d, t)
    BY <1>6, HeaderKept
  <2>2. DataOf(d2, s) = taken
    BY <1>2, <1>8 DEF DataOf, taken
  <2>3. map = hs \cup UNION {DataOf(d, t) : t \in hs}
    BY DEF Represents, Marks
  <2> HIDE DEF hs, s, all
  <2>4. ASSUME NEW u
        PROVE  u \in map \cup {s} \cup taken <=> u \in (hs \cup {s}) \cup UNION {DataOf(d2, t) : t \in hs \cup {s}}
    <3>1. u \in UNION {DataOf(d2, t) : t \in hs \cup {s}} <=> u \in UNION {DataOf(d, t) : t \in hs} \/ u \in taken
      BY <2>1, <2>2
    <3> QED BY <2>3, <3>1
  <2>5. Marks(d2, map \cup {s} \cup taken, hs \cup {s})
    BY <2>4 DEF Marks
  <2> QED BY <1>7, <2>5
<1> QED BY <1>9, <1>10, <1>20, <1>22, <1>23, <1>24 DEF Represents, Taken, taken

\* One sector was written.
Writes(d, d2, at, c) == d2[at] = c /\ \A t \in Sectors \ {at} : d2[t] = d[t]

\* So does a file taken out of its directory, with its sectors.
LEMMA RemoveNode ==
  ASSUME NEW d, NEW map, NEW nodes, Represents(d, map, nodes), NEW dir \in Directories(nodes),
         NEW n \in nodes, ~n.isDir, NEW i \in Slots, Holds(TableOf(d, dir), dir, i, n),
         NEW d2 \in Disks,
         Writes(d, d2, d[dir.sector].data[1], Table([TableOf(d, dir) EXCEPT ![i] = Unused]))
  PROVE  Represents(d2, (map \ DataOf(d, n.sector)) \ {n.sector}, nodes \ {n})
<1> DEFINE s == n.sector
           hs == Headers(nodes)
           ts == d[dir.sector].data[1]
           table == TableOf(d, dir)
           table2 == [table EXCEPT ![i] = Unused]
           rest == nodes \ {n}
<1>1. NodesTyped(nodes) /\ dir.sector \in hs /\ table \in Tables
      /\ 1 \in 1..d[dir.sector].size
  BY DirectoriesAre, TableIs DEF Represents, TablesFit, TableFits
<1>2. s \in hs /\ ts \in map /\ ts \notin hs /\ ts \in Sectors
  BY <1>1, Owners DEF Headers
<1>3. ASSUME NEW t \in hs PROVE d2[t] = d[t] /\ t \in Sectors
  <2>1. t \in Sectors /\ t # ts
    BY <1>2, Owners
  <2> QED BY <2>1 DEF Writes
<1>4. Headers(rest) = hs \ {s}
  BY <1>1 DEF NodesTyped, Headers
<1>5. Directories(rest) = Directories(nodes)
  <2>1. n # Root
    BY RootIs
  <2> QED BY <2>1 DEF Directories
<1>6. NodesTyped(rest)
  BY <1>1 DEF NodesTyped
<1>7. HeadersFit(d2, rest)
  BY <1>3, <1>4, HeaderKept DEF Represents, HeadersFit
<1>8. d2[ts] = Table(table2)
  BY DEF Writes
<1>9. TableOf(d2, dir) = table2
  <2>1. d2[dir.sector] = d[dir.sector]
    BY <1>1, <1>3
  <2> HIDE DEF table2
  <2> QED BY <1>8, <2>1, TableKept
<1>10. ASSUME NEW other \in Directories(nodes), other # dir PROVE TableOf(d2, other) = TableOf(d, other)
  <2> DEFINE us == d[other.sector].data[1]
  <2>1. other.sector \in hs /\ 1 \in 1..d[other.sector].size /\ other.sector # dir.sector
    BY <1>1, <1>10, DirectoriesAre, TableIs
  <2>2. us \in Sectors /\ us # ts
    BY <1>1, <2>1, Owners
  <2>3. d2[us] = d[us]
    BY <2>2 DEF Writes
  <2>4. d2[other.sector] = d[other.sector]
    BY <1>3, <2>1
  <2> QED BY <2>3, <2>4, TableKept
<1>11. table2[i] = Unused /\ ~table2[i].inUse /\ \A j \in Slots : j # i => table2[j] = table[j]
  BY <1>1 DEF Tables, Unused
<1>12. table2 \in Tables
  BY <1>1 DEF Tables
<1> HIDE DEF table2, table, ts
\* The other entries are not for n.
<1>13. ASSUME NEW other \in Directories(nodes), NEW j \in Slots, Holds(TableOf(d, other), other, j, n)
       PROVE  other = dir /\ j = i
  <2>1. /\ n.path = Append(dir.path, table[i].name) /\ table[i].inUse /\ table[i].name \in Names
        /\ n.path = Append(other.path, TableOf(d, other)[j].name) /\ TableOf(d, other)[j].inUse
        /\ TableOf(d, other)[j].name \in Names
    BY <1>1, <1>13, HoldsIs DEF table
  <2>2. dir.path \in Seq(Names) /\ other.path \in Seq(Names)
    BY <1>1, DirectoriesAre
  <2>3. PICK p \in Seq(Names), q \in Seq(Names), x \in Names, y \in Names :
             p = dir.path /\ q = other.path /\ x = table[i].name /\ y = TableOf(d, other)[j].name
    BY <2>1, <2>2
  <2>4. Append(p, x) = Append(q, y)
    BY <2>1, <2>3
  <2>5. p = q /\ x = y
    BY <2>4, AppendIs
  <2>6. other = dir
    BY <1>1, <2>3, <2>5, DirectoriesAre
  <2>7. TableFits(table, dir, nodes)
    BY DEF Represents, TablesFit, table
  <2> QED BY <2>1, <2>3, <2>5, <2>6, <2>7 DEF TableFits, table
<1>14. TableFits(table2, dir, rest)
  <2>1. TableFits(table, dir, nodes)
    BY DEF Represents, TablesFit, table
  <2>2. ASSUME NEW j \in Slots, table2[j].inUse PROVE \E m \in rest : Holds(table2, dir, j, m)
    <3>1. j # i /\ table2[j] = table[j]
      BY <1>11, <2>2
    <3>2. PICK m \in nodes : Holds(table, dir, j, m)
      BY <2>1, <2>2, <3>1 DEF TableFits
    <3>3. m # n
      BY <1>13, <3>1, <3>2 DEF table
    <3> QED BY <3>1, <3>2, <3>3 DEF Holds
  <2>3. ASSUME NEW j \in Slots, NEW k \in Slots, table2[j].inUse, table2[k].inUse, table2[j].name = table2[k].name
        PROVE  j = k
    BY <1>11, <2>1, <2>3 DEF TableFits
  <2> QED BY <1>12, <2>2, <2>3 DEF TableFits
<1>15. ASSUME NEW other \in Directories(nodes), other # dir PROVE TableFits(TableOf(d2, other), other, rest)
  <2>1. TableFits(TableOf(d, other), other, nodes)
    BY DEF Represents, TablesFit
  <2>2. ASSUME NEW j \in Slots, TableOf(d, other)[j].inUse PROVE \E m \in rest : Holds(TableOf(d, other), other, j, m)
    BY <1>13, <1>15, <2>1, <2>2 DEF TableFits
  <2> QED BY <1>10, <1>15, <2>1, <2>2 DEF TableFits
<1>16. TablesFit(d2, rest)
  <2>1. ASSUME NEW other \in Directories(nodes) PROVE d2[other.sector].size = 1
    <3>1. other.sector \in hs /\ d[other.sector].size = 1
      BY <1>1, DirectoriesAre DEF Represents, TablesFit
    <3> QED BY <1>3, <3>1
  <2> QED BY <1>5, <1>9, <1>14, <1>15, <2>1 DEF TablesFit
<1>17. Placed(d2, rest)
  <2> SUFFICES ASSUME NEW m \in rest
               PROVE  \E other \in Directories(nodes), j \in Slots : Holds(TableOf(d2, other), other, j, m)
    BY <1>5 DEF Placed
  <2>1. PICK other \in Directories(nodes), j \in Slots : Holds(TableOf(d, other), other, j, m)
    BY DEF Represents, Placed
  <2>2. CASE other # dir
    BY <1>10, <2>1, <2>2
  <2>3. CASE other = dir
    <3>1. Holds(table, dir, j, m)
      BY <2>1, <2>3 DEF table
    <3>2. j # i
      <4>1. ASSUME j = i PROVE m = n
        <5>1. m.path = Append(dir.path, table[i].name) /\ n.path = Append(dir.path, table[i].name)
          BY <1>1, <3>1, <4>1, HoldsIs DEF table
        <5> QED BY <1>1, <5>1 DEF NodesTyped
      <4> QED BY <4>1
    <3>3. Holds(table2, dir, j, m)
      BY <1>11, <3>1, <3>2 DEF Holds
    <3> QED BY <1>9, <3>3
  <2> QED BY <2>2, <2>3
<1>18. OwnedApart(d2, Headers(rest))
  <2>1. OwnedApart(d, hs)
    BY DEF Represents
  <2>2. Headers(rest) \subseteq hs
    BY <1>4
  <2> HIDE DEF hs, rest
  <2> SUFFICES ASSUME NEW t \in Headers(rest), NEW u \in Headers(rest),
                      NEW k \in 1..d2[t].size, NEW j \in 1..d2[u].size
               PROVE  /\ d2[t].data[k] = d2[u].data[j] => t = u /\ k = j
                      /\ d2[t].data[k] \notin Headers(rest)
    BY DEF OwnedApart
  <2>3. t \in hs /\ u \in hs /\ d2[t] = d[t] /\ d2[u] = d[u]
    BY <1>3, <2>2
  <2> QED BY <2>1, <2>2, <2>3 DEF OwnedApart
<1>19. Marks(d2, (map \ DataOf(d, s)) \ {s}, Headers(rest))
  <2>1. \A t \in hs : DataOf(d2, t) = DataOf(d, t)
    BY <1>3, HeaderKept
  <2>2. map = hs \cup UNION {DataOf(d, t) : t \in hs}
    BY DEF Represents, Marks
  <2>3. \A t \in hs : DataOf(d, t) \cap hs = {}
    BY Owners DEF DataOf
  <2>4. \A t \in hs : t # s => DataOf(d, t) \cap DataOf(d, s) = {}
    BY <1>2, Owners DEF DataOf
  <2> HIDE DEF hs, s, rest
  <2>5. ASSUME NEW u
        PROVE  u \in (map \ DataOf(d, s)) \ {s} <=> u \in (hs \ {s}) \cup UNION {DataOf(d2, t) : t \in hs \ {s}}
    <3>1. u \in UNION {DataOf(d2, t) : t \in hs \ {s}} <=> \E t \in hs : t # s /\ u \in DataOf(d, t)
      BY <2>1
    <3>2. u \in UNION {DataOf(d, t) : t \in hs} <=> \E t \in hs : u \in DataOf(d, t)
      OBVIOUS
    <3>3. u \in hs => \A t \in hs : u \notin DataOf(d, t)
      BY <2>3
    <3> QED BY <1>2, <2>2, <2>4, <3>1, <3>2, <3>3
  <2>6. Marks(d2, (map \ DataOf(d, s)) \ {s}, hs \ {s})
    BY <2>5 DEF Marks
  <2> QED BY <1>4, <2>6
<1> QED BY <1>6, <1>7, <1>16, <1>17, <1>18, <1>19 DEF Represents

\* So does a write into a sector that a file holds.
LEMMA WriteNode ==
  ASSUME NEW d, NEW map, NEW nodes, Represents(d, map, nodes),
         NEW n \in nodes, ~n.isDir, NEW k \in 1..d[n.sector].size, NEW c,
         NEW d2 \in Disks, Writes(d, d2, d[n.sector].data[k], c)
  PROVE  Represents(d2, map, nodes)
<1> DEFINE hs == Headers(nodes)
           ts == d[n.sector].data[k]
<1>1. NodesTyped(nodes) /\ n.sector \in hs
  BY DEF Represents, Headers
<1>2. ASSUME NEW t \in hs PROVE d2[t] = d[t] /\ t \in Sectors
  <2>1. t \in Sectors /\ t # ts
    BY <1>1, Owners
  <2> QED BY <2>1 DEF Writes
<1>3. ASSUME NEW dir \in Directories(nodes) PROVE TableOf(d2, dir) = TableOf(d, dir) /\ d2[dir.sector].size = 1
  <2> DEFINE us == d[dir.sector].data[1]
  <2>1. dir.sector \in hs /\ 1 \in 1..d[dir.sector].size /\ dir.sector # n.sector /\ d[dir.sector].size = 1
    <3>1. dir.sector \in hs /\ 1 \in 1..d[dir.sector].size /\ d[dir.sector].size = 1
      <4>1. dir.sector \in hs
        BY <1>1, DirectoriesAre
      <4>2. d[dir.sector].size = 1 /\ 1 \in 1..d[dir.sector].size
        BY TableIs
      <4> QED BY <4>1, <4>2
    <3>2. dir.sector # n.sector
      <4>1. n # dir /\ n.sector # DirectorySector
        BY <1>1 DEF NodesTyped, Directories
      <4> QED BY <1>1, <4>1, RootIs, DirectoriesAre DEF NodesTyped
    <3> QED BY <3>1, <3>2
  <2>2. us \in Sectors /\ us # ts
    BY <1>1, <2>1, Owners
  <2>3. d2[us] = d[us]
    BY <2>2 DEF Writes
  <2>4. d2[dir.sector] = d[dir.sector]
    BY <1>2, <2>1
  <2> QED BY <2>1, <2>3, <2>4, TableKept
<1>4. HeadersFit(d2, nodes)
  BY <1>2, HeaderKept DEF Represents, HeadersFit
<1>5. TablesFit(d2, nodes)
  BY <1>3 DEF Represents, TablesFit
<1>6. Placed(d2, nodes)
  BY <1>3 DEF Represents, Placed
<1>7. OwnedApart(d2, hs)
  <2>1. OwnedApart(d, hs)
    BY DEF Represents
  <2> HIDE DEF hs
  <2> QED BY <1>2, <2>1 DEF OwnedApart
<1>8. Marks(d2, map, hs)
  <2>1. \A t \in hs : DataOf(d2, t) = DataOf(d, t)
    BY <1>2, HeaderKept
  <2>2. Marks(d, map, hs)
    BY DEF Represents
  <2> HIDE DEF hs
  <2>3. UNION {DataOf(d2, t) : t \in hs} = UNION {DataOf(d, t) : t \in hs}
    BY <2>1
  <2> QED BY <2>2, <2>3 DEF Marks
<1> QED BY <1>1, <1>4, <1>5, <1>6, <1>7, <1>8 DEF Represents

-----------------------------------------------------------------------------
(* The calls.                                                              *)

\* Files fit their headers; directories are not removed with what is in them; the
\* callers name paths below directories that exist, and open no directory.
PlainCalls == Sizes \subseteq Small /\ Recursives \subseteq {FALSE} /\ Careful = TRUE

AllNames == FALSE

\* The two kinds of loop.
LEMMA ModesAre == AllNames \in Modes /\ DirsOnly \in Modes
BY DEF AllNames, DirsOnly, Modes

\* What a call that creates a node leaves.
Creates(r, path, size, isDir, nodes) ==
  \E new \in [path : {path}, sector : Sectors, isDir : {isDir}], dir \in Directories(nodes),
     x \in Names, i \in Slots, f \in [1..size -> Sectors] :
    /\ path = Append(dir.path, x) /\ \A n \in nodes : n.path # path
    /\ AddsNode(disk, r.disk, marked, dir, i, new, x, f)
    /\ r.disk \in Disks /\ r.disk[new.sector].size = size /\ DOMAIN f = 1..size
    /\ r.marked = marked \cup {new.sector} \cup Taken(f)
    /\ r.dies = FALSE

\* What Flush writes adds a node.
LEMMA FlushIs ==
  ASSUME NEW nodes, Represents(disk, marked, nodes), NEW dir \in Directories(nodes),
         NEW x \in Names, NEW path \in Paths, path = Append(dir.path, x),
         Absent(TableOf(disk, dir), dir, x, nodes), FreeSlots(TableOf(disk, dir)) # {},
         NEW sector \in Sectors \ marked, NEW size \in Small, NEW isDir \in BOOLEAN, isDir => size = 1,
         NEW r, r = Allocate(disk, marked \cup {sector}, size), r.ok,
         NEW w, w.file = dir.sector
  PROVE  Creates(Flush(r, w, Add(TableOf(disk, dir), x, sector, isDir), sector), path, size, isDir, nodes)
<1> DEFINE table == TableOf(disk, dir)
           i == Min(FreeSlots(table))
           table2 == [table EXCEPT ![i] = Entry(x, sector, isDir)]
           ts == disk[dir.sector].data[1]
           d1 == [r.disk EXCEPT ![sector] = r.hdr]
           d2 == [d1 EXCEPT ![ts] = Table(table2)]
           new == [path |-> path, sector |-> sector, isDir |-> isDir]
<1>1. /\ dir.sector \in Headers(nodes) /\ dir.sector \in Sectors /\ dir.sector \in marked
      /\ disk[dir.sector].size = 1 /\ 1 \in 1..disk[dir.sector].size
      /\ HeaderAt(disk, dir.sector) /\ disk \in Disks /\ marked \in SUBSET Sectors
  <2>1. dir.sector \in Headers(nodes)
    BY DirectoriesAre DEF Represents
  <2>2. disk[dir.sector].size = 1 /\ 1 \in 1..disk[dir.sector].size
    BY TableIs
  <2>3. dir.sector \in marked /\ dir.sector \in Sectors /\ HeaderAt(disk, dir.sector) /\ marked \subseteq Sectors
    BY <2>1, Owners
  <2> QED BY <2>1, <2>2, <2>3 DEF Represents
<1>2. ts \in Sectors /\ ts \in marked
  BY <1>1, Owners
<1>3. marked \cup {sector} \in SUBSET Sectors
  BY <1>1
<1>4. PICK f : Allocated(r, disk, marked \cup {sector}, size, f)
  <2>1. PICK map \in SUBSET Sectors : map = marked \cup {sector}
    BY <1>3
  <2>2. r = Allocate(disk, map, size)
    BY <2>1
  <2> QED BY <2>1, <2>2, AllocateIs
<1>5. /\ New(f, size, Sectors \ (marked \cup {sector}))
      /\ r.hdr = Header(size, Fill(f))
      /\ r.marked = (marked \cup {sector}) \cup {f[k] : k \in 1..size}
      /\ r.disk = [s \in Sectors |-> IF s \in {f[k] : k \in 1..size} THEN Zero ELSE disk[s]]
  BY <1>4 DEF Allocated
<1> DEFINE taken == {f[k] : k \in 1..size}
<1>6. /\ f \in [1..size -> Sectors] /\ DOMAIN f = 1..size
      /\ taken \subseteq Sectors /\ sector \notin taken /\ taken \cap marked = {}
  BY <1>5 DEF New
<1>7. r.disk \in Disks
  <2> DEFINE Cells == [kind : {"data"}, value : Values \cup {0}]
                      \cup [kind : {"header"}, size : Nat, data : [1..NumDirect -> Int]]
                      \cup [kind : {"table"}, entries : Tables]
  <2>1. Disks = [Sectors -> Cells] /\ Zero \in Cells
    BY DEF Disks, Zero, Data
  <2> HIDE DEF Cells, taken
  <2>2. r.disk = [s \in Sectors |-> IF s \in taken THEN Zero ELSE disk[s]]
    BY <1>5 DEF taken
  <2>3. disk \in [Sectors -> Cells]
    BY <1>1, <2>1
  <2>4. \A s \in Sectors : (IF s \in taken THEN Zero ELSE disk[s]) \in Cells
    BY <2>1, <2>3
  <2>5. r.disk \in [Sectors -> Cells]
    BY <2>2, <2>4
  <2> QED BY <2>1, <2>5
<1>8. Fill(f) \in [1..NumDirect -> Sectors \cup {None}]
  BY <1>6, FillIs
<1>9. d1 \in Disks
  <2>1. \E n \in Small, g \in [1..NumDirect -> Sectors \cup {None}] : r.hdr = Header(n, g)
    BY <1>5, <1>8
  <2> QED BY <1>7, <2>1, CellsAre
<1>10. i \in Slots /\ ~table[i].inUse /\ table \in Tables
  <2>1. FreeSlots(table) \in SUBSET Nat /\ FreeSlots(table) \subseteq Slots
    BY FormatAssumption DEF FreeSlots, Slots
  <2>2. i \in FreeSlots(table)
    BY <2>1, MinIs
  <2> QED BY <2>2 DEF FreeSlots, Represents, TablesFit, TableFits
<1>11. table2 \in Tables
  <2>1. Entry(x, sector, isDir) \in [inUse : {TRUE}, name : Names, sector : Int, isDir : BOOLEAN]
    <3>1. sector \in Int
      BY DiskAssumption DEF Sectors
    <3> QED BY <3>1 DEF Entry
  <2> QED BY <1>10, <2>1 DEF Tables
<1>12. d2 \in Disks
  <2>1. \E t \in Tables : Table(table2) = Table(t)
    BY <1>11
  <2> HIDE DEF d1, table2
  <2> QED BY <1>2, <1>9, <2>1, CellsAre
<1>13. DOMAIN r.disk = Sectors /\ DOMAIN d1 = Sectors
  BY <1>5
<1>14. /\ d1[sector] = Header(size, Fill(f))
       /\ \A t \in taken : d1[t] = Zero
       /\ \A t \in Sectors : t # sector /\ t \notin taken => d1[t] = disk[t]
  BY <1>5, <1>6, <1>13
<1> HIDE DEF d1, taken, table2, i, table
<1>15. d1[dir.sector] = disk[dir.sector]
  BY <1>1, <1>6, <1>14
<1>16. HeaderAt(d1, dir.sector) /\ d1[dir.sector].size = 1
  BY <1>1, <1>15, HeaderKept
<1>17. WriteTable(d1, table2, dir.sector) = d2
  BY <1>1, <1>15, <1>16, TableAt
<1>18. /\ d2[ts] = Table(table2)
       /\ \A t \in Sectors : t # ts => d2[t] = d1[t]
  BY <1>2, <1>13
<1> HIDE DEF d2
<1>19. d2[sector] = Header(size, Fill(f)) /\ \A t \in taken : d2[t] = Zero
  BY <1>2, <1>6, <1>14, <1>18
<1>20. AddsNode(disk, d2, marked, dir, i, new, x, f)
  <2>1. \A t \in Sectors : t = ts \/ t = sector \/ t \in {f[k] : k \in DOMAIN f} \/ d2[t] = disk[t]
    BY <1>6, <1>14, <1>18 DEF taken
  <2>2. \A k \in DOMAIN f : d2[f[k]] = Zero
    BY <1>6, <1>19 DEF taken
  <2> QED BY <1>5, <1>10, <1>18, <1>19, <2>1, <2>2 DEF AddsNode, table, table2
<1>21. d2[sector].size = size
  BY <1>19 DEF Header
<1>22. Flush(r, w, Add(table, x, sector, isDir), sector) = Left(TRUE, d2, r.marked, FALSE)
  <2>1. Add(table, x, sector, isDir) = table2
    BY DEF Add, table2, i
  <2> QED BY <1>17, <2>1 DEF Flush, d1
<1> DEFINE c == Flush(r, w, Add(table, x, sector, isDir), sector)
<1>23. c.disk = d2 /\ c.marked = r.marked /\ c.dies = FALSE
  <2>1. c = [ok |-> TRUE, disk |-> d2, marked |-> r.marked, dies |-> FALSE]
    BY <1>22 DEF Left
  <2> HIDE DEF c
  <2> QED BY <2>1
<1> HIDE DEF c
<1>24. \A n \in nodes : n.path # path
  BY DEF Absent
<1>25. new \in [path : {path}, sector : Sectors, isDir : {isDir}] /\ new.sector = sector
  OBVIOUS
<1>26. c.marked = marked \cup {new.sector} \cup Taken(f)
  BY <1>5, <1>6, <1>23 DEF Taken
<1> HIDE DEF new
<1>27. Creates(c, path, size, isDir, nodes)
  BY <1>6, <1>10, <1>12, <1>20, <1>21, <1>23, <1>24, <1>25, <1>26 DEF Creates
<1> QED BY <1>27 DEF c, table

\* The end of the loop for Create, CreateDir and Remove, and for Open.
LEMMA WalkAll ==
  ASSUME NEW nodes, Represents(disk, marked, nodes), NEW path \in Paths, HasParent(path)
  PROVE  \E dir \in Directories(nodes), x \in Names, last \in Sectors :
           /\ path = Append(dir.path, x) /\ x = path[Len(path)] /\ Len(dir.path) = Len(path) - 1
           /\ \/ /\ Absent(TableOf(disk, dir), dir, x, nodes)
                 /\ Walk(path) = In(dir, last)
              \/ \E n \in nodes, i \in Slots :
                   /\ Present(TableOf(disk, dir), dir, x, n, i)
                   /\ Walk(path).depth = Len(path) /\ Walk(path).file = n.sector /\ Walk(path).last = dir.sector
<1>1. PICK dir \in Directories(nodes), x \in Names, last \in Sectors :
        /\ path = Append(dir.path, x) /\ x = path[Len(path)] /\ Len(dir.path) = Len(path) - 1
        /\ \/ /\ Absent(TableOf(disk, dir), dir, x, nodes)
              /\ WalkFrom(AtRoot, path, AllNames) = In(dir, last)
           \/ \E n \in nodes, i \in Slots :
                /\ Present(TableOf(disk, dir), dir, x, n, i)
                /\ Comes(WalkFrom(AtRoot, path, AllNames), dir, last, n, AllNames)
  BY ModesAre, WalkEnds
<1>2. Walk(path) = WalkFrom(AtRoot, path, AllNames)
  BY DEF Walk, AllNames
<1>3. path \in Seq(Names) /\ Len(dir.path) + 1 = Len(path)
  <2>1. path \in Seq(Names) /\ Len(path) \in Nat
    BY PathsAre
  <2> QED BY <1>1, <2>1
<1>4. ASSUME NEW n \in nodes, NEW i \in Slots, Present(TableOf(disk, dir), dir, x, n, i),
             Comes(Walk(path), dir, last, n, AllNames)
      PROVE  Walk(path).depth = Len(path) /\ Walk(path).file = n.sector /\ Walk(path).last = dir.sector
  <2>1. CASE ~n.isDir
    BY <1>3, <1>4, <2>1 DEF Comes, AllNames
  <2>2. CASE n.isDir
    <3>1. Walk(path) = In(n, dir.sector) /\ n.path = path
      BY <1>1, <1>4, <2>2 DEF Comes, Present
    <3> QED BY <3>1 DEF In
  <2> QED BY <2>1, <2>2
<1> QED BY <1>1, <1>2, <1>4

\* Open finds nothing, a directory, or the file of the path.
LEMMA WalkOpens ==
  ASSUME NEW nodes, Represents(disk, marked, nodes), NEW path \in Paths, HasParent(path)
  PROVE  \/ OpenSector(path) = None
         \/ NamesDirectory(path)
         \/ \E n \in nodes : n.path = path /\ ~n.isDir /\ OpenSector(path) = n.sector
<1>1. PICK dir \in Directories(nodes), x \in Names, last \in Sectors :
        /\ path = Append(dir.path, x) /\ x = path[Len(path)] /\ Len(dir.path) = Len(path) - 1
        /\ \/ /\ Absent(TableOf(disk, dir), dir, x, nodes)
              /\ WalkFrom(AtRoot, path, DirsOnly) = In(dir, last)
           \/ \E n \in nodes, i \in Slots :
                /\ Present(TableOf(disk, dir), dir, x, n, i)
                /\ Comes(WalkFrom(AtRoot, path, DirsOnly), dir, last, n, DirsOnly)
  BY ModesAre, WalkEnds
<1>2. WalkDirs(path) = WalkFrom(AtRoot, path, DirsOnly)
  BY DEF WalkDirs, DirsOnly
<1>3. path \in Seq(Names) /\ Len(dir.path) + 1 = Len(path) /\ Len(dir.path) # Len(path)
  <2>1. path \in Seq(Names) /\ Len(path) \in Nat
    BY PathsAre
  <2> QED BY <1>1, <2>1
<1>4. ASSUME WalkDirs(path) = In(dir, last) PROVE OpenSector(path) = Find(TableOf(disk, dir), x)
  <2>1. WalkDirs(path).table = TableOf(disk, dir) /\ WalkDirs(path).depth = Len(dir.path)
    BY <1>4 DEF In
  <2> QED BY <1>1, <1>3, <2>1 DEF OpenSector
<1>5. CASE Absent(TableOf(disk, dir), dir, x, nodes) /\ WalkDirs(path) = In(dir, last)
  BY <1>4, <1>5 DEF Absent
<1>6. ASSUME NEW n \in nodes, NEW i \in Slots, Present(TableOf(disk, dir), dir, x, n, i),
             Comes(WalkDirs(path), dir, last, n, DirsOnly)
      PROVE  NamesDirectory(path) \/ (n.path = path /\ ~n.isDir /\ OpenSector(path) = n.sector)
  <2>1. CASE ~n.isDir
    <3>1. WalkDirs(path) = In(dir, last)
      BY <1>6, <2>1 DEF Comes, DirsOnly
    <3> QED BY <1>1, <1>4, <1>6, <2>1, <3>1 DEF Present
  <2>2. CASE n.isDir
    <3>1. WalkDirs(path) = In(n, dir.sector) /\ n.path = path
      BY <1>1, <1>6, <2>2 DEF Comes, Present
    <3> QED BY <3>1 DEF In, NamesDirectory
  <2> QED BY <2>1, <2>2
<1> QED BY <1>1, <1>2, <1>5, <1>6

\* A directory's table, read into whatever table was there before.
LEMMA LastFetch ==
  ASSUME NEW nodes, Represents(disk, marked, nodes), NEW dir \in Directories(nodes), NEW w, w.last = dir.sector
  PROVE  FetchTable(w.table, disk, w.last) = TableOf(disk, dir)
BY TableIs

\* Create and CreateDir fail, or add the node of their path.
LEMMA CreationIs ==
  ASSUME NEW nodes, Represents(disk, marked, nodes), NEW path \in Paths, HasParent(path),
         NEW size \in Small, NEW isDir \in BOOLEAN, isDir => size = 1
  PROVE  Creation(path, size, isDir) = Fails \/ Creates(Creation(path, size, isDir), path, size, isDir, nodes)
<1>1. PICK dir \in Directories(nodes), x \in Names, last \in Sectors :
           /\ path = Append(dir.path, x) /\ x = path[Len(path)] /\ Len(dir.path) = Len(path) - 1
           /\ \/ /\ Absent(TableOf(disk, dir), dir, x, nodes)
                 /\ Walk(path) = In(dir, last)
              \/ \E n \in nodes, i \in Slots :
                   /\ Present(TableOf(disk, dir), dir, x, n, i)
                   /\ Walk(path).depth = Len(path) /\ Walk(path).file = n.sector /\ Walk(path).last = dir.sector
  BY WalkAll
<1> DEFINE w == Walk(path)
           sector == First(marked)
           r == Allocate(disk, marked \cup {sector}, size)
           table == TableOf(disk, dir)
<1>2. path \in Seq(Names) /\ Len(dir.path) + 1 = Len(path) /\ Len(dir.path) # Len(path)
  <2>1. path \in Seq(Names) /\ Len(path) \in Nat
    BY PathsAre
  <2> QED BY <1>1, <2>1
<1>3. ASSUME NEW n \in nodes, NEW i \in Slots, Present(table, dir, x, n, i),
             w.depth = Len(path), w.last = dir.sector
      PROVE  Creation(path, size, isDir) = Fails
  <2>1. FetchTable(w.table, disk, w.last) = table
    BY <1>3, LastFetch
  <2>2. Find(table, x) # None
    BY <1>3 DEF Present
  <2> HIDE DEF w, table
  <2> QED BY <1>1, <1>3, <2>1, <2>2 DEF Creation, w
<1>4. CASE Absent(table, dir, x, nodes) /\ w = In(dir, last)
  <2>1. /\ w.table = table /\ w.depth = Len(dir.path) /\ w.file = dir.sector
        /\ w.depth # Len(path) /\ path[w.depth + 1] = x
    BY <1>1, <1>2, <1>4 DEF In
  <2>2. Creation(path, size, isDir) =
          IF Find(table, x) # None \/ sector = None \/ FreeSlots(table) = {} \/ ~r.ok
          THEN Fails
          ELSE IF r.aborts THEN Left(FALSE, r.disk, marked, TRUE)
          ELSE Flush(r, w, Add(table, x, sector, isDir), sector)
    <3> HIDE DEF table
    <3> QED BY <2>1 DEF Creation
  <2>3. CASE sector = None \/ FreeSlots(table) = {} \/ ~r.ok
    BY <2>2, <2>3
  <2>4. CASE sector # None /\ FreeSlots(table) # {} /\ r.ok
    <3>1. marked \in SUBSET Sectors
      <4>1. Root.sector \in Headers(nodes)
        BY RootIs DEF Headers
      <4> QED BY <4>1, Owners
    <3>2. sector \in Sectors \ marked
      BY <2>4, <3>1, FirstIs
    <3> HIDE DEF sector
    <3>3. PICK map \in SUBSET Sectors : map = marked \cup {sector}
      BY <3>1, <3>2
    <3>4. r.aborts = FALSE
      <4>1. r = Allocate(disk, map, size)
        BY <3>3
      <4> HIDE DEF r
      <4> QED BY <4>1, AllocateIs
    <3>5. Find(table, x) = None
      BY <1>4 DEF Absent
    <3>6. Creation(path, size, isDir) = Flush(r, w, Add(table, x, sector, isDir), sector)
      BY <2>2, <2>4, <3>4, <3>5
    <3>7. PICK q : q = r
      OBVIOUS
    <3>8. PICK v : v = w
      OBVIOUS
    <3>9. q = Allocate(disk, marked \cup {sector}, size) /\ q.ok /\ v.file = dir.sector
      BY <2>1, <2>4, <3>7, <3>8
    <3> HIDE DEF r, w
    <3>10. Creates(Flush(q, v, Add(TableOf(disk, dir), x, sector, isDir), sector), path, size, isDir, nodes)
      BY <1>1, <1>4, <2>4, <3>2, <3>9, FlushIs
    <3> QED BY <3>6, <3>7, <3>8, <3>10
  <2> QED BY <2>3, <2>4
<1> QED BY <1>1, <1>3, <1>4

\* What a call that removes a file leaves.
Removes(r, path, nodes) ==
  \E n \in nodes, dir \in Directories(nodes), i \in Slots :
    /\ n.path = path /\ ~n.isDir /\ Holds(TableOf(disk, dir), dir, i, n)
    /\ r.disk \in Disks
    /\ Writes(disk, r.disk, disk[dir.sector].data[1], Table([TableOf(disk, dir) EXCEPT ![i] = Unused]))
    /\ r.marked = (marked \ DataOf(disk, n.sector)) \ {n.sector}
    /\ r.dies = FALSE

\* Remove fails, or removes the file of its path.
LEMMA RemovalIs ==
  ASSUME NEW nodes, Represents(disk, marked, nodes), NEW path \in Paths, HasParent(path)
  PROVE  Removal(path, FALSE) = Fails \/ Removes(Removal(path, FALSE), path, nodes)
<1>1. PICK dir \in Directories(nodes), x \in Names, last \in Sectors :
           /\ path = Append(dir.path, x) /\ x = path[Len(path)] /\ Len(dir.path) = Len(path) - 1
           /\ \/ /\ Absent(TableOf(disk, dir), dir, x, nodes)
                 /\ Walk(path) = In(dir, last)
              \/ \E n \in nodes, i \in Slots :
                   /\ Present(TableOf(disk, dir), dir, x, n, i)
                   /\ Walk(path).depth = Len(path) /\ Walk(path).file = n.sector /\ Walk(path).last = dir.sector
  BY WalkAll
<1> DEFINE w == Walk(path)
           table == TableOf(disk, dir)
           ts == disk[dir.sector].data[1]
           r == Removal(path, FALSE)
<1>2. path \in Seq(Names) /\ Len(dir.path) < Len(path) /\ Last(path) = x
  <2>1. path \in Seq(Names) /\ Len(path) \in Nat
    BY PathsAre
  <2> QED BY <1>1, <2>1 DEF Last
<1>3. CASE w = In(dir, last)
  <2>1. w.depth < Len(path)
    BY <1>2, <1>3 DEF In
  <2> QED BY <2>1 DEF Removal
<1>4. ASSUME NEW n \in nodes, NEW i \in Slots, Present(table, dir, x, n, i),
             w.depth = Len(path), w.file = n.sector, w.last = dir.sector
      PROVE  r = Fails \/ Removes(r, path, nodes)
  <2>1. FetchTable(w.table, disk, w.last) = table
    BY <1>4, LastFetch
  <2>2. IsDir(table, x) = n.isDir /\ Having(table, x) = {i} /\ Min({i}) = i /\ n.path = path
        /\ Holds(table, dir, i, n)
    BY <1>1, <1>4 DEF Present
  <2>3. ~(w.depth < Len(path))
    BY <1>2, <1>4
  <2> HIDE DEF w
  <2>4. CASE n.isDir
    <3>1. IsDir(table, x)
      BY <2>2, <2>4
    <3> HIDE DEF table
    <3> QED BY <1>2, <2>1, <2>3, <3>1 DEF Removal, w
  <2>5. CASE ~n.isDir
    <3>1. r = RemoveHeader(disk, marked, n.sector, x, dir.sector, table)
      <4>1. ~IsDir(table, x)
        BY <2>2, <2>5
      <4> HIDE DEF table
      <4> QED BY <1>2, <1>4, <2>1, <2>3, <4>1 DEF Removal, w
    <3>2. /\ n.sector \in Sectors /\ HeaderAt(disk, n.sector) /\ Apart(disk, n.sector)
          /\ DataOf(disk, n.sector) \subseteq marked /\ marked \subseteq Sectors
      <4>1. n.sector \in Headers(nodes)
        BY DEF Headers
      <4> QED BY <4>1, Owners DEF Apart, DataOf
    <3>3. Deallocate(disk, marked, FetchFrom(disk, n.sector)) =
            [marked |-> marked \ DataOf(disk, n.sector), aborts |-> FALSE]
      BY <3>2, DeallocateIs
    <3>4. RemoveEntry(table, x) = [table EXCEPT ![i] = Unused]
      BY <2>2 DEF RemoveEntry
    <3>5. /\ dir.sector \in Sectors /\ HeaderAt(disk, dir.sector) /\ disk[dir.sector].size = 1
          /\ ts \in Sectors
      <4>1. dir.sector \in Headers(nodes)
        BY DirectoriesAre DEF Represents
      <4> QED BY <4>1, Owners, TableIs
    <3> DEFINE table2 == [table EXCEPT ![i] = Unused]
               d2 == [disk EXCEPT ![ts] = Table(table2)]
    <3>6. WriteTable(disk, table2, dir.sector) = d2
      <4> HIDE DEF table2
      <4>1. PICK s \in Sectors : s = dir.sector
        BY <3>5
      <4>2. WriteTable(disk, table2, s) = [disk EXCEPT ![disk[s].data[1]] = Table(table2)]
        BY <3>5, <4>1, TableAt
      <4> QED BY <4>1, <4>2
    <3>7. r = Left(TRUE, d2, (marked \ DataOf(disk, n.sector)) \ {n.sector}, FALSE)
      <4> DEFINE del == Deallocate(disk, marked, FetchFrom(disk, n.sector))
      <4>1. del.aborts = FALSE /\ del.marked = marked \ DataOf(disk, n.sector)
        BY <3>3
      <4>2. WriteTable(disk, RemoveEntry(table, x), dir.sector) = d2
        BY <3>4, <3>6
      <4>3. r = IF del.aborts THEN Left(FALSE, disk, marked, TRUE)
                ELSE Left(TRUE, WriteTable(disk, RemoveEntry(table, x), dir.sector), del.marked \ {n.sector}, FALSE)
        <5> HIDE DEF table, d2
        <5> QED BY <3>1 DEF RemoveHeader
      <4> HIDE DEF table, table2, d2, r, del
      <4> QED BY <4>1, <4>2, <4>3
    <3>8. r.disk = d2 /\ r.marked = (marked \ DataOf(disk, n.sector)) \ {n.sector} /\ r.dies = FALSE
      <4>1. r = [ok |-> TRUE, disk |-> d2, marked |-> (marked \ DataOf(disk, n.sector)) \ {n.sector}, dies |-> FALSE]
        BY <3>7 DEF Left
      <4> HIDE DEF r
      <4> QED BY <4>1
    <3>9. disk \in Disks /\ DOMAIN disk = Sectors /\ table \in Tables
      BY DEF Represents, Disks, TablesFit, TableFits
    <3>10. table2 \in Tables
      BY <3>9 DEF Tables
    <3>11. d2 \in Disks
      <4>1. \E t \in Tables : Table(table2) = Table(t)
        BY <3>10
      <4> HIDE DEF table2
      <4> QED BY <3>5, <3>9, <4>1, CellsAre
    <3>12. Writes(disk, d2, ts, Table(table2))
      BY <3>5, <3>9 DEF Writes
    <3> HIDE DEF r, d2
    <3> QED BY <2>2, <2>5, <3>8, <3>11, <3>12 DEF Removes
  <2> QED BY <2>4, <2>5
<1> QED BY <1>1, <1>3, <1>4

-----------------------------------------------------------------------------
(* Formatting.                                                             *)

\* There is room for one sector more.
LEMMA OneFits ==
  ASSUME NEW map \in SUBSET Sectors, NEW t \in Sectors \ map
  PROVE  1 \in Small /\ 1 <= Cardinality(Free(map))
<1>1. NumDirect \in Nat /\ NumDirect # 0
  BY DiskAssumption
<1>2. Free(map) \in SUBSET Sectors /\ t \in Free(map)
  BY DEF Free
<1>3. IsFiniteSet(Free(map)) /\ Cardinality(Free(map)) \in Nat /\ Cardinality(Free(map)) # 0
  BY <1>2, SectorsFinite, FS_EmptySet
<1> QED BY <1>1, <1>3 DEF Small

\* A formatted disk represents the empty tree.
LEMMA FormatIs == Init => Represents(disk, marked, {})
<1> SUFFICES ASSUME Init PROVE Represents(disk, marked, {})
  OBVIOUS
<1> DEFINE blank == [s \in Sectors |-> Zero]
           map == Allocate(blank, {FreeMapSector, DirectorySector}, 1)
           dir == Allocate(map.disk, map.marked, 1)
           headers == [dir.disk EXCEPT ![FreeMapSector] = map.hdr, ![DirectorySector] = dir.hdr]
<1>1. disk = WriteTable(headers, EmptyTable, DirectorySector) /\ marked = dir.marked
  BY DEF Init
<1>2. /\ FreeMapSector = 0 /\ DirectorySector = 1 /\ {0, 1, 2, 3} \subseteq Sectors
      /\ \A s \in Sectors : s \in Nat
  BY FormatAssumption, DiskAssumption DEF FreeMapSector, DirectorySector, Sectors
<1>3. PICK first \in SUBSET Sectors : first = {FreeMapSector, DirectorySector}
  BY <1>2
<1>4. 2 \in Sectors \ first
  BY <1>2, <1>3
<1> HIDE DEF blank
<1>5. PICK f : Allocated(map, blank, first, 1, f)
  <2>1. map = Allocate(blank, first, 1)
    BY <1>3
  <2>2. 1 \in Small /\ 1 <= Cardinality(Free(first))
    BY <1>4, OneFits
  <2> HIDE DEF map
  <2> QED BY <2>1, <2>2, AllocateIs
<1>6. /\ f \in [1..1 -> Sectors] /\ f[1] \in Sectors /\ f[1] \notin first
      /\ map.hdr = Header(1, Fill(f)) /\ map.marked = first \cup {f[1]}
  BY <1>5 DEF Allocated, New
<1>7. PICK second \in SUBSET Sectors : second = map.marked
  BY <1>6
<1>8. \E t \in Sectors \ second : TRUE
  <2>1. 2 \in Sectors /\ 3 \in Sectors /\ (2 \notin second \/ 3 \notin second)
    BY <1>2, <1>3, <1>6, <1>7
  <2> QED BY <2>1
<1>9. PICK g : Allocated(dir, map.disk, second, 1, g)
  <2>1. dir = Allocate(map.disk, second, 1)
    BY <1>7
  <2>2. 1 \in Small /\ 1 <= Cardinality(Free(second))
    BY <1>8, OneFits
  <2> HIDE DEF dir, map
  <2> QED BY <2>1, <2>2, AllocateIs
<1>10. /\ g \in [1..1 -> Sectors] /\ g[1] \in Sectors /\ g[1] \notin second
       /\ dir.hdr = Header(1, Fill(g)) /\ dir.marked = second \cup {g[1]}
  BY <1>9 DEF Allocated, New
<1>11. /\ map.disk = [s \in Sectors |-> IF s \in {f[i] : i \in 1..1} THEN Zero ELSE blank[s]]
       /\ dir.disk = [s \in Sectors |-> IF s \in {g[i] : i \in 1..1} THEN Zero ELSE map.disk[s]]
  BY <1>5, <1>9 DEF Allocated
<1>12. \A s \in Sectors : dir.disk[s] = Zero
  BY <1>11 DEF blank
<1>13. DOMAIN dir.disk = Sectors
  BY <1>11
<1> HIDE DEF map, dir
<1>14. blank \in Disks /\ dir.disk = blank
  <2>1. dir.disk = [s \in Sectors |-> dir.disk[s]]
    BY <1>11
  <2>2. dir.disk = blank
    BY <1>12, <2>1 DEF blank
  <2> QED BY <2>2 DEF Disks, blank, Zero, Data
<1>15. 1 \in Small
  BY <1>8, OneFits
<1>16. /\ Fill(f) \in [1..NumDirect -> Sectors \cup {None}] /\ Fill(f)[1] = f[1]
       /\ \A i \in 1..NumDirect : Fill(f)[i] = None <=> i > 1
  <2>1. PICK n \in Small : n = 1
    BY <1>15
  <2>2. f \in [1..n -> Sectors]
    BY <1>6, <2>1
  <2>3. /\ Fill(f) \in [1..NumDirect -> Sectors \cup {None}]
        /\ \A i \in 1..n : Fill(f)[i] = f[i]
        /\ \A i \in 1..NumDirect : Fill(f)[i] = None <=> i > n
    BY <2>2, FillIs
  <2> QED BY <2>1, <2>3
<1>17. /\ Fill(g) \in [1..NumDirect -> Sectors \cup {None}] /\ Fill(g)[1] = g[1]
       /\ \A i \in 1..NumDirect : Fill(g)[i] = None <=> i > 1
  <2>1. PICK n \in Small : n = 1
    BY <1>15
  <2>2. g \in [1..n -> Sectors]
    BY <1>10, <2>1
  <2>3. /\ Fill(g) \in [1..NumDirect -> Sectors \cup {None}]
        /\ \A i \in 1..n : Fill(g)[i] = g[i]
        /\ \A i \in 1..NumDirect : Fill(g)[i] = None <=> i > n
    BY <2>2, FillIs
  <2> QED BY <2>1, <2>3
<1>18. headers \in Disks
  <2>1. \E n \in Small, h \in [1..NumDirect -> Sectors \cup {None}] : map.hdr = Header(n, h)
    BY <1>6, <1>15, <1>16
  <2>2. \E n \in Small, h \in [1..NumDirect -> Sectors \cup {None}] : dir.hdr = Header(n, h)
    BY <1>10, <1>15, <1>17
  <2>3. dir.disk \in Disks
    BY <1>14
  <2>4. [dir.disk EXCEPT ![FreeMapSector] = map.hdr] \in Disks
    BY <1>2, <2>1, <2>3, CellsAre
  <2>5. [[dir.disk EXCEPT ![FreeMapSector] = map.hdr] EXCEPT ![DirectorySector] = dir.hdr] \in Disks
    BY <1>2, <2>2, <2>4, CellsAre
  <2> QED BY <2>5
<1>19. /\ headers[FreeMapSector] = Header(1, Fill(f)) /\ headers[DirectorySector] = Header(1, Fill(g))
       /\ DOMAIN headers = Sectors
  BY <1>2, <1>6, <1>10, <1>13
<1> HIDE DEF headers
<1>20. HeaderAt(headers, DirectorySector) /\ headers[DirectorySector].size = 1
       /\ headers[DirectorySector].data[1] = g[1]
  BY <1>15, <1>17, <1>19 DEF HeaderAt, Header
<1>21. disk = [headers EXCEPT ![g[1]] = Table(EmptyTable)]
  <2>1. DirectorySector \in Sectors
    BY <1>2
  <2>2. WriteTable(headers, EmptyTable, DirectorySector) =
          [headers EXCEPT ![headers[DirectorySector].data[1]] = Table(EmptyTable)]
    BY <1>20, <2>1, TableAt
  <2> QED BY <1>1, <1>20, <2>2
<1>22. EmptyTable \in Tables
  BY DEF EmptyTable, Tables
<1>23. disk \in Disks
  <2>1. \E t \in Tables : Table(EmptyTable) = Table(t)
    BY <1>22
  <2> QED BY <1>10, <1>18, <1>21, <2>1, CellsAre
<1>24. f[1] # g[1] /\ f[1] \notin {0, 1} /\ g[1] \notin {0, 1}
  BY <1>2, <1>3, <1>6, <1>7, <1>10
<1>25. /\ disk[0] = Header(1, Fill(f)) /\ disk[1] = Header(1, Fill(g))
       /\ disk[g[1]] = Table(EmptyTable)
  BY <1>2, <1>10, <1>19, <1>21, <1>24
<1>26. /\ disk[0].size = 1 /\ disk[0].data[1] = f[1] /\ HeaderAt(disk, 0)
       /\ disk[1].size = 1 /\ disk[1].data[1] = g[1] /\ HeaderAt(disk, 1)
  BY <1>15, <1>16, <1>17, <1>25 DEF HeaderAt, Header
<1>27. Headers({}) = {0, 1} /\ Directories({}) = {Root} /\ Root.sector = 1
  BY <1>2, RootIs DEF Headers, Directories
<1>28. TableOf(disk, Root) = EmptyTable
  BY <1>2, <1>25, <1>26, <1>27, TableAt DEF TableOf, Table
<1>29. TablesFit(disk, {})
  <2>1. TableFits(EmptyTable, Root, {})
    BY <1>22 DEF TableFits, EmptyTable, Unused
  <2> QED BY <1>26, <1>27, <1>28, <2>1 DEF TablesFit
<1>30. OwnedApart(disk, {0, 1})
  <2> SUFFICES ASSUME NEW s \in {0, 1}, NEW t \in {0, 1}, NEW i \in 1..disk[s].size, NEW j \in 1..disk[t].size
               PROVE  /\ disk[s].data[i] = disk[t].data[j] => s = t /\ i = j
                      /\ disk[s].data[i] \notin {0, 1}
    BY DEF OwnedApart
  <2>1. i = 1 /\ j = 1
    BY <1>26
  <2> QED BY <1>24, <1>26, <2>1
<1>31. Marks(disk, marked, {0, 1})
  <2>1. marked = {0, 1, f[1], g[1]}
    BY <1>1, <1>2, <1>3, <1>6, <1>7, <1>10
  <2>2. DataOf(disk, 0) = {f[1]} /\ DataOf(disk, 1) = {g[1]}
    BY <1>26 DEF DataOf
  <2>3. UNION {DataOf(disk, s) : s \in {0, 1}} = DataOf(disk, 0) \cup DataOf(disk, 1)
    OBVIOUS
  <2> QED BY <2>1, <2>2, <2>3 DEF Marks
<1>32. NodesTyped({}) /\ HeadersFit(disk, {}) /\ Placed(disk, {})
  BY <1>26, <1>27 DEF NodesTyped, HeadersFit, Placed
<1> QED BY <1>23, <1>27, <1>29, <1>30, <1>31, <1>32 DEF Represents

-----------------------------------------------------------------------------
(* What the files hold.                                                    *)

ContentsOf(d, s) == [i \in 1..d[s].size |-> d[d[s].data[i]]]

\* The file or directory n, as the tree has it.
Item(d, n) ==
  [path |-> n.path, isDir |-> n.isDir, data |-> IF n.isDir THEN <<>> ELSE ContentsOf(d, n.sector)]

\* The data of a file, as the properties read it.
LEMMA ContentsAre ==
  ASSUME NEW d, NEW map, NEW nodes, Represents(d, map, nodes), NEW n \in nodes
  PROVE  LET data == Blocks(d, FetchFrom(d, n.sector))
         IN  [i \in 1..Len(data) |-> d[data[i]]] = ContentsOf(d, n.sector)
<1>1. n.sector \in Sectors /\ HeaderAt(d, n.sector)
  <2>1. n.sector \in Headers(nodes)
    BY DEF Headers
  <2> QED BY <2>1, Owners
<1>2. /\ Len(Blocks(d, FetchFrom(d, n.sector))) = d[n.sector].size
      /\ \A i \in 1..d[n.sector].size : Blocks(d, FetchFrom(d, n.sector))[i] = d[n.sector].data[i]
  BY <1>1, BlocksAre
<1> QED BY <1>2 DEF ContentsOf

\* The tree of the refinement, from the nodes.
LEMMA TreeIs ==
  ASSUME Represents(disk, marked, Nodes)
  PROVE  Tree = {Item(disk, n) : n \in Nodes}
<1>1. PICK nodes : nodes = Nodes
  OBVIOUS
<1>2. ASSUME NEW n \in nodes PROVE Contents(n.sector) = ContentsOf(disk, n.sector)
  BY <1>1, ContentsAre DEF Contents
<1>3. Tree = {Item(disk, n) : n \in nodes}
  BY <1>1, <1>2 DEF Tree, Item
<1> QED BY <1>1, <1>3

\* The same after a step.
LEMMA TreeNext ==
  ASSUME Represents(disk, marked, Nodes)'
  PROVE  Tree' = {Item(disk', n) : n \in Nodes'}
<1>1. PICK nodes : nodes = Nodes'
  OBVIOUS
<1>2. ASSUME NEW n \in nodes PROVE Contents(n.sector)' = ContentsOf(disk', n.sector)
  BY <1>1, ContentsAre DEF Contents
<1>3. Tree' = {Item(disk', n) : n \in nodes}
  BY <1>1, <1>2 DEF Tree, Item
<1> QED BY <1>1, <1>3

\* A file keeps what it holds, when what is written is outside its sectors.
LEMMA ItemKept ==
  ASSUME NEW d, NEW map, NEW nodes, Represents(d, map, nodes), NEW n \in nodes,
         NEW u \in Headers(nodes), NEW k \in 1..d[u].size, n.isDir \/ n.sector # u,
         NEW d2, \A t \in map : t = d[u].data[k] \/ d2[t] = d[t]
  PROVE  Item(d2, n) = Item(d, n)
<1>1. n.sector \in Headers(nodes)
  BY DEF Headers
<1>2. d2[n.sector] = d[n.sector]
  BY <1>1, Owners
<1>3. CASE n.isDir
  BY <1>3 DEF Item
<1>4. CASE ~n.isDir
  <2>1. ASSUME NEW j \in 1..d[n.sector].size PROVE d2[d[n.sector].data[j]] = d[d[n.sector].data[j]]
    <3>1. d[n.sector].data[j] \in map /\ d[n.sector].data[j] # d[u].data[k]
      BY <1>1, <1>4, Owners
    <3> QED BY <3>1
  <2>2. ContentsOf(d2, n.sector) = ContentsOf(d, n.sector)
    BY <1>2, <2>1 DEF ContentsOf
  <2> QED BY <2>2 DEF Item
<1> QED BY <1>3, <1>4

-----------------------------------------------------------------------------
(* What a step does to the tree.                                           *)

Grows(path, size, isDir) ==
  \E new \in [path : {path}, sector : Sectors, isDir : {isDir}], dir \in Directories(Nodes), x \in Names :
    /\ path = Append(dir.path, x) /\ \A n \in Nodes : n.path # path
    /\ Represents(disk', marked', Nodes \cup {new}) /\ Nodes' = Nodes \cup {new}
    /\ \A n \in Nodes : Item(disk', n) = Item(disk, n)
    /\ ~isDir => ContentsOf(disk', new.sector) = [i \in 1..size |-> Zero]
    /\ UNCHANGED <<opened, opfile>>

Shrinks(path) ==
  \E n \in Nodes :
    /\ n.path = path /\ ~n.isDir
    /\ Represents(disk', marked', Nodes \ {n}) /\ Nodes' = Nodes \ {n}
    /\ \A m \in Nodes \ {n} : Item(disk', m) = Item(disk, m)
    /\ UNCHANGED <<opened, opfile>>

Overwrites(value) ==
  \E n \in Nodes : \E k \in 1..disk[n.sector].size :
    /\ ~n.isDir
    /\ Represents(disk', marked', Nodes) /\ Nodes' = Nodes
    /\ \A m \in Nodes \ {n} : Item(disk', m) = Item(disk, m)
    /\ disk[n.sector].data[k] \in Sectors
    /\ ContentsOf(disk', n.sector) = [ContentsOf(disk, n.sector) EXCEPT ![k] = Data(value)]

\* Create and CreateDir, as steps.
LEMMA CreateStep ==
  ASSUME PlainCalls, Represents(disk, marked, Nodes), NEW path \in Paths, Calls(path),
         NEW size \in Small, NEW isDir \in BOOLEAN, isDir => size = 1,
         Becomes(Creation(path, size, isDir))
  PROVE  UNCHANGED vars \/ Grows(path, size, isDir)
<1>1. HasParent(path)
  BY DEF PlainCalls, Calls
<1>2. PICK nodes : nodes = Nodes
  OBVIOUS
<1>3. PICK r : r = Creation(path, size, isDir)
  OBVIOUS
<1>4. Represents(disk, marked, nodes)
  BY <1>2
<1>5. r = Fails \/ Creates(r, path, size, isDir, nodes)
  <2>1. Creation(path, size, isDir) = Fails \/ Creates(Creation(path, size, isDir), path, size, isDir, nodes)
    BY <1>1, <1>4, CreationIs
  <2> QED BY <1>3, <2>1
<1>6. Becomes(r)
  BY <1>3
<1>7. CASE r = Fails
  <2>1. r.disk = disk /\ r.marked = marked /\ r.dies = FALSE
    BY <1>7 DEF Fails, Left
  <2> QED BY <1>6, <2>1 DEF Becomes, vars
<1>8. CASE Creates(r, path, size, isDir, nodes)
  <2>1. PICK new \in [path : {path}, sector : Sectors, isDir : {isDir}], dir \in Directories(nodes),
             x \in Names, i \in Slots, f \in [1..size -> Sectors] :
          /\ path = Append(dir.path, x) /\ \A n \in nodes : n.path # path
          /\ AddsNode(disk, r.disk, marked, dir, i, new, x, f)
          /\ r.disk \in Disks /\ r.disk[new.sector].size = size /\ DOMAIN f = 1..size
          /\ r.marked = marked \cup {new.sector} \cup Taken(f)
          /\ r.dies = FALSE
    BY <1>8 DEF Creates
  <2>2. disk' = r.disk /\ marked' = r.marked /\ UNCHANGED <<opened, opfile>>
    BY <1>6, <2>1 DEF Becomes
  <2>3. PICK d2 \in Disks : d2 = r.disk
    BY <2>1
  <2>4. AddsNode(disk, d2, marked, dir, i, new, x, f)
    BY <2>1, <2>3
  <2>5. new \in [path : Paths, sector : Sectors, isDir : BOOLEAN] /\ new.path = path /\ new.isDir = isDir
    BY <2>1
  <2>6. Represents(d2, marked \cup {new.sector} \cup Taken(f), nodes \cup {new})
    <3>1. new.path = Append(dir.path, x) /\ \A n \in nodes : n.path # new.path
      BY <2>1, <2>5
    <3>2. dir \in Directories(nodes) /\ x \in Names /\ i \in Slots
      BY <2>1
    <3> QED BY <1>4, <2>3, <2>4, <2>5, <3>1, <3>2, AddNode
  <2>7. Represents(disk', marked', nodes \cup {new})
    BY <2>1, <2>2, <2>3, <2>6
  <2>8. NodesOn(disk') = nodes \cup {new}
    BY <2>7, NodesAre
  <2>9. Nodes' = nodes \cup {new}
    BY <2>8 DEF Nodes
  <2>10. /\ dir.sector \in Headers(nodes) /\ 1 \in 1..disk[dir.sector].size
         /\ marked \subseteq Sectors
    <3>1. dir.sector \in Headers(nodes)
      BY <1>4, DirectoriesAre DEF Represents
    <3> QED BY <1>4, <3>1, TableIs, Owners
  <2>11. PICK n \in Small : New(f, n, Sectors \ (marked \cup {new.sector})) /\ d2[new.sector] = Header(n, Fill(f))
    BY <2>4 DEF AddsNode
  <2>12. n = size /\ f \in [1..n -> Sectors] /\ \A k \in 1..n : f[k] \notin marked
    BY <2>1, <2>3, <2>11 DEF New, Header
  <2>13. \A t \in marked : t = disk[dir.sector].data[1] \/ d2[t] = disk[t]
    BY <2>4, <2>10, <2>12 DEF AddsNode
  <2>14. ASSUME NEW m \in nodes PROVE Item(d2, m) = Item(disk, m)
    <3>1. m.isDir \/ m.sector # dir.sector
      <4>1. m \in Directories(nodes) \/ m.sector # dir.sector
        BY <1>4, RootIs, DirectoriesAre DEF Directories, Represents, NodesTyped
      <4> QED BY <4>1, <1>4, DirectoriesAre DEF Represents
    <3> QED BY <1>4, <2>10, <2>13, <3>1, ItemKept
  <2>15. ContentsOf(d2, new.sector) = [k \in 1..size |-> Zero]
    <3>1. d2[new.sector].size = size /\ d2[new.sector].data = Fill(f)
      BY <2>11, <2>12 DEF Header
    <3>2. ASSUME NEW k \in 1..size PROVE d2[Fill(f)[k]] = Zero
      <4>1. Fill(f)[k] = f[k]
        BY <2>12, FillIs
      <4> QED BY <2>1, <2>4, <4>1 DEF AddsNode
    <3> QED BY <3>1, <3>2 DEF ContentsOf
  <2>16. Grows(path, size, isDir)
    BY <1>2, <2>1, <2>2, <2>3, <2>7, <2>9, <2>14, <2>15 DEF Grows
  <2> QED BY <2>16
<1> QED BY <1>5, <1>7, <1>8

\* Remove, as a step.
LEMMA RemoveStep ==
  ASSUME PlainCalls, Represents(disk, marked, Nodes), NEW path \in Paths, Calls(path),
         NEW recursive \in Recursives, Becomes(Removal(path, recursive))
  PROVE  UNCHANGED vars \/ Shrinks(path)
<1>1. HasParent(path) /\ recursive = FALSE
  BY DEF PlainCalls, Calls
<1>2. PICK nodes : nodes = Nodes
  OBVIOUS
<1>3. PICK r : r = Removal(path, FALSE)
  OBVIOUS
<1>4. Represents(disk, marked, nodes)
  BY <1>2
<1>5. r = Fails \/ Removes(r, path, nodes)
  <2>1. Removal(path, FALSE) = Fails \/ Removes(Removal(path, FALSE), path, nodes)
    BY <1>1, <1>4, RemovalIs
  <2> QED BY <1>3, <2>1
<1>6. Becomes(r)
  BY <1>1, <1>3
<1>7. CASE r = Fails
  <2>1. r.disk = disk /\ r.marked = marked /\ r.dies = FALSE
    BY <1>7 DEF Fails, Left
  <2> QED BY <1>6, <2>1 DEF Becomes, vars
<1>8. CASE Removes(r, path, nodes)
  <2>1. PICK n \in nodes, dir \in Directories(nodes), i \in Slots :
          /\ n.path = path /\ ~n.isDir /\ Holds(TableOf(disk, dir), dir, i, n)
          /\ r.disk \in Disks
          /\ Writes(disk, r.disk, disk[dir.sector].data[1], Table([TableOf(disk, dir) EXCEPT ![i] = Unused]))
          /\ r.marked = (marked \ DataOf(disk, n.sector)) \ {n.sector}
          /\ r.dies = FALSE
    BY <1>8 DEF Removes
  <2>2. disk' = r.disk /\ marked' = r.marked /\ UNCHANGED <<opened, opfile>>
    BY <1>6, <2>1 DEF Becomes
  <2>3. PICK d2 \in Disks : d2 = r.disk
    BY <2>1
  <2>4. Writes(disk, d2, disk[dir.sector].data[1], Table([TableOf(disk, dir) EXCEPT ![i] = Unused]))
    BY <2>1, <2>3
  <2>5. Represents(d2, (marked \ DataOf(disk, n.sector)) \ {n.sector}, nodes \ {n})
    BY <1>4, <2>1, <2>4, RemoveNode
  <2>6. Represents(disk', marked', nodes \ {n})
    BY <2>1, <2>2, <2>3, <2>5
  <2>7. NodesOn(disk') = nodes \ {n}
    BY <2>6, NodesAre
  <2>8. Nodes' = nodes \ {n}
    BY <2>7 DEF Nodes
  <2>9. /\ dir.sector \in Headers(nodes) /\ 1 \in 1..disk[dir.sector].size
        /\ marked \subseteq Sectors
    <3>1. dir.sector \in Headers(nodes)
      BY <1>4, DirectoriesAre DEF Represents
    <3> QED BY <1>4, <3>1, TableIs, Owners
  <2>10. \A t \in marked : t = disk[dir.sector].data[1] \/ d2[t] = disk[t]
    BY <2>4, <2>9 DEF Writes
  <2>11. ASSUME NEW m \in nodes PROVE Item(d2, m) = Item(disk, m)
    <3>1. m.isDir \/ m.sector # dir.sector
      <4>1. m \in Directories(nodes) \/ m.sector # dir.sector
        BY <1>4, RootIs, DirectoriesAre DEF Directories, Represents, NodesTyped
      <4> QED BY <4>1, <1>4, DirectoriesAre DEF Represents
    <3> QED BY <1>4, <2>9, <2>10, <3>1, ItemKept
  <2>12. Shrinks(path)
    BY <1>2, <2>1, <2>2, <2>3, <2>6, <2>8, <2>11 DEF Shrinks
  <2> QED BY <2>12
<1> QED BY <1>5, <1>7, <1>8

\* The block at the seek position of an open file.
LEMMA BlockIs ==
  ASSUME NEW nodes, Represents(disk, marked, nodes), NEW n \in nodes, NEW f, f.file = n.sector,
         f.seek \in Nat, InFile(f)
  PROVE  f.seek + 1 \in 1..disk[n.sector].size /\ Block(f) = disk[n.sector].data[f.seek + 1]
<1>1. n.sector \in Sectors /\ HeaderAt(disk, n.sector)
  <2>1. n.sector \in Headers(nodes)
    BY DEF Headers
  <2> QED BY <2>1, Owners
<1>2. FetchFrom(disk, n.sector) = disk[n.sector] /\ disk[n.sector].size \in Nat
  BY <1>1, HeaderIs
<1>3. f.seek < disk[n.sector].size
  BY <1>2 DEF InFile
<1>4. ByteToSector(disk, FetchFrom(disk, n.sector), f.seek) = disk[n.sector].data[f.seek + 1]
  BY <1>1, ByteToSectorIs
<1> QED BY <1>2, <1>3, <1>4 DEF Block

\* Write, as a step.
LEMMA WriteStep ==
  ASSUME Represents(disk, marked, Nodes), NEW f, NEW n \in Nodes, ~n.isDir, f.file = n.sector,
         f.seek \in Nat, InFile(f), NEW value \in Values,
         disk' = [disk EXCEPT ![Block(f)] = Data(value)], marked' = marked
  PROVE  Overwrites(value)
<1>1. PICK nodes : nodes = Nodes
  OBVIOUS
<1>2. Represents(disk, marked, nodes) /\ n \in nodes
  BY <1>1
<1>3. PICK k \in 1..disk[n.sector].size : Block(f) = disk[n.sector].data[k]
  BY <1>2, BlockIs
<1> DEFINE at == disk[n.sector].data[k]
<1>4. /\ n.sector \in Headers(nodes) /\ at \in Sectors /\ at \in marked /\ disk \in Disks
      /\ marked \subseteq Sectors
  <2>1. n.sector \in Headers(nodes)
    BY <1>2 DEF Headers
  <2> QED BY <1>2, <2>1, Owners DEF Represents
<1>5. PICK d2 \in Disks : d2 = [disk EXCEPT ![at] = Data(value)]
  <2>1. \E v \in Values \cup {0} : Data(value) = Data(v)
    OBVIOUS
  <2> QED BY <1>4, <2>1, CellsAre
<1>6. disk' = d2
  BY <1>3, <1>5
<1>7. DOMAIN disk = Sectors
  BY <1>4 DEF Disks
<1>8. Writes(disk, d2, at, Data(value))
  BY <1>4, <1>5, <1>7 DEF Writes
<1>9. Represents(d2, marked, nodes)
  BY <1>2, <1>8, WriteNode
<1>10. NodesOn(d2) = nodes
  BY <1>9, NodesAre
<1>11. Nodes' = nodes
  BY <1>6, <1>10 DEF Nodes
<1>12. \A t \in marked : t = at \/ d2[t] = disk[t]
  BY <1>4, <1>8 DEF Writes
<1>13. ASSUME NEW m \in nodes \ {n} PROVE Item(d2, m) = Item(disk, m)
  <2>1. m.sector # n.sector
    BY <1>2 DEF Represents, NodesTyped
  <2> QED BY <1>2, <1>4, <1>12, <2>1, ItemKept
<1>14. ContentsOf(d2, n.sector) = [ContentsOf(disk, n.sector) EXCEPT ![k] = Data(value)]
  <2> DEFINE h == disk[n.sector]
  <2>1. d2[n.sector] = h
    <3>1. n.sector \in Sectors /\ n.sector # at
      BY <1>2, <1>4, Owners
    <3> QED BY <1>8, <3>1 DEF Writes
  <2>2. ASSUME NEW j \in 1..h.size PROVE d2[h.data[j]] = IF j = k THEN Data(value) ELSE disk[h.data[j]]
    <3>1. h.data[j] \in Sectors /\ (h.data[j] = at => j = k)
      BY <1>2, <1>4, Owners
    <3> QED BY <1>8, <3>1 DEF Writes
  <2> HIDE DEF h
  <2>3. ContentsOf(d2, n.sector) = [j \in 1..h.size |-> IF j = k THEN Data(value) ELSE disk[h.data[j]]]
    BY <2>1, <2>2 DEF ContentsOf
  <2>4. ContentsOf(disk, n.sector) = [j \in 1..h.size |-> disk[h.data[j]]]
    BY DEF ContentsOf, h
  <2> QED BY <2>3, <2>4
<1> QED BY <1>1, <1>2, <1>4, <1>6, <1>9, <1>11, <1>13, <1>14 DEF Overwrites

-----------------------------------------------------------------------------
(* The invariant.                                                          *)

Handles ==
  /\ opened \in [Ids -> [file : Int, seek : Nat]] /\ opfile \in Ids \cup {Nil}
  /\ opfile # Nil => opened[opfile] # Closed

\* A program has files open, and no directories.
OpensFiles ==
  \A id \in Ids : opened[id] = Closed \/ \E n \in Nodes : ~n.isDir /\ opened[id].file = n.sector

FileInv == Represents(disk, marked, Nodes) /\ Handles /\ OpensFiles

\* At first the tree is empty.
LEMMA InitRepresents == Init => Represents(disk, marked, Nodes) /\ Nodes = {}
<1> SUFFICES ASSUME Init PROVE Represents(disk, marked, Nodes) /\ Nodes = {}
  OBVIOUS
<1>1. PICK nodes : nodes = {}
  OBVIOUS
<1>2. Represents(disk, marked, nodes)
  BY <1>1, FormatIs
<1>3. Nodes = nodes
  BY <1>2, NodesAre DEF Nodes
<1> QED BY <1>1, <1>2, <1>3

\* At first all is in order.
LEMMA InitFileInv == Init => FileInv
<1> SUFFICES ASSUME Init PROVE FileInv
  OBVIOUS
<1>1. opened = [id \in Ids |-> Closed] /\ opfile = Nil
  BY DEF Init
<1>2. Closed \in [file : Int, seek : Nat]
  BY DEF Closed, None
<1>3. Handles /\ OpensFiles
  BY <1>1, <1>2 DEF Handles, OpensFiles
<1> QED BY <1>3, InitRepresents DEF FileInv

\* The files that are open stay in the tree, when it only grows.
LEMMA StillOpen ==
  ASSUME Handles, OpensFiles, UNCHANGED <<opened, opfile>>, Nodes \subseteq Nodes'
  PROVE  Handles' /\ OpensFiles'
BY DEF Handles, OpensFiles

\* The sizes of directories and files.
LEMMA SizesAre == 1 \in Small /\ (PlainCalls => \A size \in Sizes : size \in Small)
<1>1. 1 \in Small
  BY DiskAssumption DEF Small
<1>2. PlainCalls => \A size \in Sizes : size \in Small
  BY DEF PlainCalls
<1> QED BY <1>1, <1>2

\* Create changes nothing, or adds a file.
LEMMA CreateIs ==
  ASSUME PlainCalls, FileInv, NEW path \in Paths, NEW size \in Sizes, Create(path, size)
  PROVE  UNCHANGED vars \/ Grows(path, size, FALSE)
<1>1. PICK isDir \in BOOLEAN : isDir = FALSE
  OBVIOUS
<1>2. Calls(path) /\ Becomes(Creation(path, size, isDir))
  BY <1>1 DEF Create
<1>3. UNCHANGED vars \/ Grows(path, size, isDir)
  BY <1>1, <1>2, SizesAre, CreateStep DEF FileInv
<1> QED BY <1>1, <1>3

\* CreateDir changes nothing, or adds a directory.
LEMMA CreateDirIs ==
  ASSUME PlainCalls, FileInv, NEW path \in Paths, CreateDir(path)
  PROVE  UNCHANGED vars \/ Grows(path, 1, TRUE)
<1>1. PICK isDir \in BOOLEAN : isDir = TRUE
  OBVIOUS
<1>2. PICK size \in Small : size = 1
  BY SizesAre
<1>3. Calls(path) /\ Becomes(Creation(path, size, isDir))
  BY <1>1, <1>2 DEF CreateDir
<1>4. UNCHANGED vars \/ Grows(path, size, isDir)
  BY <1>1, <1>2, <1>3, CreateStep DEF FileInv
<1> QED BY <1>1, <1>2, <1>4

\* RemoveFile changes nothing, or takes a file away.
LEMMA RemoveIs ==
  ASSUME PlainCalls, FileInv, NEW path \in Paths, NEW recursive \in Recursives, RemoveFile(path, recursive)
  PROVE  UNCHANGED vars \/ Shrinks(path)
BY RemoveStep DEF FileInv, RemoveFile

\* Write changes one place of the open file.
LEMMA WriteIs ==
  ASSUME FileInv, NEW id \in Ids, NEW value \in Values, Write(id, value)
  PROVE  Overwrites(value)
<1>1. opfile \in Ids /\ opened[opfile] # Closed /\ opened[opfile].seek \in Nat
  BY DEF FileInv, Handles, Write
<1>2. PICK n \in Nodes : ~n.isDir /\ opened[opfile].file = n.sector
  BY <1>1 DEF FileInv, OpensFiles
<1>3. PICK f : f = opened[opfile]
  OBVIOUS
<1>4. /\ InFile(f) /\ disk' = [disk EXCEPT ![Block(f)] = Data(value)] /\ marked' = marked
  BY <1>3 DEF Write
<1>5. f.file = n.sector /\ f.seek \in Nat
  BY <1>1, <1>2, <1>3
<1> QED BY <1>2, <1>4, <1>5, WriteStep DEF FileInv

\* Open opens the file of its path.
LEMMA OpenIs ==
  ASSUME PlainCalls, FileInv, NEW path \in Paths, NEW id \in Ids, Open(id, path)
  PROVE  \E n \in Nodes : n.path = path /\ ~n.isDir /\ opened'[id].file = n.sector
<1>1. HasParent(path) /\ ~NamesDirectory(path) /\ OpenSector(path) # None
  BY DEF PlainCalls, Open, Calls
<1>2. PICK nodes : nodes = Nodes
  OBVIOUS
<1>3. Represents(disk, marked, nodes)
  BY <1>2 DEF FileInv
<1>4. PICK n \in nodes : n.path = path /\ ~n.isDir /\ OpenSector(path) = n.sector
  BY <1>1, <1>3, WalkOpens
<1>5. opened'[id].file = OpenSector(path)
  BY DEF Open, FileInv, Handles
<1> QED BY <1>2, <1>4, <1>5

\* What no call of a program changes on disk.
LEMMA SameDisk ==
  ASSUME FileInv, UNCHANGED <<disk, marked>>
  PROVE  Represents(disk, marked, Nodes)' /\ Nodes' = Nodes
<1>1. Nodes' = Nodes
  BY DEF Nodes
<1> QED BY <1>1 DEF FileInv

\* Each step keeps the invariant.
LEMMA NextFileInv == PlainCalls /\ FileInv /\ [Next]_vars => FileInv'
<1> SUFFICES ASSUME PlainCalls, FileInv, [Next]_vars PROVE FileInv'
  OBVIOUS
<1>1. CASE UNCHANGED vars
  BY <1>1, SameDisk, StillOpen DEF FileInv, vars
<1>2. ASSUME NEW path \in Paths, NEW size, NEW isDir, Grows(path, size, isDir)
      PROVE  FileInv'
  <2>1. Nodes \subseteq Nodes' /\ Represents(disk, marked, Nodes)' /\ UNCHANGED <<opened, opfile>>
    BY <1>2 DEF Grows
  <2> QED BY <2>1, StillOpen DEF FileInv
<1>3. ASSUME NEW path \in Paths, NEW size \in Sizes, Create(path, size)
      PROVE  FileInv'
  BY <1>1, <1>2, <1>3, CreateIs
<1>4. ASSUME NEW path \in Paths, CreateDir(path)
      PROVE  FileInv'
  BY <1>1, <1>2, <1>4, CreateDirIs
<1>5. ASSUME NEW path \in Paths, NEW recursive \in Recursives, RemoveFile(path, recursive)
      PROVE  FileInv'
  <2>1. CASE Shrinks(path)
    <3>1. opened = NoneOpen /\ UNCHANGED <<opened, opfile>> /\ Represents(disk, marked, Nodes)'
      BY <1>5, <2>1 DEF RemoveFile, NoProgram, Shrinks
    <3>2. Handles'
      BY <3>1 DEF FileInv, Handles
    <3>3. OpensFiles'
      BY <3>1 DEF OpensFiles, NoneOpen
    <3> QED BY <3>1, <3>2, <3>3 DEF FileInv
  <2> QED BY <1>1, <1>5, <2>1, RemoveIs
<1>6. ASSUME NEW path \in Paths, NEW id \in Ids, Open(id, path)
      PROVE  FileInv'
  <2>1. PICK n \in Nodes : ~n.isDir /\ opened'[id].file = n.sector
    BY <1>6, OpenIs
  <2>2. PICK s \in Int : s = n.sector
    BY DiskAssumption DEF FileInv, Represents, NodesTyped, Sectors
  <2>3. opened' = [opened EXCEPT ![id] = [file |-> s, seek |-> 0]] /\ opfile' = id
    BY <1>6, <2>1, <2>2 DEF Open, FileInv, Handles
  <2>4. s # None /\ UNCHANGED <<disk, marked>>
    BY <2>2, SectorsAre, <1>6 DEF Open, FileInv, Represents, NodesTyped
  <2>5. Represents(disk, marked, Nodes)' /\ Nodes' = Nodes
    BY <2>4, SameDisk
  <2>6. Handles'
    BY <2>3, <2>4 DEF FileInv, Handles, Closed
  <2>7. OpensFiles'
    BY <2>1, <2>2, <2>3, <2>5 DEF FileInv, OpensFiles, Handles
  <2> QED BY <2>5, <2>6, <2>7 DEF FileInv
<1>7. ASSUME NEW path \in Paths, OpenFails(path)
      PROVE  FileInv'
  <2>1. Represents(disk, marked, Nodes)' /\ Nodes' = Nodes
    BY <1>7, SameDisk DEF OpenFails
  <2> QED BY <1>7, <2>1 DEF OpenFails, FileInv, Handles, OpensFiles
<1>8. ASSUME NEW id \in Ids, Seek, opfile # Nil, opfile' = opfile
      PROVE  Handles' /\ (Nodes' = Nodes => OpensFiles')
  <2>1. opfile \in Ids /\ opened[opfile] \in [file : Int, seek : Nat]
    BY <1>8 DEF FileInv, Handles
  <2>2. PICK f \in [file : Int, seek : Nat] : f.file = opened[opfile].file /\ opened' = [opened EXCEPT ![opfile] = f]
    <3>1. PICK f : f = [opened[opfile] EXCEPT !.seek = @ + 1]
      OBVIOUS
    <3>2. f \in [file : Int, seek : Nat] /\ f.file = opened[opfile].file
      BY <2>1, <3>1
    <3>3. opened' = [opened EXCEPT ![opfile] = f]
      BY <1>8, <3>1 DEF Seek
    <3> QED BY <3>2, <3>3
  <2>3. PICK n \in Nodes : ~n.isDir /\ f.file = n.sector
    BY <1>8, <2>1, <2>2 DEF FileInv, OpensFiles, Handles
  <2>4. f # Closed
    BY <2>3, SectorsAre DEF FileInv, Represents, NodesTyped, Closed
  <2>5. Handles'
    BY <1>8, <2>1, <2>2, <2>4 DEF FileInv, Handles
  <2>6. ASSUME Nodes' = Nodes PROVE OpensFiles'
    BY <2>1, <2>2, <2>3, <2>6 DEF FileInv, OpensFiles, Handles
  <2> QED BY <2>5, <2>6
<1>9. ASSUME NEW id \in Ids, Read(id)
      PROVE  FileInv'
  <2>1. Represents(disk, marked, Nodes)' /\ Nodes' = Nodes
    BY <1>9, SameDisk DEF Read
  <2> QED BY <1>8, <1>9, <2>1 DEF Read, FileInv
<1>10. ASSUME NEW id \in Ids, NEW value \in Values, Write(id, value)
       PROVE  FileInv'
  <2>1. Represents(disk, marked, Nodes)' /\ Nodes' = Nodes
    <3>1. Overwrites(value) /\ marked' = marked
      BY <1>10, WriteIs DEF Write
    <3> QED BY <3>1 DEF Overwrites
  <2> QED BY <1>8, <1>10, <2>1 DEF Write, FileInv
<1>11. ASSUME NEW id \in Ids, Close(id)
       PROVE  FileInv'
  <2>1. Represents(disk, marked, Nodes)' /\ Nodes' = Nodes
    BY <1>11, SameDisk DEF Close
  <2>2. Closed \in [file : Int, seek : Nat]
    BY DEF Closed, None
  <2> QED BY <1>11, <2>1, <2>2 DEF Close, FileInv, Handles, OpensFiles
<1>12. CASE Exit
  <2>1. Represents(disk, marked, Nodes)' /\ Nodes' = Nodes
    BY <1>12, SameDisk DEF Exit
  <2>2. Closed \in [file : Int, seek : Nat]
    BY DEF Closed, None
  <2> QED BY <1>12, <2>1, <2>2 DEF Exit, FileInv, Handles, OpensFiles, NoneOpen
<1> QED BY <1>1, <1>3, <1>4, <1>5, <1>6, <1>7, <1>9, <1>10, <1>11, <1>12 DEF Next

\* In every state the disk represents the tree that is on it.
THEOREM FileInvariant == ASSUME PlainCalls PROVE Spec => []FileInv
<1>1. FileInv /\ [Next]_vars => FileInv'
  BY NextFileInv
<1> QED BY <1>1, InitFileInv, PTL DEF Spec

-----------------------------------------------------------------------------
(* What the invariant says of the sectors.                                 *)

\* The bitmap's file, the root, and each file and directory, with its header.
Holders ==
  {[owner |-> <<0>>, sector |-> FreeMapSector], [owner |-> <<>>, sector |-> DirectorySector]}
  \cup {[owner |-> n.path, sector |-> n.sector] : n \in Nodes}

HeaderPart(o) == [owner |-> o.owner, part |-> -1, sector |-> o.sector]
DataPart(o, i) == [owner |-> o.owner, part |-> i, sector |-> disk[o.sector].data[i]]

\* What a header holds, when the file fits it.
LEMMA PartsAre ==
  ASSUME NEW owner, NEW s \in Sectors, HeaderAt(disk, s), NEW h
  PROVE  h \in Parts(owner, s) <=>
           \/ h = [owner |-> owner, part |-> -1, sector |-> s]
           \/ \E i \in 1..disk[s].size : h = [owner |-> owner, part |-> i, sector |-> disk[s].data[i]]
<1> DEFINE data == Blocks(disk, FetchFrom(disk, s))
<1>1. SubHeaders(disk, FetchFrom(disk, s)) = {}
  BY NoSubHeaders
<1>2. /\ data \in Seq(Sectors \cup {None}) /\ Len(data) = disk[s].size
      /\ \A i \in 1..disk[s].size : data[i] = disk[s].data[i]
  BY BlocksAre
<1>3. DOMAIN data = 1..disk[s].size
  BY <1>2
<1>4. Parts(owner, s) = {[owner |-> owner, part |-> -1, sector |-> s]}
        \cup {[owner |-> owner, part |-> i, sector |-> data[i]] : i \in DOMAIN data}
        \cup {[owner |-> owner, part |-> 0, sector |-> t] : t \in {}}
  BY <1>1 DEF Parts
<1> HIDE DEF data
<1> QED BY <1>2, <1>3, <1>4

\* The holders are the headers.
LEMMA HoldersAre ==
  ASSUME Represents(disk, marked, Nodes)
  PROVE  /\ {o.sector : o \in Holders} = Headers(Nodes)
         /\ \A o, p \in Holders : o.sector = p.sector => o = p
<1>1. NodesTyped(Nodes)
  BY DEF Represents
<1>2. PICK nodes : nodes = Nodes
  OBVIOUS
<1>3. ASSUME NEW u PROVE u \in {o.sector : o \in Holders} <=> u \in Headers(nodes)
  <2> DEFINE map == [owner |-> <<0>>, sector |-> FreeMapSector]
             root == [owner |-> <<>>, sector |-> DirectorySector]
             Holder(n) == [owner |-> n.path, sector |-> n.sector]
  <2>1. Holders = {map, root} \cup {Holder(n) : n \in nodes}
    BY <1>2 DEF Holders
  <2>2. map.sector = FreeMapSector /\ root.sector = DirectorySector /\ \A n \in nodes : Holder(n).sector = n.sector
    OBVIOUS
  <2> HIDE DEF map, root, Holder
  <2>3. ASSUME u \in Headers(nodes) PROVE \E o \in Holders : o.sector = u
    BY <2>1, <2>2, <2>3 DEF Headers
  <2>4. ASSUME NEW o \in Holders PROVE o.sector \in Headers(nodes)
    BY <2>1, <2>2 DEF Headers
  <2> QED BY <2>3, <2>4
<1>4. \A o, p \in Holders : o.sector = p.sector => o = p
  BY <1>1, <1>2, SectorsAre DEF Holders, NodesTyped
<1> QED BY <1>2, <1>3, <1>4

\* What each holder holds.
LEMMA HoldingsAre ==
  ASSUME Represents(disk, marked, Nodes), NEW h
  PROVE  h \in Holdings <=> \E o \in Holders :
           h = HeaderPart(o) \/ \E i \in 1..disk[o.sector].size : h = DataPart(o, i)
<1>1. ASSUME NEW o \in Holders
      PROVE  h \in Parts(o.owner, o.sector) <=>
               h = HeaderPart(o) \/ \E i \in 1..disk[o.sector].size : h = DataPart(o, i)
  <2>1. o.sector \in Headers(Nodes)
    BY HoldersAre
  <2>2. o.sector \in Sectors /\ HeaderAt(disk, o.sector)
    BY <2>1, Owners
  <2> QED BY <2>2, PartsAre DEF HeaderPart, DataPart
<1>2. PICK nodes : nodes = Nodes
  OBVIOUS
<1>3. h \in Holdings <=> \E o \in Holders : h \in Parts(o.owner, o.sector)
  <2> DEFINE map == [owner |-> <<0>>, sector |-> FreeMapSector]
             root == [owner |-> <<>>, sector |-> DirectorySector]
             Holder(n) == [owner |-> n.path, sector |-> n.sector]
  <2>1. Holders = {map, root} \cup {Holder(n) : n \in nodes}
    BY <1>2 DEF Holders
  <2>2. /\ map.owner = <<0>> /\ map.sector = FreeMapSector /\ root.owner = <<>> /\ root.sector = DirectorySector
        /\ \A n \in nodes : Holder(n).owner = n.path /\ Holder(n).sector = n.sector
    OBVIOUS
  <2> HIDE DEF map, root, Holder
  <2>3. Holdings = Parts(map.owner, map.sector) \cup Parts(root.owner, root.sector)
                   \cup UNION {Parts(n.path, n.sector) : n \in nodes}
    BY <1>2, <2>2 DEF Holdings
  <2>4. h \in Holdings <=> \/ h \in Parts(map.owner, map.sector) \/ h \in Parts(root.owner, root.sector)
                           \/ \E n \in nodes : h \in Parts(n.path, n.sector)
    BY <2>3
  <2>5. (\E n \in nodes : h \in Parts(n.path, n.sector))
        <=> \E n \in nodes : h \in Parts(Holder(n).owner, Holder(n).sector)
    BY <2>2
  <2> QED BY <2>1, <2>4, <2>5
<1> QED BY <1>1, <1>3

\* The sectors held are the headers and the data of the files.
LEMMA HeldIs ==
  ASSUME Represents(disk, marked, Nodes)
  PROVE  Held = marked
<1>1. marked = Headers(Nodes) \cup UNION {DataOf(disk, s) : s \in Headers(Nodes)}
  BY DEF Represents, Marks
<1>2. ASSUME NEW u \in Held PROVE u \in marked
  <2>1. PICK h \in Holdings : u = h.sector
    BY <1>2 DEF Held
  <2>2. PICK o \in Holders : h = HeaderPart(o) \/ \E i \in 1..disk[o.sector].size : h = DataPart(o, i)
    BY <2>1, HoldingsAre
  <2>3. o.sector \in Headers(Nodes)
    BY HoldersAre
  <2>4. CASE h = HeaderPart(o)
    BY <2>1, <2>3, <2>4, Owners DEF HeaderPart
  <2>5. CASE \E i \in 1..disk[o.sector].size : h = DataPart(o, i)
    BY <2>1, <2>3, <2>5, Owners DEF DataPart
  <2> QED BY <2>2, <2>4, <2>5
<1>3. ASSUME NEW u \in marked PROVE u \in Held
  <2>1. CASE u \in Headers(Nodes)
    <3>1. PICK o \in Holders : o.sector = u
      BY <2>1, HoldersAre
    <3>2. HeaderPart(o) \in Holdings
      BY HoldingsAre
    <3>3. HeaderPart(o).sector = u
      BY <3>1 DEF HeaderPart
    <3> QED BY <3>2, <3>3 DEF Held
  <2>2. ASSUME NEW s \in Headers(Nodes), u \in DataOf(disk, s) PROVE u \in Held
    <3>1. PICK o \in Holders : o.sector = s
      BY HoldersAre
    <3>2. PICK i \in 1..disk[o.sector].size : u = disk[o.sector].data[i]
      BY <2>2, <3>1 DEF DataOf
    <3>3. DataPart(o, i) \in Holdings
      BY HoldingsAre
    <3>4. DataPart(o, i).sector = u
      BY <3>2 DEF DataPart
    <3> QED BY <3>3, <3>4 DEF Held
  <2> QED BY <1>1, <1>3, <2>1, <2>2
<1> QED BY <1>2, <1>3

\* Two holdings are not in one sector.
LEMMA HeldApart ==
  ASSUME Represents(disk, marked, Nodes), NEW g \in Holdings, NEW h \in Holdings, g.sector = h.sector
  PROVE  g = h
<1>1. PICK o \in Holders : g = HeaderPart(o) \/ \E i \in 1..disk[o.sector].size : g = DataPart(o, i)
  BY HoldingsAre
<1>2. PICK p \in Holders : h = HeaderPart(p) \/ \E i \in 1..disk[p.sector].size : h = DataPart(p, i)
  BY HoldingsAre
<1>3. o.sector \in Headers(Nodes) /\ p.sector \in Headers(Nodes) /\ (o.sector = p.sector => o = p)
  BY HoldersAre
<1>4. CASE g = HeaderPart(o) /\ h = HeaderPart(p)
  BY <1>3, <1>4 DEF HeaderPart
<1>5. ASSUME NEW i \in 1..disk[o.sector].size, g = DataPart(o, i), h = HeaderPart(p) PROVE FALSE
  <2>1. disk[o.sector].data[i] \notin Headers(Nodes)
    BY <1>3, Owners
  <2> QED BY <1>3, <1>5, <2>1 DEF DataPart, HeaderPart
<1>6. ASSUME NEW i \in 1..disk[p.sector].size, h = DataPart(p, i), g = HeaderPart(o) PROVE FALSE
  <2>1. disk[p.sector].data[i] \notin Headers(Nodes)
    BY <1>3, Owners
  <2> QED BY <1>3, <1>6, <2>1 DEF DataPart, HeaderPart
<1>7. ASSUME NEW i \in 1..disk[o.sector].size, g = DataPart(o, i),
             NEW j \in 1..disk[p.sector].size, h = DataPart(p, j)
      PROVE  g = h
  <2>1. disk[o.sector].data[i] = disk[p.sector].data[j]
    BY <1>7 DEF DataPart
  <2>2. o.sector = p.sector /\ i = j
    BY <1>3, <2>1, Owners
  <2> QED BY <1>3, <1>7, <2>2
<1> QED BY <1>1, <1>2, <1>4, <1>5, <1>6, <1>7

\* There are as many holdings as sectors held.
LEMMA OwnedOnce ==
  ASSUME Represents(disk, marked, Nodes)
  PROVE  Cardinality(Held) = Cardinality(Holdings)
<1> DEFINE f == [h \in Holdings |-> h.sector]
<1>1. \A g, h \in Holdings : g.sector = h.sector => g = h
  BY HeldApart
<1>2. f \in [Holdings -> Held]
  BY DEF Held
<1>3. \A g, h \in Holdings : f[g] = f[h] => g = h
  BY <1>1
<1>4. \A u \in Held : \E h \in Holdings : f[h] = u
  BY DEF Held
<1> HIDE DEF f
<1>5. f \in Injection(Holdings, Held) /\ f \in Surjection(Holdings, Held)
  BY <1>2, <1>3, <1>4 DEF Injection, IsInjective, Surjection
<1>6. IsFiniteSet(Held)
  <2>1. Held \in SUBSET Sectors
    BY HeldIs, Owners DEF Headers
  <2> QED BY <2>1, SectorsFinite
<1>7. Cardinality(Holdings) = Cardinality(Held)
  BY <1>5, <1>6, FS_Injection
<1> QED BY <1>7

\* Types.
THEOREM TypeCorrect == ASSUME PlainCalls PROVE Spec => []TypeOK
<1>1. FileInv => TypeOK
  <2> SUFFICES ASSUME FileInv PROVE TypeOK
    OBVIOUS
  <2>1. disk \in Disks /\ marked \subseteq Sectors
    <3>1. FreeMapSector \in Headers(Nodes)
      BY DEF Headers
    <3> QED BY <3>1, Owners DEF FileInv, Represents
  <2>2. \A s \in Sectors : disk[s].kind \in {"data", "header", "table"}
    BY <2>1 DEF Disks
  <2>3. ASSUME NEW id \in Ids PROVE opened[id] = Closed \/ (opened[id].file \in Sectors /\ opened[id].seek \in Nat)
    BY DEF FileInv, Handles, OpensFiles, Represents, NodesTyped
  <2> QED BY <2>1, <2>2, <2>3 DEF TypeOK, FileInv, Handles
<1> QED BY <1>1, FileInvariant, PTL

\* No sector is in two files, or in two places of one.
THEOREM SectorsOwned == ASSUME PlainCalls PROVE Spec => []SectorsOwnedOnce
<1>1. FileInv => SectorsOwnedOnce
  BY OwnedOnce DEF FileInv, SectorsOwnedOnce
<1> QED BY <1>1, FileInvariant, PTL

\* The bitmap on disk marks what the files hold, and nothing else.
THEOREM FreeMapIsExact == ASSUME PlainCalls PROVE Spec => []FreeMapExact
<1>1. FileInv => FreeMapExact
  BY HeldIs DEF FileInv, FreeMapExact
<1> QED BY <1>1, FileInvariant, PTL

\* What a file holds is marked.
THEOREM OwnedMarked == ASSUME PlainCalls PROVE Spec => []OwnedAreMarked
<1>1. FileInv => OwnedAreMarked
  BY HeldIs DEF FileInv, OwnedAreMarked
<1> QED BY <1>1, FileInvariant, PTL

\* A file has the sectors its size says.
THEOREM FilesWhole == ASSUME PlainCalls PROVE Spec => []FilesAreWhole
<1>1. FileInv => FilesAreWhole
  <2> SUFFICES ASSUME FileInv, NEW n \in Nodes
               PROVE  Len(Blocks(disk, FetchFrom(disk, n.sector))) = FetchFrom(disk, n.sector).size
    BY DEF FilesAreWhole
  <2>1. n.sector \in Headers(Nodes)
    BY DEF Headers
  <2>2. n.sector \in Sectors /\ HeaderAt(disk, n.sector)
    BY <2>1, Owners DEF FileInv
  <2> QED BY <2>2, BlocksAre, HeaderIs
<1> QED BY <1>1, FileInvariant, PTL

\* Each call is about the path it is given.
THEOREM FollowsPath == ASSUME PlainCalls PROVE Spec => FollowsItsPath
<1>1. ASSUME FileInv
      PROVE  /\ \A n \in Nodes' \ Nodes, path \in Paths :
                  (CreateDir(path) \/ \E size \in Sizes : Create(path, size)) => n.path = path
             /\ \A path \in Paths \ {n.path : n \in Nodes}, recursive \in Recursives :
                  RemoveFile(path, recursive) => UNCHANGED <<disk, marked>>
             /\ \A id \in Ids, path \in Paths :
                  Open(id, path) => \E n \in Nodes : n.path = path /\ n.sector = opened'[id].file
  <2>1. ASSUME NEW path \in Paths, NEW size, NEW isDir, UNCHANGED vars \/ Grows(path, size, isDir),
               NEW n \in Nodes' \ Nodes
        PROVE  n.path = path
    <3>1. UNCHANGED vars => Nodes' = Nodes
      BY DEF vars, Nodes
    <3> QED BY <2>1, <3>1 DEF Grows
  <2>2. ASSUME NEW path \in Paths, NEW n \in Nodes' \ Nodes, CreateDir(path)
        PROVE  n.path = path
    BY <2>1, <2>2, <1>1, CreateDirIs
  <2>3. ASSUME NEW path \in Paths, NEW n \in Nodes' \ Nodes, NEW size \in Sizes, Create(path, size)
        PROVE  n.path = path
    BY <2>1, <2>3, <1>1, CreateIs
  <2>4. ASSUME NEW path \in Paths \ {n.path : n \in Nodes}, NEW recursive \in Recursives, RemoveFile(path, recursive)
        PROVE  UNCHANGED <<disk, marked>>
    BY <1>1, <2>4, RemoveIs DEF Shrinks, vars
  <2>5. ASSUME NEW id \in Ids, NEW path \in Paths, Open(id, path)
        PROVE  \E n \in Nodes : n.path = path /\ n.sector = opened'[id].file
    BY <1>1, <2>5, OpenIs
  <2> QED BY <2>2, <2>3, <2>4, <2>5
<1> QED BY <1>1, FileInvariant, PTL DEF FollowsItsPath

-----------------------------------------------------------------------------
(* The tree that is implemented.                                           *)

Leads(p, q) == Len(p) <= Len(q) /\ \A i \in 1..Len(p) : p[i] = q[i]

\* IsPrefix, name by name.
LEMMA LeadsIs ==
  ASSUME NEW p \in Seq(Names), NEW q \in Seq(Names)
  PROVE  T!IsPrefix(p, q) <=> Leads(p, q)
<1>1. Len(p) \in Nat /\ Len(q) \in Nat
  OBVIOUS
<1>2. ASSUME Len(p) <= Len(q)
      PROVE  /\ Len(SubSeq(p, 1, Len(p))) = Len(p) /\ Len(SubSeq(q, 1, Len(p))) = Len(p)
             /\ SubSeq(p, 1, Len(p)) \in Seq(Names) /\ SubSeq(q, 1, Len(p)) \in Seq(Names)
             /\ \A i \in 1..Len(p) : SubSeq(p, 1, Len(p))[i] = p[i] /\ SubSeq(q, 1, Len(p))[i] = q[i]
  BY <1>1, <1>2
<1> QED BY <1>1, <1>2 DEF T!IsPrefix, Leads

\* Nothing is below a file.
LEMMA NothingBelow ==
  ASSUME NEW d, NEW map, NEW nodes, Represents(d, map, nodes), NEW n \in nodes, ~n.isDir,
         NEW m \in nodes, Leads(n.path, m.path)
  PROVE  m = n
<1> DEFINE Under == {u \in nodes : Leads(n.path, u.path) /\ u # n}
           lengths == {Len(u.path) : u \in Under}
<1> SUFFICES ASSUME m # n PROVE FALSE
  OBVIOUS
<1>1. NodesTyped(nodes) /\ \A u \in nodes : u.path \in Seq(Names) /\ Len(u.path) \in Nat /\ u.path # <<>>
  BY PathsAre DEF Represents, NodesTyped
<1>2. lengths \in SUBSET Nat /\ lengths # {}
  <2>1. m \in Under
    OBVIOUS
  <2> QED BY <1>1, <2>1
<1>3. PICK k \in lengths : \A l \in lengths : k <= l
  BY <1>2, Least
<1>4. PICK u \in Under : Len(u.path) = k /\ \A v \in Under : Len(u.path) <= Len(v.path)
  BY <1>3
<1>5. PICK dir \in Directories(nodes), i \in Slots : Holds(TableOf(d, dir), dir, i, u)
  BY <1>4 DEF Represents, Placed
<1>6. PICK x \in Names : u.path = Append(dir.path, x)
  BY <1>5 DEF Holds
<1>7. dir.path \in Seq(Names) /\ Len(dir.path) \in Nat /\ dir.isDir = TRUE
      /\ (dir.path = <<>> => dir = Root) /\ (dir = Root \/ dir \in nodes)
  <2>1. /\ dir.path \in Seq(Names) /\ dir.isDir = TRUE
        /\ dir.path = <<>> => dir = Root
        /\ dir = Root \/ dir \in nodes
    BY <1>1, <1>5, DirectoriesAre
  <2> QED BY <2>1
<1>8. /\ Len(u.path) = Len(dir.path) + 1
      /\ \A j \in 1..Len(dir.path) : u.path[j] = dir.path[j]
  BY <1>6, <1>7
<1>9. Leads(n.path, u.path) /\ u # n /\ u \in nodes
  BY <1>4
<1>10. n.path # u.path
  BY <1>1, <1>9 DEF NodesTyped
<1>11. Len(n.path) # Len(u.path)
  BY <1>1, <1>9, <1>10 DEF Leads
<1>12. Len(n.path) <= Len(dir.path)
  BY <1>1, <1>7, <1>8, <1>9, <1>11 DEF Leads
<1>13. Leads(n.path, dir.path)
  BY <1>1, <1>7, <1>8, <1>9, <1>12 DEF Leads
<1>14. dir # Root
  <2>1. Len(n.path) # 0
    BY <1>1
  <2> QED BY <1>1, <1>7, <1>12, <2>1, RootIs
<1>15. dir \in Under
  BY <1>7, <1>13, <1>14
<1> QED BY <1>4, <1>7, <1>8, <1>15

\* The node of a path and its entry in the tree.
LEMMA ItemsAre ==
  ASSUME NEW nodes, NodesTyped(nodes), NEW n \in nodes
  PROVE  /\ n.path \in Seq(Names) /\ Len(n.path) \in Nat
         /\ \A d : Item(d, n).path = n.path /\ Item(d, n).isDir = n.isDir
         /\ \A d : n.isDir => Item(d, n) = T!Dir(n.path)
         /\ \A m \in nodes : m.path = n.path => m = n
<1>1. n.path \in Seq(Names) /\ Len(n.path) \in Nat /\ n.isDir \in BOOLEAN
  BY PathsAre DEF NodesTyped
<1>2. \A d : Item(d, n).path = n.path /\ Item(d, n).isDir = n.isDir
  BY DEF Item
<1>3. \A d : n.isDir => Item(d, n) = T!Dir(n.path)
  BY <1>1 DEF Item, T!Dir
<1>4. \A m \in nodes : m.path = n.path => m = n
  BY DEF NodesTyped
<1> QED BY <1>1, <1>2, <1>3, <1>4

\* A call that creates a node adds it to the tree.
LEMMA AddsTree ==
  ASSUME Represents(disk, marked, Nodes), NEW path \in Paths, NEW size \in Sizes \cup {1}, NEW isDir \in BOOLEAN,
         isDir \/ size \in Sizes, Grows(path, size, isDir)
  PROVE  T!Adds(Tree, Tree')
<1>1. PICK new \in [path : {path}, sector : Sectors, isDir : {isDir}], dir \in Directories(Nodes), x \in Names :
    /\ path = Append(dir.path, x) /\ \A n \in Nodes : n.path # path
    /\ Represents(disk', marked', Nodes \cup {new}) /\ Nodes' = Nodes \cup {new}
    /\ \A n \in Nodes : Item(disk', n) = Item(disk, n)
    /\ ~isDir => ContentsOf(disk', new.sector) = [i \in 1..size |-> Zero]
  BY DEF Grows
<1>2. PICK nodes : nodes = Nodes
  OBVIOUS
<1>3. Represents(disk, marked, nodes) /\ NodesTyped(nodes) /\ dir \in Directories(nodes)
  BY <1>1, <1>2 DEF Represents
<1>4. Tree = {Item(disk, n) : n \in nodes}
  BY <1>2, TreeIs
<1>5. Tree' = {Item(disk', n) : n \in nodes \cup {new}}
  <2>1. Represents(disk, marked, Nodes)'
    BY <1>1
  <2>2. Tree' = {Item(disk', n) : n \in Nodes'}
    BY <2>1, TreeNext
  <2> QED BY <1>1, <1>2, <2>2
<1>6. PICK item : item = Item(disk', new)
  OBVIOUS
<1>7. item.path = path /\ item.isDir = isDir /\ (~isDir => item.data = [i \in 1..size |-> Zero])
  BY <1>1, <1>6 DEF Item
<1>8. \A t \in Tree : t.path # path
  BY <1>1, <1>2, <1>3, <1>4, ItemsAre
<1>9. Tree' = Tree \cup {item} /\ item \in Tree' \ Tree
  BY <1>1, <1>2, <1>4, <1>5, <1>6, <1>7, <1>8
<1>10. Len(path) = 1 \/ T!Dir(T!Front(path)) \in Tree
  <2>1. dir.path \in Seq(Names) /\ dir.isDir = TRUE /\ (dir = Root \/ dir \in nodes)
    BY <1>3, DirectoriesAre
  <2>2. CASE dir = Root
    <3>1. dir.path = <<>>
      BY <2>2, RootIs
    <3> QED BY <1>1, <3>1
  <2>3. CASE dir \in nodes
    <3>1. Item(disk, dir) = T!Dir(dir.path) /\ Item(disk, dir) \in Tree
      BY <1>3, <1>4, <2>1, <2>3, ItemsAre
    <3>2. T!Front(path) = dir.path
      <4>1. PICK q \in Seq(Names) : q = dir.path
        BY <2>1
      <4>2. /\ Len(Append(q, x)) = Len(q) + 1 /\ Len(q) \in Nat
            /\ SubSeq(Append(q, x), 1, Len(q)) = q
        OBVIOUS
      <4>3. SubSeq(Append(q, x), 1, Len(Append(q, x)) - 1) = q
        BY <4>2
      <4> QED BY <1>1, <4>1, <4>3 DEF T!Front
    <3> QED BY <3>1, <3>2
  <2> QED BY <2>1, <2>2, <2>3
<1>11. T!HasPlace(item.path, Tree)
  BY <1>7, <1>8, <1>10 DEF T!HasPlace
<1>12. item.isDir \/ (Len(item.data) \in Sizes /\ \A i \in DOMAIN item.data : item.data[i] = Zero)
  <2>1. size \in Nat
    BY FormatAssumption
  <2> QED BY <1>7, <2>1
<1> QED BY <1>9, <1>11, <1>12 DEF T!Adds

\* A call that removes a file deletes it from the tree.
LEMMA DeletesTree ==
  ASSUME Represents(disk, marked, Nodes), NEW path \in Paths, Shrinks(path)
  PROVE  T!Deletes(Tree, Tree')
<1>1. PICK n \in Nodes :
    /\ n.path = path /\ ~n.isDir
    /\ Represents(disk', marked', Nodes \ {n}) /\ Nodes' = Nodes \ {n}
    /\ \A m \in Nodes \ {n} : Item(disk', m) = Item(disk, m)
  BY DEF Shrinks
<1>2. PICK nodes : nodes = Nodes
  OBVIOUS
<1>3. Represents(disk, marked, nodes) /\ NodesTyped(nodes) /\ n \in nodes
  BY <1>1, <1>2 DEF Represents
<1>4. Tree = {Item(disk, m) : m \in nodes}
  BY <1>2, TreeIs
<1>5. Tree' = {Item(disk, m) : m \in nodes \ {n}}
  <2>1. Represents(disk, marked, Nodes)'
    BY <1>1
  <2>2. Tree' = {Item(disk', m) : m \in Nodes'}
    BY <2>1, TreeNext
  <2> QED BY <1>1, <1>2, <2>2
<1>6. PICK item \in Tree : item = Item(disk, n)
  BY <1>3, <1>4
<1>7. ASSUME NEW m \in nodes PROVE T!IsPrefix(item.path, Item(disk, m).path) <=> m = n
  <2>1. item.path = n.path /\ Item(disk, m).path = m.path /\ n.path \in Seq(Names) /\ m.path \in Seq(Names)
    BY <1>3, <1>6, ItemsAre
  <2>2. T!IsPrefix(n.path, m.path) <=> Leads(n.path, m.path)
    BY <2>1, LeadsIs
  <2>3. Leads(n.path, m.path) => m = n
    BY <1>1, <1>3, NothingBelow
  <2>4. m = n => Leads(n.path, m.path)
    BY <2>1 DEF Leads
  <2> QED BY <2>1, <2>2, <2>3, <2>4
<1>8. Tree' = {t \in Tree : ~T!IsPrefix(item.path, t.path)}
  BY <1>4, <1>5, <1>7
<1> QED BY <1>8 DEF T!Deletes

\* A write changes one place of one file of the tree.
LEMMA UpdatesTree ==
  ASSUME Represents(disk, marked, Nodes), NEW value \in Values, Overwrites(value)
  PROVE  T!Updates(Tree, Tree')
<1> DEFINE Changed(n, k) ==
      /\ ~n.isDir
      /\ Represents(disk', marked', Nodes) /\ Nodes' = Nodes
      /\ \A m \in Nodes \ {n} : Item(disk', m) = Item(disk, m)
      /\ ContentsOf(disk', n.sector) = [ContentsOf(disk, n.sector) EXCEPT ![k] = Data(value)]
<1>1. PICK n \in Nodes : \E k \in 1..disk[n.sector].size : Changed(n, k)
  BY DEF Overwrites
<1>2. PICK k \in 1..disk[n.sector].size : Changed(n, k)
  BY <1>1
<1>3. PICK nodes : nodes = Nodes
  OBVIOUS
<1>4. Represents(disk, marked, nodes) /\ NodesTyped(nodes) /\ n \in nodes
  BY <1>2, <1>3 DEF Represents
<1>5. Tree = {Item(disk, m) : m \in nodes}
  BY <1>3, TreeIs
<1>6. Tree' = {Item(disk', m) : m \in nodes}
  <2>1. Represents(disk, marked, Nodes)'
    BY <1>2
  <2>2. Tree' = {Item(disk', m) : m \in Nodes'}
    BY <2>1, TreeNext
  <2> QED BY <1>2, <1>3, <2>2
<1>7. PICK item \in Tree : item = Item(disk, n)
  BY <1>4, <1>5
<1>8. item.data = ContentsOf(disk, n.sector) /\ DOMAIN item.data = 1..disk[n.sector].size
  BY <1>2, <1>7 DEF Item, ContentsOf
<1>9. Item(disk', n) = [item EXCEPT !.data[k] = Data(value)]
  BY <1>2, <1>7, <1>8 DEF Item
<1>10. \A m \in nodes \ {n} : Item(disk, m) # item
  BY <1>4, <1>7, ItemsAre
<1>11. Tree' = (Tree \ {item}) \cup {[item EXCEPT !.data[k] = Data(value)]}
  BY <1>2, <1>3, <1>4, <1>5, <1>6, <1>7, <1>9, <1>10
<1>12. k \in DOMAIN item.data /\ Data(value) \in {Data(v) : v \in Values}
  BY <1>2, <1>8
<1> QED BY <1>11, <1>12 DEF T!Updates

\* The file system implements the tree.
THEOREM TreeImplemented == ASSUME PlainCalls PROVE Spec => ImplementsTree
<1>1. Init => T!TInit
  <2> SUFFICES ASSUME Init PROVE Tree = {}
    BY DEF T!TInit
  <2> QED BY InitRepresents DEF Tree
<1>2. ASSUME FileInv, [Next]_vars PROVE [T!TNext]_Tree
  <2>1. CASE UNCHANGED <<disk, marked>>
    BY <2>1 DEF Tree, Nodes, Contents
  <2>2. ASSUME T!Adds(Tree, Tree') \/ T!Deletes(Tree, Tree') \/ T!Updates(Tree, Tree') PROVE T!TNext
    BY <2>2 DEF T!TNext
  <2>3. UNCHANGED vars => UNCHANGED <<disk, marked>>
    BY DEF vars
  <2>4. ASSUME NEW path \in Paths, NEW size \in Sizes, Create(path, size) PROVE [T!TNext]_Tree
    <3>1. PICK isDir \in BOOLEAN : isDir = FALSE
      OBVIOUS
    <3>2. UNCHANGED vars \/ Grows(path, size, isDir)
      BY <1>2, <2>4, <3>1, CreateIs
    <3>3. CASE Grows(path, size, isDir)
      BY <1>2, <2>2, <3>3, AddsTree DEF FileInv
    <3> QED BY <2>1, <2>3, <3>2, <3>3
  <2>5. ASSUME NEW path \in Paths, CreateDir(path) PROVE [T!TNext]_Tree
    <3>1. PICK isDir \in BOOLEAN : isDir = TRUE
      OBVIOUS
    <3>2. PICK size \in Sizes \cup {1} : size = 1
      OBVIOUS
    <3>3. UNCHANGED vars \/ Grows(path, size, isDir)
      BY <1>2, <2>5, <3>1, <3>2, CreateDirIs
    <3>4. CASE Grows(path, size, isDir)
      BY <1>2, <2>2, <3>1, <3>4, AddsTree DEF FileInv
    <3> QED BY <2>1, <2>3, <3>3, <3>4
  <2>6. ASSUME NEW path \in Paths, NEW recursive \in Recursives, RemoveFile(path, recursive) PROVE [T!TNext]_Tree
    <3>1. UNCHANGED vars \/ Shrinks(path)
      BY <1>2, <2>6, RemoveIs
    <3>2. CASE Shrinks(path)
      BY <1>2, <2>2, <3>2, DeletesTree DEF FileInv
    <3> QED BY <2>1, <2>3, <3>1, <3>2
  <2>7. ASSUME NEW id \in Ids, NEW value \in Values, Write(id, value) PROVE [T!TNext]_Tree
    <3>1. Overwrites(value)
      BY <1>2, <2>7, WriteIs
    <3> QED BY <1>2, <2>2, <3>1, UpdatesTree DEF FileInv
  <2>8. ASSUME NEW path \in Paths, NEW id \in Ids, Open(id, path) \/ OpenFails(path) \/ Read(id) \/ Close(id) \/ Exit
        PROVE  UNCHANGED <<disk, marked>>
    BY <2>8 DEF Open, OpenFails, Read, Close, Exit
  <2>9. ASSUME NEW path \in Paths, OpenFails(path) PROVE UNCHANGED <<disk, marked>>
    BY <2>9 DEF OpenFails
  <2>10. ASSUME NEW id \in Ids, Read(id) \/ Close(id) PROVE UNCHANGED <<disk, marked>>
    BY <2>10 DEF Read, Close
  <2>11. Exit => UNCHANGED <<disk, marked>>
    BY DEF Exit
  <2> QED BY <1>2, <2>1, <2>3, <2>4, <2>5, <2>6, <2>7, <2>8, <2>9, <2>10, <2>11 DEF Next
<1> QED BY <1>1, <1>2, FileInvariant, PTL DEF Spec, ImplementsTree, T!TSpec
===============================================================================
