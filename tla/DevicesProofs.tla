------------------------------ MODULE DevicesProofs ------------------------------
(***************************************************************************)
(* Proofs about Devices, for any threads, times and bounds, in both        *)
(* kernels.  First the latency of the disk, for any geometry.  Then the    *)
(* locks of the drivers, the answers of the devices and the interrupts     *)
(* that are pending: they hold whatever the scheduler does.  Then where    *)
(* the threads are and in which status they run, which needs that part to  *)
(* know that a wake-up finds the value it is for.                          *)
(***************************************************************************)
EXTENDS Devices, NachosListProofs, FiniteSetTheorems

-----------------------------------------------------------------------------
(* The latency of the disk is that of the turning disk.  The sectors begin *)
(* to pass under the head at the multiples of RotationTime, the m-th of    *)
(* them being sector m % SectorsPerTrack of its track; ModuloDiff counts   *)
(* the boundaries to the next one of a given sector, and the track buffer  *)
(* starts to fill at a boundary.                                           *)

\* The buffer began to fill at a boundary, or has the whole track.
HeadInv ==
  /\ clock \in Int /\ bufferAge \in Int /\ lastSector \in Sectors
  /\ bufferAge <= Turn
  /\ bufferAge = Turn \/ \E m \in Int : clock - bufferAge = m * RotationTime

-----------------------------------------------------------------------------
(* Division.                                                               *)

LEMMA DivMod ==
  ASSUME NEW a \in Int, NEW p \in Nat \ {0}
  PROVE  a \div p \in Int /\ a % p \in 0 .. p - 1 /\ a = (a \div p) * p + (a % p)
OBVIOUS

LEMMA DivIs ==
  ASSUME NEW p \in Nat \ {0}, NEW q \in Int, NEW c \in 0 .. p - 1
  PROVE  (q * p + c) \div p = q /\ (q * p + c) % p = c
OBVIOUS

LEMMA TimesOrder ==
  ASSUME NEW a \in Int, NEW b \in Int, NEW p \in Nat \ {0}
  PROVE  /\ a * p \in Int /\ b * p \in Int
         /\ a <= b <=> a * p <= b * p
         /\ a < b <=> a * p < b * p
OBVIOUS

LEMMA TimesAdd ==
  ASSUME NEW a \in Int, NEW b \in Int, NEW p \in Int
  PROVE  /\ (a + b) * p = a * p + b * p
         /\ (a - b) * p = a * p - b * p
OBVIOUS

\* No multiple lies between two that follow each other.
LEMMA NextMultiple ==
  ASSUME NEW a \in Int, NEW b \in Int, NEW p \in Nat \ {0}, a * p < b * p + p
  PROVE  a <= b
<1>1. (b + 1) * p = b * p + p
  BY TimesAdd
<1>2. a < b + 1
  BY <1>1, TimesOrder
<1> QED BY <1>2

\* ModuloDiff counts from a boundary to the next one with which a sector begins.
NextPass(to, from, d) ==
  /\ d \in 0 .. SectorsPerTrack - 1
  /\ (from + d) % SectorsPerTrack = to % SectorsPerTrack
  /\ \A m \in Int : from <= m /\ m % SectorsPerTrack = to % SectorsPerTrack => from + d <= m

LEMMA ModuloDiffIsNext ==
  ASSUME NEW to \in Int, NEW from \in Int
  PROVE  NextPass(to, from, ModuloDiff(to, from))
<1>1. PICK p \in Nat \ {0} : p = SectorsPerTrack
  BY DiskAssumption
<1>2. PICK x \in 0 .. p - 1 : x = to % p
  BY DivMod
<1>3. PICK y \in 0 .. p - 1, q \in Int : y = from % p /\ q = from \div p /\ from = q * p + y
  BY DivMod
<1>4. PICK d \in 0 .. p - 1, e \in {0, 1} : ModuloDiff(to, from) = d /\ x - y = d - e * p
  <2>1. ModuloDiff(to, from) = ((x - y) + p) % p
    BY <1>1, <1>2, <1>3 DEF ModuloDiff
  <2>2. CASE x >= y
    <3>1. x - y \in 0 .. p - 1 /\ (x - y) + p = 1 * p + (x - y)
      BY <2>2
    <3>2. (1 * p + (x - y)) % p = x - y
      BY <3>1, DivIs
    <3> QED BY <2>1, <3>1, <3>2
  <2>3. CASE x < y
    <3>1. (x - y) + p \in 0 .. p - 1 /\ (x - y) + p = 0 * p + ((x - y) + p)
      BY <2>3
    <3>2. (0 * p + ((x - y) + p)) % p = (x - y) + p
      BY <3>1, DivIs
    <3> QED BY <2>1, <3>1, <3>2
  <2> QED BY <2>2, <2>3
<1>5. from + d = (q + e) * p + x
  <2>1. (q + e) * p = q * p + e * p
    BY TimesAdd
  <2>2. q * p \in Int /\ e * p \in Int
    OBVIOUS
  <2> QED BY <1>3, <1>4, <2>1, <2>2
<1>6. (from + d) % p = x
  <2>1. PICK n \in Int : n = q + e
    OBVIOUS
  <2>2. (n * p + x) % p = x
    BY DivIs
  <2> QED BY <1>5, <2>1, <2>2
<1>7. ASSUME NEW m \in Int, from <= m, m % p = x
      PROVE  from + d <= m
  <2>1. PICK r \in Int : m = r * p + x
    BY <1>7, DivMod
  <2>2. r * p \in Int /\ (q + e) * p \in Int
    OBVIOUS
  <2>3. (q + e) * p < r * p + p
    BY <1>5, <1>7, <2>1, <2>2
  <2>4. q + e <= r
    BY <2>3, NextMultiple
  <2>5. (q + e) * p <= r * p
    BY <2>4, TimesOrder
  <2> QED BY <1>5, <2>1, <2>2, <2>5
<1> QED BY <1>1, <1>2, <1>4, <1>6, <1>7 DEF NextPass

-----------------------------------------------------------------------------
(* Seek and rotation.                                                      *)

LEMMA SeekIs ==
  ASSUME lastSector \in Sectors, NEW s \in Sectors
  PROVE  Seek(s) \in Nat /\ Seek(s) <= SeekTime * NumSectors
<1>1. PICK a \in Int : a = (s \div SectorsPerTrack) - (lastSector \div SectorsPerTrack)
                       /\ a <= NumSectors /\ -a <= NumSectors
  <2>1. ASSUME NEW z \in Sectors PROVE z \div SectorsPerTrack \in 0 .. NumSectors
    <3>1. z \in Nat /\ z < NumSectors /\ NumSectors \in Nat /\ SectorsPerTrack \in Nat \ {0}
      BY DiskAssumption DEF Sectors
    <3> QED BY <3>1
  <2> QED BY <2>1, DiskAssumption
<1>2. PICK n \in Nat : n = (IF a < 0 THEN -a ELSE a) /\ n <= NumSectors
  BY <1>1
<1>3. Seek(s) = SeekTime * n
  BY <1>1, <1>2 DEF Seek
<1>4. SeekTime * n \in Nat /\ SeekTime * n <= SeekTime * NumSectors
  <2>1. n * SeekTime <= NumSectors * SeekTime
    BY <1>2, DiskAssumption, TimesOrder
  <2>2. SeekTime * n = n * SeekTime /\ SeekTime * NumSectors = NumSectors * SeekTime /\ SeekTime * n \in Nat
    BY DiskAssumption
  <2> QED BY <2>1, <2>2
<1> QED BY <1>3, <1>4

\* After the seek and the rotation the head is at a boundary, the first it meets.
LEMMA RotationIs ==
  ASSUME HeadInv, NEW s \in Sectors
  PROVE  /\ Rotation(s) \in 0 .. RotationTime - 1
         /\ \E k \in Int : clock + Seek(s) + Rotation(s) = k * RotationTime
<1>1. PICK r \in Nat \ {0} : r = RotationTime
  BY DiskAssumption
<1>2. PICK t \in Int : t = clock + Seek(s)
  BY SeekIs DEF HeadInv
<1>3. PICK q \in Int, o \in 0 .. r - 1 : q = t \div r /\ o = t % r /\ t = q * r + o
  BY DivMod
<1>4. Rotation(s) = IF o > 0 THEN r - o ELSE 0
  BY <1>1, <1>2, <1>3 DEF Rotation
<1>5. (q + 1) * r = q * r + r /\ q * r \in Int
  <2>1. (q + 1) * r = q * r + 1 * r
    BY TimesAdd
  <2> QED BY <2>1
<1>6. clock + Seek(s) + Rotation(s) = t + Rotation(s)
  BY <1>2
<1>7. CASE o > 0
  <2>1. Rotation(s) = r - o /\ r - o \in 0 .. r - 1
    BY <1>4, <1>7
  <2>2. t + Rotation(s) = (q + 1) * r
    BY <1>3, <1>5, <2>1
  <2> QED BY <1>1, <1>6, <2>1, <2>2
<1>8. CASE o = 0
  BY <1>1, <1>3, <1>4, <1>5, <1>6, <1>8
<1> QED BY <1>7, <1>8

\* The times at which s begins to pass are those of its boundaries.
LEMMA PassIs ==
  ASSUME clock \in Int, NEW s \in Sectors
  PROVE  /\ \A x \in Passes(s) : \E m \in Int :
              x = m * RotationTime - clock /\ m % SectorsPerTrack = s % SectorsPerTrack
         /\ \A m \in Int, x \in (-Turn) .. (Turn + SeekTime * NumSectors) :
              x = m * RotationTime - clock /\ m % SectorsPerTrack = s % SectorsPerTrack
                => x \in Passes(s)
<1>1. PICK r \in Nat \ {0} : r = RotationTime
  BY DiskAssumption
<1>2. Turn \in Nat /\ SeekTime * NumSectors \in Nat
  BY DiskAssumption DEF Turn
<1>3. ASSUME NEW x \in Passes(s)
      PROVE  \E m \in Int : x = m * RotationTime - clock /\ m % SectorsPerTrack = s % SectorsPerTrack
  <2>1. /\ x \in Int /\ (clock + x) % r = 0
        /\ ((clock + x) \div r) % SectorsPerTrack = s % SectorsPerTrack
    BY <1>1, <1>2 DEF Passes
  <2>2. PICK m \in Int : m = (clock + x) \div r /\ clock + x = m * r + 0
    BY <2>1, DivMod
  <2>3. m * r \in Int
    OBVIOUS
  <2> QED BY <1>1, <2>1, <2>2, <2>3
<1>4. ASSUME NEW m \in Int, NEW x \in (-Turn) .. (Turn + SeekTime * NumSectors),
             x = m * RotationTime - clock, m % SectorsPerTrack = s % SectorsPerTrack
      PROVE  x \in Passes(s)
  <2>1. m * r \in Int /\ clock + x = m * r + 0
    BY <1>1, <1>2, <1>4
  <2>2. (m * r + 0) % r = 0 /\ (m * r + 0) \div r = m
    BY DivIs
  <2> QED BY <1>1, <1>4, <2>1, <2>2 DEF Passes
<1> QED BY <1>3, <1>4

-----------------------------------------------------------------------------
(* The latency.                                                            *)

LEMMA MinIs ==
  ASSUME NEW S \in SUBSET Int, NEW x \in S, \A y \in S : x <= y
  PROVE  Min(S) = x
<1>1. Min(S) \in S /\ \A y \in S : Min(S) <= y
  BY DEF Min
<1>2. PICK m \in S : m = Min(S) /\ m <= x
  BY <1>1
<1>3. m \in Int /\ x \in Int /\ x <= m
  OBVIOUS
<1> QED BY <1>2, <1>3

\* The boundaries from the one at which the head arrives to the one of s.
Turning(s) == ModuloDiff(s, (clock + Seek(s) + Rotation(s)) \div RotationTime)

\* A transfer that waits for its sector.
LEMMA TransferIs ==
  ASSUME HeadInv, NEW s \in Sectors
  PROVE  Transfer(s) = Seek(s) + Rotation(s) + Turning(s) * RotationTime + RotationTime
<1>1. PICK r \in Nat \ {0}, p \in Nat \ {0} :
        r = RotationTime /\ p = SectorsPerTrack /\ Turn = r * p
  BY DiskAssumption DEF Turn
<1>2. PICK c \in Int, seek \in Nat, rot \in 0 .. r - 1 :
        c = clock /\ seek = Seek(s) /\ rot = Rotation(s) /\ seek <= SeekTime * NumSectors
  BY <1>1, SeekIs, RotationIs DEF HeadInv
<1>3. PICK k \in Int : c + seek + rot = k * r
  BY <1>1, <1>2, RotationIs
<1>4. (c + seek + rot) \div r = k
  <2>1. k * r + 0 = k * r /\ (k * r + 0) \div r = k
    BY DivIs
  <2> QED BY <1>3, <2>1
<1>5. PICK d \in 0 .. p - 1 : d = Turning(s) /\ NextPass(s, k, d)
  <2>1. s \in Int
    BY DiskAssumption DEF Sectors
  <2>2. Turning(s) = ModuloDiff(s, k)
    BY <1>1, <1>2, <1>4 DEF Turning
  <2> QED BY <1>1, <2>1, <2>2, ModuloDiffIsNext DEF NextPass
<1>6. PICK x \in Int : x = seek + rot + d * r
  OBVIOUS
<1>7. /\ (k + d) * r = k * r + d * r /\ k * r \in Int /\ d * r \in Nat
      /\ d * r <= r * p - r
  <2>1. d * r <= (p - 1) * r
    BY TimesOrder
  <2>2. (p - 1) * r = p * r - 1 * r /\ p * r = r * p
    BY TimesAdd
  <2> QED BY <2>1, <2>2, TimesAdd
<1>8. x \in Passes(s)
  <2>1. x = (k + d) * r - c
    BY <1>3, <1>6, <1>7
  <2>2. x \in (-Turn) .. (Turn + SeekTime * NumSectors)
    <3>1. PICK far \in Nat : far = SeekTime * NumSectors
      BY DiskAssumption
    <3>2. PICK turn \in Nat : turn = r * p
      OBVIOUS
    <3>3. 0 <= x /\ x <= far + (r - 1) + (turn - r)
      BY <1>2, <1>6, <1>7, <3>1, <3>2
    <3> QED BY <1>1, <3>1, <3>2, <3>3
  <2>3. PICK m \in Int : m = k + d
    OBVIOUS
  <2>4. m % SectorsPerTrack = s % SectorsPerTrack
    BY <1>5, <2>3 DEF NextPass
  <2> QED BY <1>1, <1>2, <2>1, <2>2, <2>3, <2>4, PassIs
<1>9. ASSUME NEW y \in Passes(s), y >= seek
      PROVE  x <= y
  <2>1. PICK m \in Int : y = m * r - c /\ m % SectorsPerTrack = s % SectorsPerTrack
    BY <1>1, <1>2, PassIs
  <2>2. m * r \in Int /\ k * r < m * r + r
    BY <1>2, <1>3, <1>7, <1>9, <2>1
  <2>3. k <= m
    BY <2>2, NextMultiple
  <2>4. k + d <= m
    BY <1>5, <2>1, <2>3 DEF NextPass
  <2>5. (k + d) * r <= m * r
    BY <2>4, TimesOrder
  <2> QED BY <1>3, <1>6, <1>7, <2>1, <2>2, <2>5
<1>10. PICK S : S = {y \in Passes(s) : y >= seek}
  OBVIOUS
<1>11. S \in SUBSET Int /\ x \in S /\ \A y \in S : x <= y
  <2>1. Passes(s) \subseteq Int
    BY DiskAssumption DEF Passes, Turn
  <2>2. x >= seek
    BY <1>2, <1>6, <1>7
  <2> QED BY <1>8, <1>9, <1>10, <2>1, <2>2
<1>12. Min(S) = x
  BY <1>11, MinIs
<1> QED BY <1>1, <1>2, <1>5, <1>6, <1>10, <1>12 DEF Transfer

\* A sector that is taken from the buffer has begun to pass since the buffer fills;
\* one that has, and is not taken from it, begins to pass just now.
LEMMA BufferIs ==
  ASSUME HeadInv, NEW s \in Sectors
  PROVE  /\ InBuffer(s) => Buffered(s)
         /\ Buffered(s) => InBuffer(s) \/ (Seek(s) = 0 /\ Rotation(s) = 0 /\ Turning(s) = 0)
<1>1. PICK r \in Nat \ {0}, p \in Nat \ {0} :
        r = RotationTime /\ p = SectorsPerTrack /\ Turn = p * r
  BY DiskAssumption DEF Turn
<1>2. PICK c \in Int, b \in Int, rot \in 0 .. r - 1 :
        c = clock /\ b = bufferAge /\ rot = Rotation(s) /\ b <= p * r
  BY <1>1, RotationIs DEF HeadInv
<1>3. CASE Seek(s) # 0
  BY <1>3 DEF InBuffer, Buffered
<1>4. CASE Seek(s) = 0
  <2>1. PICK k \in Int : c + rot = k * r
    BY <1>1, <1>2, <1>4, RotationIs
  <2>2. PICK j \in Int, o \in 0 .. r - 1 : j = (c - b) \div r /\ o = (c - b) % r /\ c - b = j * r + o
    <3>1. PICK a \in Int : a = c - b
      OBVIOUS
    <3> QED BY <3>1, DivMod
  <2>3. s \in Int /\ clock \in Int
    BY <1>2, DiskAssumption DEF Sectors
  <2>4. PICK d \in 0 .. p - 1 : d = ModuloDiff(s, j) /\ NextPass(s, j, d)
    BY <1>1, <2>3, ModuloDiffIsNext DEF NextPass
  <2>5. InBuffer(s) <=> (b + rot) \div r > d
    BY <1>1, <1>2, <1>4, <2>2, <2>4 DEF InBuffer
  <2>6. ASSUME NEW m \in Int, m % p = s % p, c - b <= m * r, m * r <= c
        PROVE  Buffered(s)
    <3>1. PICK x \in Int : x = m * r - c /\ -b <= x /\ x <= 0
      BY <2>6
    <3>2. PICK turn \in Nat, far \in Nat : turn = p * r /\ far = SeekTime * NumSectors
      BY DiskAssumption
    <3>3. x \in (-turn) .. (turn + far)
      BY <1>2, <3>1, <3>2
    <3>4. x \in Passes(s)
      BY <1>1, <1>2, <2>3, <2>6, <3>1, <3>2, <3>3, PassIs
    <3> QED BY <1>2, <1>4, <3>1, <3>4 DEF Buffered
  <2>7. CASE o = 0
    <3>1. (b + rot) \div r = k - j
      <4>1. PICK n \in Int : n = k - j
        OBVIOUS
      <4>2. n * r = k * r - j * r /\ k * r \in Int /\ j * r \in Int
        BY <4>1, TimesAdd
      <4>3. b + rot = n * r + 0
        BY <2>1, <2>2, <2>7, <4>2
      <4>4. (n * r + 0) \div r = n
        BY DivIs
      <4> QED BY <4>1, <4>3, <4>4
    <3>2. ASSUME InBuffer(s) PROVE Buffered(s)
      <4>1. PICK m \in Int : m = j + d /\ m % p = s % p /\ j <= m /\ m + 1 <= k
        BY <1>1, <2>4, <2>5, <3>1, <3>2 DEF NextPass
      <4>2. /\ j * r <= m * r /\ (m + 1) * r <= k * r
            /\ (m + 1) * r = m * r + 1 * r /\ m * r \in Int /\ k * r \in Int /\ j * r \in Int
        BY <4>1, TimesOrder, TimesAdd
      <4>3. c - b <= m * r /\ m * r <= c
        BY <2>1, <2>2, <2>7, <4>2
      <4> QED BY <2>6, <4>1, <4>3
    <3>3. ASSUME Buffered(s)
          PROVE  InBuffer(s) \/ (Rotation(s) = 0 /\ Turning(s) = 0)
      <4>1. PICK x \in Passes(s) : x <= 0 /\ x >= -b
        BY <1>2, <3>3 DEF Buffered
      <4>2. PICK m \in Int : x = m * r - c /\ m % SectorsPerTrack = s % SectorsPerTrack
        BY <1>1, <1>2, <2>3, PassIs
      <4>3. m * r \in Int /\ j * r \in Int /\ k * r \in Int /\ j * r <= m * r /\ m * r <= c
        BY <2>1, <2>2, <2>7, <4>1, <4>2
      <4>4. j <= m /\ m <= k
        <5>1. m * r <= k * r
          BY <2>1, <4>3
        <5> QED BY <4>3, <5>1, TimesOrder
      <4>5. j + d <= m
        BY <2>4, <4>2, <4>4 DEF NextPass
      <4>6. CASE m < k
        BY <2>5, <3>1, <4>5, <4>6
      <4>7. CASE m = k
        <5>1. rot = 0 /\ c = k * r
          BY <2>1, <4>3, <4>7
        <5>2. (k * r + 0) \div r = k /\ k * r + 0 = k * r
          BY DivIs, <4>3
        <5>3. Turning(s) = ModuloDiff(s, k)
          BY <1>1, <1>2, <1>4, <2>1, <5>1, <5>2 DEF Turning
        <5>4. NextPass(s, k, Turning(s))
          BY <2>3, <5>3, ModuloDiffIsNext
        <5>5. Turning(s) \in Nat /\ k + Turning(s) <= k
          BY <4>2, <4>7, <5>4, DiskAssumption DEF NextPass
        <5> QED BY <1>2, <5>1, <5>5
      <4> QED BY <4>4, <4>6, <4>7
    <3> QED BY <1>4, <3>2, <3>3
  <2>8. CASE b = p * r
    <3>1. (b + rot) \div r = p
      BY <2>8, DivIs
    <3>2. InBuffer(s)
      BY <2>5, <3>1
    <3>3. PICK f \in Int, g \in 0 .. r - 1 : c = f * r + g
      BY DivMod
    <3>4. PICK h \in Int : h = f - p + 1
      OBVIOUS
    <3>5. PICK e \in 0 .. p - 1 : NextPass(s, h, e)
      BY <1>1, <2>3, ModuloDiffIsNext DEF NextPass
    <3>6. PICK m \in Int : m = h + e /\ m % p = s % p
      BY <1>1, <3>5 DEF NextPass
    <3>7. m <= f /\ f - p < m
      BY <3>4, <3>6
    <3>8. /\ m * r <= f * r /\ (f - p + 1) * r <= m * r
          /\ (f - p + 1) * r = f * r - p * r + r
          /\ m * r \in Int /\ f * r \in Int /\ p * r \in Int
      <4>1. m * r <= f * r /\ h * r <= m * r
        BY <3>4, <3>6, <3>7, TimesOrder
      <4>2. (f - p + 1) * r = (f - p) * r + 1 * r /\ (f - p) * r = f * r - p * r
        BY TimesAdd
      <4> QED BY <3>4, <4>1, <4>2
    <3>9. c - b <= m * r /\ m * r <= c
      BY <2>8, <3>3, <3>8
    <3>10. Buffered(s)
      BY <2>6, <3>6, <3>9
    <3> QED BY <3>2, <3>10
  <2>9. o = 0 \/ b = p * r
    <3>1. ASSUME NEW m \in Int, c - b = m * r PROVE o = 0
      <4>1. c - b = m * r + 0 /\ (m * r + 0) % r = 0
        BY <3>1, DivIs
      <4> QED BY <2>2, <4>1
    <3> QED BY <1>1, <1>2, <3>1 DEF HeadInv
  <2> QED BY <2>7, <2>8, <2>9
<1> QED BY <1>3, <1>4

\* What ComputeLatency returns, in any state of the head.
LEMMA LatencyIs == HeadInv => LatencyExact
<1> SUFFICES ASSUME HeadInv, NEW s \in Sectors, NEW writing \in BOOLEAN
             PROVE  ComputeLatency(s, writing) =
                      IF ~writing /\ Buffered(s) THEN RotationTime ELSE Transfer(s)
  BY DEF LatencyExact
<1>1. ComputeLatency(s, writing) = IF ~writing /\ InBuffer(s) THEN RotationTime ELSE Transfer(s)
  BY TransferIs DEF ComputeLatency, Turning
<1>2. Seek(s) = 0 /\ Rotation(s) = 0 /\ Turning(s) = 0 => Transfer(s) = RotationTime
  <2>1. RotationTime \in Nat
    BY DiskAssumption
  <2> QED BY <2>1, TransferIs
<1> QED BY <1>1, <1>2, BufferIs

LEMMA LatencyTyped ==
  ASSUME HeadInv, NEW s \in Sectors, NEW writing \in BOOLEAN
  PROVE  ComputeLatency(s, writing) \in Int
<1>1. HeadInv => ComputeLatency(s, writing) = RotationTime \/ ComputeLatency(s, writing) = Transfer(s)
  BY LatencyIs DEF LatencyExact
<1>2. Transfer(s) \in Int
  <2>1. PICK k \in Int : clock + Seek(s) + Rotation(s) = k * RotationTime
    BY RotationIs
  <2>2. PICK r \in Nat \ {0} : r = RotationTime
    BY DiskAssumption
  <2>3. (k * r + 0) \div r = k /\ k * r + 0 = k * r
    BY DivIs
  <2>4. Turning(s) = ModuloDiff(s, k) /\ s \in Int
    BY <2>1, <2>2, <2>3, DiskAssumption DEF Turning, Sectors
  <2>5. Turning(s) \in Int
    BY <2>4, ModuloDiffIsNext, DiskAssumption DEF NextPass
  <2>6. PICK n \in Int : n = Turning(s) * RotationTime
    BY <2>2, <2>5
  <2>7. Seek(s) \in Int /\ Rotation(s) \in Int /\ RotationTime \in Int
    BY SeekIs, RotationIs, DiskAssumption DEF HeadInv
  <2> QED BY <2>6, <2>7, TransferIs
<1>3. RotationTime \in Int
  BY DiskAssumption
<1> QED BY <1>1, <1>2, <1>3

-----------------------------------------------------------------------------
(* The steps.                                                              *)

LEMMA HeadStarts == DiskInit => HeadInv
<1> SUFFICES ASSUME DiskInit PROVE HeadInv
  OBVIOUS
<1>1. Turn \in Nat /\ 0 \in Sectors /\ clock - bufferAge = 0 * RotationTime
  BY DiskAssumption DEF Turn, Sectors, DiskInit
<1> QED BY <1>1 DEF DiskInit, HeadInv

LEMMA ClockKeepsHead ==
  ASSUME HeadInv, NEW n \in Nat, ClockAdvances(n), UNCHANGED lastSector
  PROVE  HeadInv'
<1>1. PICK r \in Nat \ {0}, p \in Nat \ {0} :
        r = RotationTime /\ Turn = r * p /\ r * p \in Nat \ {0} /\ SectorsPerTrack = p
  BY DiskAssumption DEF Turn
<1>2. PICK c \in Int, b \in Int : c = clock /\ b = bufferAge /\ b <= r * p
  BY <1>1 DEF HeadInv
<1>3. PICK q \in Int, z \in Int : z = (c + n) % (r * p) /\ c + n = q * (r * p) + z
  <2>1. PICK turn \in Nat \ {0}, a \in Int : turn = r * p /\ a = c + n
    BY <1>1
  <2>2. a \div turn \in Int /\ a % turn \in Int /\ a = (a \div turn) * turn + (a % turn)
    BY DivMod
  <2> QED BY <2>1, <2>2
<1>4. clock' = z
  BY <1>1, <1>2, <1>3 DEF ClockAdvances
<1>5. bufferAge' = IF b + n <= r * p THEN b + n ELSE r * p
  <2>1. PICK S, y : S = {b + n, r * p} /\ y = (IF b + n <= r * p THEN b + n ELSE r * p)
    OBVIOUS
  <2>2. S \in SUBSET Int /\ y \in S /\ \A x \in S : y <= x
    BY <1>1, <2>1
  <2>3. Min(S) = y
    BY <2>2, MinIs
  <2> QED BY <1>1, <1>2, <2>1, <2>3 DEF ClockAdvances
<1>6. CASE b + n >= r * p
  <2>1. bufferAge' = Turn /\ Turn \in Nat
    BY <1>1, <1>2, <1>5, <1>6
  <2> QED BY <1>3, <1>4, <2>1 DEF HeadInv
<1>7. CASE b + n < r * p
  <2>1. bufferAge' = b + n /\ b # r * p
    BY <1>1, <1>2, <1>5, <1>7
  <2>2. PICK m \in Int : c - b = m * r
    BY <1>1, <1>2, <2>1 DEF HeadInv
  <2>3. PICK u \in Int : u = q * p
    OBVIOUS
  <2>4. q * (r * p) = u * r /\ u * r \in Int /\ m * r \in Int
    BY <2>3
  <2>5. (m - u) * r = m * r - u * r
    BY TimesAdd
  <2>6. z - (b + n) = (m - u) * r
    BY <1>3, <2>2, <2>4, <2>5
  <2>7. PICK w \in Int : w = m - u
    OBVIOUS
  <2>8. clock' - bufferAge' = w * RotationTime
    BY <1>1, <1>4, <2>1, <2>6, <2>7
  <2>9. clock' \in Int /\ bufferAge' \in Int /\ bufferAge' <= Turn
    BY <1>1, <1>4, <1>7, <2>1
  <2> QED BY <2>7, <2>8, <2>9 DEF HeadInv
<1> QED BY <1>1, <1>2, <1>6, <1>7

LEMMA RequestKeepsHead ==
  ASSUME HeadInv, NEW s \in Sectors, UpdateLast(s), UNCHANGED clock
  PROVE  HeadInv'
<1>1. CASE Seek(s) = 0
  <2>1. bufferAge' = bufferAge /\ lastSector' = s
    BY <1>1 DEF UpdateLast
  <2> QED BY <2>1 DEF HeadInv
<1>2. CASE Seek(s) # 0
  <2>1. PICK x \in Nat : x = Seek(s) + Rotation(s)
    BY SeekIs, RotationIs, DiskAssumption DEF HeadInv
  <2>2. bufferAge' = -x /\ lastSector' = s
    BY <1>2, <2>1 DEF UpdateLast
  <2>3. PICK k \in Int : clock + Seek(s) + Rotation(s) = k * RotationTime
    BY RotationIs
  <2>4. clock \in Int /\ Seek(s) \in Int /\ Rotation(s) \in Int /\ Turn \in Nat
    BY SeekIs, RotationIs, DiskAssumption DEF HeadInv, Turn
  <2>5. clock - (-x) = k * RotationTime
    BY <2>1, <2>3, <2>4
  <2> QED BY <2>1, <2>2, <2>4, <2>5 DEF HeadInv
<1> QED BY <1>1, <1>2

-----------------------------------------------------------------------------
(* The drivers, the devices and the interrupts that are pending.           *)

InsidePcs == {"own", "request", "await", "answered", "release"}
Answering == {"out", "disk"}

Held(d) == \E t \in Threads : Inside(t) /\ op[t] = d
Awaits(d) == \E t \in Threads : pc[t] = "await" /\ op[t] = d

Types ==
  /\ value \in [Sems -> Nat]
  /\ pc \in [Threads -> PCs] /\ op \in [Threads -> Drivers \cup {"none"}]
  /\ lockHolder \in [Drivers -> Threads \cup {Nil}]
  /\ busy \in [Answering -> BOOLEAN]
  /\ incoming \in {"none", "char", "eof"} /\ disabled \in BOOLEAN

\* A lock is held by the one thread that is in its driver.
LockInv ==
  /\ \A t \in Threads : Inside(t) \/ pc[t] = "acquire" => op[t] \in Drivers
  /\ \A t, u \in Threads : Inside(t) /\ Inside(u) /\ op[t] = op[u] => t = u
  /\ \A d \in Drivers : value[lock(d)] = IF Held(d) THEN 0 ELSE 1
  /\ \A t \in Threads : Inside(t) /\ pc[t] # "own" => lockHolder[op[t]] = t
  /\ \A t \in Threads : pc[t] = "request" => op[t] # "in"

\* One answer for one request.
AnswerInv ==
  /\ \A d \in Answering :
       value[done(d)] + (IF busy[d] THEN 1 ELSE 0) = (IF Awaits(d) THEN 1 ELSE 0)
  /\ \A t \in Threads :
       op[t] = "out" /\ pc[t] \in {"await", "answered", "release"} => screen = t

\* One character, or end of input, for one signal.
InputInv ==
  /\ value[done("in")] =
       IF incoming # "none" /\ (\A t \in Threads : op[t] = "in" => pc[t] # "answered") THEN 1 ELSE 0
  /\ \A t \in Threads : op[t] = "in" /\ pc[t] = "answered" => incoming # "none"

\* One interrupt for one request, one poll while the console's buffer is empty.
PendingInv ==
  /\ pending \in Seq(Devs) /\ PendingExact
  /\ "in" \in Range(pending) => incoming = "none"

DeviceInv == Types /\ LockInv /\ AnswerInv /\ InputInv /\ PendingInv

-----------------------------------------------------------------------------
\* The semaphores of the drivers are all different.
LEMMA SemNames ==
  /\ \A d \in Drivers : lock(d) \in Sems /\ done(d) \in Sems
  /\ \A d, e \in Drivers : lock(d) # done(e)
  /\ \A d, e \in Drivers : lock(d) = lock(e) \/ done(d) = done(e) => d = e
BY SemsAssumption DEF DeviceSems, lock, done

\* The boot leaves the timer and the poll of the keyboard pending, and the locks open.
LEMMA InitDevices == Init => DeviceInv
<1> SUFFICES ASSUME Init PROVE DeviceInv
  OBVIOUS
<1>1. Types
  BY SemsAssumption DEF Init, Types, DeviceSems, PCs, Answering
<1>2. \A t \in Threads : pc[t] \notin InsidePcs \cup {"acquire"} /\ op[t] = "none"
  BY DEF Init, InsidePcs
<1>3. \A d \in Drivers : value[lock(d)] = 1 /\ value[done(d)] = 0
  BY SemNames DEF Init, lock, done
<1>4. LockInv
  BY <1>2, <1>3 DEF LockInv, Held, Inside, InsidePcs, Drivers
<1>5. AnswerInv
  BY <1>2, <1>3 DEF AnswerInv, Awaits, InsidePcs, Answering, Drivers, Init
<1>6. InputInv
  BY <1>2, <1>3 DEF InputInv, Drivers, Init
<1>7. PendingInv
  <2> DEFINE q == <<"timer">>
  <2>1. q \in Seq(Devs) /\ NoRepeats(q) /\ Range(q) = {"timer"} /\ "in" \in Devs
    BY DEF Devs, Drivers, NoRepeats, IsInjective, Range
  <2>2. pending = SortedInsert(q, "in", due)
    BY DEF Init
  <2>3. pending \in Seq(Devs) /\ NoRepeats(pending) /\ Range(pending) = {"timer", "in"}
    <3> HIDE DEF q
    <3> QED BY <2>1, <2>2, SortedInsertAdds
  <2> QED BY <2>3 DEF PendingInv, PendingExact, Init
<1> QED BY <1>1, <1>4, <1>5, <1>6, <1>7 DEF DeviceInv

-----------------------------------------------------------------------------
\* Interrupt::Schedule of a device that is not pending adds it, and it alone.
LEMMA ScheduleAdds ==
  ASSUME NEW q \in Seq(Devs), NoRepeats(q), NEW d \in Devs, d \notin Range(q), NEW n,
         Schedule(q, d, n)
  PROVE  pending' \in Seq(Devs) /\ NoRepeats(pending') /\ Range(pending') = Range(q) \cup {d}
BY SortedInsertAdds DEF Schedule

\* A handler takes its own interrupt out.
LEMMA FiredIsRemoved ==
  ASSUME PendingInv, NEW d, Fires(d)
  PROVE  /\ Tail(pending) \in Seq(Devs) /\ NoRepeats(Tail(pending))
         /\ d \in Range(pending) /\ Range(Tail(pending)) = Range(pending) \ {d}
BY TailRemoves DEF PendingInv, PendingExact, Fires, FrontDue

LEMMA PendingStays ==
  ASSUME PendingInv, UNCHANGED <<pending, busy, incoming>>, disabled => disabled'
  PROVE  PendingInv'
BY DEF PendingInv, PendingExact

\* A step in no driver, before the call of one or after its return.
LEMMA OutsideKeeps ==
  ASSUME DeviceInv, NEW t \in Threads, ~Inside(t), NEW p \in PCs \ InsidePcs,
         pc' = [pc EXCEPT ![t] = p],
         \/ UNCHANGED op /\ p # "acquire"
         \/ \E d \in Drivers : op' = [op EXCEPT ![t] = d],
         UNCHANGED <<value, lockHolder, busy, incoming, disabled, screen, pending>>
  PROVE  DeviceInv'
<1> USE DEF DeviceInv
<1>0. /\ pc \in [Threads -> PCs] /\ op \in [Threads -> Drivers \cup {"none"}]
      /\ pc[t] \notin InsidePcs /\ pc'[t] = p
      /\ \A u \in Threads \ {t} : pc'[u] = pc[u] /\ op'[u] = op[u]
  BY DEF Types, Inside, InsidePcs
<1>1. Types'
  BY <1>0 DEF Types
<1>2. \A u \in Threads : Inside(u)' <=> Inside(u)
  BY <1>0 DEF Inside, InsidePcs
<1>3. \A d : (Held(d)' <=> Held(d)) /\ (Awaits(d)' <=> Awaits(d))
  BY <1>0, <1>2 DEF Held, Awaits, Inside, InsidePcs
<1>4. LockInv'
  BY <1>0, <1>2, <1>3 DEF LockInv, InsidePcs, Inside
<1>5. AnswerInv'
  BY <1>0, <1>3 DEF AnswerInv, InsidePcs
<1>6. InputInv'
  BY <1>0 DEF InputInv, InsidePcs
<1> QED BY <1>1, <1>4, <1>5, <1>6, PendingStays

\* A step of no thread's code and of no handler.
LEMMA CpuKeeps ==
  ASSUME DeviceInv, disabled' \in BOOLEAN, disabled => disabled',
         UNCHANGED <<pc, op, value, lockHolder, busy, incoming, screen, pending>>
  PROVE  DeviceInv'
<1>1. Types' /\ LockInv' /\ AnswerInv' /\ InputInv'
  BY DEF DeviceInv, Types, LockInv, AnswerInv, InputInv, Held, Awaits, Inside
<1> QED BY <1>1, PendingStays DEF DeviceInv

\* A step inside a driver keeps its lock.
LEMMA InsideKeepsLock ==
  ASSUME DeviceInv, NEW t \in Threads, Inside(t), NEW p \in InsidePcs \ {"own"},
         pc' = [pc EXCEPT ![t] = p], UNCHANGED op, p = "request" => op[t] # "in",
         lockHolder' = [lockHolder EXCEPT ![op[t]] = t] \/ (pc[t] # "own" /\ UNCHANGED lockHolder),
         \A d \in Drivers : value'[lock(d)] = value[lock(d)]
  PROVE  LockInv'
<1>0. /\ pc \in [Threads -> PCs] /\ op[t] \in Drivers
      /\ lockHolder \in [Drivers -> Threads \cup {Nil}]
  BY DEF DeviceInv, Types, LockInv
<1>1. \A u \in Threads : Inside(u)' <=> Inside(u)
  BY <1>0 DEF Inside, InsidePcs
<1>2. \A d : Held(d)' <=> Held(d)
  BY <1>1 DEF Held
<1>3. \A u \in Threads : Inside(u) /\ op[u] = op[t] => u = t
  BY DEF DeviceInv, LockInv
<1>4. \A u \in Threads : Inside(u)' /\ pc'[u] # "own" => lockHolder'[op'[u]] = u
  <2> SUFFICES ASSUME NEW u \in Threads, Inside(u), pc'[u] # "own"
               PROVE  lockHolder'[op[u]] = u
    BY <1>1
  <2>1. CASE u = t
    BY <1>0, <2>1 DEF DeviceInv, LockInv
  <2>2. CASE u # t
    <3>1. op[u] \in Drivers /\ op[u] # op[t] /\ lockHolder[op[u]] = u
      BY <1>0, <1>3, <2>2 DEF DeviceInv, LockInv
    <3> QED BY <1>0, <3>1
  <2> QED BY <2>1, <2>2
<1>5. \A u \in Threads : Inside(u)' \/ pc'[u] = "acquire" => op'[u] \in Drivers
  BY <1>0, <1>1 DEF DeviceInv, LockInv, InsidePcs
<1>6. \A u \in Threads : pc'[u] = "request" => op'[u] # "in"
  BY <1>0 DEF DeviceInv, LockInv
<1>7. \A u, v \in Threads : Inside(u)' /\ Inside(v)' /\ op'[u] = op'[v] => u = v
  BY <1>1 DEF DeviceInv, LockInv
<1>8. \A d \in Drivers : value'[lock(d)] = IF Held(d)' THEN 0 ELSE 1
  BY <1>2 DEF DeviceInv, LockInv
<1> QED BY <1>4, <1>5, <1>6, <1>7, <1>8 DEF LockInv

-----------------------------------------------------------------------------
\* The steps of a thread outside the drivers.
LEMMA OutsideSteps ==
  ASSUME DeviceInv, NEW t \in Threads, Fork(t) \/ Call(t) \/ Finish(t) \/ Return(t)
  PROVE  DeviceInv'
<1> USE DEF semVars, irqVars, devVars, Running, Go
<1>1. CASE Fork(t)
  BY <1>1, OutsideKeeps DEF Fork, Inside, InsidePcs, PCs
<1>2. CASE Call(t)
  <2>1. PICK d \in Calls(t) : op' = [op EXCEPT ![t] = d]
    BY <1>2 DEF Call
  <2>2. d \in Drivers
    BY <2>1 DEF Calls, Drivers
  <2>3. ~Inside(t)
    BY <1>2 DEF Call, Home, Inside
  <2> QED BY <1>2, <2>1, <2>2, <2>3, OutsideKeeps DEF Call, InsidePcs, PCs
<1>3. CASE Finish(t)
  <2>1. ~Inside(t)
    BY <1>3 DEF Finish, Home, Inside
  <2> QED BY <1>3, <2>1, OutsideKeeps DEF Finish, InsidePcs, PCs
<1>4. CASE Return(t)
  BY <1>4, OutsideKeeps DEF Return, Inside, InsidePcs, PCs
<1> QED BY <1>1, <1>2, <1>3, <1>4

\* Lock::Acquire: P of the semaphore, which was 1, so nobody was inside.
LEMMA AcquireKeeps ==
  ASSUME DeviceInv, NEW t \in Threads, AcquireTakes(t)
  PROVE  DeviceInv'
<1> DEFINE d == op[t]
<1> USE DEF DeviceInv
<1>1. /\ pc[t] = "acquire" /\ pc' = [pc EXCEPT ![t] = "own"] /\ d \in Drivers
      /\ value[lock(d)] > 0 /\ value' = [value EXCEPT ![lock(d)] = @ - 1]
      /\ UNCHANGED <<op, lockHolder, busy, incoming, disabled, screen, pending>>
  BY DEF AcquireTakes, PTakes, Running, Go, devVars, LockInv
<1>2. /\ pc \in [Threads -> PCs] /\ value \in [Sems -> Nat] /\ lock(d) \in Sems
  BY <1>1, SemNames DEF Types
<1>3. ~Held(d) /\ value[lock(d)] = 1
  BY <1>1 DEF LockInv
<1>4. /\ value'[lock(d)] = 0
      /\ \A e \in Drivers : value'[done(e)] = value[done(e)]
      /\ \A e \in Drivers \ {d} : value'[lock(e)] = value[lock(e)]
  BY <1>1, <1>2, <1>3, SemNames
<1>5. \A u \in Threads : Inside(u)' <=> Inside(u) \/ u = t
  BY <1>1, <1>2 DEF Inside
<1>6. Held(d)' /\ \A e \in Drivers \ {d} : Held(e)' <=> Held(e)
  BY <1>1, <1>5 DEF Held
<1>7. \A e : Awaits(e)' <=> Awaits(e)
  BY <1>1, <1>2 DEF Awaits
<1>8. Types'
  BY <1>1, <1>2 DEF Types, PCs
<1>9. LockInv'
  <2>1. \A e \in Drivers : value'[lock(e)] = IF Held(e)' THEN 0 ELSE 1
    BY <1>1, <1>4, <1>6 DEF LockInv
  <2>2. \A u, v \in Threads : Inside(u)' /\ Inside(v)' /\ op'[u] = op'[v] => u = v
    BY <1>1, <1>3, <1>5 DEF LockInv, Held
  <2>3. \A u \in Threads : Inside(u)' /\ pc'[u] # "own" => lockHolder'[op'[u]] = u
    BY <1>1, <1>2, <1>5 DEF LockInv
  <2>4. \A u \in Threads : Inside(u)' \/ pc'[u] = "acquire" => op'[u] \in Drivers
    BY <1>1, <1>2, <1>5 DEF LockInv
  <2>5. \A u \in Threads : pc'[u] = "request" => op'[u] # "in"
    BY <1>1, <1>2 DEF LockInv
  <2> QED BY <2>1, <2>2, <2>3, <2>4, <2>5 DEF LockInv
<1>10. AnswerInv' /\ InputInv'
  <2>1. Answering \subseteq Drivers /\ "in" \in Drivers
    BY DEF Answering, Drivers
  <2>2. AnswerInv'
    BY <1>1, <1>2, <1>4, <1>7, <2>1 DEF AnswerInv
  <2>3. InputInv'
    BY <1>1, <1>2, <1>4, <2>1 DEF InputInv
  <2> QED BY <2>2, <2>3
<1> QED BY <1>1, <1>8, <1>9, <1>10, PendingStays

\* Own, Answered: what a thread does in a driver between its calls of P.
LEMMA BetweenKeeps ==
  ASSUME DeviceInv, NEW t \in Threads, Own(t) \/ Answered(t)
  PROVE  DeviceInv'
<1> USE DEF DeviceInv, InsidePcs
<1>0. /\ pc \in [Threads -> PCs] /\ lockHolder \in [Drivers -> Threads \cup {Nil}]
      /\ Inside(t) /\ op[t] \in Drivers
      /\ UNCHANGED <<value, op, busy, incoming, disabled, screen, pending>>
  BY DEF Own, Answered, Running, Inside, semVars, irqVars, devVars, Types, LockInv
<1>1. CASE Own(t)
  <2>1. /\ pc[t] = "own" /\ lockHolder' = [lockHolder EXCEPT ![op[t]] = t]
        /\ pc' = [pc EXCEPT ![t] = IF op[t] = "in" THEN "await" ELSE "request"]
    BY <1>1 DEF Own, Running, Go
  <2>2. Types'
    BY <1>0, <2>1 DEF Types, PCs
  <2>3. LockInv'
    BY <1>0, <2>1, InsideKeepsLock
  <2>4. \A d \in Answering : Awaits(d)' <=> Awaits(d)
    BY <1>0, <2>1 DEF Awaits, Answering
  <2>5. AnswerInv'
    BY <1>0, <2>1, <2>4 DEF AnswerInv
  <2>6. InputInv'
    BY <1>0, <2>1 DEF InputInv
  <2> QED BY <1>0, <2>2, <2>3, <2>5, <2>6, PendingStays
<1>2. CASE Answered(t)
  <2>1. PICK p \in {"request", "release"} : pc' = [pc EXCEPT ![t] = p]
    BY <1>2 DEF Answered, Go
  <2>2. pc[t] = "answered" /\ op[t] # "in" /\ UNCHANGED lockHolder
    BY <1>2 DEF Answered, Running
  <2>3. Types'
    BY <1>0, <2>1, <2>2 DEF Types, PCs
  <2>4. LockInv'
    BY <1>0, <2>1, <2>2, InsideKeepsLock
  <2>5. \A d : Awaits(d)' <=> Awaits(d)
    BY <1>0, <2>1, <2>2 DEF Awaits
  <2>6. AnswerInv'
    BY <1>0, <2>1, <2>2, <2>5 DEF AnswerInv
  <2>7. InputInv'
    BY <1>0, <2>1, <2>2 DEF InputInv
  <2> QED BY <1>0, <2>3, <2>4, <2>6, <2>7, PendingStays
<1> QED BY <1>1, <1>2

\* A request finds its device idle, makes it busy and schedules its interrupt.
LEMMA RequestKeeps ==
  ASSUME DeviceInv, NEW t \in Threads, PutChar(t) \/ DiskRequest(t)
  PROVE  DeviceInv'
<1> DEFINE d == op[t]
<1> USE DEF DeviceInv
<1>1. /\ pc[t] = "request" /\ d \in Answering /\ ~busy[d]
      /\ pc' = [pc EXCEPT ![t] = "await"] /\ busy' = [busy EXCEPT ![d] = TRUE]
      /\ UNCHANGED <<value, op, lockHolder, incoming, disabled>>
      /\ d = "out" => screen' = t
      /\ d # "out" => UNCHANGED screen
      /\ \E n : Schedule(pending, d, n)
  BY DEF PutChar, DiskRequest, Running, Go, Answering, semVars
<1>2. /\ pc \in [Threads -> PCs] /\ busy \in [Answering -> BOOLEAN]
      /\ Answering \subseteq Drivers /\ Answering \subseteq Devs
  BY DEF Types, Answering, Devs, Drivers
<1>3. Inside(t) /\ \A u \in Threads : Inside(u) /\ op[u] = d => u = t
  BY <1>1 DEF Inside, LockInv
<1>4. Types'
  BY <1>1, <1>2 DEF Types, PCs
<1>5. LockInv'
  BY <1>1, <1>3, InsideKeepsLock DEF InsidePcs
<1>6. ~Awaits(d) /\ Awaits(d)'
  BY <1>1, <1>2, <1>3 DEF Awaits, Inside
<1>7. \A e \in Answering \ {d} : (Awaits(e)' <=> Awaits(e)) /\ busy'[e] = busy[e]
  BY <1>1, <1>2 DEF Awaits
<1>8. AnswerInv'
  <2>1. \A e \in Answering :
          value'[done(e)] + (IF busy'[e] THEN 1 ELSE 0) = (IF Awaits(e)' THEN 1 ELSE 0)
    <3>1. value[done(d)] = 0 /\ busy'[d]
      BY <1>1, <1>2, <1>6, SemNames DEF AnswerInv, Types
    <3>2. ASSUME NEW e \in Answering \ {d}
          PROVE  value'[done(e)] + (IF busy'[e] THEN 1 ELSE 0) = (IF Awaits(e)' THEN 1 ELSE 0)
      BY <1>1, <1>7 DEF AnswerInv
    <3> QED BY <1>1, <1>6, <3>1, <3>2
  <2>2. \A u \in Threads :
          op'[u] = "out" /\ pc'[u] \in {"await", "answered", "release"} => screen' = u
    BY <1>1, <1>2, <1>3 DEF AnswerInv, Inside
  <2> QED BY <2>1, <2>2 DEF AnswerInv
<1>9. InputInv'
  BY <1>1, <1>2 DEF InputInv, Answering
<1>10. PendingInv'
  <2>1. d \notin Range(pending) /\ NoRepeats(pending) /\ pending \in Seq(Devs)
    BY <1>1 DEF PendingInv, PendingExact, Answering
  <2>2. /\ pending' \in Seq(Devs) /\ NoRepeats(pending')
        /\ Range(pending') = Range(pending) \cup {d}
    BY <1>1, <1>2, <2>1, ScheduleAdds
  <2> QED BY <1>1, <1>2, <1>7, <2>2 DEF PendingInv, PendingExact, Answering
<1> QED BY <1>4, <1>5, <1>8, <1>9, <1>10

\* P of the driver's semaphore consumes the one answer.
LEMMA AwaitKeeps ==
  ASSUME DeviceInv, NEW t \in Threads, AwaitTakes(t)
  PROVE  DeviceInv'
<1> DEFINE d == op[t]
<1> USE DEF DeviceInv
<1>1. /\ pc[t] = "await" /\ pc' = [pc EXCEPT ![t] = "answered"]
      /\ value[done(d)] > 0 /\ value' = [value EXCEPT ![done(d)] = @ - 1]
      /\ UNCHANGED <<op, lockHolder, busy, incoming, disabled, screen, pending>>
  BY DEF AwaitTakes, PTakes, Running, Go, devVars
<1>2. /\ pc \in [Threads -> PCs] /\ value \in [Sems -> Nat] /\ busy \in [Answering -> BOOLEAN]
      /\ Inside(t) /\ d \in Drivers /\ done(d) \in Sems
      /\ Answering \subseteq Drivers /\ "in" \in Drivers
  BY <1>1, SemNames DEF Types, Inside, LockInv, Answering, Drivers
<1>3. \A u \in Threads : Inside(u) /\ op[u] = d => u = t
  BY <1>2 DEF LockInv
<1>4. /\ value'[done(d)] = value[done(d)] - 1
      /\ \A e \in Drivers \ {d} : value'[done(e)] = value[done(e)]
      /\ \A e \in Drivers : value'[lock(e)] = value[lock(e)]
  BY <1>1, <1>2, SemNames
<1>5. Types'
  BY <1>1, <1>2 DEF Types, PCs
<1>6. LockInv'
  BY <1>1, <1>2, <1>4, InsideKeepsLock DEF InsidePcs
<1>7. Awaits(d) /\ ~Awaits(d)' /\ \A e \in Answering \ {d} : Awaits(e)' <=> Awaits(e)
  BY <1>1, <1>2, <1>3 DEF Awaits, Inside
<1>8. AnswerInv'
  <2>1. ASSUME NEW e \in Answering
        PROVE  value'[done(e)] + (IF busy'[e] THEN 1 ELSE 0) = (IF Awaits(e)' THEN 1 ELSE 0)
    <3>1. value[done(e)] + (IF busy[e] THEN 1 ELSE 0) = (IF Awaits(e) THEN 1 ELSE 0)
      BY DEF AnswerInv
    <3>2. value[done(e)] \in Nat /\ busy'[e] = busy[e]
      BY <1>1, <1>2, SemNames
    <3> QED BY <1>1, <1>2, <1>4, <1>7, <3>1, <3>2
  <2>2. \A u \in Threads :
          op'[u] = "out" /\ pc'[u] \in {"await", "answered", "release"} => screen' = u
    BY <1>1, <1>2 DEF AnswerInv
  <2> QED BY <2>1, <2>2 DEF AnswerInv
<1>9. InputInv'
  BY <1>1, <1>2, <1>4 DEF InputInv
<1> QED BY <1>1, <1>5, <1>6, <1>8, <1>9, PendingStays

\* ConsoleInput::GetChar empties the buffer, and only then is the next poll scheduled.
LEMMA TakeKeeps ==
  ASSUME DeviceInv, NEW t \in Threads, TakeChar(t)
  PROVE  DeviceInv'
<1> USE DEF DeviceInv
<1>1. /\ pc[t] = "answered" /\ op[t] = "in" /\ pc' = [pc EXCEPT ![t] = "release"]
      /\ incoming' = "none"
      /\ UNCHANGED <<value, op, lockHolder, busy, disabled, screen>>
      /\ UNCHANGED pending \/ \E n : Schedule(pending, "in", n)
  BY DEF TakeChar, Running, Go, semVars
<1>2. /\ pc \in [Threads -> PCs] /\ Inside(t) /\ incoming # "none"
  BY <1>1 DEF Types, Inside, InputInv
<1>3. \A u \in Threads : Inside(u) /\ op[u] = "in" => u = t
  BY <1>1, <1>2 DEF LockInv
<1>4. Types'
  BY <1>1, <1>2 DEF Types, PCs
<1>5. LockInv'
  BY <1>1, <1>2, InsideKeepsLock DEF InsidePcs
<1>6. \A e : Awaits(e)' <=> Awaits(e)
  BY <1>1, <1>2 DEF Awaits
<1>7. AnswerInv'
  BY <1>1, <1>2, <1>6 DEF AnswerInv
<1>8. InputInv'
  BY <1>1, <1>2, <1>3 DEF InputInv, Inside
<1>9. PendingInv'
  <2>1. "in" \in Devs /\ "in" \notin Range(pending) /\ NoRepeats(pending) /\ pending \in Seq(Devs)
    BY <1>2 DEF PendingInv, PendingExact, Devs, Drivers
  <2>2. CASE UNCHANGED pending
    BY <1>1, <2>2 DEF PendingInv, PendingExact
  <2>3. CASE \E n : Schedule(pending, "in", n)
    <3>1. /\ pending' \in Seq(Devs) /\ NoRepeats(pending')
          /\ Range(pending') = Range(pending) \cup {"in"}
      BY <2>1, <2>3, ScheduleAdds
    <3> QED BY <1>1, <3>1 DEF PendingInv, PendingExact
  <2> QED BY <1>1, <2>2, <2>3
<1> QED BY <1>4, <1>5, <1>7, <1>8, <1>9

\* Lock::Release: V of the semaphore, by the one thread inside.
LEMMA ReleaseKeeps ==
  ASSUME DeviceInv, NEW t \in Threads, Release(t)
  PROVE  DeviceInv'
<1> USE DEF DeviceInv
<1>0. PICK d \in Drivers : d = op[t]
  BY DEF Release, Running, Inside, LockInv
<1>1. /\ pc[t] = "release" /\ lockHolder' = [lockHolder EXCEPT ![d] = Nil]
      /\ value' = [value EXCEPT ![lock(d)] = @ + 1] /\ op' = [op EXCEPT ![t] = "none"]
      /\ UNCHANGED <<busy, incoming, disabled, screen, pending>>
  BY <1>0 DEF Release, V, Running, devVars
<1>2. PICK p \in {"boot", "fork", "user", "return"} : pc' = [pc EXCEPT ![t] = p]
  BY DEF Release, Go, Home
<1>3. /\ pc \in [Threads -> PCs] /\ op \in [Threads -> Drivers \cup {"none"}]
      /\ value \in [Sems -> Nat] /\ lockHolder \in [Drivers -> Threads \cup {Nil}]
      /\ Inside(t) /\ lock(d) \in Sems
      /\ Answering \subseteq Drivers /\ "in" \in Drivers
  BY <1>1, SemNames DEF Types, Inside, LockInv, Answering, Drivers
<1>4. \A u \in Threads : Inside(u) /\ op[u] = d => u = t
  BY <1>0, <1>3 DEF LockInv
<1>5. /\ value'[lock(d)] = value[lock(d)] + 1
      /\ \A e \in Drivers : value'[done(e)] = value[done(e)]
      /\ \A e \in Drivers \ {d} : value'[lock(e)] = value[lock(e)]
  BY <1>1, <1>3, SemNames
<1>6. ~Inside(t)' /\ \A u \in Threads \ {t} : (Inside(u)' <=> Inside(u)) /\ op'[u] = op[u]
  BY <1>1, <1>2, <1>3 DEF Inside
<1>7. Held(d) /\ ~Held(d)' /\ \A e \in Drivers \ {d} : Held(e)' <=> Held(e)
  BY <1>0, <1>3, <1>4, <1>6 DEF Held
<1>8. \A e \in Drivers : Awaits(e)' <=> Awaits(e)
  BY <1>0, <1>1, <1>2, <1>3 DEF Awaits, Drivers
<1>9. Types'
  BY <1>1, <1>2, <1>3 DEF Types, PCs
<1>10. LockInv'
  <2>1. \A e \in Drivers : value'[lock(e)] = IF Held(e)' THEN 0 ELSE 1
    BY <1>3, <1>5, <1>7 DEF LockInv
  <2>2. \A u, v \in Threads : Inside(u)' /\ Inside(v)' /\ op'[u] = op'[v] => u = v
    BY <1>6 DEF LockInv
  <2>3. ASSUME NEW u \in Threads, Inside(u)', pc'[u] # "own"
        PROVE  lockHolder'[op'[u]] = u
    <3>1. u # t /\ Inside(u) /\ pc[u] # "own" /\ op'[u] = op[u] /\ op[u] # d
      BY <1>2, <1>3, <1>4, <1>6, <2>3
    <3>2. op[u] \in Drivers /\ lockHolder[op[u]] = u
      BY <3>1 DEF LockInv
    <3> QED BY <1>1, <1>3, <3>1, <3>2
  <2>4. \A u \in Threads : Inside(u)' \/ pc'[u] = "acquire" => op'[u] \in Drivers
    BY <1>2, <1>3, <1>6 DEF LockInv
  <2>5. \A u \in Threads : pc'[u] = "request" => op'[u] # "in"
    BY <1>2, <1>3, <1>6 DEF LockInv
  <2> QED BY <2>1, <2>2, <2>3, <2>4, <2>5 DEF LockInv
<1>11. AnswerInv'
  BY <1>1, <1>2, <1>3, <1>5, <1>6, <1>8 DEF AnswerInv
<1>12. InputInv'
  <2>1. \A u \in Threads : op'[u] = "in" /\ pc'[u] = "answered" <=> op[u] = "in" /\ pc[u] = "answered"
    BY <1>1, <1>2, <1>3, <1>6
  <2> QED BY <1>1, <1>3, <1>5, <2>1 DEF InputInv
<1> QED BY <1>1, <1>9, <1>10, <1>11, <1>12, PendingStays

-----------------------------------------------------------------------------
\* The handlers.
LEMMA FireTimerKeeps ==
  ASSUME DeviceInv, FireTimer
  PROVE  DeviceInv'
<1>1. /\ UNCHANGED <<pc, op, value, lockHolder, busy, incoming, disabled, screen>>
      /\ Fires("timer")
      /\ \/ disabled /\ pending' = Tail(pending)
         \/ \E n : Schedule(Tail(pending), "timer", n)
  BY DEF FireTimer, semVars, devVars, threadVars
<1>2. Types' /\ LockInv' /\ AnswerInv' /\ InputInv'
  BY <1>1 DEF DeviceInv, Types, LockInv, AnswerInv, InputInv, Held, Awaits, Inside
<1>3. PendingInv /\ "timer" \in Devs
  BY DEF DeviceInv, Devs
<1>4. /\ Tail(pending) \in Seq(Devs) /\ NoRepeats(Tail(pending))
      /\ "timer" \in Range(pending) /\ Range(Tail(pending)) = Range(pending) \ {"timer"}
  BY <1>1, <1>3, FiredIsRemoved
<1>5. CASE disabled /\ pending' = Tail(pending)
  <2>1. PendingInv'
    BY <1>1, <1>3, <1>4, <1>5 DEF PendingInv, PendingExact
  <2> QED BY <1>2, <2>1 DEF DeviceInv
<1>6. CASE \E n : Schedule(Tail(pending), "timer", n)
  <2>1. /\ pending' \in Seq(Devs) /\ NoRepeats(pending')
        /\ Range(pending') = Range(Tail(pending)) \cup {"timer"}
    BY <1>3, <1>4, <1>6, ScheduleAdds
  <2>2. PendingInv'
    BY <1>1, <1>3, <1>4, <2>1 DEF PendingInv, PendingExact
  <2> QED BY <1>2, <2>2 DEF DeviceInv
<1> QED BY <1>1, <1>5, <1>6

\* A device that has finished was busy, so its answer is the first.
LEMMA FireDoneKeeps ==
  ASSUME DeviceInv, NEW d \in Answering, FireDone(d)
  PROVE  DeviceInv'
<1> USE DEF DeviceInv
<1>1. /\ Fires(d) /\ busy' = [busy EXCEPT ![d] = FALSE] /\ pending' = Tail(pending)
      /\ value' = [value EXCEPT ![done(d)] = @ + 1]
      /\ UNCHANGED <<pc, op, lockHolder, incoming, disabled, screen>>
  BY DEF FireDone, Signal, V, threadVars
<1>2. /\ Tail(pending) \in Seq(Devs) /\ NoRepeats(Tail(pending))
      /\ d \in Range(pending) /\ Range(Tail(pending)) = Range(pending) \ {d}
  BY <1>1, FiredIsRemoved
<1>3. /\ busy[d] /\ busy \in [Answering -> BOOLEAN] /\ value \in [Sems -> Nat]
      /\ d \in Drivers /\ Answering \subseteq Drivers /\ "in" \in Drivers /\ d # "in"
  BY <1>2 DEF PendingInv, PendingExact, Types, Answering, Drivers
<1>4. /\ value'[done(d)] = value[done(d)] + 1
      /\ \A e \in Drivers \ {d} : value'[done(e)] = value[done(e)]
      /\ \A e \in Drivers : value'[lock(e)] = value[lock(e)]
  BY <1>1, <1>3, SemNames
<1>5. Types'
  <2>1. value' \in [Sems -> Nat]
    BY <1>1, <1>3, SemNames
  <2>2. busy' \in [Answering -> BOOLEAN]
    BY <1>1, <1>3
  <2> QED BY <1>1, <2>1, <2>2 DEF Types
<1>6. LockInv'
  BY <1>1, <1>4 DEF LockInv, Held, Inside
<1>7. AnswerInv'
  <2>1. ASSUME NEW e \in Answering
        PROVE  value'[done(e)] + (IF busy'[e] THEN 1 ELSE 0) = (IF Awaits(e)' THEN 1 ELSE 0)
    <3>1. value[done(e)] + (IF busy[e] THEN 1 ELSE 0) = (IF Awaits(e) THEN 1 ELSE 0)
      BY DEF AnswerInv
    <3>2. value[done(e)] \in Nat /\ (Awaits(e)' <=> Awaits(e))
      BY <1>1, <1>3, SemNames DEF Awaits
    <3>3. CASE e = d
      BY <1>1, <1>3, <1>4, <3>1, <3>2, <3>3
    <3>4. CASE e # d
      BY <1>1, <1>3, <1>4, <3>1, <3>2, <3>4
    <3> QED BY <3>3, <3>4
  <2> QED BY <1>1, <2>1 DEF AnswerInv
<1>8. InputInv'
  BY <1>1, <1>3, <1>4 DEF InputInv
<1>9. PendingInv'
  BY <1>1, <1>2, <1>3 DEF PendingInv, PendingExact, Answering
<1> QED BY <1>5, <1>6, <1>7, <1>8, <1>9

\* The keyboard's interrupt: no poll is left behind with a character in the buffer.
LEMMA FireInKeeps ==
  ASSUME DeviceInv, NEW got \in {"char", "eof"}, FireInDisabled \/ FireInPolls \/ FireInReads(got)
  PROVE  DeviceInv'
<1> USE DEF DeviceInv
<1>1. /\ Fires("in")
      /\ UNCHANGED <<pc, op, lockHolder, busy, disabled, screen>>
  BY DEF FireInDisabled, FireInPolls, FireInReads, semVars, devVars, threadVars
<1>2. /\ Tail(pending) \in Seq(Devs) /\ NoRepeats(Tail(pending))
      /\ "in" \in Range(pending) /\ Range(Tail(pending)) = Range(pending) \ {"in"}
      /\ "in" \in Devs /\ "in" \in Drivers
  BY <1>1, FiredIsRemoved DEF Devs, Drivers
<1>3. incoming = "none"
  BY <1>2 DEF PendingInv
<1>4. CASE FireInDisabled \/ FireInPolls
  <2>1. UNCHANGED <<value, incoming>>
    BY <1>4 DEF FireInDisabled, FireInPolls, semVars, devVars
  <2>2. Types' /\ LockInv' /\ AnswerInv' /\ InputInv'
    BY <1>1, <2>1 DEF Types, LockInv, AnswerInv, InputInv, Held, Awaits, Inside
  <2>3. \/ pending' = Tail(pending)
        \/ \E n : Schedule(Tail(pending), "in", n)
    BY <1>4 DEF FireInDisabled, FireInPolls
  <2>4. /\ pending' \in Seq(Devs) /\ NoRepeats(pending')
        /\ Range(pending') \cup {"in"} = Range(pending)
    <3>1. CASE pending' = Tail(pending)
      BY <1>2, <3>1
    <3>2. CASE \E n : Schedule(Tail(pending), "in", n)
      <4>1. /\ pending' \in Seq(Devs) /\ NoRepeats(pending')
            /\ Range(pending') = Range(Tail(pending)) \cup {"in"}
        BY <1>2, <3>2, ScheduleAdds
      <4> QED BY <1>2, <4>1
    <3> QED BY <2>3, <3>1, <3>2
  <2>5. PendingInv'
    BY <1>1, <1>3, <2>1, <2>4 DEF PendingInv, PendingExact
  <2> QED BY <2>2, <2>5
<1>5. CASE FireInReads(got)
  <2>1. /\ incoming' = got /\ pending' = Tail(pending)
        /\ value' = [value EXCEPT ![done("in")] = @ + 1]
    BY <1>5 DEF FireInReads, Signal, V
  <2>2. value \in [Sems -> Nat] /\ Answering \subseteq Drivers \ {"in"}
    BY DEF Types, Answering, Drivers
  <2>3. /\ value'[done("in")] = value[done("in")] + 1
        /\ \A e \in Drivers \ {"in"} : value'[done(e)] = value[done(e)]
        /\ \A e \in Drivers : value'[lock(e)] = value[lock(e)]
    BY <1>2, <2>1, <2>2, SemNames
  <2>4. Types'
    <3>1. value' \in [Sems -> Nat]
      BY <1>2, <2>1, <2>2, SemNames
    <3> QED BY <1>1, <2>1, <3>1 DEF Types
  <2>5. LockInv'
    BY <1>1, <2>3 DEF LockInv, Held, Inside
  <2>6. AnswerInv'
    BY <1>1, <2>2, <2>3 DEF AnswerInv, Awaits
  <2>7. InputInv'
    BY <1>1, <1>3, <2>1, <2>3 DEF InputInv
  <2>8. PendingInv'
    BY <1>1, <1>2, <2>1 DEF PendingInv, PendingExact
  <2> QED BY <2>4, <2>5, <2>6, <2>7, <2>8
<1> QED BY <1>4, <1>5

\* Every step keeps the invariant.
LEMMA NextDevices == DeviceInv /\ [Next]_vars => DeviceInv'
<1> SUFFICES ASSUME DeviceInv, [Next]_vars PROVE DeviceInv'
  OBVIOUS
<1> USE DEF semVars, irqVars, devVars, threadVars
<1>0. disabled \in BOOLEAN
  BY DEF DeviceInv, Types
<1>1. CASE Enable
  BY <1>1, OutsideKeeps, NamesAssumption DEF Enable, Running, Go, Inside, InsidePcs, PCs
<1>2. CASE Fire
  BY <1>2, FireTimerKeeps, FireDoneKeeps, FireInKeeps DEF Fire, Answering
<1>3. CASE EndTick \/ YieldCurrent \/ Dispatch \/ EndIdle
  BY <1>0, <1>3, CpuKeeps DEF EndTick, YieldCurrent, Dispatch, EndIdle
<1>4. CASE Idle
  BY <1>0, <1>4, CpuKeeps DEF Idle
<1>5. ASSUME NEW t \in Threads, Instruction(t) \/ AcquireSleeps(t) \/ AwaitSleeps(t)
      PROVE  DeviceInv'
  BY <1>0, <1>5, CpuKeeps DEF Instruction, AcquireSleeps, AwaitSleeps, PSleeps
<1>6. ASSUME NEW t \in Threads, ThreadStep(t)
      PROVE  DeviceInv'
  BY <1>5, <1>6, OutsideSteps, AcquireKeeps, BetweenKeeps, RequestKeeps, AwaitKeeps, TakeKeeps,
     ReleaseKeeps DEF ThreadStep
<1>7. CASE UNCHANGED vars
  BY <1>0, <1>7, CpuKeeps DEF vars
<1> QED BY <1>1, <1>2, <1>3, <1>4, <1>6, <1>7 DEF Next

\* The inductive invariant of the drivers and their devices.
THEOREM DevicesHold == Spec => []DeviceInv
<1>1. DeviceInv /\ [Next]_vars => DeviceInv'
  BY NextDevices
<1> QED BY InitDevices, <1>1, PTL DEF Spec

-----------------------------------------------------------------------------
\* Lock::Acquire and Release let one thread at a time into a driver, and the ASSERT
\* of Release finds its holder, for any number of threads and in any schedule.
THEOREM DriversExclude == Spec => []LocksExclude
<1>1. DeviceInv => LocksExclude
  <2> SUFFICES ASSUME DeviceInv, NEW d \in Drivers
               PROVE  /\ \A t, u \in Users(d) : t = u
                      /\ value[lock(d)] = IF Users(d) = {} THEN 1 ELSE 0
                      /\ \A t \in Users(d) : pc[t] # "own" => lockHolder[d] = t
    BY DEF LocksExclude
  <2>1. \A t, u \in Users(d) : t = u
    BY DEF DeviceInv, LockInv, Users
  <2>2. Users(d) = {} <=> ~Held(d)
    BY DEF Users, Held
  <2>3. \A t \in Users(d) : pc[t] # "own" => lockHolder[d] = t
    BY DEF DeviceInv, LockInv, Users
  <2> QED BY <2>1, <2>2, <2>3 DEF DeviceInv, LockInv
<1> QED BY <1>1, DevicesHold, PTL

\* The console and the disk answer each request once and to the thread that made
\* it, however the interrupt falls between the request and the P of the driver.
THEOREM AnswersAreMatched == Spec => []AnswersMatched
<1>1. DeviceInv => AnswersMatched
  <2> SUFFICES ASSUME DeviceInv, NEW d \in Answering
               PROVE  value[done(d)] + (IF busy[d] THEN 1 ELSE 0) = Cardinality(Awaiting(d))
    BY DEF AnswersMatched, Answering
  <2>1. Awaiting(d) = {t \in Threads : pc[t] = "await" /\ op[t] = d}
    BY DEF Awaiting, Users, Inside
  <2>2. value[done(d)] + (IF busy[d] THEN 1 ELSE 0) = (IF Awaits(d) THEN 1 ELSE 0)
    BY DEF DeviceInv, AnswerInv
  <2>3. CASE Awaits(d)
    <3>1. PICK t \in Threads : pc[t] = "await" /\ op[t] = d
      BY <2>3 DEF Awaits
    <3>2. \A u \in Awaiting(d) : u = t
      BY <2>1, <3>1 DEF DeviceInv, LockInv, Inside
    <3>3. Awaiting(d) = {t}
      BY <2>1, <3>1, <3>2
    <3> QED BY <2>2, <2>3, <3>3, FS_Singleton
  <2>4. CASE ~Awaits(d)
    <3>1. Awaiting(d) = {}
      BY <2>1, <2>4 DEF Awaits
    <3> QED BY <2>2, <2>4, <3>1, FS_EmptySet
  <2> QED BY <2>3, <2>4
<1> QED BY <1>1, DevicesHold, PTL

\* The keyboard signals once for each character, and ConsoleInput::CallBack, whose
\* ASSERT wants an empty buffer, is never called with a character in it.
THEOREM InputIsMatched == Spec => []InputMatched
<1>1. DeviceInv => InputMatched
  BY DEF DeviceInv, InputInv, PendingInv, InputMatched, Users, Inside
<1> QED BY <1>1, DevicesHold, PTL

\* A busy device has exactly one interrupt to come, an idle one none, and the timer
\* one until it is disabled.
THEOREM PendingIsExact == Spec => []PendingExact
<1>1. DeviceInv => PendingExact
  BY DEF DeviceInv, PendingInv
<1> QED BY <1>1, DevicesHold, PTL

\* SynchConsoleOutput::PutInt keeps the characters of a number together.
THEOREM OutputsStayTogether == Spec => []OutputTogether
<1>1. DeviceInv => OutputTogether
  BY DEF DeviceInv, AnswerInv, OutputTogether, Users
<1> QED BY <1>1, DevicesHold, PTL

-----------------------------------------------------------------------------
(***************************************************************************)
(* Where the threads are and in which status the machine runs them: every  *)
(* thread is in one place, a wake-up is not lost, and a nested tick gives  *)
(* the status back.                                                        *)
(***************************************************************************)
OnCpu(t) == cpu \in {"run", "tick"} /\ current = t
Alive(t) == pc[t] \notin {"new", "exited"}
Status(t) == IF pc[t] = "user" THEN "User" ELSE "System"
InP(t, s) == (pc[t] = "acquire" /\ s = lock(op[t])) \/ (pc[t] = "await" /\ s = done(op[t]))

QueuesTyped ==
  /\ current \in Threads /\ ready \in Seq(Threads) /\ NoRepeats(ready)
  /\ queue \in [Sems -> Seq(Threads)] /\ \A s \in Sems : NoRepeats(queue[s])
  /\ owed \in [Threads -> {"none", "System", "User"}]

\* A thread that is alive has the CPU, is ready, or sleeps where it called P.
PlaceInv ==
  /\ \A t \in Threads : OnCpu(t) => Alive(t) /\ t \notin Range(ready)
  /\ \A t \in Range(ready) : Alive(t)
  /\ \A s \in Sems : \A t \in Range(queue[s]) :
       InP(t, s) /\ t \notin Range(ready) /\ ~OnCpu(t) /\ owed[t] = "none"
  /\ \A t \in Threads : Alive(t) =>
       OnCpu(t) \/ t \in Range(ready) \/ \E s \in Sems : t \in Range(queue[s])

\* What OneTick owes a thread is the status that the thread's own code needs, and
\* a thread that is owed none has not lost the CPU in a tick.
ModeInv ==
  /\ \A t \in Threads : owed[t] # "none" => owed[t] = Status(t)
  /\ \A t \in Range(ready) : owed[t] = "none" => \E s \in Sems : InP(t, s)
  /\ cpu = "run" => owed[current] = "none"
  /\ cpu \in {"run", "tick"} /\ owed[current] = "none" => mode = Status(current)
  /\ cpu = "sleep" => mode = "System"

\* A semaphore that is positive has no sleepers, or one of those V has woken is on
\* its way to test it.
WakeInv ==
  \A s \in Sems : value[s] > 0 /\ queue[s] # <<>> =>
    \E t \in Threads : InP(t, s) /\ t \notin Range(queue[s])

HaltInv ==
  /\ kernel \in Kernels /\ (disabled => kernel = "MP4")
  /\ \A t \in Threads : op[t] = "in" => t = Main
  /\ cpu = "halted" => ready = <<>> /\ pending = <<>>

ThreadInv == QueuesTyped /\ PlaceInv /\ ModeInv /\ WakeInv /\ HaltInv

-----------------------------------------------------------------------------
\* Nothing is up for two threads at once.
LEMMA ValuesAreSmall ==
  ASSUME DeviceInv, NEW s \in Sems
  PROVE  value[s] \in {0, 1}
<1>1. PICK d \in Drivers : s = lock(d) \/ s = done(d)
  BY SemsAssumption DEF DeviceSems, lock, done
<1>2. value[lock(d)] \in {0, 1}
  BY DEF DeviceInv, LockInv
<1>3. value[done(d)] \in {0, 1}
  <2>1. CASE d \in Answering
    <3>1. value[done(d)] \in Nat
      BY SemNames DEF DeviceInv, Types
    <3>2. value[done(d)] + (IF busy[d] THEN 1 ELSE 0) = (IF Awaits(d) THEN 1 ELSE 0)
      BY <2>1 DEF DeviceInv, AnswerInv
    <3> QED BY <3>1, <3>2
  <2>2. CASE d = "in"
    BY <2>2 DEF DeviceInv, InputInv
  <2> QED BY <2>1, <2>2 DEF Answering, Drivers
<1> QED BY <1>1, <1>2, <1>3

LEMMA InitThreads == Init => ThreadInv
<1> SUFFICES ASSUME Init PROVE ThreadInv
  OBVIOUS
<1> DEFINE e == <<>>
<1>1. e \in Seq(Threads) /\ NoRepeats(e) /\ Range(e) = {}
  BY DEF NoRepeats, IsInjective, Range
<1>2. ready = e /\ \A s \in Sems : queue[s] = e
  BY DEF Init
<1>3. QueuesTyped
  <2>1. queue \in [Sems -> Seq(Threads)]
    BY DEF Init
  <2> HIDE DEF e
  <2> QED BY <1>1, <1>2, <2>1, NamesAssumption DEF Init, QueuesTyped
<1>4. Range(ready) = {} /\ \A s \in Sems : Range(queue[s]) = {}
  BY <1>1, <1>2
<1>5. PlaceInv
  BY <1>4, NamesAssumption DEF Init, PlaceInv, OnCpu, Alive
<1>6. ModeInv
  BY <1>4, NamesAssumption DEF Init, ModeInv, Status
<1>7. WakeInv /\ HaltInv
  BY <1>2 DEF Init, WakeInv, HaltInv
<1> QED BY <1>3, <1>5, <1>6, <1>7 DEF ThreadInv

LEMMA HaltStays ==
  ASSUME HaltInv, UNCHANGED <<kernel, disabled>>, cpu' # "halted",
         \A t \in Threads : op'[t] = "in" => op[t] = "in" \/ t = Main
  PROVE  HaltInv'
BY DEF HaltInv

\* The thread that has the CPU goes on, after a P that it need not sleep in or a
\* statement of its own.
LEMMA GoesOn ==
  ASSUME ThreadInv, pc \in [Threads -> PCs], op \in [Threads -> Drivers \cup {"none"}],
         NEW t \in Threads, cpu = "run", current = t,
         NEW p \in PCs \ {"new", "exited"}, pc' = [pc EXCEPT ![t] = p],
         UNCHANGED op \/ \E d \in Drivers : op' = [op EXCEPT ![t] = d],
         UNCHANGED <<current, ready, queue, owed>>,
         cpu' \in {"run", "tick"}, mode' = IF p = "user" THEN "User" ELSE "System",
         \A s \in Sems : value'[s] <= value[s] /\ (InP(t, s) => value'[s] = 0),
         value \in [Sems -> Nat], value' \in [Sems -> Nat]
  PROVE  QueuesTyped' /\ PlaceInv' /\ ModeInv' /\ WakeInv'
<1> USE DEF ThreadInv
<1>1. pc'[t] = p /\ \A u \in Threads \ {t} : pc'[u] = pc[u] /\ op'[u] = op[u]
  OBVIOUS
<1>2. /\ \A u \in Threads : (OnCpu(u) <=> u = t) /\ (OnCpu(u)' <=> u = t)
      /\ Alive(t) /\ Alive(t)' /\ t \notin Range(ready)
      /\ \A s \in Sems : t \notin Range(queue[s])
  BY <1>1 DEF OnCpu, PlaceInv, Alive
<1>3. \A u \in Threads \ {t} : /\ Alive(u)' <=> Alive(u)
                               /\ Status(u)' = Status(u)
                               /\ \A s : InP(u, s)' <=> InP(u, s)
  BY <1>1 DEF Alive, Status, InP
<1>4. QueuesTyped'
  BY DEF QueuesTyped
<1>5. Range(ready) \subseteq Threads /\ \A s \in Sems : Range(queue[s]) \subseteq Threads
  BY DEF QueuesTyped, Range
<1>6. PlaceInv'
  BY <1>2, <1>3, <1>5 DEF PlaceInv
<1>7. ModeInv'
  BY <1>1, <1>2, <1>3, <1>5 DEF ModeInv, Status
<1>8. WakeInv'
  <2> SUFFICES ASSUME NEW s \in Sems, value'[s] > 0, queue[s] # <<>>
               PROVE  \E u \in Threads : InP(u, s)' /\ u \notin Range(queue[s])
    BY DEF WakeInv
  <2>1. value[s] > 0 /\ ~InP(t, s)
    OBVIOUS
  <2>2. PICK u \in Threads : InP(u, s) /\ u \notin Range(queue[s])
    BY <2>1 DEF WakeInv
  <2> QED BY <1>3, <2>1, <2>2
<1> QED BY <1>4, <1>6, <1>7, <1>8

\* A thread sleeps in P: the semaphore is 0.
LEMMA GoesToSleep ==
  ASSUME ThreadInv, NEW t \in Threads, cpu = "run", current = t, NEW s \in Sems, InP(t, s),
         PSleeps(t, s), cpu' = "sleep", UNCHANGED <<pc, op, current, ready, owed, mode>>
  PROVE  QueuesTyped' /\ PlaceInv' /\ ModeInv' /\ WakeInv'
<1> USE DEF ThreadInv
<1>1. /\ OnCpu(t) /\ \A u \in Threads : ~OnCpu(u)' /\ (OnCpu(u) => u = t)
      /\ t \notin Range(ready) /\ \A r \in Sems : t \notin Range(queue[r])
  BY DEF OnCpu, PlaceInv
<1>2. \A u : (Alive(u)' <=> Alive(u)) /\ Status(u)' = Status(u) /\ \A r : InP(u, r)' <=> InP(u, r)
  BY DEF Alive, Status, InP
<1>3. /\ Append(queue[s], t) \in Seq(Threads) /\ NoRepeats(Append(queue[s], t))
      /\ Range(Append(queue[s], t)) = Range(queue[s]) \cup {t}
  BY <1>1, AppendAdds DEF QueuesTyped
<1>4. /\ queue' \in [Sems -> Seq(Threads)] /\ queue'[s] = Append(queue[s], t)
      /\ \A r \in Sems \ {s} : queue'[r] = queue[r]
  BY <1>3 DEF QueuesTyped, PSleeps
<1>5. QueuesTyped'
  BY <1>3, <1>4 DEF QueuesTyped
<1>6. owed[t] = "none" /\ mode = Status(t) /\ Status(t) = "System"
  BY DEF ModeInv, InP, Status
<1>7. PlaceInv'
  <2>1. \A u \in Range(ready') : Alive(u)'
    BY <1>2 DEF PlaceInv
  <2>2. ASSUME NEW r \in Sems, NEW u \in Range(queue'[r])
        PROVE  InP(u, r)' /\ u \notin Range(ready') /\ ~OnCpu(u)' /\ owed'[u] = "none"
    <3>1. ~OnCpu(u)'
      BY DEF OnCpu
    <3>2. CASE u = t /\ r = s
      BY <1>1, <1>2, <1>6, <3>1, <3>2
    <3>3. CASE u \in Range(queue[r])
      BY <1>2, <3>1, <3>3 DEF PlaceInv
    <3>4. CASE r = s
      BY <1>3, <1>4, <3>2, <3>3, <3>4
    <3>5. CASE r # s
      BY <1>4, <3>3, <3>5
    <3> QED BY <3>4, <3>5
  <2>3. ASSUME NEW u \in Threads, Alive(u)'
        PROVE  u \in Range(ready') \/ \E r \in Sems : u \in Range(queue'[r])
    <3>1. CASE u = t
      BY <1>3, <1>4, <3>1
    <3>2. CASE u # t
      BY <1>1, <1>2, <1>3, <1>4, <2>3, <3>2 DEF PlaceInv
    <3> QED BY <3>1, <3>2
  <2> QED BY <1>1, <2>1, <2>2, <2>3 DEF PlaceInv
<1>8. ModeInv'
  BY <1>2, <1>6 DEF ModeInv
<1>9. WakeInv'
  <2> SUFFICES ASSUME NEW r \in Sems, value'[r] > 0, queue'[r] # <<>>
               PROVE  \E u \in Threads : InP(u, r)' /\ u \notin Range(queue'[r])
    BY DEF WakeInv
  <2>1. r # s /\ value[r] > 0 /\ queue'[r] = queue[r]
    BY <1>4 DEF PSleeps
  <2>2. PICK u \in Threads : InP(u, r) /\ u \notin Range(queue[r])
    BY <2>1 DEF WakeInv
  <2> QED BY <1>2, <2>1, <2>2
<1> QED BY <1>5, <1>7, <1>8, <1>9

\* What V does to the queues and the ready list: the first sleeper goes from the one
\* to the other.
LEMMA WokenIsReady ==
  ASSUME QueuesTyped, PlaceInv, NEW s \in Sems, V(s), ready' = ready \o Woken(s)
  PROVE  /\ ready' \in Seq(Threads) /\ NoRepeats(ready')
         /\ queue' \in [Sems -> Seq(Threads)] /\ \A r \in Sems : NoRepeats(queue'[r])
         /\ \A r \in Sems : Range(queue'[r]) \subseteq Range(queue[r])
         /\ \A r \in Sems \ {s} : queue'[r] = queue[r]
         /\ Range(ready') = Range(ready) \cup (Range(queue[s]) \ Range(queue'[s]))
         /\ queue[s] # <<>> => Range(queue[s]) \ Range(queue'[s]) # {}
<1>1. CASE queue[s] = <<>>
  <2>1. ready' = ready
    BY <1>1 DEF Woken, QueuesTyped
  <2>2. queue' = queue
    BY <1>1 DEF V, QueuesTyped
  <2> QED BY <1>1, <2>1, <2>2 DEF QueuesTyped
<1>2. CASE queue[s] # <<>>
  <2> DEFINE h == Head(queue[s])
  <2>1. /\ Tail(queue[s]) \in Seq(Threads) /\ NoRepeats(Tail(queue[s]))
        /\ h \in Range(queue[s]) /\ Range(Tail(queue[s])) = Range(queue[s]) \ {h}
    BY <1>2, TailRemoves DEF QueuesTyped
  <2>2. /\ queue' \in [Sems -> Seq(Threads)] /\ queue'[s] = Tail(queue[s])
        /\ \A r \in Sems \ {s} : queue'[r] = queue[r]
    BY <1>2, <2>1 DEF QueuesTyped, V
  <2>3. h \in Threads /\ h \notin Range(ready)
    BY <1>2, <2>1 DEF QueuesTyped, PlaceInv
  <2>4. ready' = Append(ready, h)
    <3>1. Woken(s) = <<h>>
      BY <1>2 DEF Woken
    <3> QED BY <2>3, <3>1, AppendProperties DEF QueuesTyped
  <2>5. /\ ready' \in Seq(Threads) /\ NoRepeats(ready') /\ Range(ready') = Range(ready) \cup {h}
    BY <2>3, <2>4, AppendAdds DEF QueuesTyped
  <2>6. \A r \in Sems : NoRepeats(queue'[r]) /\ Range(queue'[r]) \subseteq Range(queue[r])
    BY <2>1, <2>2 DEF QueuesTyped
  <2> QED BY <2>1, <2>2, <2>5, <2>6
<1> QED BY <1>1, <1>2

\* V by the handlers and by Release: a sleeper becomes ready.
Unmoved(u) ==
  /\ Alive(u)' <=> Alive(u)
  /\ Status(u)' = Status(u)
  /\ OnCpu(u)' <=> OnCpu(u)
  /\ \A r \in Sems : InP(u, r)' <=> InP(u, r)

LEMMA SleeperWakes ==
  ASSUME ThreadInv, value \in [Sems -> Nat], NEW s \in Sems, V(s), ready' = ready \o Woken(s),
         \A u \in Threads : Unmoved(u), UNCHANGED <<current, owed, mode>>,
         UNCHANGED cpu \/ (cpu = "run" /\ cpu' = "tick")
  PROVE  QueuesTyped' /\ PlaceInv' /\ ModeInv' /\ WakeInv'
<1> USE DEF ThreadInv, Unmoved
<1>1. /\ ready' \in Seq(Threads) /\ NoRepeats(ready')
      /\ queue' \in [Sems -> Seq(Threads)] /\ \A r \in Sems : NoRepeats(queue'[r])
      /\ \A r \in Sems : Range(queue'[r]) \subseteq Range(queue[r])
      /\ \A r \in Sems \ {s} : queue'[r] = queue[r]
      /\ Range(ready') = Range(ready) \cup (Range(queue[s]) \ Range(queue'[s]))
      /\ queue[s] # <<>> => Range(queue[s]) \ Range(queue'[s]) # {}
  BY WokenIsReady
<1>2. QueuesTyped'
  BY <1>1 DEF QueuesTyped
<1>3. Range(ready) \subseteq Threads /\ \A r \in Sems : Range(queue[r]) \subseteq Threads
  BY DEF QueuesTyped, Range
<1>4. \A u \in Range(queue[s]) :
        InP(u, s) /\ u \notin Range(ready) /\ ~OnCpu(u) /\ owed[u] = "none" /\ Alive(u)
  BY DEF PlaceInv, InP, Alive
<1>5. \A u \in Range(queue[s]), r \in Sems : u \in Range(queue[r]) => r = s
  BY SemNames, <1>4 DEF PlaceInv, InP
<1>6. PlaceInv'
  <2>1. \A u \in Threads : OnCpu(u)' => Alive(u)' /\ u \notin Range(ready')
    BY <1>1, <1>4 DEF PlaceInv
  <2>2. \A u \in Range(ready') : Alive(u)'
    BY <1>1, <1>3, <1>4 DEF PlaceInv
  <2>3. ASSUME NEW r \in Sems, NEW u \in Range(queue'[r])
        PROVE  InP(u, r)' /\ u \notin Range(ready') /\ ~OnCpu(u)' /\ owed'[u] = "none"
    <3>1. u \in Range(queue[r]) /\ u \in Threads
      BY <1>1, <1>3
    <3>2. InP(u, r)' /\ u \notin Range(ready) /\ ~OnCpu(u)' /\ owed'[u] = "none"
      BY <3>1 DEF PlaceInv
    <3>3. u \notin Range(queue[s]) \ Range(queue'[s])
      BY <1>5, <2>3, <3>1
    <3> QED BY <1>1, <3>2, <3>3
  <2>4. ASSUME NEW u \in Threads, Alive(u)', ~OnCpu(u)', u \notin Range(ready')
        PROVE  \E r \in Sems : u \in Range(queue'[r])
    <3>1. PICK r \in Sems : u \in Range(queue[r])
      BY <1>1, <2>4 DEF PlaceInv
    <3>2. u \in Range(queue'[r])
      BY <1>1, <2>4, <3>1
    <3> QED BY <3>2
  <2> QED BY <2>1, <2>2, <2>3, <2>4 DEF PlaceInv
<1>7. ModeInv'
  <2>1. \A u \in Range(ready') : owed'[u] = "none" => \E r \in Sems : InP(u, r)'
    BY <1>1, <1>3, <1>4 DEF ModeInv
  <2>2. current \in Threads
    BY DEF QueuesTyped
  <2> QED BY <2>1, <2>2 DEF ModeInv
<1>8. WakeInv'
  <2>1. ASSUME NEW r \in Sems, r # s, value'[r] > 0, queue'[r] # <<>>
        PROVE  \E u \in Threads : InP(u, r)' /\ u \notin Range(queue'[r])
    <3>1. value'[r] = value[r] /\ queue'[r] = queue[r]
      BY <1>1, <2>1 DEF V
    <3>2. PICK u \in Threads : InP(u, r) /\ u \notin Range(queue[r])
      BY <2>1, <3>1 DEF WakeInv
    <3> QED BY <3>1, <3>2
  <2>2. ASSUME queue'[s] # <<>>
        PROVE  \E u \in Threads : InP(u, s)' /\ u \notin Range(queue'[s])
    <3>1. queue[s] # <<>>
      BY <2>2 DEF V, QueuesTyped
    <3>2. PICK u \in Range(queue[s]) : u \notin Range(queue'[s])
      BY <1>1, <3>1
    <3> QED BY <1>3, <1>4, <3>2
  <2> QED BY <2>1, <2>2 DEF WakeInv
<1> QED BY <1>2, <1>6, <1>7, <1>8

\* Thread::Fork puts the new thread at the end of the ready list.
LEMMA ForkPlaces ==
  ASSUME ThreadInv, pc \in [Threads -> PCs], NEW t \in Threads, Fork(t)
  PROVE  QueuesTyped' /\ PlaceInv' /\ ModeInv' /\ WakeInv'
<1> USE DEF ThreadInv
<1>1. /\ cpu = "run" /\ current = Main /\ pc[Main] = "fork" /\ pc[t] = "new"
      /\ pc' = [pc EXCEPT ![t] = "user"] /\ owed' = [owed EXCEPT ![t] = "User"]
      /\ ready' = Append(ready, t) /\ cpu' \in {"run", "tick"}
      /\ UNCHANGED <<op, current, queue, value, mode>>
  BY DEF Fork, Running, RestoreLevel, Tick, semVars
<1>2. /\ ~Alive(t) /\ Main # t /\ OnCpu(Main)
      /\ \A u \in Threads : (OnCpu(u) <=> u = Main) /\ (OnCpu(u)' <=> u = Main)
  BY <1>1 DEF Alive, OnCpu
<1>3. t \notin Range(ready) /\ \A s \in Sems : t \notin Range(queue[s])
  BY <1>1, <1>2 DEF PlaceInv, InP
<1>4. ready' \in Seq(Threads) /\ NoRepeats(ready') /\ Range(ready') = Range(ready) \cup {t}
  BY <1>1, <1>3, AppendAdds DEF QueuesTyped
<1>5. QueuesTyped'
  BY <1>1, <1>4 DEF QueuesTyped
<1>6. pc'[t] = "user" /\ owed'[t] = "User" /\ Alive(t)' /\ Status(t)' = "User"
  BY <1>1 DEF Alive, Status, QueuesTyped
<1>7. \A u \in Threads \ {t} : /\ owed'[u] = owed[u] /\ Status(u)' = Status(u)
                               /\ Alive(u)' <=> Alive(u)
                               /\ \A s \in Sems : InP(u, s)' <=> InP(u, s)
  BY <1>1 DEF Alive, Status, InP, QueuesTyped
<1>8. Range(ready) \subseteq Threads /\ \A s \in Sems : Range(queue[s]) \subseteq Threads
  BY DEF QueuesTyped, Range
<1>9. PlaceInv'
  BY <1>1, <1>2, <1>3, <1>4, <1>6, <1>7, <1>8 DEF PlaceInv
<1>10. ModeInv'
  BY <1>1, <1>2, <1>3, <1>4, <1>6, <1>7, <1>8, NamesAssumption DEF ModeInv
<1>11. WakeInv'
  <2> SUFFICES ASSUME NEW s \in Sems, value[s] > 0, queue[s] # <<>>
               PROVE  \E u \in Threads : InP(u, s)' /\ u \notin Range(queue[s])
    BY <1>1 DEF WakeInv
  <2>1. PICK u \in Threads : InP(u, s) /\ u \notin Range(queue[s])
    BY DEF WakeInv
  <2>2. u # t
    BY <1>1, <2>1 DEF InP
  <2> QED BY <1>7, <2>1, <2>2
<1> QED BY <1>5, <1>9, <1>10, <1>11

\* A thread that finishes is in no place any more.
LEMMA FinishPlaces ==
  ASSUME ThreadInv, pc \in [Threads -> PCs], NEW t \in Threads, Finish(t)
  PROVE  QueuesTyped' /\ PlaceInv' /\ ModeInv' /\ WakeInv'
<1> USE DEF ThreadInv
<1>1. /\ cpu = "run" /\ current = t /\ pc[t] \in {"user", "fork"}
      /\ pc' = [pc EXCEPT ![t] = "exited"] /\ mode' = "System" /\ cpu' = "sleep"
      /\ UNCHANGED <<op, current, ready, owed, queue, value>>
  BY DEF Finish, Running, Go, Home, semVars
<1>2. /\ OnCpu(t) /\ \A u \in Threads : ~OnCpu(u)' /\ (OnCpu(u) => u = t)
      /\ owed[t] = "none" /\ ~Alive(t)' /\ t \notin Range(ready)
      /\ \A s \in Sems : t \notin Range(queue[s])
  BY <1>1 DEF OnCpu, PlaceInv, ModeInv, Alive
<1>3. \A u \in Threads \ {t} : /\ Alive(u)' <=> Alive(u)
                               /\ Status(u)' = Status(u)
                               /\ \A s \in Sems : InP(u, s)' <=> InP(u, s)
  BY <1>1 DEF Alive, Status, InP
<1>4. Range(ready) \subseteq Threads /\ \A s \in Sems : Range(queue[s]) \subseteq Threads
  BY DEF QueuesTyped, Range
<1>5. QueuesTyped'
  BY <1>1 DEF QueuesTyped
<1>6. PlaceInv'
  <2>1. \A s \in Sems : \A u \in Range(queue'[s]) : ~OnCpu(u)'
    BY <1>1 DEF OnCpu
  <2> QED BY <1>1, <1>2, <1>3, <1>4, <2>1 DEF PlaceInv
<1>7. ModeInv'
  BY <1>1, <1>2, <1>3, <1>4 DEF ModeInv
<1>8. WakeInv'
  <2> SUFFICES ASSUME NEW s \in Sems, value[s] > 0, queue[s] # <<>>
               PROVE  \E u \in Threads : InP(u, s)' /\ u \notin Range(queue[s])
    BY <1>1 DEF WakeInv
  <2>1. PICK u \in Threads : InP(u, s) /\ u \notin Range(queue[s])
    BY DEF WakeInv
  <2>2. u # t
    BY <1>1, <2>1 DEF InP
  <2> QED BY <1>3, <2>1, <2>2
<1> QED BY <1>5, <1>6, <1>7, <1>8

\* Scheduler::Run of the first ready thread, by Sleep and by Yield.
LEMMA DispatchPlaces ==
  ASSUME ThreadInv, Dispatch
  PROVE  QueuesTyped' /\ PlaceInv' /\ ModeInv' /\ WakeInv'
<1> USE DEF ThreadInv
<1>1. /\ cpu = "sleep" /\ ready # <<>> /\ ready' = Tail(ready) /\ current' = Head(ready)
      /\ cpu' = IF owed[Head(ready)] = "none" THEN "run" ELSE "tick"
      /\ UNCHANGED <<pc, op, queue, value, owed, mode>>
  BY DEF Dispatch, RunFirst, Tick, semVars, threadVars
<1>2. PICK h \in Threads : h = Head(ready)
  BY <1>1 DEF QueuesTyped
<1>3. /\ ready' \in Seq(Threads) /\ NoRepeats(ready')
      /\ h \in Range(ready) /\ Range(ready') = Range(ready) \ {h}
  BY <1>1, <1>2, TailRemoves DEF QueuesTyped
<1>4. QueuesTyped'
  BY <1>1, <1>2, <1>3 DEF QueuesTyped
<1>5. \A u \in Threads : ~OnCpu(u) /\ (OnCpu(u)' <=> u = h)
  BY <1>1, <1>2 DEF OnCpu
<1>6. \A u : /\ Alive(u)' <=> Alive(u)
             /\ Status(u)' = Status(u)
             /\ \A s : InP(u, s)' <=> InP(u, s)
  BY <1>1 DEF Alive, Status, InP
<1>7. Range(ready) \subseteq Threads /\ \A s \in Sems : Range(queue[s]) \subseteq Threads
  BY DEF QueuesTyped, Range
<1>8. PlaceInv'
  <2>1. \A u \in Threads : OnCpu(u)' => Alive(u)' /\ u \notin Range(ready')
    BY <1>3, <1>5, <1>6 DEF PlaceInv
  <2>2. \A u \in Range(ready') : Alive(u)'
    BY <1>3, <1>6 DEF PlaceInv
  <2>3. ASSUME NEW s \in Sems, NEW u \in Range(queue'[s])
        PROVE  InP(u, s)' /\ u \notin Range(ready') /\ ~OnCpu(u)' /\ owed'[u] = "none"
    <3>1. u \in Threads /\ InP(u, s) /\ u \notin Range(ready) /\ owed[u] = "none"
      BY <1>1, <1>7 DEF PlaceInv
    <3> QED BY <1>1, <1>3, <1>5, <1>6, <3>1
  <2>4. \A u \in Threads : Alive(u)' =>
          OnCpu(u)' \/ u \in Range(ready') \/ \E s \in Sems : u \in Range(queue'[s])
    BY <1>1, <1>3, <1>5, <1>6 DEF PlaceInv
  <2> QED BY <2>1, <2>2, <2>3, <2>4 DEF PlaceInv
<1>9. ModeInv'
  <2>1. mode = "System" /\ (owed[h] = "none" => Status(h) = "System")
    BY <1>1, <1>3 DEF ModeInv, InP, Status
  <2> QED BY <1>1, <1>2, <1>3, <1>6, <2>1 DEF ModeInv
<1>10. WakeInv'
  BY <1>1, <1>6 DEF WakeInv
<1> QED BY <1>4, <1>8, <1>9, <1>10

\* A thread that loses the CPU in a tick is owed the status it had before.
LEMMA YieldPlaces ==
  ASSUME ThreadInv, YieldCurrent
  PROVE  QueuesTyped' /\ PlaceInv' /\ ModeInv' /\ WakeInv'
<1> USE DEF ThreadInv
<1>0. PICK t \in Threads : t = current
  BY DEF QueuesTyped
<1>1. /\ cpu = "tick" /\ mode' = "System" /\ UNCHANGED <<pc, op, queue, value>>
      /\ owed' = [owed EXCEPT ![t] = IF @ = "none" THEN mode ELSE @]
      /\ OnCpu(t) /\ t \notin Range(ready)
      /\ \A u \in Threads : OnCpu(u) <=> u = t
  BY <1>0 DEF YieldCurrent, semVars, threadVars, OnCpu, PlaceInv
<1>2. owed'[t] = Status(t) /\ \A u \in Threads \ {t} : owed'[u] = owed[u]
  BY <1>0, <1>1 DEF ModeInv, QueuesTyped
<1>3. owed' \in [Threads -> {"none", "System", "User"}]
  BY <1>1, <1>2 DEF QueuesTyped, Status
<1>4. \A u : /\ Alive(u)' <=> Alive(u)
             /\ Status(u)' = Status(u)
             /\ \A s : InP(u, s)' <=> InP(u, s)
  BY <1>1 DEF Alive, Status, InP
<1>5. Range(ready) \subseteq Threads /\ \A s \in Sems : Range(queue[s]) \subseteq Threads
  BY DEF QueuesTyped, Range
<1>6. WakeInv'
  BY <1>1, <1>4 DEF WakeInv
<1>7. Status(t) # "none"
  BY DEF Status
<1>8. CASE ready = <<>>
  <2>1. cpu' = "tick" /\ UNCHANGED <<current, ready>>
    BY <1>8 DEF YieldCurrent, Tick
  <2>2. \A u \in Threads : OnCpu(u)' <=> u = t
    BY <1>0, <2>1 DEF OnCpu
  <2>3. QueuesTyped'
    BY <1>1, <1>3, <2>1 DEF QueuesTyped
  <2>4. PlaceInv'
    BY <1>1, <1>2, <1>4, <1>5, <2>1, <2>2 DEF PlaceInv
  <2>5. ModeInv'
    BY <1>0, <1>1, <1>2, <1>4, <1>5, <1>7, <2>1 DEF ModeInv
  <2> QED BY <1>6, <2>3, <2>4, <2>5
<1>9. CASE ready # <<>>
  <2>1. /\ current' = Head(ready) /\ ready' = Append(Tail(ready), t)
        /\ cpu' = IF owed[Head(ready)] = "none" THEN "run" ELSE "tick"
    BY <1>0, <1>9 DEF YieldCurrent, RunFirst, Tick
  <2>2. PICK h \in Threads : h = Head(ready)
    BY <1>9 DEF QueuesTyped
  <2>3. /\ Tail(ready) \in Seq(Threads) /\ NoRepeats(Tail(ready))
        /\ h \in Range(ready) /\ Range(Tail(ready)) = Range(ready) \ {h}
    BY <1>9, <2>2, TailRemoves DEF QueuesTyped
  <2>4. /\ ready' \in Seq(Threads) /\ NoRepeats(ready')
        /\ Range(ready') = (Range(ready) \ {h}) \cup {t}
    <3>1. PICK q \in Seq(Threads) : q = Tail(ready)
      BY <2>3
    <3>2. NoRepeats(q) /\ t \notin Range(q) /\ Range(q) = Range(ready) \ {h}
      BY <1>1, <2>3, <3>1
    <3>3. /\ Append(q, t) \in Seq(Threads) /\ NoRepeats(Append(q, t))
          /\ Range(Append(q, t)) = Range(q) \cup {t}
      BY <3>2, AppendAdds
    <3> QED BY <2>1, <3>1, <3>2, <3>3
  <2>5. h # t
    BY <1>1, <2>3
  <2>6. QueuesTyped'
    BY <1>1, <1>3, <2>1, <2>2, <2>4 DEF QueuesTyped
  <2>7. \A u \in Threads : OnCpu(u)' <=> u = h
    BY <2>1, <2>2 DEF OnCpu
  <2>8. PlaceInv'
    <3>1. \A u \in Threads : OnCpu(u)' => Alive(u)' /\ u \notin Range(ready')
      BY <1>4, <2>3, <2>4, <2>5, <2>7 DEF PlaceInv
    <3>2. \A u \in Range(ready') : Alive(u)'
      BY <1>1, <1>4, <2>4 DEF PlaceInv
    <3>3. ASSUME NEW s \in Sems, NEW u \in Range(queue'[s])
          PROVE  InP(u, s)' /\ u \notin Range(ready') /\ ~OnCpu(u)' /\ owed'[u] = "none"
      <4>1. /\ u \in Threads /\ InP(u, s) /\ u \notin Range(ready) /\ ~OnCpu(u)
            /\ owed[u] = "none"
        BY <1>1, <1>5 DEF PlaceInv
      <4> QED BY <1>1, <1>2, <1>4, <2>3, <2>4, <2>7, <4>1
    <3>4. \A u \in Threads : Alive(u)' =>
            OnCpu(u)' \/ u \in Range(ready') \/ \E s \in Sems : u \in Range(queue'[s])
      BY <1>1, <1>4, <2>4, <2>7 DEF PlaceInv
    <3> QED BY <3>1, <3>2, <3>3, <3>4 DEF PlaceInv
  <2>9. ModeInv'
    <3>1. owed'[h] = owed[h] /\ (owed[h] = "none" => Status(h) = "System")
      BY <1>2, <2>3, <2>5 DEF ModeInv, InP, Status
    <3>2. \A u \in Range(ready') : owed'[u] = "none" => \E s \in Sems : InP(u, s)'
      BY <1>2, <1>4, <1>5, <1>7, <2>4 DEF ModeInv
    <3>3. \A u \in Threads : owed'[u] # "none" => owed'[u] = Status(u)'
      BY <1>2, <1>4 DEF ModeInv
    <3> QED BY <1>1, <1>4, <2>1, <2>2, <3>1, <3>2, <3>3 DEF ModeInv
  <2> QED BY <1>6, <2>6, <2>8, <2>9
<1> QED BY <1>8, <1>9

\* The ends of OneTick and of Idle.
LEMMA EndTickPlaces ==
  ASSUME ThreadInv, EndTick
  PROVE  QueuesTyped' /\ PlaceInv' /\ ModeInv' /\ WakeInv'
<1> USE DEF ThreadInv
<1>1. /\ cpu = "tick" /\ cpu' = "run" /\ UNCHANGED <<pc, op, queue, value, current, ready>>
      /\ mode' = (IF owed[current] = "none" THEN mode ELSE owed[current])
      /\ owed' = [owed EXCEPT ![current] = "none"] /\ current \in Threads
  BY DEF EndTick, semVars, threadVars, QueuesTyped
<1>2. \A u : /\ Alive(u)' <=> Alive(u)
             /\ Status(u)' = Status(u)
             /\ OnCpu(u)' <=> OnCpu(u)
             /\ \A s : InP(u, s)' <=> InP(u, s)
  BY <1>1 DEF Alive, Status, InP, OnCpu
<1>3. /\ owed'[current] = "none" /\ \A u \in Threads \ {current} : owed'[u] = owed[u]
      /\ owed' \in [Threads -> {"none", "System", "User"}]
      /\ current \notin Range(ready) /\ mode' = Status(current)
  BY <1>1 DEF QueuesTyped, ModeInv, PlaceInv, OnCpu
<1>4. Range(ready) \subseteq Threads /\ \A s \in Sems : Range(queue[s]) \subseteq Threads
  BY DEF QueuesTyped, Range
<1>5. QueuesTyped'
  BY <1>1, <1>3 DEF QueuesTyped
<1>6. PlaceInv'
  BY <1>1, <1>2, <1>3, <1>4 DEF PlaceInv
<1>7. ModeInv'
  BY <1>1, <1>2, <1>3, <1>4 DEF ModeInv
<1>8. WakeInv'
  BY <1>1, <1>2 DEF WakeInv
<1> QED BY <1>5, <1>6, <1>7, <1>8

LEMMA AsleepPlaces ==
  ASSUME ThreadInv, cpu \notin {"run", "tick"}, cpu' \notin {"run", "tick"},
         cpu' = "sleep" => mode' = "System",
         UNCHANGED <<pc, op, queue, value, current, ready, owed>>
  PROVE  QueuesTyped' /\ PlaceInv' /\ ModeInv' /\ WakeInv'
<1>1. \A u : ~OnCpu(u) /\ ~OnCpu(u)' /\ (Alive(u)' <=> Alive(u)) /\ Status(u)' = Status(u)
             /\ \A s : InP(u, s)' <=> InP(u, s)
  BY DEF Alive, Status, InP, OnCpu
<1> QED BY <1>1 DEF ThreadInv, QueuesTyped, PlaceInv, ModeInv, WakeInv

\* A step that touches none of this.
LEMMA ThreadsStay ==
  ASSUME ThreadInv,
         UNCHANGED <<pc, op, queue, value, current, ready, owed, cpu, mode>>
  PROVE  QueuesTyped' /\ PlaceInv' /\ ModeInv' /\ WakeInv'
BY DEF ThreadInv, QueuesTyped, PlaceInv, ModeInv, WakeInv, OnCpu, Alive, Status, InP

-----------------------------------------------------------------------------
\* The steps of the running thread in its own code and in the drivers.
LEMMA OwnStepsPlace ==
  ASSUME DeviceInv, ThreadInv, NEW t \in Threads,
         \/ Instruction(t) \/ Call(t) \/ AcquireTakes(t) \/ Own(t) \/ PutChar(t)
         \/ DiskRequest(t) \/ AwaitTakes(t) \/ Answered(t) \/ TakeChar(t) \/ Return(t)
  PROVE  QueuesTyped' /\ PlaceInv' /\ ModeInv' /\ WakeInv'
<1> USE DEF Running, Go, semVars, irqVars, devVars, cpuVars, threadVars
<1>1. /\ pc \in [Threads -> PCs] /\ op \in [Threads -> Drivers \cup {"none"}]
      /\ value \in [Sems -> Nat] /\ current \in Threads
  BY DEF DeviceInv, Types, ThreadInv, QueuesTyped
<1>2. cpu = "run" /\ current = t
  BY DEF Instruction, Call, AcquireTakes, Own, PutChar, DiskRequest, AwaitTakes, Answered,
         TakeChar, Return
<1>3. mode = Status(t)
  BY <1>2 DEF ThreadInv, ModeInv
<1>4. ASSUME UNCHANGED value, pc[t] \notin {"acquire", "await"}
      PROVE  /\ value' \in [Sems -> Nat]
             /\ \A s \in Sems : value'[s] <= value[s] /\ (InP(t, s) => value'[s] = 0)
  BY <1>1, <1>4 DEF InP
<1>5. CASE Instruction(t)
  <2>1. /\ pc[t] = "user" /\ pc' = [pc EXCEPT ![t] = "user"] /\ cpu' = "tick"
        /\ UNCHANGED <<op, value, current, ready, queue, owed, mode>>
    BY <1>1, <1>5 DEF Instruction, Tick
  <2> QED BY <1>1, <1>2, <1>3, <1>4, <2>1, GoesOn DEF PCs, Status
<1>6. CASE Call(t)
  <2>1. /\ pc[t] \notin {"acquire", "await"} /\ pc' = [pc EXCEPT ![t] = "acquire"] /\ cpu' = "run"
        /\ mode' = "System" /\ UNCHANGED <<value, current, ready, queue, owed>>
    BY <1>2, <1>6 DEF Call, Home
  <2>2. \E d \in Drivers : op' = [op EXCEPT ![t] = d]
    BY <1>6 DEF Call, Calls, Drivers
  <2> QED BY <1>1, <1>2, <1>4, <2>1, <2>2, GoesOn DEF PCs
<1>7. CASE AcquireTakes(t)
  <2>1. /\ pc[t] = "acquire" /\ pc' = [pc EXCEPT ![t] = "own"] /\ cpu' \in {"run", "tick"}
        /\ value[lock(op[t])] > 0 /\ value' = [value EXCEPT ![lock(op[t])] = @ - 1]
        /\ UNCHANGED <<op, current, ready, queue, owed, mode>>
    BY <1>2, <1>7 DEF AcquireTakes, PTakes, RestoreLevel, Tick
  <2>2. lock(op[t]) \in Sems
    BY <2>1, SemNames DEF DeviceInv, LockInv
  <2>3. value' \in [Sems -> Nat] /\ \A s \in Sems : value'[s] <= value[s]
    BY <1>1, <2>1, <2>2
  <2>4. \A s \in Sems : InP(t, s) => value'[s] = 0
    BY <1>1, <2>1, <2>2, ValuesAreSmall DEF InP
  <2> QED BY <1>1, <1>2, <1>3, <2>1, <2>3, <2>4, GoesOn DEF PCs, Status
<1>8. CASE AwaitTakes(t)
  <2>1. /\ pc[t] = "await" /\ pc' = [pc EXCEPT ![t] = "answered"] /\ cpu' \in {"run", "tick"}
        /\ value[done(op[t])] > 0 /\ value' = [value EXCEPT ![done(op[t])] = @ - 1]
        /\ UNCHANGED <<op, current, ready, queue, owed, mode>>
    BY <1>2, <1>8 DEF AwaitTakes, PTakes, RestoreLevel, Tick
  <2>2. done(op[t]) \in Sems
    BY <2>1, SemNames DEF DeviceInv, LockInv, Inside
  <2>3. value' \in [Sems -> Nat] /\ \A s \in Sems : value'[s] <= value[s]
    BY <1>1, <2>1, <2>2
  <2>4. \A s \in Sems : InP(t, s) => value'[s] = 0
    BY <1>1, <2>1, <2>2, ValuesAreSmall DEF InP
  <2> QED BY <1>1, <1>2, <1>3, <2>1, <2>3, <2>4, GoesOn DEF PCs, Status
<1>9. CASE Own(t) \/ PutChar(t) \/ DiskRequest(t) \/ Answered(t) \/ TakeChar(t)
  <2>1. PICK p \in PCs \ {"new", "exited", "user"} : pc' = [pc EXCEPT ![t] = p]
    BY <1>9 DEF Own, PutChar, DiskRequest, Answered, TakeChar, PCs
  <2>2. /\ pc[t] \notin {"acquire", "await", "user"} /\ cpu' = "run"
        /\ UNCHANGED <<op, value, current, ready, queue, owed, mode>>
    BY <1>2, <1>9 DEF Own, PutChar, DiskRequest, Answered, TakeChar
  <2> QED BY <1>1, <1>2, <1>3, <1>4, <2>1, <2>2, GoesOn DEF Status
<1>10. CASE Return(t)
  <2>1. /\ pc[t] = "return" /\ pc' = [pc EXCEPT ![t] = "user"] /\ cpu' = "tick" /\ mode' = "User"
        /\ UNCHANGED <<op, value, current, ready, queue, owed>>
    BY <1>10 DEF Return, Tick
  <2> QED BY <1>1, <1>2, <1>4, <2>1, GoesOn DEF PCs
<1> QED BY <1>5, <1>6, <1>7, <1>8, <1>9, <1>10

\* The steps in which a thread sleeps, or wakes another.
LEMMA SemStepsPlace ==
  ASSUME DeviceInv, ThreadInv, NEW t \in Threads, AcquireSleeps(t) \/ AwaitSleeps(t) \/ Release(t)
  PROVE  QueuesTyped' /\ PlaceInv' /\ ModeInv' /\ WakeInv'
<1> USE DEF Running, Go, semVars, irqVars, devVars, cpuVars, threadVars
<1>1. pc \in [Threads -> PCs] /\ value \in [Sems -> Nat] /\ op \in [Threads -> Drivers \cup {"none"}]
  BY DEF DeviceInv, Types
<1>2. CASE AcquireSleeps(t)
  <2>1. PICK s \in Sems : s = lock(op[t])
    BY <1>2, SemNames DEF AcquireSleeps, DeviceInv, LockInv
  <2>2. /\ cpu = "run" /\ current = t /\ InP(t, s) /\ PSleeps(t, s) /\ cpu' = "sleep"
        /\ UNCHANGED <<pc, op, current, ready, owed, mode>>
    BY <1>2, <2>1 DEF AcquireSleeps, InP
  <2> QED BY <2>2, GoesToSleep
<1>3. CASE AwaitSleeps(t)
  <2>1. PICK s \in Sems : s = done(op[t])
    BY <1>3, SemNames DEF AwaitSleeps, DeviceInv, LockInv, Inside
  <2>2. /\ cpu = "run" /\ current = t /\ InP(t, s) /\ PSleeps(t, s) /\ cpu' = "sleep"
        /\ UNCHANGED <<pc, op, current, ready, owed, mode>>
    BY <1>3, <2>1 DEF AwaitSleeps, InP
  <2> QED BY <2>2, GoesToSleep
<1>4. CASE Release(t)
  <2>1. PICK s \in Sems : s = lock(op[t])
    BY <1>4, SemNames DEF Release, DeviceInv, LockInv, Inside
  <2>2. /\ V(s) /\ ready' = ready \o Woken(s)
        /\ UNCHANGED <<current, owed, mode>>
        /\ cpu = "run" /\ current = t /\ (UNCHANGED cpu \/ cpu' = "tick")
    BY <1>4, <2>1 DEF Release, RestoreLevel, Tick
  <2>3. PICK p \in {"boot", "fork", "return"} : pc' = [pc EXCEPT ![t] = p]
    BY <1>4 DEF Release, Home
  <2>4. pc[t] = "release" /\ op' = [op EXCEPT ![t] = "none"]
    BY <1>4 DEF Release
  <2>5. ASSUME NEW u \in Threads PROVE Unmoved(u)
    <3>1. OnCpu(u)' <=> OnCpu(u)
      BY <2>2 DEF OnCpu
    <3>2. CASE u = t
      BY <1>1, <2>3, <2>4, <3>1, <3>2 DEF Unmoved, Alive, Status, InP
    <3>3. CASE u # t
      BY <1>1, <2>3, <2>4, <3>1, <3>3 DEF Unmoved, Alive, Status, InP
    <3> QED BY <3>2, <3>3
  <2> QED BY <1>1, <2>2, <2>5, SleeperWakes
<1> QED BY <1>2, <1>3, <1>4

\* The handlers' V.
LEMMA HandlersPlace ==
  ASSUME DeviceInv, ThreadInv, Fire
  PROVE  QueuesTyped' /\ PlaceInv' /\ ModeInv' /\ WakeInv'
<1> USE DEF semVars, devVars, cpuVars, threadVars
<1>1. CASE FireTimer \/ FireInDisabled \/ FireInPolls
  BY <1>1, ThreadsStay DEF FireTimer, FireInDisabled, FireInPolls
<1>2. ASSUME NEW d \in Drivers, Signal(d), UNCHANGED <<pc, op, current, owed, mode, cpu>>
      PROVE  QueuesTyped' /\ PlaceInv' /\ ModeInv' /\ WakeInv'
  <2>1. PICK s \in Sems : s = done(d)
    BY SemNames
  <2>2. V(s) /\ ready' = ready \o Woken(s)
    BY <1>2, <2>1 DEF Signal
  <2>3. \A u \in Threads : Unmoved(u)
    BY <1>2 DEF Unmoved, Alive, Status, OnCpu, InP
  <2>4. value \in [Sems -> Nat]
    BY DEF DeviceInv, Types
  <2> QED BY <1>2, <2>2, <2>3, <2>4, SleeperWakes
<1>3. ASSUME NEW d \in {"out", "disk"}, FireDone(d)
      PROVE  QueuesTyped' /\ PlaceInv' /\ ModeInv' /\ WakeInv'
  BY <1>2, <1>3 DEF FireDone, Drivers
<1>4. ASSUME NEW got \in {"char", "eof"}, FireInReads(got)
      PROVE  QueuesTyped' /\ PlaceInv' /\ ModeInv' /\ WakeInv'
  <2>1. Signal("in") /\ UNCHANGED <<pc, op, current, owed, mode, cpu>> /\ "in" \in Drivers
    BY <1>4 DEF FireInReads, Drivers
  <2> QED BY <1>2, <2>1
<1> QED BY <1>1, <1>3, <1>4 DEF Fire

-----------------------------------------------------------------------------
\* The machine halts from Idle alone.
LEMMA NextHalts == HaltInv /\ DeviceInv /\ [Next]_vars => HaltInv'
<1> SUFFICES ASSUME HaltInv, DeviceInv, [Next]_vars PROVE HaltInv'
  OBVIOUS
<1> USE DEF semVars, irqVars, devVars, cpuVars, threadVars, Tick, RestoreLevel, Running
<1>0. op \in [Threads -> Drivers \cup {"none"}]
  BY DEF DeviceInv, Types
<1>1. CASE Enable \/ EndTick \/ YieldCurrent \/ Dispatch \/ EndIdle
  BY <1>1, HaltStays DEF Enable, EndTick, YieldCurrent, Dispatch, RunFirst, EndIdle
<1>2. CASE Fire
  <2>1. UNCHANGED <<kernel, disabled, op, cpu>> /\ cpu # "halted"
    BY <1>2 DEF Fire, FireTimer, FireInDisabled, FireInPolls, FireDone, FireInReads, Fires
  <2> QED BY <2>1, HaltStays
<1>3. CASE Idle
  BY <1>3 DEF Idle, HaltInv
<1>4. ASSUME NEW t \in Threads, Call(t)
      PROVE  HaltInv'
  <2>1. PICK d \in Calls(t) : op' = [op EXCEPT ![t] = d]
    BY <1>4 DEF Call
  <2>2. d = "in" => t = Main
    BY <2>1 DEF Calls
  <2>3. \A u \in Threads : op'[u] = "in" => op[u] = "in" \/ u = Main
    BY <1>0, <2>1, <2>2
  <2> QED BY <1>4, <2>3, HaltStays DEF Call
<1>5. ASSUME NEW t \in Threads, Release(t)
      PROVE  HaltInv'
  <2>1. \A u \in Threads : op'[u] = "in" => op[u] = "in"
    BY <1>0, <1>5 DEF Release
  <2> QED BY <1>5, <2>1, HaltStays DEF Release
<1>6. ASSUME NEW t \in Threads,
             \/ Fork(t) \/ Instruction(t) \/ Finish(t) \/ AcquireSleeps(t) \/ AcquireTakes(t)
             \/ Own(t) \/ PutChar(t) \/ DiskRequest(t) \/ AwaitSleeps(t) \/ AwaitTakes(t)
             \/ Answered(t) \/ TakeChar(t) \/ Return(t)
      PROVE  HaltInv'
  <2>1. UNCHANGED <<kernel, disabled, op>> /\ cpu' # "halted"
    BY <1>6 DEF Fork, Instruction, Finish, AcquireSleeps, AcquireTakes, Own, PutChar, DiskRequest,
       AwaitSleeps, AwaitTakes, Answered, TakeChar, Return
  <2> QED BY <2>1, HaltStays
<1>7. CASE UNCHANGED vars
  BY <1>7 DEF vars, HaltInv
<1> QED BY <1>1, <1>2, <1>3, <1>4, <1>5, <1>6, <1>7 DEF Next, ThreadStep

LEMMA NextThreads == DeviceInv /\ ThreadInv /\ [Next]_vars => ThreadInv'
<1> SUFFICES ASSUME DeviceInv, ThreadInv, [Next]_vars
             PROVE  QueuesTyped' /\ PlaceInv' /\ ModeInv' /\ WakeInv'
  BY NextHalts DEF ThreadInv
<1> USE DEF semVars, irqVars, devVars, cpuVars, threadVars
<1>0. /\ pc \in [Threads -> PCs] /\ op \in [Threads -> Drivers \cup {"none"}]
      /\ value \in [Sems -> Nat]
  BY DEF DeviceInv, Types
<1>1. CASE Enable
  <2>1. /\ cpu = "run" /\ current = Main /\ pc[Main] = "boot" /\ cpu' = "tick"
        /\ pc' = [pc EXCEPT ![Main] = "fork"]
        /\ UNCHANGED <<op, value, current, ready, queue, owed, mode>>
    BY <1>1 DEF Enable, Running, Tick, Go
  <2>2. mode = "System"
    BY <2>1 DEF ThreadInv, ModeInv, Status
  <2>3. \A s \in Sems : value'[s] <= value[s] /\ (InP(Main, s) => value'[s] = 0)
    BY <1>0, <2>1 DEF InP
  <2> QED BY <1>0, <2>1, <2>2, <2>3, NamesAssumption, GoesOn DEF PCs
<1>2. CASE Fire
  BY <1>2, HandlersPlace
<1>3. CASE EndTick \/ YieldCurrent \/ Dispatch
  BY <1>3, EndTickPlaces, YieldPlaces, DispatchPlaces
<1>4. CASE Idle \/ EndIdle
  <2>1. /\ cpu \notin {"run", "tick"} /\ cpu' \notin {"run", "tick"}
        /\ cpu' = "sleep" => mode' = "System"
        /\ UNCHANGED <<pc, op, queue, value, current, ready, owed>>
    BY <1>4 DEF Idle, EndIdle
  <2> QED BY <2>1, AsleepPlaces
<1>5. ASSUME NEW t \in Threads, ThreadStep(t)
      PROVE  QueuesTyped' /\ PlaceInv' /\ ModeInv' /\ WakeInv'
  BY <1>0, <1>5, ForkPlaces, FinishPlaces, OwnStepsPlace, SemStepsPlace DEF ThreadStep
<1>6. CASE UNCHANGED vars
  BY <1>6, ThreadsStay DEF vars
<1> QED BY <1>1, <1>2, <1>3, <1>4, <1>5, <1>6 DEF Next

\* Every thread is in one place, no wake-up is lost, and ticks nest properly, for any
\* number of threads in both kernels.
THEOREM ThreadsHold == Spec => []ThreadInv
<1>1. DeviceInv /\ ThreadInv /\ [Next]_vars => ThreadInv'
  BY NextThreads
<1> QED BY InitThreads, <1>1, DevicesHold, PTL DEF Spec

\* User instructions, and nothing else, run in user mode: however many ticks and
\* yields are nested in a OneTick, it puts the status back that it found.
THEOREM ModeIsRestored == Spec => []ModeRestored
<1>1. ThreadInv => ModeRestored
  BY DEF ThreadInv, ModeInv, ModeRestored, Status
<1> QED BY <1>1, ThreadsHold, PTL

\* Interrupt::Halt is called from Idle only when no thread is left but some that wait
\* for input that does not come: a device at work has an interrupt to come, and a
\* thread that sleeps at a lock has one before it that waits for a device.
THEOREM HaltsQuietly == Spec => []HaltIsQuiet
<1>1. DeviceInv /\ ThreadInv => HaltIsQuiet
  <2> SUFFICES ASSUME DeviceInv, ThreadInv, cpu = "halted"
               PROVE  /\ kernel = "MP4"
                      /\ \A d \in Answering : ~busy[d] /\ Users(d) = {}
                      /\ \A t \in Threads : ~Alive(t) \/ (t = Main /\ op[t] = "in")
    BY DEF HaltIsQuiet, Answering, Alive
  <2>1. ready = <<>> /\ pending = <<>>
    BY DEF ThreadInv, HaltInv
  <2>2. Range(ready) = {} /\ Range(pending) = {}
    BY <2>1 DEF Range
  <2>3. kernel = "MP4" /\ \A d \in Answering : ~busy[d]
    BY <2>2 DEF DeviceInv, PendingInv, PendingExact, ThreadInv, HaltInv, Types, Answering
  <2>4. \A t \in Threads : Alive(t) => \E s \in Sems : InP(t, s) /\ t \in Range(queue[s])
    BY <2>2 DEF ThreadInv, PlaceInv, OnCpu
  <2>5. ASSUME NEW s \in Sems, queue[s] # <<>> PROVE value[s] = 0
    <3>1. ASSUME NEW u \in Threads, InP(u, s), u \notin Range(queue[s]) PROVE FALSE
      <4>1. PICK r \in Sems : InP(u, r) /\ u \in Range(queue[r])
        BY <2>4, <3>1 DEF InP, Alive
      <4>2. op[u] \in Drivers
        BY <3>1 DEF InP, DeviceInv, LockInv, Inside
      <4> QED BY <3>1, <4>1, <4>2, SemNames DEF InP
    <3>2. value[s] \in {0, 1}
      BY ValuesAreSmall
    <3> QED BY <2>5, <3>1, <3>2 DEF ThreadInv, WakeInv
  <2>6. ASSUME NEW s \in Sems, NEW t \in Range(queue[s]) PROVE queue[s] # <<>>
    BY <2>6 DEF Range
  <2>7. ASSUME NEW d \in Answering, Held(d) PROVE FALSE
    <3>1. PICK t \in Threads : Inside(t) /\ op[t] = d
      BY <2>7 DEF Held
    <3>2. PICK s \in Sems : InP(t, s) /\ t \in Range(queue[s])
      BY <2>4, <3>1 DEF Inside, Alive
    <3>3. pc[t] = "await" /\ s = done(d)
      BY <3>1, <3>2 DEF InP, Inside
    <3>4. value[done(d)] = 0
      BY <2>5, <2>6, <3>2, <3>3
    <3>5. Awaits(d) /\ value[done(d)] + (IF busy[d] THEN 1 ELSE 0) = (IF Awaits(d) THEN 1 ELSE 0)
      BY <3>1, <3>3 DEF Awaits, DeviceInv, AnswerInv
    <3> QED BY <2>3, <3>4, <3>5
  <2>8. ASSUME NEW t \in Threads, Alive(t), op[t] # "in" PROVE FALSE
    <3>1. PICK s \in Sems : InP(t, s) /\ t \in Range(queue[s])
      BY <2>4, <2>8
    <3>2. op[t] \in Answering
      BY <2>8, <3>1 DEF InP, DeviceInv, LockInv, Inside, Answering, Drivers
    <3>3. ~Inside(t) /\ s = lock(op[t])
      BY <2>7, <3>1, <3>2 DEF Held, InP, Inside
    <3>4. value[s] = 0
      BY <2>5, <2>6, <3>1
    <3>5. op[t] \in Drivers
      BY <3>2 DEF Answering, Drivers
    <3>6. Held(op[t])
      BY <3>3, <3>4, <3>5 DEF DeviceInv, LockInv
    <3> QED BY <2>7, <3>2, <3>6
  <2>9. \A d \in Answering : Users(d) = {}
    BY <2>7 DEF Users, Held
  <2>10. \A t \in Threads : ~Alive(t) \/ (t = Main /\ op[t] = "in")
    BY <2>8 DEF ThreadInv, HaltInv
  <2> QED BY <2>3, <2>9, <2>10
<1> QED BY <1>1, DevicesHold, ThreadsHold, PTL

-----------------------------------------------------------------------------
(***************************************************************************)
(* The clock.                                                              *)
(***************************************************************************)
ClockInv == HeadInv /\ due \in [Devs -> Int]

LEMMA ClockStays ==
  ASSUME ClockInv, UNCHANGED headVars, due' \in [Devs -> Int]
  PROVE  ClockInv'
BY DEF ClockInv, HeadInv, headVars

LEMMA TimePasses ==
  ASSUME ClockInv, NEW n \in Nat, Advance(n), UNCHANGED lastSector
  PROVE  ClockInv'
<1>1. due' \in [Devs -> Int]
  BY DEF Advance, Passed, ClockInv
<1>2. CASE kernel = "MP4"
  BY <1>1, <1>2, ClockKeepsHead DEF Advance, ClockInv
<1>3. CASE kernel # "MP4"
  BY <1>1, <1>3, ClockStays DEF Advance, headVars
<1> QED BY <1>2, <1>3

LEMMA TicksPass ==
  ASSUME ClockInv, NEW m, Tick(m), UNCHANGED lastSector
  PROVE  ClockInv'
<1>1. TickOf(m) \in Nat
  BY TimesAssumption DEF TickOf
<1> QED BY <1>1, TimePasses DEF Tick

LEMMA ScheduleTyped ==
  ASSUME ClockInv, NEW q, NEW d \in Devs, NEW n \in Int, Schedule(q, d, n)
  PROVE  due' \in [Devs -> Int]
BY DEF Schedule, ClockInv

LEMMA NextClock == ClockInv /\ DeviceInv /\ [Next]_vars => ClockInv'
<1> SUFFICES ASSUME ClockInv, DeviceInv, [Next]_vars PROVE ClockInv'
  OBVIOUS
<1> USE DEF semVars, devVars, cpuVars, threadVars
<1>0. /\ due \in [Devs -> Int] /\ {"timer", "in", "out", "disk"} \subseteq Devs
      /\ ConsoleTime \in Int /\ TimerDelays \subseteq Int
  BY TimesAssumption DEF ClockInv, Devs, Drivers
<1>1. CASE UNCHANGED <<due, headVars>>
  BY <1>0, <1>1, ClockStays
<1>2. ASSUME NEW m, Tick(m) \/ UNCHANGED timeVars, UNCHANGED lastSector
      PROVE  ClockInv'
  BY <1>1, <1>2, TicksPass DEF timeVars, headVars
<1>3. CASE Enable \/ YieldCurrent \/ Dispatch
  BY <1>2, <1>3 DEF Enable, YieldCurrent, Dispatch, RunFirst
<1>4. CASE Fire
  <2>1. UNCHANGED headVars
    BY <1>4 DEF Fire, FireTimer, FireInDisabled, FireInPolls, FireDone, FireInReads
  <2>2. \/ \E d \in Devs, n \in Int : Schedule(Tail(pending), d, n)
        \/ \E d \in Devs : due' = [due EXCEPT ![d] = 0]
    <3>1. CASE FireTimer
      <4>1. \/ due' = [due EXCEPT !["timer"] = 0]
            \/ \E n \in TimerDelays : Schedule(Tail(pending), "timer", n)
        BY <3>1 DEF FireTimer
      <4> QED BY <1>0, <4>1
    <3>2. CASE FireInDisabled
      BY <1>0, <3>2 DEF FireInDisabled
    <3>3. CASE FireInPolls
      <4>1. Schedule(Tail(pending), "in", ConsoleTime)
        BY <3>3 DEF FireInPolls
      <4> QED BY <1>0, <4>1
    <3>4. ASSUME NEW d \in {"out", "disk"}, FireDone(d)
          PROVE  \E e \in Devs : due' = [due EXCEPT ![e] = 0]
      BY <1>0, <3>4 DEF FireDone
    <3>5. ASSUME NEW got \in {"char", "eof"}, FireInReads(got)
          PROVE  \E e \in Devs : due' = [due EXCEPT ![e] = 0]
      BY <1>0, <3>5 DEF FireInReads
    <3> QED BY <1>4, <3>1, <3>2, <3>3, <3>4, <3>5 DEF Fire
  <2>3. due' \in [Devs -> Int]
    BY <1>0, <2>2, ScheduleTyped
  <2> QED BY <2>1, <2>3, ClockStays
<1>5. CASE EndTick \/ EndIdle
  BY <1>1, <1>5 DEF EndTick, EndIdle, irqVars
<1>6. CASE Idle
  <2>1. CASE Advance(due[Head(pending)]) /\ due[Head(pending)] > 0 /\ pending # <<>>
    <3>1. Head(pending) \in Devs
      BY <2>1 DEF DeviceInv, PendingInv
    <3>2. due[Head(pending)] \in Nat
      BY <1>0, <2>1, <3>1
    <3> QED BY <1>6, <2>1, <3>2, TimePasses DEF Idle
  <2>2. CASE UNCHANGED timeVars
    BY <1>1, <1>6, <2>2 DEF Idle, timeVars, headVars
  <2> QED BY <1>6, <2>1, <2>2 DEF Idle
<1>7. ASSUME NEW t \in Threads, DiskRequest(t)
      PROVE  ClockInv'
  <2>1. PICK s \in Sectors, writing \in BOOLEAN :
          Schedule(pending, "disk", ComputeLatency(s, writing)) /\ UpdateLast(s)
    BY <1>7 DEF DiskRequest
  <2>2. ComputeLatency(s, writing) \in Int
    BY LatencyTyped DEF ClockInv
  <2>3. due' \in [Devs -> Int]
    BY <1>0, <2>1, <2>2, ScheduleTyped
  <2>4. HeadInv'
    BY <1>7, <2>1, RequestKeepsHead DEF DiskRequest, ClockInv
  <2> QED BY <2>3, <2>4 DEF ClockInv
<1>8. ASSUME NEW t \in Threads, PutChar(t) \/ TakeChar(t)
      PROVE  ClockInv'
  <2>1. UNCHANGED headVars /\ (UNCHANGED due \/ \E d \in Devs : Schedule(pending, d, ConsoleTime))
    BY <1>0, <1>8 DEF PutChar, TakeChar
  <2>2. due' \in [Devs -> Int]
    BY <1>0, <2>1, ScheduleTyped
  <2> QED BY <2>1, <2>2, ClockStays
<1>9. ASSUME NEW t \in Threads,
             \/ Fork(t) \/ Instruction(t) \/ AcquireTakes(t) \/ AwaitTakes(t) \/ Release(t)
             \/ Return(t)
      PROVE  ClockInv'
  BY <1>2, <1>9 DEF Fork, Instruction, AcquireTakes, AwaitTakes, Release, Return, RestoreLevel
<1>10. ASSUME NEW t \in Threads,
              \/ Call(t) \/ Finish(t) \/ AcquireSleeps(t) \/ Own(t) \/ AwaitSleeps(t) \/ Answered(t)
       PROVE  ClockInv'
  BY <1>1, <1>10 DEF Call, Finish, AcquireSleeps, Own, AwaitSleeps, Answered, irqVars
<1>11. CASE UNCHANGED vars
  BY <1>1, <1>11 DEF vars, irqVars
<1> QED
  BY <1>3, <1>4, <1>5, <1>6, <1>7, <1>8, <1>9, <1>10, <1>11 DEF Next, ThreadStep

\* Disk::ComputeLatency returns the time the turning disk needs, whenever and for
\* whichever sector it is called, and for any geometry and speed of the disk.
THEOREM LatencyIsExact == Spec => []LatencyExact
<1>1. Init => ClockInv
  <2> SUFFICES ASSUME Init PROVE ClockInv
    OBVIOUS
  <2>1. due \in [Devs -> Int]
    BY TimesAssumption DEF Init
  <2> QED BY <2>1, HeadStarts DEF Init, ClockInv
<1>2. ClockInv /\ DeviceInv /\ [Next]_vars => ClockInv'
  BY NextClock
<1>3. ClockInv => LatencyExact
  BY LatencyIs DEF ClockInv
<1> QED BY <1>1, <1>2, <1>3, DevicesHold, PTL DEF Spec
===============================================================================
