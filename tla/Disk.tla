---------------------------------- MODULE Disk ----------------------------------
(***************************************************************************)
(* How long a request takes on the simulated disk (machine/disk.cc).  The  *)
(* disk turns past its head one sector per RotationTime, seeks one track   *)
(* per SeekTime, and keeps in a track buffer what has passed under the     *)
(* head since it arrived on the track; a seek empties the buffer.          *)
(*                                                                         *)
(* The clock (stats->totalTicks) is kept modulo one turn of the disk, and  *)
(* bufferInit as the time since then, up to one turn: by then the buffer   *)
(* holds the whole track.                                                  *)
(***************************************************************************)
EXTENDS Integers, FiniteSetsExt

CONSTANTS
  NumSectors, SectorsPerTrack, \* disk.h
  RotationTime, SeekTime       \* stats.h

Turn == RotationTime * SectorsPerTrack
Sectors == 0..(NumSectors - 1)

ASSUME DiskAssumption ==
  {NumSectors, SectorsPerTrack, RotationTime, SeekTime} \subseteq Nat \ {0}

VARIABLES
  clock,      \* totalTicks, modulo a turn
  bufferAge,  \* totalTicks - bufferInit, up to a turn
  lastSector  \* Disk::lastSector

headVars == <<clock, bufferAge, lastSector>>

DiskInit == clock = 0 /\ bufferAge = 0 /\ lastSector = 0

\* n ticks pass.
ClockAdvances(n) ==
  /\ clock' = (clock + n) % Turn
  /\ bufferAge' = Min({bufferAge + n, Turn})

\* TimeToSeek: the seek, and the wait for the next sector boundary after it.
Seek(newSector) ==
  LET tracks == (newSector \div SectorsPerTrack) - (lastSector \div SectorsPerTrack)
  IN  SeekTime * (IF tracks < 0 THEN -tracks ELSE tracks)

Rotation(newSector) ==
  LET over == (clock + Seek(newSector)) % RotationTime
  IN  IF over > 0 THEN RotationTime - over ELSE 0

ModuloDiff(to, from) ==
  ((to % SectorsPerTrack) - (from % SectorsPerTrack) + SectorsPerTrack) % SectorsPerTrack

\* Mutant of InBuffer: >= for >.
InBufferEarly(newSector) ==
  /\ Seek(newSector) = 0
  /\ (bufferAge + Rotation(newSector)) \div RotationTime
       >= ModuloDiff(newSector, (clock - bufferAge) \div RotationTime)

\* The track buffer has the sector, or will before the next sector boundary.
InBuffer(newSector) ==
  /\ Seek(newSector) = 0
  /\ (bufferAge + Rotation(newSector)) \div RotationTime
       > ModuloDiff(newSector, (clock - bufferAge) \div RotationTime)

ComputeLatency(newSector, writing) ==
  LET seek == Seek(newSector)
      rotation == Rotation(newSector)
      turning == ModuloDiff(newSector, (clock + seek + rotation) \div RotationTime)
  IN  IF ~writing /\ InBuffer(newSector)
        THEN RotationTime
        ELSE seek + rotation + turning * RotationTime + RotationTime

\* A seek empties the buffer: it starts again when the head has arrived.
UpdateLast(newSector) ==
  /\ bufferAge' = IF Seek(newSector) # 0 THEN -(Seek(newSector) + Rotation(newSector))
                                         ELSE bufferAge
  /\ lastSector' = newSector

-----------------------------------------------------------------------------
(* The disk as a thing that turns, to compare with.  Passes(s) are the     *)
(* times from now at which sector s comes under the head, those of the     *)
(* last turn included.                                                     *)

Passes(s) ==
  {x \in (-Turn)..(Turn + SeekTime * NumSectors) :
     /\ (clock + x) % RotationTime = 0
     /\ ((clock + x) \div RotationTime) % SectorsPerTrack = s % SectorsPerTrack}

\* The whole sector has passed by then, after the head has come to its track.
Transfer(s) == Min({x \in Passes(s) : x >= Seek(s)}) + RotationTime

\* It has begun to pass while the buffer was filling on the right track.
Buffered(s) == Seek(s) = 0 /\ \E x \in Passes(s) : x <= 0 /\ x >= -bufferAge

\* Whenever a request is made, its latency is that of the turning disk: a write
\* ends when the sector has wholly passed under the head, a read may take the
\* sector from the track buffer in the time of one transfer, and only if it is
\* there by then (Disk::ComputeLatency).
LatencyExact ==
  \A s \in Sectors, writing \in BOOLEAN :
    ComputeLatency(s, writing) =
      IF ~writing /\ Buffered(s) THEN RotationTime ELSE Transfer(s)
===============================================================================
