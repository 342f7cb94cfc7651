--------------------------- MODULE UserProgramsProofs ---------------------------
(***************************************************************************)
(* Proofs about UserPrograms, for any machine, files and workloads.  The   *)
(* argument: frames are taken from the lowest up and never come back, so   *)
(* the frames in use are always the first ones, and each Load gets the     *)
(* next ones, in order.                                                    *)
(***************************************************************************)
EXTENDS UserPrograms, FiniteSetTheorems, TLAPS

\* The number of frames in use.
Used == NumPhysPages - numFreeFrame

LoadedPlaces == {"user", "calling", "asleep"}

Types ==
  /\ execfile \in Workloads /\ threadNum \in Nat \ {0}
  /\ frameTable \in [Frames -> BOOLEAN] /\ numFreeFrame \in 0 .. NumPhysPages
  /\ space \in [Programs0 -> Seq(Frames)]
  /\ at \in [Threads -> Places]
  /\ current \in Threads /\ ready \in Seq(Threads)

UsedIsPrefix == \A j \in Frames : frameTable[j] <=> j < Used

SpacesBelow == \A t \in Programs0 : \A i \in DOMAIN space[t] : space[t][i] < Used

SpacesApart ==
  \A t, u \in Programs0 : \A i \in DOMAIN space[t], k \in DOMAIN space[u] :
    space[t][i] = space[u][k] => t = u /\ i = k

\* A program that is in user mode has been loaded, and has its page table in the
\* machine if it is the current one.
TableOfCurrent ==
  \A t \in Programs0 : at[t] \in LoadedPlaces =>
    space[t] # <<>> /\ (current = t => pageTable = t)

FrameInv == Types /\ UsedIsPrefix /\ SpacesBelow /\ SpacesApart /\ FramesSideBySide
SpaceInv == FrameInv /\ TableOfCurrent

-----------------------------------------------------------------------------
\* A program needs at least one page, for its stack.
LEMMA NumPagesPositive ==
  ASSUME NEW f \in Files
  PROVE  NumPages(f) \in Nat \ {0}
<1>1. Size(f) \in Nat /\ Size(f) >= 1
  <2>1. \A s \in Segments : Header[f][s].size \in Nat
    BY HeaderAssumption
  <2>2. /\ Header[f].code.size \in Nat /\ Header[f].init.size \in Nat
        /\ Header[f].rdata.size \in Nat /\ Header[f].uninit.size \in Nat
    BY <2>1 DEF Segments
  <2> QED BY <2>2, PageAssumption DEF Size
<1>2. \A n \in Nat, p \in Nat \ {0} : n >= 1 => (n + p - 1) \div p \in Nat \ {0}
  OBVIOUS
<1> QED BY <1>1, <1>2, PageAssumption DEF NumPages

\* The frames that are free are the last ones.
LEMMA FreeIsInterval ==
  ASSUME Types, UsedIsPrefix
  PROVE  Free = Used .. NumPhysPages - 1 /\ Used \in 0 .. NumPhysPages
BY MemoryAssumption DEF Types, UsedIsPrefix, Free, Frames, Used

\* There are as many as numFreeFrame says.
LEMMA FreeCounted ==
  ASSUME Types, UsedIsPrefix
  PROVE  FreeCountExact
<1>1. Free = Used .. NumPhysPages - 1 /\ Used \in 0 .. NumPhysPages
  BY FreeIsInterval
<1>2. Used \in Int /\ NumPhysPages - 1 \in Int
  BY <1>1, MemoryAssumption
<1>3. Cardinality(Used .. NumPhysPages - 1) =
        IF Used > NumPhysPages - 1 THEN 0 ELSE NumPhysPages - 1 - Used + 1
  BY <1>2, FS_Interval
<1>4. numFreeFrame \in Int /\ Used = NumPhysPages - numFreeFrame
  BY MemoryAssumption DEF Types, Used
<1>5. Cardinality(Free) = numFreeFrame
  BY <1>1, <1>3, <1>4, MemoryAssumption
<1> QED BY <1>5 DEF FreeCountExact

\* The search for the page i of a program finds the i-th of them.
LEMMA FreeFrameIs ==
  ASSUME Types, UsedIsPrefix, NEW i \in Nat, i < numFreeFrame
  PROVE  FreeFrame(i) = Used + i /\ Used + i \in Frames
<1>1. Free = Used .. NumPhysPages - 1 /\ Used \in 0 .. NumPhysPages
  BY FreeIsInterval
<1>2. ASSUME NEW j \in Free
      PROVE  Cardinality({k \in Free : k < j}) = j - Used
  <2>1. {k \in Free : k < j} = Used .. j - 1
    BY <1>1, MemoryAssumption
  <2>2. Used \in Int /\ j - 1 \in Int /\ j \in Int /\ j >= Used
    BY <1>1, MemoryAssumption
  <2>3. Cardinality(Used .. j - 1) = IF Used > j - 1 THEN 0 ELSE j - 1 - Used + 1
    BY <2>2, FS_Interval
  <2>4. Cardinality(Used .. j - 1) = j - Used
    BY <2>2, <2>3
  <2> QED BY <2>1, <2>4
<1>3. Used + i \in Free /\ Used + i \in Frames
  BY <1>1, MemoryAssumption DEF Types, Used, Frames
<1>4. ASSUME NEW j \in Free, Cardinality({k \in Free : k < j}) = i
      PROVE  j = Used + i
  <2>1. j - Used = i BY <1>2, <1>4
  <2> QED BY <2>1, <1>1, MemoryAssumption
<1>5. Cardinality({k \in Free : k < Used + i}) = i
  <2>1. Cardinality({k \in Free : k < Used + i}) = (Used + i) - Used BY <1>2, <1>3
  <2> QED BY <2>1, <1>1, MemoryAssumption
<1>6. FreeFrame(i) = Used + i
  BY <1>3, <1>4, <1>5 DEF FreeFrame
<1> QED BY <1>3, <1>6

-----------------------------------------------------------------------------
\* A step that leaves the frames and the page tables alone keeps what is said of them.
LEMMA FramesStay ==
  ASSUME FrameInv, Types', UNCHANGED <<frameTable, numFreeFrame, space>>
  PROVE  FrameInv'
BY DEF FrameInv, UsedIsPrefix, SpacesBelow, SpacesApart, FramesSideBySide, Used

\* Load takes the next frames, in order, and marks them.
LEMMA LoadTakesNext ==
  ASSUME FrameInv, NEW t \in Programs0, ForkExecute(t)
  PROVE  LET n == NumPages(execfile[t])
         IN /\ n \in Nat \ {0}
            /\ n <= numFreeFrame /\ numFreeFrame' = numFreeFrame - n
            /\ Used' = Used + n
            /\ space' = [space EXCEPT ![t] = [i \in 1 .. n |-> Used + i - 1]]
            /\ \A i \in 1 .. n : Used + i - 1 \in Frames
            /\ frameTable' = [j \in Frames |-> frameTable[j] \/ j \in Used .. Used + n - 1]
<1> DEFINE n == NumPages(execfile[t])
           frames == [i \in 1 .. n |-> FreeFrame(i - 1)]
<1>1. n \in Nat \ {0} /\ n <= numFreeFrame
  BY NumPagesPositive, MemoryAssumption DEF ForkExecute
<1>2. /\ space' = [space EXCEPT ![t] = frames]
      /\ frameTable' = [j \in Frames |-> frameTable[j] \/ \E i \in DOMAIN frames : frames[i] = j]
      /\ numFreeFrame' = numFreeFrame - n
  BY DEF ForkExecute, LoadSucceeds
<1>3. numFreeFrame \in Nat /\ Used \in Nat /\ Used = NumPhysPages - numFreeFrame
  BY MemoryAssumption DEF FrameInv, Types, Used
<1>4. ASSUME NEW i \in 1 .. n
      PROVE  FreeFrame(i - 1) = Used + i - 1 /\ Used + i - 1 \in Frames
  <2>1. i - 1 \in Nat /\ i - 1 < numFreeFrame
    BY <1>1, <1>3
  <2>2. FreeFrame(i - 1) = Used + (i - 1) /\ Used + (i - 1) \in Frames
    BY <2>1, FreeFrameIs DEF FrameInv
  <2> QED BY <2>2, <1>3
<1>5. frames = [i \in 1 .. n |-> Used + i - 1]
  BY <1>4
<1>6. ASSUME NEW j \in Frames
      PROVE  (\E i \in DOMAIN frames : frames[i] = j) <=> j \in Used .. Used + n - 1
  <2>1. ASSUME NEW i \in 1 .. n, Used + i - 1 = j PROVE j \in Used .. Used + n - 1
    BY <2>1, <1>1, <1>3
  <2>2. ASSUME j \in Used .. Used + n - 1
        PROVE  j - Used + 1 \in 1 .. n /\ Used + (j - Used + 1) - 1 = j
    BY <2>2, <1>1, <1>3
  <2> QED BY <2>1, <2>2, <1>5
<1>7. Used' = Used + n
  BY <1>1, <1>2, <1>3, MemoryAssumption DEF Used
<1> QED BY <1>1, <1>2, <1>4, <1>5, <1>6, <1>7

\* The step of Load keeps the frames apart, side by side and counted.
LEMMA LoadKeeps ==
  ASSUME SpaceInv, NEW t \in Programs0, ForkExecute(t)
  PROVE  SpaceInv'
<1> DEFINE n == NumPages(execfile[t])
           frames == [i \in 1 .. n |-> Used + i - 1]
<1> USE DEF SpaceInv, FrameInv
<1>1. /\ n \in Nat \ {0}
      /\ n <= numFreeFrame /\ numFreeFrame' = numFreeFrame - n
      /\ Used' = Used + n
      /\ space' = [space EXCEPT ![t] = frames]
      /\ \A i \in 1 .. n : Used + i - 1 \in Frames
      /\ frameTable' = [j \in Frames |-> frameTable[j] \/ j \in Used .. Used + n - 1]
  BY LoadTakesNext
<1>2. numFreeFrame \in 0 .. NumPhysPages /\ Used \in Nat /\ Used = NumPhysPages - numFreeFrame
  BY MemoryAssumption DEF Types, Used
<1>3. /\ UNCHANGED <<execfile, threadNum, current, ready>>
      /\ current = t /\ pageTable' = t /\ at' = [at EXCEPT ![t] = "user"]
  BY DEF ForkExecute, LoadSucceeds, Running, kernelVars, cpuVars
<1> HIDE DEF n
<1>4. frames \in Seq(Frames) /\ DOMAIN frames = 1 .. n /\ frames # <<>>
  BY <1>1
<1>5. /\ space \in [Programs0 -> Seq(Frames)]
      /\ space'[t] = frames /\ \A u \in Programs0 \ {t} : space'[u] = space[u]
  BY <1>1 DEF Types
<1>6. Types'
  <2>1. at' \in [Threads -> Places]
    BY <1>3 DEF Types, Places, Threads
  <2>2. space' \in [Programs0 -> Seq(Frames)]
    BY <1>1, <1>4, <1>5
  <2>3. numFreeFrame' \in 0 .. NumPhysPages
    BY <1>1, <1>2, MemoryAssumption
  <2>4. frameTable' \in [Frames -> BOOLEAN]
    BY <1>1 DEF Types
  <2> QED BY <2>1, <2>2, <2>3, <2>4, <1>3 DEF Types
<1>7. UsedIsPrefix'
  <2> SUFFICES ASSUME NEW j \in Frames PROVE frameTable'[j] <=> j < Used'
    BY DEF UsedIsPrefix
  <2>1. j \in Nat
    BY MemoryAssumption DEF Frames
  <2>2. frameTable'[j] <=> j < Used \/ j \in Used .. Used + n - 1
    BY <1>1 DEF UsedIsPrefix
  <2> QED BY <2>1, <2>2, <1>1, <1>2
<1>8. \A u \in Programs0 \ {t} : \A k \in DOMAIN space[u] : space[u][k] \in Nat /\ space[u][k] < Used
  <2> SUFFICES ASSUME NEW u \in Programs0 \ {t}, NEW k \in DOMAIN space[u]
               PROVE  space[u][k] \in Nat /\ space[u][k] < Used
    OBVIOUS
  <2>1. space[u][k] \in Frames
    BY <1>5
  <2> QED BY <2>1, MemoryAssumption DEF SpacesBelow, Frames
<1>9. SpacesBelow'
  <2> SUFFICES ASSUME NEW u \in Programs0, NEW k \in DOMAIN space'[u]
               PROVE  space'[u][k] < Used'
    BY DEF SpacesBelow
  <2>1. CASE u = t
    BY <2>1, <1>1, <1>2, <1>4, <1>5
  <2>2. CASE u # t
    <3>1. space[u][k] \in Nat /\ space[u][k] < Used
      BY <2>2, <1>5, <1>8
    <3> QED BY <3>1, <2>2, <1>1, <1>2, <1>5
  <2> QED BY <2>1, <2>2
<1>10. SpacesApart'
  <2> SUFFICES ASSUME NEW u \in Programs0, NEW v \in Programs0,
                      NEW i \in DOMAIN space'[u], NEW k \in DOMAIN space'[v],
                      space'[u][i] = space'[v][k]
               PROVE  u = v /\ i = k
    BY DEF SpacesApart
  <2>1. CASE u = t /\ v = t
    <3>1. i \in 1 .. n /\ k \in 1 .. n /\ Used + i - 1 = Used + k - 1
      BY <2>1, <1>4, <1>5
    <3> QED BY <3>1, <2>1, <1>1, <1>2
  <2>2. CASE u = t /\ v # t
    <3>1. i \in 1 .. n /\ space'[u][i] = Used + i - 1
      BY <2>2, <1>4, <1>5
    <3>2. space'[v][k] \in Nat /\ space'[v][k] < Used
      BY <2>2, <1>5, <1>8
    <3> QED BY <3>1, <3>2, <1>1, <1>2
  <2>3. CASE u # t /\ v = t
    <3>1. k \in 1 .. n /\ space'[v][k] = Used + k - 1
      BY <2>3, <1>4, <1>5
    <3>2. space'[u][i] \in Nat /\ space'[u][i] < Used
      BY <2>3, <1>5, <1>8
    <3> QED BY <3>1, <3>2, <1>1, <1>2
  <2>4. CASE u # t /\ v # t
    BY <2>4, <1>5 DEF SpacesApart
  <2> QED BY <2>1, <2>2, <2>3, <2>4
<1>11. FramesSideBySide'
  <2> SUFFICES ASSUME NEW u \in Programs0, NEW k \in DOMAIN space'[u]
               PROVE  space'[u][k] = space'[u][1] + k - 1
    BY DEF FramesSideBySide
  <2>1. CASE u = t
    <3>1. k \in 1 .. n /\ 1 \in 1 .. n
      BY <2>1, <1>1, <1>4, <1>5
    <3>2. space'[u][k] = Used + k - 1 /\ space'[u][1] = Used + 1 - 1
      BY <2>1, <3>1, <1>5
    <3> QED BY <3>1, <3>2, <1>1, <1>2
  <2>2. CASE u # t
    BY <2>2, <1>5 DEF FramesSideBySide
  <2> QED BY <2>1, <2>2
<1>12. TableOfCurrent'
  <2> SUFFICES ASSUME NEW u \in Programs0, at'[u] \in LoadedPlaces
               PROVE  space'[u] # <<>> /\ (current' = u => pageTable' = u)
    BY DEF TableOfCurrent
  <2>1. CASE u = t
    BY <2>1, <1>3, <1>4, <1>5
  <2>2. CASE u # t
    BY <2>2, <1>3, <1>5 DEF TableOfCurrent, Types, Threads
  <2> QED BY <2>1, <2>2
<1> QED BY <1>6, <1>7, <1>9, <1>10, <1>11, <1>12

\* Scheduler::Run brings the page table of the thread it starts.
LEMMA SwitchKeepsTable ==
  ASSUME SpaceInv, NEW u \in Threads, SwitchTo(u, at), UNCHANGED space
  PROVE  current' \in Threads /\ at' \in [Threads -> Places] /\ TableOfCurrent'
<1> USE DEF SpaceInv, FrameInv
<1>1. /\ current' = u
      /\ at' = [at EXCEPT ![u] = IF @ = "new" THEN "begun" ELSE @]
      /\ u # Main /\ at[u] # "new" => pageTable' = IF space[u] = <<>> THEN Nil ELSE u
  BY DEF SwitchTo
<1>2. at' \in [Threads -> Places]
  BY <1>1 DEF Types, Places
<1>3. ASSUME NEW t \in Programs0, at'[t] \in LoadedPlaces
      PROVE  space'[t] # <<>> /\ (current' = t => pageTable' = t)
  <2>1. at[t] \in LoadedPlaces /\ at[t] # "new"
    BY <1>1, <1>3 DEF Types, Threads, LoadedPlaces
  <2>2. space[t] # <<>>
    BY <2>1 DEF TableOfCurrent
  <2>3. t # Main
    BY DEF Programs0, Main, MaxThreads
  <2> QED BY <1>1, <2>1, <2>2, <2>3
<1> QED BY <1>1, <1>2, <1>3 DEF TableOfCurrent

-----------------------------------------------------------------------------
\* At the boot all frames are free and no program is loaded.
LEMMA InitSpaces == Init => SpaceInv
<1> SUFFICES ASSUME Init PROVE SpaceInv
  OBVIOUS
<1>1. Types
  BY MemoryAssumption DEF Init, Types, Frames, Places, Threads
<1>2. Used = 0 /\ \A j \in Frames : j \in Nat
  BY MemoryAssumption DEF Init, Used, Frames
<1>3. UsedIsPrefix
  BY <1>2 DEF Init, UsedIsPrefix
<1>4. SpacesBelow /\ SpacesApart /\ FramesSideBySide
  BY DEF Init, SpacesBelow, SpacesApart, FramesSideBySide
<1>5. TableOfCurrent
  BY DEF Init, TableOfCurrent, LoadedPlaces, Programs0, Threads, Main, MaxThreads
<1> QED BY <1>1, <1>3, <1>4, <1>5 DEF SpaceInv, FrameInv

\* A step that only moves a thread t from place to place, and not into user mode
\* unless it was loaded, keeps everything.
LEMMA MoveKeeps ==
  ASSUME SpaceInv, NEW t \in Threads, NEW p \in Places,
         at' = [at EXCEPT ![t] = p],
         p \in LoadedPlaces => at[t] \in LoadedPlaces,
         threadNum' \in Nat \ {0}, ready' \in Seq(Threads),
         UNCHANGED <<execfile, frameTable, numFreeFrame, space, pageTable, current>>
  PROVE  SpaceInv'
<1> USE DEF SpaceInv
<1>1. Types'
  BY DEF FrameInv, Types
<1>2. FrameInv'
  BY <1>1, FramesStay
<1>3. TableOfCurrent'
  BY DEF TableOfCurrent, FrameInv, Types, Threads
<1> QED BY <1>2, <1>3

\* A step that moves no thread keeps everything, whatever it does to the words of
\* the memory, to the registers and to the output.
LEMMA StayKeeps ==
  ASSUME SpaceInv,
         UNCHANGED <<execfile, threadNum, at, ready, frameTable, numFreeFrame, space,
                     pageTable, current>>
  PROVE  SpaceInv'
<1>1. Types'
  BY DEF SpaceInv, FrameInv, Types
<1>2. FrameInv'
  BY <1>1, FramesStay DEF SpaceInv
<1> QED BY <1>2 DEF SpaceInv, TableOfCurrent

\* Every step keeps the invariant.
LEMMA NextSpaces == SpaceInv /\ [Next]_vars => SpaceInv'
<1> SUFFICES ASSUME SpaceInv, [Next]_vars PROVE SpaceInv'
  OBVIOUS
<1> USE DEF kernelVars, memoryVars, machineVars, cpuVars
<1>0. /\ Types /\ current \in Threads /\ ready \in Seq(Threads) /\ threadNum \in Nat \ {0}
      /\ Main \in Threads /\ Programs0 \subseteq Threads
  BY DEF SpaceInv, FrameInv, Types, Threads
<1>1. CASE Exec
  <2>1. threadNum \in Threads
    <3>1. execfile \in Seq(Files) /\ Len(execfile) < 10
      BY <1>0, WorkloadAssumption DEF Types, MaxThreads
    <3>2. Len(execfile) \in Nat
      BY <3>1
    <3>3. threadNum \in 1 .. 9
      BY <1>0, <1>1, <3>1, <3>2 DEF Exec
    <3> QED BY <3>3 DEF Threads, Programs0, MaxThreads
  <2>2. ready' \in Seq(Threads) /\ threadNum' \in Nat \ {0}
    BY <1>0, <1>1, <2>1 DEF Exec
  <2> QED BY <1>1, <2>1, <2>2, MoveKeeps DEF Exec, Places, LoadedPlaces
<1>2. CASE ExecAllEnds
  BY <1>0, <1>2, MoveKeeps DEF ExecAllEnds, Finishes, Places, LoadedPlaces
<1>3. CASE Preempt
  <2>1. Head(ready) \in Threads /\ ready' \in Seq(Threads)
    BY <1>0, <1>3 DEF Preempt
  <2>2. current' \in Threads /\ at' \in [Threads -> Places] /\ TableOfCurrent'
    BY <1>3, <2>1, SwitchKeepsTable DEF Preempt
  <2>3. Types'
    BY <1>0, <1>3, <2>1, <2>2 DEF Preempt, Types
  <2> QED BY <1>3, <2>2, <2>3, FramesStay DEF Preempt, SpaceInv
<1>4. CASE Dispatch
  <2>1. Head(ready) \in Threads /\ ready' \in Seq(Threads)
    BY <1>0, <1>4 DEF Dispatch
  <2>2. current' \in Threads /\ at' \in [Threads -> Places] /\ TableOfCurrent'
    BY <1>4, <2>1, SwitchKeepsTable DEF Dispatch
  <2>3. Types'
    BY <1>0, <1>4, <2>1, <2>2 DEF Dispatch, Types
  <2> QED BY <1>4, <2>2, <2>3, FramesStay DEF Dispatch, SpaceInv
<1>5. ASSUME NEW t \in Programs0, ForkExecute(t)
      PROVE  SpaceInv'
  BY <1>5, LoadKeeps
<1>6. ASSUME NEW t \in Programs0, LoadFails(t) \/ Exit(t)
      PROVE  SpaceInv'
  BY <1>0, <1>6, MoveKeeps DEF LoadFails, Exit, Finishes, Places, LoadedPlaces
<1>7. ASSUME NEW t \in Programs0, PrintInt(t)
      PROVE  SpaceInv'
  BY <1>0, <1>7, MoveKeeps DEF PrintInt, Executes, Running, Places, LoadedPlaces
<1>8. ASSUME NEW t \in Programs0, Block(t)
      PROVE  SpaceInv'
  BY <1>0, <1>8, MoveKeeps DEF Block, Running, Places, LoadedPlaces
<1>9. ASSUME NEW t \in Programs0, Wake(t)
      PROVE  SpaceInv'
  <2>1. ready' \in Seq(Threads)
    BY <1>0, <1>9 DEF Wake
  <2> QED BY <1>0, <1>9, <2>1, MoveKeeps DEF Wake, Places, LoadedPlaces
<1>10. ASSUME NEW t \in Programs0, Return(t)
       PROVE  SpaceInv'
  BY <1>0, <1>10, MoveKeeps DEF Return, Running, Places, LoadedPlaces
<1>11. ASSUME NEW t \in Programs0,
              LoadRefused(t) \/ Nop(t) \/ Load(t) \/ Store(t) \/ Read(t) \/ Write(t) \/ Halt(t)
                \/ Fault(t)
       PROVE  SpaceInv'
  BY <1>11, StayKeeps DEF LoadRefused, Nop, Load, Store, Read, Write, Halt, Fault
<1>12. CASE UNCHANGED vars
  BY <1>12, StayKeeps DEF vars
<1> QED
  BY <1>1, <1>2, <1>3, <1>4, <1>5, <1>6, <1>7, <1>8, <1>9, <1>10, <1>11, <1>12 DEF Next

\* The inductive invariant of the frames and the page tables.
THEOREM SpacesHold == Spec => []SpaceInv
<1>1. SpaceInv /\ [Next]_vars => SpaceInv'
  BY NextSpaces
<1> QED BY InitSpaces, <1>1, PTL DEF Spec

-----------------------------------------------------------------------------
\* AddrSpace::Load never gives one frame to two pages, and every frame that it
\* gave is marked, whatever the machine, the files and the order of the programs.
THEOREM FramesAreOwnedOnce == Spec => []FramesOwnedOnce
<1>1. SpaceInv => FramesOwnedOnce
  <2> SUFFICES ASSUME SpaceInv PROVE FramesOwnedOnce
    OBVIOUS
  <2>1. SpacesApart
    BY DEF SpaceInv, FrameInv
  <2>2. ASSUME NEW t \in Programs0, NEW i \in DOMAIN space[t]
        PROVE  frameTable[space[t][i]]
    <3>1. space[t][i] \in Frames
      BY DEF SpaceInv, FrameInv, Types
    <3> QED BY <3>1 DEF SpaceInv, FrameInv, UsedIsPrefix, SpacesBelow
  <2> QED BY <2>1, <2>2 DEF FramesOwnedOnce, SpacesApart
<1> QED BY <1>1, SpacesHold, PTL

\* The frames of an address space lie side by side and in order, so the one
\* ReadAt of AddrSpace::Load fills the right pages.
THEOREM FramesLieSideBySide == Spec => []FramesSideBySide
<1>1. SpaceInv => FramesSideBySide
  BY DEF SpaceInv, FrameInv
<1> QED BY <1>1, SpacesHold, PTL

\* Kernel::NumFreeFrame is the number of unmarked frames, so the search of
\* AddrSpace::Load for a free frame ends whenever its ASSERT has passed.
THEOREM FreeCountIsExact == Spec => []FreeCountExact
<1>1. SpaceInv => FreeCountExact
  BY FreeCounted DEF SpaceInv, FrameInv
<1> QED BY <1>1, SpacesHold, PTL

\* A thread in user mode or in a system call has its own page table in the
\* machine: Scheduler::Run and AddrSpace::Execute never leave another's.
THEOREM RunsInItsSpace == Spec => []RunsInOwnSpace
<1>1. SpaceInv => RunsInOwnSpace
  BY DEF SpaceInv, TableOfCurrent, LoadedPlaces, RunsInOwnSpace
<1> QED BY <1>1, SpacesHold, PTL

-----------------------------------------------------------------------------
(***************************************************************************)
(* Which programs have been loaded follows from where they are, and the    *)
(* frames in use are the pages of those.                                   *)
(***************************************************************************)
Taken == {t \in Programs0 : space[t] # <<>>}
PagesTaken == UNION {PagesOf(t) : t \in Taken}

StartedInOrder ==
  /\ threadNum <= Len(execfile) + 1
  /\ \A t \in Programs0 : at[t] = "none" <=> t >= threadNum

LoadedByPlace ==
  \A t \in Programs0 :
    /\ space[t] # <<>> <=> \/ at[t] \in LoadedPlaces
                           \/ at[t] = "finished" /\ execfile[t] \in Executable
    /\ space[t] # <<>> => Len(space[t]) = NumPages(execfile[t]) /\ execfile[t] \in Executable

FramesCounted == IsFiniteSet(PagesTaken) /\ Cardinality(PagesTaken) = Used

RefusedForPages == cpu = "refused" => PagesNeeded > NumPhysPages

LoadInv == SpaceInv /\ StartedInOrder /\ LoadedByPlace /\ FramesCounted /\ RefusedForPages

\* The programs that have started are those of the command line.
LEMMA StartedIsListed ==
  ASSUME Types, StartedInOrder, NEW t \in Programs0, at[t] # "none"
  PROVE  t \in 1 .. Len(execfile) /\ execfile[t] \in Files /\ NumPages(execfile[t]) \in Nat \ {0}
<1>1. execfile \in Seq(Files) /\ threadNum \in Nat /\ t \in Nat \ {0}
  <2>1. t \in 1 .. 9
    BY DEF Programs0, MaxThreads
  <2>2. execfile \in Seq(Files) /\ threadNum \in Nat
    BY WorkloadAssumption DEF Types
  <2> QED BY <2>1, <2>2
<1>2. t < threadNum /\ threadNum <= Len(execfile) + 1
  BY <1>1 DEF StartedInOrder
<1>3. t \in 1 .. Len(execfile) /\ execfile[t] \in Files
  BY <1>1, <1>2
<1> QED BY <1>3, NumPagesPositive

\* The pages of one program, and of all of them, are finitely many.
LEMMA PagesFinite ==
  ASSUME Types
  PROVE  /\ \A t \in 1 .. Len(execfile) :
              IsFiniteSet(PagesOf(t)) /\ Cardinality(PagesOf(t)) = NumPages(execfile[t])
         /\ IsFiniteSet(UNION {PagesOf(t) : t \in Present})
<1>1. execfile \in Seq(Files) /\ Len(execfile) \in Nat
  BY WorkloadAssumption DEF Types
<1>2. ASSUME NEW t \in 1 .. Len(execfile)
      PROVE  IsFiniteSet(PagesOf(t)) /\ Cardinality(PagesOf(t)) = NumPages(execfile[t])
  <2> DEFINE n == NumPages(execfile[t])
  <2>1. n \in Nat \ {0}
    BY <1>1, NumPagesPositive
  <2>2. IsFiniteSet({t}) /\ Cardinality({t}) = 1
    BY FS_Singleton
  <2> HIDE DEF n
  <2>3. IsFiniteSet(1 .. n) /\ Cardinality(1 .. n) = n
    BY <2>1, FS_Interval
  <2>4. /\ IsFiniteSet({t} \X (1 .. n))
        /\ Cardinality({t} \X (1 .. n)) = Cardinality({t}) * Cardinality(1 .. n)
    BY <2>2, <2>3, FS_Product
  <2>5. Cardinality({t} \X (1 .. n)) = n
    BY <2>1, <2>2, <2>3, <2>4
  <2> QED BY <2>4, <2>5 DEF PagesOf, n
<1>3. IsFiniteSet(1 .. Len(execfile))
  BY <1>1, FS_Interval
<1>4. IsFiniteSet(Present) /\ Present \subseteq 1 .. Len(execfile)
  BY <1>3, FS_Subset DEF Present
<1>5. IsFiniteSet({PagesOf(t) : t \in Present})
  <2> DEFINE pages == [t \in Present |-> PagesOf(t)]
             all == {PagesOf(t) : t \in Present}
  <2>1. pages \in Surjection(Present, all)
    BY DEF Surjection
  <2> HIDE DEF pages
  <2> QED BY <1>4, <2>1, FS_Surjection
<1> QED BY <1>2, <1>4, <1>5, FS_UNION

\* A step that loads nothing counts nothing.
LEMMA CountStays ==
  ASSUME FramesCounted, UNCHANGED <<execfile, numFreeFrame, space>>
  PROVE  FramesCounted'
BY DEF FramesCounted, PagesTaken, Taken, PagesOf, Used

\* A step that moves one thread, and neither starts nor loads one.
LEMMA MoveLoads ==
  ASSUME LoadInv, SpaceInv', NEW t \in Threads, NEW p \in Places,
         at' = [at EXCEPT ![t] = p], cpu' # "refused",
         t \in Programs0 =>
           /\ at[t] # "none" /\ p # "none"
           /\ (p \in LoadedPlaces \/ (p = "finished" /\ execfile[t] \in Executable))
                <=> (at[t] \in LoadedPlaces \/ (at[t] = "finished" /\ execfile[t] \in Executable)),
         UNCHANGED <<execfile, threadNum, numFreeFrame, space>>
  PROVE  LoadInv'
<1>1. at \in [Threads -> Places] /\ Programs0 \subseteq Threads
  BY DEF LoadInv, SpaceInv, FrameInv, Types, Threads
<1>2. StartedInOrder'
  BY <1>1 DEF LoadInv, StartedInOrder
<1>3. LoadedByPlace'
  <2>1. ASSUME NEW u \in Programs0, u # t PROVE at'[u] = at[u]
    BY <1>1, <2>1
  <2>2. t \in Programs0 => at'[t] = p
    BY <1>1
  <2>3. LoadedByPlace
    BY DEF LoadInv
  <2>4. ASSUME NEW u \in Programs0
        PROVE  /\ space[u] # <<>> <=> \/ at'[u] \in LoadedPlaces
                                      \/ at'[u] = "finished" /\ execfile[u] \in Executable
               /\ space[u] # <<>> =>
                    Len(space[u]) = NumPages(execfile[u]) /\ execfile[u] \in Executable
    <3>1. CASE u = t
      BY <2>2, <2>3, <3>1 DEF LoadedByPlace
    <3>2. CASE u # t
      BY <2>1, <2>3, <3>2 DEF LoadedByPlace
    <3> QED BY <3>1, <3>2
  <2>5. space' = space /\ execfile' = execfile
    OBVIOUS
  <2> QED BY ONLY <2>4, <2>5 DEF LoadedByPlace
<1>4. FramesCounted'
  BY CountStays DEF LoadInv
<1> QED BY <1>2, <1>3, <1>4 DEF LoadInv, RefusedForPages

\* A step that moves none.
LEMMA StayLoads ==
  ASSUME LoadInv, SpaceInv', cpu' = "refused" => cpu = "refused",
         UNCHANGED <<execfile, threadNum, at, numFreeFrame, space>>
  PROVE  LoadInv'
<1>1. FramesCounted'
  BY CountStays DEF LoadInv
<1> QED BY <1>1 DEF LoadInv, StartedInOrder, LoadedByPlace, RefusedForPages, PagesNeeded, PagesOf,
           Present

\* Load takes the pages of one more program.
LEMMA LoadCounts ==
  ASSUME LoadInv, SpaceInv', NEW t \in Programs0, ForkExecute(t)
  PROVE  LoadInv'
<1> DEFINE n == NumPages(execfile[t])
<1>1. /\ SpaceInv /\ FrameInv /\ Types /\ StartedInOrder /\ LoadedByPlace /\ FramesCounted
      /\ at \in [Threads -> Places] /\ t \in Threads /\ Programs0 \subseteq Threads
      /\ space \in [Programs0 -> Seq(Frames)]
  BY DEF LoadInv, SpaceInv, FrameInv, Types, Threads
<1>2. /\ at[t] = "begun" /\ execfile[t] \in Executable /\ at' = [at EXCEPT ![t] = "user"]
      /\ UNCHANGED <<execfile, threadNum>> /\ cpu' = "run"
  BY DEF ForkExecute, Running, LoadSucceeds, kernelVars, cpuVars
<1>3. t \in 1 .. Len(execfile)
  BY <1>1, <1>2, StartedIsListed
<1>4. /\ n \in Nat \ {0} /\ Used' = Used + n
      /\ space' = [space EXCEPT ![t] = [i \in 1 .. n |-> Used + i - 1]]
  BY <1>1, LoadTakesNext
<1> HIDE DEF n
<1>5. space'[t] # <<>> /\ Len(space'[t]) = n
  <2>1. space'[t] = [i \in 1 .. n |-> Used + i - 1]
    BY <1>1, <1>4
  <2> QED BY <2>1, <1>4
<1>6. space[t] = <<>>
  BY <1>1, <1>2 DEF LoadedByPlace, LoadedPlaces
<1>7. StartedInOrder'
  BY <1>1, <1>2 DEF StartedInOrder
<1>8. LoadedByPlace'
  <2>1. \A u \in Programs0 \ {t} : space'[u] = space[u] /\ at'[u] = at[u]
    BY <1>1, <1>2, <1>4
  <2>2. at'[t] = "user"
    BY <1>1, <1>2
  <2> QED BY <1>1, <1>2, <1>5, <2>1, <2>2 DEF LoadedByPlace, LoadedPlaces, n
<1>9. FramesCounted'
  <2>1. Taken' = Taken \cup {t} /\ t \notin Taken
    BY <1>1, <1>4, <1>5, <1>6 DEF Taken
  <2>2. PagesTaken' = PagesTaken \cup PagesOf(t)
    BY <2>1, <1>2 DEF PagesTaken, PagesOf
  <2>3. PagesTaken \cap PagesOf(t) = {}
    BY <2>1 DEF PagesTaken, PagesOf
  <2>4. IsFiniteSet(PagesOf(t)) /\ Cardinality(PagesOf(t)) = n
    BY <1>1, <1>3, PagesFinite DEF n
  <2>5. IsFiniteSet(PagesTaken) /\ Cardinality(PagesTaken) = Used
    BY <1>1 DEF FramesCounted
  <2>6. /\ IsFiniteSet(PagesTaken \cup PagesOf(t))
        /\ Cardinality(PagesTaken \cup PagesOf(t)) = Used + n - Cardinality({})
    BY <2>3, <2>4, <2>5, FS_Union
  <2>7. Used \in Int
    BY <1>1, MemoryAssumption DEF Types, Used
  <2> QED BY <1>4, <2>2, <2>6, <2>7, FS_EmptySet DEF FramesCounted
<1> QED BY <1>2, <1>7, <1>8, <1>9 DEF LoadInv, RefusedForPages

\* When Load finds too few frames, the programs that are there need more than there are.
LEMMA RefusalIsForPages ==
  ASSUME LoadInv, NEW t \in Programs0, LoadRefused(t)
  PROVE  PagesNeeded > NumPhysPages
<1> DEFINE n == NumPages(execfile[t])
           all == UNION {PagesOf(u) : u \in Present}
<1>1. Types /\ StartedInOrder /\ LoadedByPlace /\ FramesCounted
  BY DEF LoadInv, SpaceInv, FrameInv
<1>2. at[t] = "begun" /\ execfile[t] \in Executable /\ n > numFreeFrame
  BY DEF LoadRefused, Running
<1>3. t \in 1 .. Len(execfile) /\ n \in Nat \ {0}
  BY <1>1, <1>2, StartedIsListed
<1>4. IsFiniteSet(PagesOf(t)) /\ Cardinality(PagesOf(t)) = n /\ IsFiniteSet(all)
  BY <1>1, <1>3, PagesFinite
<1>5. Used \in Nat /\ Used = NumPhysPages - numFreeFrame /\ numFreeFrame \in Nat
  BY <1>1, MemoryAssumption DEF Types, Used
<1>6. PagesTaken \cap PagesOf(t) = {}
  BY <1>1, <1>2 DEF PagesTaken, PagesOf, Taken, LoadedByPlace, LoadedPlaces
<1>7. PagesTaken \cup PagesOf(t) \subseteq all
  <2>1. ASSUME NEW u \in Taken PROVE u \in Present
    <3>1. at[u] # "none" /\ execfile[u] \in Executable /\ u \in Programs0
      BY <1>1, <2>1 DEF Taken, LoadedByPlace, LoadedPlaces
    <3> QED BY <1>1, <3>1, StartedIsListed DEF Present
  <2>2. t \in Present
    BY <1>2, <1>3 DEF Present
  <2> QED BY <2>1, <2>2 DEF PagesTaken
<1> HIDE DEF n, all
<1>8. /\ IsFiniteSet(PagesTaken \cup PagesOf(t))
      /\ Cardinality(PagesTaken \cup PagesOf(t)) = Used + n - Cardinality({})
  BY <1>1, <1>4, <1>6, FS_Union DEF FramesCounted
<1>9. Used + n <= Cardinality(all) /\ Cardinality(all) \in Nat
  <2>1. Cardinality(PagesTaken \cup PagesOf(t)) <= Cardinality(all)
    BY <1>4, <1>7, FS_Subset
  <2>2. Cardinality(all) \in Nat
    BY <1>4, FS_CardinalityType
  <2> QED BY <1>3, <1>5, <1>8, <2>1, <2>2, FS_EmptySet
<1>10. PagesNeeded = Cardinality(all)
  BY DEF PagesNeeded, all
<1> QED BY <1>2, <1>3, <1>5, <1>9, <1>10, MemoryAssumption

\* Every step keeps the count.
LEMMA NextLoads == LoadInv /\ [Next]_vars => LoadInv'
<1> SUFFICES ASSUME LoadInv, [Next]_vars PROVE LoadInv'
  OBVIOUS
<1> USE DEF kernelVars, memoryVars, machineVars, cpuVars
<1>0. /\ SpaceInv /\ Types /\ StartedInOrder /\ LoadedByPlace /\ FramesCounted
      /\ at \in [Threads -> Places] /\ Main \in Threads /\ Programs0 \subseteq Threads
      /\ Main \notin Programs0 /\ ready \in Seq(Threads)
  BY DEF LoadInv, SpaceInv, FrameInv, Types, Threads, Programs0, Main, MaxThreads
<1>00. SpaceInv'
  BY <1>0, NextSpaces
<1>1. CASE Exec
  <2>1. /\ execfile \in Seq(Files) /\ Len(execfile) < 10 /\ Len(execfile) \in Nat
        /\ threadNum \in Nat \ {0}
    BY <1>0, WorkloadAssumption DEF Types, MaxThreads
  <2>2. threadNum \in 1 .. 9 /\ threadNum <= Len(execfile)
    BY <2>1, <1>1 DEF Exec
  <2>3. threadNum \in Programs0 /\ Programs0 \subseteq Nat
    BY <2>2 DEF Programs0, MaxThreads
  <2>4. /\ at' = [at EXCEPT ![threadNum] = "new"] /\ threadNum' = threadNum + 1
        /\ UNCHANGED <<execfile, numFreeFrame, space, cpu>>
    BY <1>1 DEF Exec
  <2>5. StartedInOrder'
    <3>1. threadNum' <= Len(execfile') + 1
      BY <2>1, <2>2, <2>4
    <3>2. ASSUME NEW u \in Programs0 PROVE at'[u] = "none" <=> u >= threadNum'
      <4>1. at[u] = "none" <=> u >= threadNum
        BY <1>0 DEF StartedInOrder
      <4>2. ASSUME u # threadNum PROVE at'[u] = at[u]
        BY <1>0, <2>4, <4>2
      <4>3. u = threadNum => at'[u] = "new"
        BY <1>0, <2>4
      <4> QED BY <2>1, <2>3, <2>4, <4>1, <4>2, <4>3
    <3> QED BY <3>1, <3>2 DEF StartedInOrder
  <2>6. LoadedByPlace'
    <3>1. at[threadNum] = "none"
      BY <1>0, <2>1, <2>3 DEF StartedInOrder
    <3> QED BY <1>0, <2>3, <2>4, <3>1 DEF LoadedByPlace, LoadedPlaces
  <2>7. FramesCounted'
    BY <1>0, <2>4, CountStays
  <2> QED BY <1>00, <1>1, <2>4, <2>5, <2>6, <2>7 DEF LoadInv, RefusedForPages, Exec, Running
<1>2. CASE ExecAllEnds
  BY <1>0, <1>00, <1>2, MoveLoads DEF ExecAllEnds, Finishes, Places
<1>3. CASE Preempt \/ Dispatch
  <2>1. Head(ready) \in Threads
    BY <1>0, <1>3 DEF Preempt, Dispatch
  <2> DEFINE u == Head(ready)
  <2>2. SwitchTo(u, at)
    BY <1>3 DEF Preempt, Dispatch
  <2> HIDE DEF u
  <2>3. /\ at' = [at EXCEPT ![u] = IF @ = "new" THEN "begun" ELSE @] /\ u \in Threads
        /\ cpu' = "run"
    BY <2>1, <2>2 DEF SwitchTo, u
  <2>4. UNCHANGED <<execfile, threadNum, numFreeFrame, space>>
    BY <1>3 DEF Preempt, Dispatch
  <2>5. CASE at[u] = "new"
    <3>1. at' = [at EXCEPT ![u] = "begun"]
      BY <2>3, <2>5, <1>0
    <3> QED BY <1>00, <2>3, <2>4, <2>5, <3>1, MoveLoads DEF Places, LoadedPlaces
  <2>6. CASE at[u] # "new"
    <3>1. at' = at
      BY <2>3, <2>6, <1>0
    <3> QED BY <1>00, <2>3, <2>4, <3>1, StayLoads
  <2> QED BY <2>5, <2>6
<1>5. ASSUME NEW t \in Programs0, ForkExecute(t)
      PROVE  LoadInv'
  BY <1>00, <1>5, LoadCounts
<1>6. ASSUME NEW t \in Programs0, LoadFails(t)
      PROVE  LoadInv'
  BY <1>0, <1>00, <1>6, MoveLoads DEF LoadFails, Running, Finishes, Places, LoadedPlaces
<1>7. ASSUME NEW t \in Programs0, Exit(t)
      PROVE  LoadInv'
  <2>1. at[t] = "user" /\ at' = [at EXCEPT ![t] = "finished"]
        /\ UNCHANGED <<execfile, threadNum, numFreeFrame, space>> /\ cpu' = "choose"
    BY <1>7 DEF Exit, Executes, Running, Finishes
  <2>2. execfile[t] \in Executable
    BY <1>0, <2>1 DEF LoadedByPlace, LoadedPlaces
  <2> QED BY <1>0, <1>00, <2>1, <2>2, MoveLoads DEF Places, LoadedPlaces
<1>8. ASSUME NEW t \in Programs0, PrintInt(t) \/ Block(t) \/ Wake(t) \/ Return(t)
      PROVE  LoadInv'
  <2>1. PICK p \in LoadedPlaces : at' = [at EXCEPT ![t] = p]
    BY <1>8 DEF PrintInt, Block, Wake, Return, LoadedPlaces
  <2>2. at[t] \in LoadedPlaces /\ UNCHANGED <<execfile, threadNum, numFreeFrame, space>>
    BY <1>8 DEF PrintInt, Block, Wake, Return, LoadedPlaces, Executes, Running
  <2>3. cpu' # "refused"
    BY <1>8 DEF PrintInt, Block, Wake, Return, Executes, Running
  <2> QED BY <1>0, <1>00, <2>1, <2>2, <2>3, MoveLoads DEF Places, LoadedPlaces
<1>9. ASSUME NEW t \in Programs0, LoadRefused(t)
      PROVE  LoadInv'
  <2>1. PagesNeeded > NumPhysPages
    BY <1>9, RefusalIsForPages
  <2>2. UNCHANGED <<execfile, threadNum, at, numFreeFrame, space>>
    BY <1>9 DEF LoadRefused
  <2>3. PagesNeeded' = PagesNeeded
    BY <2>2 DEF PagesNeeded, PagesOf, Present
  <2>4. FramesCounted'
    BY <1>0, <2>2, CountStays
  <2> QED BY <1>0, <1>00, <2>1, <2>2, <2>3, <2>4 DEF LoadInv, RefusedForPages, StartedInOrder,
             LoadedByPlace
<1>10. ASSUME NEW t \in Programs0,
              Nop(t) \/ Load(t) \/ Store(t) \/ Read(t) \/ Write(t) \/ Halt(t) \/ Fault(t)
       PROVE  LoadInv'
  BY <1>00, <1>10, StayLoads DEF Nop, Load, Store, Read, Write, Halt, Fault
<1>11. CASE UNCHANGED vars
  BY <1>00, <1>11, StayLoads DEF vars
<1> QED
  BY <1>1, <1>2, <1>3, <1>5, <1>6, <1>7, <1>8, <1>9, <1>10, <1>11 DEF Next

LEMMA InitLoads == Init => LoadInv
<1> SUFFICES ASSUME Init PROVE LoadInv
  OBVIOUS
<1>1. SpaceInv
  BY InitSpaces
<1>2. Used = 0
  BY MemoryAssumption DEF Init, Used
<1>3. StartedInOrder
  <2>1. execfile \in Seq(Files) /\ Len(execfile) \in Nat
    BY WorkloadAssumption DEF Init
  <2>2. \A t \in Programs0 : at[t] = "none" /\ t >= 1
    BY DEF Init, Programs0, Threads, Main, MaxThreads
  <2>3. threadNum = 1 /\ threadNum <= Len(execfile) + 1
    BY <2>1 DEF Init
  <2> QED BY <2>2, <2>3 DEF StartedInOrder
<1>4. LoadedByPlace
  BY DEF Init, LoadedByPlace, LoadedPlaces, Programs0, Threads, Main, MaxThreads
<1>5. PagesTaken = {}
  BY DEF Init, PagesTaken, Taken
<1>6. FramesCounted
  BY <1>2, <1>5, FS_EmptySet DEF FramesCounted
<1> QED BY <1>1, <1>3, <1>4, <1>6 DEF Init, LoadInv, RefusedForPages

\* The frames in use are the pages of the programs that have been loaded.
THEOREM LoadsAreCounted == Spec => []LoadInv
<1>1. LoadInv /\ [Next]_vars => LoadInv'
  BY NextLoads
<1> QED BY InitLoads, <1>1, PTL DEF Spec

\* Kernel::ExecAll either loads every program of its command line or stops for
\* want of frames, and which of the two depends on the command line alone, in no
\* interleaving on the order in which the threads run.
THEOREM RefusalByWorkload == Spec => []RefusedByWorkload
<1>1. LoadInv => RefusedByWorkload
  <2> SUFFICES ASSUME LoadInv, \A t \in 1 .. Len(execfile) : at[t] = "finished"
               PROVE  PagesNeeded <= NumPhysPages
    BY DEF LoadInv, RefusedForPages, RefusedByWorkload
  <2>1. Types /\ LoadedByPlace /\ FramesCounted /\ StartedInOrder
    BY DEF LoadInv, SpaceInv, FrameInv
  <2>2. \A t \in 1 .. Len(execfile) : t \in Programs0
    BY <2>1, WorkloadAssumption DEF Types, Programs0, MaxThreads
  <2>3. Present = Taken
    <3>1. ASSUME NEW t \in Present PROVE t \in Taken
      BY <2>1, <2>2 DEF Present, Taken, LoadedByPlace
    <3>2. ASSUME NEW t \in Taken PROVE t \in Present
      <4>1. at[t] # "none" /\ execfile[t] \in Executable /\ t \in Programs0
        BY <2>1 DEF Taken, LoadedByPlace, LoadedPlaces
      <4> QED BY <2>1, <4>1, StartedIsListed DEF Present
    <3> QED BY <3>1, <3>2
  <2>4. PagesNeeded = Used
    BY <2>1, <2>3 DEF PagesNeeded, PagesTaken, FramesCounted
  <2> QED BY <2>1, <2>4, MemoryAssumption DEF Types, Used
<1> QED BY <1>1, LoadsAreCounted, PTL

-----------------------------------------------------------------------------
(***************************************************************************)
(* Where a program lies: its address space is one block of the memory, and *)
(* address a of it is the a-th word of the block.                          *)
(***************************************************************************)
Base(t) == space[t][1] * PageSize
Extent(t) == Len(space[t]) * PageSize

LEMMA DivMod ==
  ASSUME NEW a \in Nat, NEW p \in Nat \ {0}
  PROVE  a \div p \in Nat /\ a % p \in 0 .. p - 1 /\ a = (a \div p) * p + (a % p)
OBVIOUS

LEMMA DivBelow ==
  ASSUME NEW a \in Nat, NEW p \in Nat \ {0}, NEW n \in Nat
  PROVE  a \div p < n <=> a < n * p
OBVIOUS

LEMMA TimesGrows ==
  ASSUME NEW a \in Nat, NEW n \in Nat, a <= n, NEW p \in Nat \ {0}
  PROVE  a * p \in Nat /\ n * p \in Nat /\ a * p <= n * p
OBVIOUS

LEMMA TimesSum ==
  ASSUME NEW a \in Nat, NEW n \in Nat, NEW p \in Nat
  PROVE  (a + n) * p = a * p + n * p
OBVIOUS

\* n frames side by side, from frame b on; and how addresses are translated there.
AreBlock(frames, n, b) == \A i \in 1 .. n : frames[i] = b + i - 1 /\ frames[i] \in Frames
TranslateAsBlock(frames, n, b) ==
  /\ b * PageSize \in Nat /\ n * PageSize \in Nat \ {0}
  /\ b * PageSize + n * PageSize <= NumPhysPages * PageSize
  /\ \A a \in 0 .. n * PageSize - 1 :
       /\ a \div PageSize + 1 \in 1 .. n
       /\ frames[a \div PageSize + 1] * PageSize + (a % PageSize) = b * PageSize + a

\* A block lies in the memory, address by address.
LEMMA BlockIs ==
  ASSUME NEW n \in Nat \ {0}, NEW b \in Nat, NEW frames, AreBlock(frames, n, b)
  PROVE  TranslateAsBlock(frames, n, b)
<1>1. frames[n] = b + n - 1 /\ frames[n] \in Frames
  BY DEF AreBlock
<1>2. b + n <= NumPhysPages /\ NumPhysPages \in Nat
  BY <1>1, MemoryAssumption DEF Frames
<1>3. b * PageSize \in Nat /\ n * PageSize \in Nat \ {0}
  BY PageAssumption
<1>4. b * PageSize + n * PageSize <= NumPhysPages * PageSize
  <2>1. (b + n) * PageSize <= NumPhysPages * PageSize
    BY <1>2, PageAssumption, TimesGrows
  <2>2. (b + n) * PageSize = b * PageSize + n * PageSize
    BY PageAssumption, TimesSum
  <2> QED BY <2>1, <2>2
<1>5. ASSUME NEW a \in 0 .. n * PageSize - 1
      PROVE  /\ a \div PageSize + 1 \in 1 .. n
             /\ frames[a \div PageSize + 1] * PageSize + (a % PageSize) = b * PageSize + a
  <2>1. a \in Nat /\ a < n * PageSize
    BY <1>3
  <2> DEFINE d == a \div PageSize
             m == a % PageSize
  <2>2. d \in Nat /\ m \in Nat /\ a = d * PageSize + m
    BY <2>1, PageAssumption
  <2>3. d < n
    BY <2>1, PageAssumption, DivBelow
  <2> HIDE DEF d, m
  <2>4. d + 1 \in 1 .. n /\ frames[d + 1] = b + d
    BY <2>2, <2>3 DEF AreBlock
  <2>5. (b + d) * PageSize = b * PageSize + d * PageSize
    BY <2>2, PageAssumption, TimesSum
  <2>6. d * PageSize \in Nat /\ b * PageSize \in Nat
    BY <2>2, PageAssumption
  <2>7. frames[d + 1] * PageSize + m = b * PageSize + a
    BY <2>2, <2>4, <2>5, <2>6
  <2> QED BY <2>4, <2>7 DEF d, m
<1> QED BY <1>3, <1>4, <1>5 DEF TranslateAsBlock

\* So does the address space of a program.
LEMMA SpaceIsBlock ==
  ASSUME FrameInv, NEW t \in Programs0, space[t] # <<>>
  PROVE  /\ Base(t) \in Nat /\ Extent(t) \in Nat \ {0}
         /\ Base(t) + Extent(t) <= NumPhysPages * PageSize
         /\ \A a \in 0 .. Extent(t) - 1 :
              /\ a \div PageSize + 1 \in DOMAIN space[t]
              /\ space[t][a \div PageSize + 1] * PageSize + (a % PageSize) = Base(t) + a
<1> DEFINE n == Len(space[t])
           b == space[t][1]
<1>1. space[t] \in Seq(Frames)
  BY DEF FrameInv, Types
<1>2. n \in Nat \ {0} /\ DOMAIN space[t] = 1 .. n
  BY <1>1
<1>3. AreBlock(space[t], n, b)
  BY <1>1, <1>2 DEF FrameInv, FramesSideBySide, AreBlock
<1>4. b \in Nat
  BY <1>1, <1>2, MemoryAssumption DEF Frames
<1> HIDE DEF n, b
<1>5. TranslateAsBlock(space[t], n, b)
  BY <1>2, <1>3, <1>4, BlockIs
<1> QED BY <1>2, <1>5 DEF Base, Extent, n, b, TranslateAsBlock

\* The blocks of two programs have no word in common.
LEMMA BlocksApart ==
  ASSUME FrameInv, NEW t \in Programs0, NEW u \in Programs0, t # u,
         space[t] # <<>>, space[u] # <<>>
  PROVE  Base(t) + Extent(t) <= Base(u) \/ Base(u) + Extent(u) <= Base(t)
<1>1. /\ space[t] \in Seq(Frames) /\ space[u] \in Seq(Frames)
      /\ Len(space[t]) \in Nat \ {0} /\ Len(space[u]) \in Nat \ {0}
      /\ DOMAIN space[t] = 1 .. Len(space[t]) /\ DOMAIN space[u] = 1 .. Len(space[u])
  BY DEF FrameInv, Types
<1> DEFINE n == Len(space[t])
           m == Len(space[u])
           b == space[t][1]
           c == space[u][1]
<1>2. n \in Nat \ {0} /\ m \in Nat \ {0} /\ b \in Nat /\ c \in Nat
  BY <1>1, MemoryAssumption DEF Frames
<1>3. ASSUME NEW i \in 1 .. n, NEW k \in 1 .. m PROVE b + i - 1 # c + k - 1
  <2>1. space[t][i] = b + i - 1 /\ space[u][k] = c + k - 1
    BY <1>1 DEF FrameInv, FramesSideBySide
  <2> QED BY <1>1, <2>1 DEF FrameInv, SpacesApart
<1> HIDE DEF n, m, b, c
<1>4. b + n <= c \/ c + m <= b
  <2>1. ASSUME b <= c, c < b + n PROVE FALSE
    <3>1. PICK i \in 1 .. n : b + i - 1 = c
      <4>1. c - b + 1 \in 1 .. n /\ b + (c - b + 1) - 1 = c
        BY <1>2, <2>1
      <4> QED BY <4>1
    <3>2. 1 \in 1 .. m /\ c + 1 - 1 = c
      BY <1>2
    <3> QED BY <1>3, <3>1, <3>2
  <2>2. ASSUME c <= b, b < c + m PROVE FALSE
    <3>1. PICK k \in 1 .. m : c + k - 1 = b
      <4>1. b - c + 1 \in 1 .. m /\ c + (b - c + 1) - 1 = b
        BY <1>2, <2>2
      <4> QED BY <4>1
    <3>2. 1 \in 1 .. n /\ b + 1 - 1 = b
      BY <1>2
    <3> QED BY <1>3, <3>1, <3>2
  <2> QED BY <1>2, <2>1, <2>2
<1>5. /\ (b + n) * PageSize = b * PageSize + n * PageSize
      /\ (c + m) * PageSize = c * PageSize + m * PageSize
  BY <1>2, PageAssumption, TimesSum
<1>6. /\ b + n <= c => (b + n) * PageSize <= c * PageSize
      /\ c + m <= b => (c + m) * PageSize <= b * PageSize
  BY <1>2, PageAssumption, TimesGrows
<1> QED BY <1>4, <1>5, <1>6 DEF Base, Extent, n, m, b, c

\* What Translate finds at address a of the thread whose page table the machine has.
LEMMA PhysicalIs ==
  ASSUME FrameInv, NEW t \in Programs0, space[t] # <<>>, pageTable = t
  PROVE  /\ \A a \in Nat : Mapped(a) <=> a < Extent(t)
         /\ \A a \in 0 .. Extent(t) - 1 : Physical(a) = Base(t) + a /\ Physical(a) \in Memory
<1>1. Nil \notin Programs0
  BY DEF Nil, Programs0, MaxThreads
<1>2. \A a \in Nat : Mapped(a) <=> a < Extent(t)
  BY <1>1 DEF Mapped, Extent
<1>3. /\ Base(t) \in Nat /\ Extent(t) \in Nat
      /\ Base(t) + Extent(t) <= NumPhysPages * PageSize /\ NumPhysPages * PageSize \in Nat
  BY SpaceIsBlock, MemoryAssumption, PageAssumption
<1>4. ASSUME NEW a \in 0 .. Extent(t) - 1
      PROVE  Physical(a) = Base(t) + a /\ Physical(a) \in Memory
  <2>1. Physical(a) = Base(t) + a
    BY SpaceIsBlock DEF Physical
  <2> QED BY <1>3, <2>1 DEF Memory
<1> QED BY <1>2, <1>4

LEMMA PrivateMemoryIs ==
  ASSUME FrameInv, NEW t \in Programs0, space[t] # <<>>
  PROVE  PrivateMemory(t) = [a \in 0 .. Extent(t) - 1 |-> mainMemory[Base(t) + a]]
BY SpaceIsBlock DEF PrivateMemory, Extent

\* Load fills the block it was given with the image of the file, if it is one whose
\* segments it translates right, and changes no other word.
LEMMA LoadedIs ==
  ASSUME NEW f \in Files, NEW b \in Nat, NEW frames,
         DOMAIN frames = 1 .. NumPages(f), AreBlock(frames, NumPages(f), b),
         Fits(f), Translated(f) \/ b = 0
  PROVE  Loaded(frames, f) =
           [q \in Memory |->
              IF q - b * PageSize \in 0 .. NumPages(f) * PageSize - 1
                THEN Machines!Image(f)[q - b * PageSize] ELSE mainMemory[q]]
<1> DEFINE n == NumPages(f)
           B == b * PageSize
           E == n * PageSize
           Read3 == {"code", "init", "rdata"}
<1>1. n \in Nat \ {0}
  BY NumPagesPositive
<1>2. /\ \A s \in Segments : Header[f][s].at \in Nat /\ Header[f][s].size \in Nat
      /\ Header[f].code.at = 0 /\ Read3 \subseteq Segments
  <2>1. Header[f] \in [Segments -> [at : Nat, size : Nat]]
    BY HeaderAssumption
  <2>2. Header[f].code = [at |-> 0, size |-> Len(Text[f])]
    BY TextAssumption
  <2> QED BY <2>1, <2>2 DEF Segments
<1>3. TranslateAsBlock(frames, n, b)
  BY <1>1, BlockIs
<1>4. B \in Nat /\ E \in Nat \ {0} /\ Memory \subseteq Nat
  BY <1>3, MemoryAssumption, PageAssumption DEF TranslateAsBlock, Memory
<1>5. ASSUME NEW q \in Memory
      PROVE  (\E i \in DOMAIN frames : frames[i] = q \div PageSize) <=> q - B \in 0 .. E - 1
  <2> DEFINE d == q \div PageSize
  <2>1. d \in Nat /\ (d < b <=> q < b * PageSize) /\ (d < b + n <=> q < (b + n) * PageSize)
    <3>1. q \in Nat /\ b + n \in Nat
      BY <1>1, <1>4
    <3>2. d \in Nat
      BY <3>1, PageAssumption
    <3>3. d < b <=> q < b * PageSize
      BY <3>1, PageAssumption, DivBelow
    <3>4. d < b + n <=> q < (b + n) * PageSize
      BY <3>1, PageAssumption, DivBelow
    <3> QED BY <3>2, <3>3, <3>4
  <2>2. (b + n) * PageSize = B + E
    BY <1>1, PageAssumption, TimesSum
  <2>3. d \in b .. b + n - 1 <=> q - B \in 0 .. E - 1
    BY <2>1, <2>2, <1>1, <1>4
  <2> HIDE DEF d, B, E
  <2>4. (\E i \in 1 .. n : b + i - 1 = d) <=> d \in b .. b + n - 1
    <3>1. ASSUME d \in b .. b + n - 1 PROVE d - b + 1 \in 1 .. n /\ b + (d - b + 1) - 1 = d
      BY <3>1, <1>1
    <3> QED BY <3>1, <1>1
  <2> QED BY <2>3, <2>4 DEF AreBlock, d
<1>6. ASSUME NEW s \in Read3, Header[f][s].size > 0
      PROVE  Segment(frames, f, s) = B + Header[f][s].at
  <2>1. /\ Header[f][s].at \in 0 .. E - 1
        /\ Header[f].code.at % PageSize = 0 /\ 0 \in 0 .. E - 1
    BY <1>2, <1>4, <1>6, PageAssumption DEF Fits
  <2>2. \A a \in 0 .. E - 1 : frames[a \div PageSize + 1] * PageSize + (a % PageSize) = B + a
    BY <1>3 DEF TranslateAsBlock
  <2>3. CASE s \in {"code", "init"}
    <3>1. Header[f][s].at % PageSize = 0
      BY <1>6, <2>1, <2>3 DEF Fits
    <3> QED BY <2>1, <2>2, <2>3, <3>1 DEF Segment
  <2>4. CASE s = "rdata"
    <3>1. b = 0 /\ B = 0
      BY <1>6, <2>4, <1>2, PageAssumption DEF Translated
    <3> QED BY <2>1, <2>4, <3>1 DEF Segment
  <2> QED BY <2>3, <2>4
<1>7. ASSUME NEW s \in Read3, NEW m
      PROVE  Header[f][s].size > 0 =>
               ReadAt(m, Segment(frames, f, s), f, s)
                 = [q \in Memory |-> IF q - B \in Addresses(Header[f][s]) THEN Word(f, q - B)
                                     ELSE m[q]]
  <2> SUFFICES ASSUME Header[f][s].size > 0, NEW q \in Memory
               PROVE  /\ q - (B + Header[f][s].at) \in 0 .. Header[f][s].size - 1
                           <=> q - B \in Addresses(Header[f][s])
                      /\ Header[f][s].at + q - (B + Header[f][s].at) = q - B
    BY <1>6 DEF ReadAt
  <2>1. q \in Nat /\ Header[f][s].at \in Nat /\ Header[f][s].size \in Nat
    BY <1>2, <1>4
  <2> DEFINE x == Header[f][s].at
             z == Header[f][s].size
  <2>2. Addresses(Header[f][s]) = x .. x + z - 1
    BY DEF Addresses
  <2>3. x \in Nat /\ z \in Nat /\ B \in Nat /\ q \in Nat
    BY <2>1, <1>4
  <2> HIDE DEF B, E, x, z
  <2>4. x + q - (B + x) = q - B /\ (q - (B + x) \in 0 .. z - 1 <=> q - B \in x .. x + z - 1)
    BY <2>3
  <2> QED BY <2>2, <2>4 DEF x, z
<1>8. ASSUME NEW s \in Read3, ~(Header[f][s].size > 0)
      PROVE  Addresses(Header[f][s]) = {}
  BY <1>2, <1>8 DEF Addresses
<1> DEFINE cleared == [q \in Memory |->
             IF \E i \in DOMAIN frames : frames[i] = q \div PageSize THEN Zero ELSE mainMemory[q]]
           read(m, s) == IF Header[f][s].size > 0 THEN ReadAt(m, Segment(frames, f, s), f, s) ELSE m
           filled(m, s) == [q \in Memory |->
             IF q - B \in Addresses(Header[f][s]) THEN Word(f, q - B) ELSE m[q]]
<1>9. ASSUME NEW s \in Read3, NEW m, m = [q \in Memory |-> m[q]]
      PROVE  read(m, s) = filled(m, s)
  <2>1. CASE Header[f][s].size > 0
    BY <2>1, <1>7
  <2>2. CASE ~(Header[f][s].size > 0)
    BY <2>2, <1>8, <1>9
  <2> QED BY <2>1, <2>2
<1>10. Loaded(frames, f) = read(read(read(cleared, "code"), "init"), "rdata")
  BY DEF Loaded
<1>11. ASSUME NEW m, NEW s PROVE filled(m, s) = [q \in Memory |-> filled(m, s)[q]]
  OBVIOUS
<1>12. cleared = [q \in Memory |-> cleared[q]]
  OBVIOUS
<1> HIDE DEF read
<1>13. Loaded(frames, f) = filled(filled(filled(cleared, "code"), "init"), "rdata")
  <2>1. read(cleared, "code") = filled(cleared, "code")
    BY <1>9, <1>12
  <2> HIDE DEF filled
  <2>2. read(filled(cleared, "code"), "init") = filled(filled(cleared, "code"), "init")
    BY <1>9, <1>11
  <2>3. read(filled(filled(cleared, "code"), "init"), "rdata")
          = filled(filled(filled(cleared, "code"), "init"), "rdata")
    BY <1>9, <1>11
  <2> QED BY <1>10, <2>1, <2>2, <2>3
<1>14. ASSUME NEW s \in Read3, NEW a \in Addresses(Header[f][s])
       PROVE  a \in 0 .. E - 1
  <2>1. Header[f][s].at + Header[f][s].size <= E
    BY DEF Fits
  <2>2. Header[f][s].at \in Nat /\ Header[f][s].size \in Nat
    BY <1>2
  <2>3. a \in Header[f][s].at .. Header[f][s].at + Header[f][s].size - 1
    BY DEF Addresses
  <2> HIDE DEF E
  <2> QED BY <2>1, <2>2, <2>3, <1>4
<1>15. ASSUME NEW q \in Memory
       PROVE  filled(filled(filled(cleared, "code"), "init"), "rdata")[q] =
                IF q - B \in 0 .. E - 1 THEN Machines!Image(f)[q - B] ELSE mainMemory[q]
  <2> DEFINE a == q - B
  <2>1. cleared[q] = IF a \in 0 .. E - 1 THEN Zero ELSE mainMemory[q]
    BY <1>5
  <2>2. filled(filled(filled(cleared, "code"), "init"), "rdata")[q] =
          IF \E s \in Read3 : a \in Addresses(Header[f][s]) THEN Word(f, a) ELSE cleared[q]
    OBVIOUS
  <2> HIDE DEF filled, cleared, a, B, E
  <2>3. CASE a \in 0 .. E - 1
    <3>1. Machines!Image(f)[a] =
            IF \E s \in Read3 : a \in Addresses(Header[f][s]) THEN Word(f, a) ELSE Zero
      <4>1. DOMAIN Machines!Image(f) = 0 .. E - 1
        BY DEF Machines!Image, Machines!NumPages, NumPages, Machines!Size, Size, E
      <4>2. \A s \in Read3 : Machines!Addresses(Header[f][s]) = Addresses(Header[f][s])
        BY DEF Machines!Addresses, Addresses
      <4> QED BY <2>3, <4>1, <4>2 DEF Machines!Image, Machines!Word, Word, Machines!Zero, Zero
    <3> QED BY <2>1, <2>2, <2>3, <3>1 DEF a
  <2>4. CASE a \notin 0 .. E - 1
    BY <1>14, <2>1, <2>2, <2>4 DEF a
  <2> QED BY <2>3, <2>4
<1> HIDE DEF cleared
<1> QED BY <1>13, <1>15

-----------------------------------------------------------------------------
(***************************************************************************)
(* What the memory and the registers hold: words of the programs that were *)
(* loaded, of Read, or none.  A program of which not everything is         *)
(* translated is alone, and then lies at the start of the memory.          *)
(***************************************************************************)
WorkloadWords ==
  {w \in Words : \/ w \in {Zero, Input}
                 \/ \E t \in Present : \E a \in Nat : w = Word(execfile[t], a)}
WorkloadRegisters == [pc : Nat, r : WorkloadWords]

Contents ==
  /\ mainMemory \in [Memory -> WorkloadWords]
  /\ registers \in WorkloadRegisters
  /\ userRegisters \in [Programs0 -> WorkloadRegisters]
  /\ output \in [Programs0 -> WorkloadWords]
  /\ Len(execfile) = 1 => \A t \in Programs0 : space[t] # <<>> => space[t][1] = 0

IsolationInv == LoadInv /\ Contents

\* An instruction is one of the text of a program that was loaded, or harmless.
LEMMA InstructionIs ==
  ASSUME WorkloadsConfined, Types, NEW w \in WorkloadWords
  PROVE  /\ Instruction(w).addr \in Nat
         /\ Instruction(w).op \in {"read", "write"} =>
              /\ Len(execfile) = 1 /\ 1 \in Present
              /\ Instruction(w).addr < NumPages(execfile[1]) * PageSize
<1>1. execfile \in Seq(Files) /\ Confined(execfile)
  BY WorkloadAssumption DEF WorkloadsConfined, Types
<1>2. CASE w \in {Zero, Input}
  <2>1. ~ \E f \in Files : \E a \in Addresses(Header[f].code) : w = Word(f, a)
    <3>1. ASSUME NEW f, NEW a PROVE Len(<<f, a>>) = 2 /\ Len(<<>>) = 0 /\ Len(<<"input">>) = 1
      OBVIOUS
    <3>2. ASSUME NEW f, NEW a PROVE Word(f, a) # Zero /\ Word(f, a) # Input
      BY <3>1 DEF Zero, Input, Word
    <3> QED BY <1>2, <3>2
  <2> QED BY <2>1 DEF Instruction
<1>3. ASSUME NEW t \in Present, NEW a \in Nat, w = Word(execfile[t], a)
      PROVE  /\ Instruction(w).addr \in Nat
             /\ Instruction(w).op \in {"read", "write"} =>
                  /\ Len(execfile) = 1 /\ 1 \in Present
                  /\ Instruction(w).addr < NumPages(execfile[1]) * PageSize
  <2> DEFINE f == execfile[t]
  <2>1. /\ t \in 1 .. Len(execfile) /\ f \in Files /\ Fits(f)
        /\ Translated(f) \/ Len(execfile) = 1
    BY <1>1 DEF Present, Confined
  <2>2. w # Zero /\ w[1] = f /\ w[2] = a
    BY <1>3 DEF Word, Zero
  <2>3. CASE \E g \in Files : \E b \in Addresses(Header[g].code) : w = Word(g, b)
    <3>1. a \in Addresses(Header[f].code)
      BY <1>3, <2>3 DEF Word
    <3>2. Header[f].code = [at |-> 0, size |-> Len(Text[f])] /\ f \in Files
      BY <2>1, TextAssumption
    <3>3. a + 1 \in 1 .. Len(Text[f]) /\ a + 1 \in DOMAIN Text[f]
      <4>1. Text[f] \in Seq([op : {"nop", "load", "store", "print", "read", "write", "halt",
                                    "exit"},
                             addr : Nat])
        BY <2>1, TextAssumption
      <4>2. a \in 0 .. 0 + Len(Text[f]) - 1
        BY <3>1, <3>2 DEF Addresses
      <4> QED BY <4>1, <4>2
    <3>4. Instruction(w) = Text[f][a + 1]
      BY <2>2, <2>3 DEF Instruction
    <3>5. Text[f][a + 1].addr \in Nat
      <4> DEFINE instructions == [op : {"nop", "load", "store", "print", "read", "write", "halt",
                                        "exit"},
                                  addr : Nat]
      <4>1. Text[f] \in Seq(instructions)
        BY <2>1, TextAssumption
      <4>2. \A i \in instructions : i.addr \in Nat
        OBVIOUS
      <4> HIDE DEF instructions
      <4>3. Text[f][a + 1] \in instructions
        BY <3>3, <4>1
      <4> QED BY <4>2, <4>3
    <3>6. ASSUME Text[f][a + 1].op \in {"read", "write"}
          PROVE  /\ Len(execfile) = 1 /\ 1 \in Present
                 /\ Text[f][a + 1].addr < NumPages(execfile[1]) * PageSize
      <4>1. Len(execfile) = 1
        BY <2>1, <3>3, <3>6 DEF Translated
      <4>2. t = 1
        BY <2>1, <4>1
      <4> QED BY <2>1, <3>3, <3>6, <4>1, <4>2 DEF Fits
    <3> QED BY <3>4, <3>5, <3>6
  <2>4. CASE ~ \E g \in Files : \E b \in Addresses(Header[g].code) : w = Word(g, b)
    BY <2>2, <2>4 DEF Instruction
  <2> QED BY <2>3, <2>4
<1> QED BY <1>2, <1>3 DEF WorkloadWords

\* The thread that executes an instruction does so in its own block, and the private
\* machine of the thread is at the same instruction.
LEMMA ExecutesIs ==
  ASSUME WorkloadsConfined, IsolationInv, NEW t \in Programs0, NEW op, Executes(t, op)
  PROVE  /\ current = t /\ at[t] = "user" /\ space[t] # <<>> /\ pageTable = t
         /\ mainMemory[Physical(registers.pc)] \in WorkloadWords
         /\ Fetched.op = op /\ Fetched.addr \in Nat
         /\ Machines!InUser(t) /\ Machines!Fetched(t) = Fetched
         /\ privateMem[t] = [a \in 0 .. Extent(t) - 1 |-> mainMemory[Base(t) + a]]
         /\ privateRegs[t] = registers
         /\ op \in {"read", "write"} => Base(t) = 0 /\ Fetched.addr < Extent(t)
<1>1. /\ FrameInv /\ Types /\ TableOfCurrent /\ StartedInOrder /\ LoadedByPlace
      /\ mainMemory \in [Memory -> WorkloadWords] /\ registers \in WorkloadRegisters
  BY DEF IsolationInv, LoadInv, SpaceInv, FrameInv, Contents
<1>2. current = t /\ at[t] = "user" /\ Mapped(registers.pc) /\ Fetched.op = op
  BY DEF Executes, Running
<1>3. space[t] # <<>> /\ pageTable = t
  BY <1>1, <1>2 DEF TableOfCurrent, LoadedPlaces
<1>4. registers.pc \in Nat /\ Extent(t) \in Nat /\ Base(t) \in Nat
  BY <1>1, <1>3, SpaceIsBlock DEF WorkloadRegisters
<1>5. registers.pc \in 0 .. Extent(t) - 1
  BY <1>1, <1>2, <1>3, <1>4, PhysicalIs
<1>6. Physical(registers.pc) = Base(t) + registers.pc /\ Physical(registers.pc) \in Memory
  BY <1>1, <1>3, <1>5, PhysicalIs
<1>7. mainMemory[Physical(registers.pc)] \in WorkloadWords
  BY <1>1, <1>6
<1>8. /\ Fetched.addr \in Nat
      /\ op \in {"read", "write"} =>
           /\ Len(execfile) = 1 /\ 1 \in Present
           /\ Fetched.addr < NumPages(execfile[1]) * PageSize
  BY <1>1, <1>2, <1>7, InstructionIs DEF Fetched
<1>9. privateMem[t] = [a \in 0 .. Extent(t) - 1 |-> mainMemory[Base(t) + a]]
  BY <1>1, <1>3, PrivateMemoryIs DEF privateMem
<1>10. privateRegs[t] = registers /\ privateState[t] = "user"
  BY <1>2, <1>3 DEF privateRegs, privateState, PrivateState
<1>11. Machines!InUser(t) /\ Machines!Fetched(t) = Fetched
  <2>1. privateMem[t][registers.pc] = mainMemory[Physical(registers.pc)]
    BY <1>5, <1>6, <1>9
  <2>2. \A w : Machines!Instruction(w) = Instruction(w)
    BY DEF Machines!Instruction, Instruction, Machines!Addresses, Addresses, Machines!Word, Word,
           Machines!Zero, Zero
  <2>3. Machines!Fetched(t) = Fetched
    BY <1>10, <2>1, <2>2 DEF Machines!Fetched, Fetched
  <2>4. registers.pc \in DOMAIN privateMem[t]
    BY <1>5, <1>9
  <2> QED BY <1>10, <2>3, <2>4 DEF Machines!InUser
<1>12. ASSUME op \in {"read", "write"}
       PROVE  Base(t) = 0 /\ Fetched.addr < Extent(t)
  <2>1. at[t] # "none"
    BY <1>2
  <2>2. t \in 1 .. Len(execfile)
    BY <1>1, <2>1, StartedIsListed
  <2>3. t = 1
    <3>1. Len(execfile) = 1
      BY <1>8, <1>12
    <3> QED BY <2>2, <3>1
  <2>4. Extent(t) = NumPages(execfile[1]) * PageSize
    BY <1>1, <1>3, <2>3 DEF Extent, LoadedByPlace
  <2>5. space[t][1] = 0
    BY <1>3, <1>8, <1>12 DEF IsolationInv, Contents
  <2>6. Base(t) = 0
    BY <2>5, PageAssumption DEF Base
  <2> QED BY <1>8, <1>12, <2>4, <2>6
<1> QED BY <1>2, <1>3, <1>7, <1>8, <1>9, <1>10, <1>11, <1>12

\* What Load does to the memory: the block it takes becomes the image of the file.
LEMMA LoadFillsBlock ==
  ASSUME WorkloadsConfined, LoadInv, NEW t \in Programs0, ForkExecute(t)
  PROVE  /\ t \in Present /\ execfile[t] \in Files
         /\ Base(t)' = Used * PageSize /\ Extent(t)' = NumPages(execfile[t]) * PageSize
         /\ TranslateAsBlock(space'[t], NumPages(execfile[t]), Used)
         /\ Len(execfile) = 1 => space'[t][1] = 0
         /\ mainMemory' =
              [q \in Memory |->
                 IF q - Base(t)' \in 0 .. Extent(t)' - 1
                   THEN Machines!Image(execfile[t])[q - Base(t)'] ELSE mainMemory[q]]
<1> DEFINE f == execfile[t]
           n == NumPages(f)
           frames == [i \in 1 .. n |-> Used + i - 1]
<1>1. Types /\ FrameInv /\ StartedInOrder /\ LoadedByPlace /\ FramesCounted
  BY DEF LoadInv, SpaceInv, FrameInv
<1>2. at[t] = "begun" /\ f \in Executable
  BY DEF ForkExecute, Running
<1>3. t \in 1 .. Len(execfile) /\ f \in Files /\ n \in Nat \ {0}
  BY <1>1, <1>2, StartedIsListed
<1>4. /\ space' = [space EXCEPT ![t] = frames]
      /\ \A i \in 1 .. n : Used + i - 1 \in Frames
  BY <1>1, LoadTakesNext
<1>5. Used \in Nat
  BY <1>1, MemoryAssumption DEF Types, Used
<1>6. AreBlock(frames, n, Used) /\ DOMAIN frames = 1 .. n
  BY <1>4 DEF AreBlock
<1>7. frames = space'[t]
  BY <1>1, <1>4 DEF Types
<1>8. mainMemory' = Loaded(frames, f)
  <2> DEFINE found == [i \in 1 .. n |-> FreeFrame(i - 1)]
  <2>1. mainMemory' = Loaded(found, f) /\ space' = [space EXCEPT ![t] = found]
    BY DEF ForkExecute, LoadSucceeds
  <2> HIDE DEF found, frames
  <2>2. found = space'[t]
    BY <1>1, <2>1 DEF Types
  <2> QED BY <1>7, <2>1, <2>2
<1>9. Fits(f) /\ (Translated(f) \/ Len(execfile) = 1)
  <2>1. Confined(execfile)
    BY <1>1 DEF WorkloadsConfined, Types
  <2> QED BY <1>2, <1>3, <2>1 DEF Confined
<1>10. Len(execfile) = 1 => Used = 0
  <2> SUFFICES ASSUME Len(execfile) = 1 PROVE Used = 0
    OBVIOUS
  <2>1. ASSUME NEW u \in Taken PROVE FALSE
    <3>1. space[u] # <<>> /\ u \in Programs0 /\ at[u] # "none"
      BY <1>1, <2>1 DEF Taken, LoadedByPlace, LoadedPlaces
    <3>2. u \in 1 .. Len(execfile)
      BY <1>1, <3>1, StartedIsListed
    <3>3. u = t
      BY <1>3, <3>2
    <3> QED BY <1>1, <1>2, <3>1, <3>3 DEF LoadedByPlace, LoadedPlaces
  <2>2. PagesTaken = {}
    BY <2>1 DEF PagesTaken
  <2> QED BY <1>1, <2>2, FS_EmptySet DEF FramesCounted
<1>11. Base(t)' = Used * PageSize /\ Extent(t)' = n * PageSize /\ space'[t][1] = Used
  <2>1. space'[t][1] = Used /\ Len(space'[t]) = n
    BY <1>3, <1>5, <1>7
  <2> QED BY <2>1 DEF Base, Extent
<1>12. t \in Present
  BY <1>2, <1>3 DEF Present
<1>0. TranslateAsBlock(space'[t], n, Used)
  BY <1>3, <1>5, <1>6, <1>7, BlockIs
<1> HIDE DEF frames
<1>13. Loaded(frames, f) =
        [q \in Memory |->
           IF q - Used * PageSize \in 0 .. n * PageSize - 1
             THEN Machines!Image(f)[q - Used * PageSize] ELSE mainMemory[q]]
  BY <1>3, <1>5, <1>6, <1>9, <1>10, LoadedIs
<1> QED BY <1>0, <1>3, <1>8, <1>10, <1>11, <1>12, <1>13

\* The words of the image are words of the workload.
LEMMA ImageWords ==
  ASSUME Types, NEW t \in Present, execfile[t] \in Files,
         NEW a \in 0 .. NumPages(execfile[t]) * PageSize - 1
  PROVE  Machines!Image(execfile[t])[a] \in WorkloadWords
<1> DEFINE f == execfile[t]
<1>1. /\ DOMAIN Machines!Image(f) = 0 .. NumPages(f) * PageSize - 1
      /\ \A s \in Segments : Machines!Addresses(Header[f][s]) = Addresses(Header[f][s])
  BY DEF Machines!Image, Machines!NumPages, NumPages, Machines!Size, Size, Machines!Addresses,
         Addresses
<1>2. Machines!Image(f)[a] \in {Word(f, a), Zero}
  BY <1>1 DEF Machines!Image, Machines!Word, Word, Machines!Zero, Zero
<1>3. CASE Machines!Image(f)[a] = Zero
  BY <1>3 DEF WorkloadWords, Words
<1>4. CASE Machines!Image(f)[a] # Zero
  <2>1. PICK s \in {"code", "init", "rdata"} : a \in Addresses(Header[f][s])
    BY <1>1, <1>4 DEF Machines!Image, Machines!Word, Word, Machines!Zero, Zero, Segments
  <2>2. a \in Nat
    <3>1. Header[f][s].at \in Nat /\ Header[f][s].size \in Nat
      BY HeaderAssumption DEF Segments
    <3> QED BY <2>1, <3>1 DEF Addresses
  <2>3. Word(f, a) \in Words
    <3> DEFINE words == {Word(f, b) : b \in Addresses(Header[f][s])}
    <3>1. Word(f, a) \in words /\ f \in Files /\ s \in Segments
      BY <2>1 DEF Segments
    <3>2. words \in {{Word(g, b) : b \in Addresses(Header[g][z])} : g \in Files, z \in Segments}
      BY <3>1
    <3> HIDE DEF words
    <3> QED BY <3>1, <3>2 DEF Words
  <2> QED BY <1>2, <1>4, <2>2, <2>3 DEF WorkloadWords
<1> QED BY <1>3, <1>4

LEMMA AdvanceTypes ==
  ASSUME registers \in WorkloadRegisters, NEW w \in WorkloadWords, Advance(w)
  PROVE  registers' \in WorkloadRegisters
BY DEF WorkloadRegisters, Advance

\* Every step keeps what the memory and the registers hold.
LEMMA NextContents ==
  ASSUME WorkloadsConfined, IsolationInv, LoadInv', [Next]_vars
  PROVE  Contents'
<1> USE DEF kernelVars, memoryVars, machineVars, cpuVars
<1>1. /\ LoadInv /\ FrameInv /\ Types /\ Contents
      /\ mainMemory \in [Memory -> WorkloadWords] /\ registers \in WorkloadRegisters
      /\ userRegisters \in [Programs0 -> WorkloadRegisters]
      /\ output \in [Programs0 -> WorkloadWords]
      /\ registers.r \in WorkloadWords
  BY DEF IsolationInv, LoadInv, SpaceInv, FrameInv, Contents, WorkloadRegisters
<1>2. ASSUME execfile' = execfile PROVE WorkloadWords' = WorkloadWords
  BY <1>2 DEF WorkloadWords, Present
<1>3. ASSUME UNCHANGED <<execfile, space>>,
             mainMemory' \in [Memory -> WorkloadWords], registers' \in WorkloadRegisters,
             userRegisters' \in [Programs0 -> WorkloadRegisters],
             output' \in [Programs0 -> WorkloadWords]
      PROVE  Contents'
  <2>1. WorkloadRegisters' = WorkloadRegisters
    BY <1>2, <1>3 DEF WorkloadRegisters
  <2> QED BY <1>1, <1>2, <1>3, <2>1 DEF Contents
<1>4. ASSUME UNCHANGED <<execfile, space, mainMemory, registers, userRegisters, output>>
      PROVE  Contents'
  BY <1>1, <1>3, <1>4
<1>5. CASE Exec \/ ExecAllEnds \/ UNCHANGED vars
  BY <1>4, <1>5 DEF Exec, ExecAllEnds, vars
<1>6. CASE Preempt \/ Dispatch
  <2>1. PICK u \in Threads : SwitchTo(u, at)
    <3>1. Head(ready) \in Threads
      BY <1>1, <1>6 DEF Types, Preempt, Dispatch
    <3> QED BY <1>6, <3>1 DEF Preempt, Dispatch
  <2>2. userRegisters' \in [Programs0 -> WorkloadRegisters]
    BY <1>1, <2>1 DEF SwitchTo
  <2>3. registers' \in WorkloadRegisters
    BY <1>1, <2>1, <2>2 DEF SwitchTo, Threads
  <2>4. UNCHANGED <<execfile, space, mainMemory, output>>
    BY <1>6 DEF Preempt, Dispatch
  <2> QED BY <1>1, <1>3, <2>2, <2>3, <2>4
<1>7. ASSUME NEW t \in Programs0,
             LoadFails(t) \/ LoadRefused(t) \/ PrintInt(t) \/ Block(t) \/ Wake(t) \/ Exit(t)
               \/ Halt(t) \/ Fault(t)
      PROVE  Contents'
  BY <1>4, <1>7 DEF LoadFails, LoadRefused, PrintInt, Block, Wake, Exit, Halt, Fault
<1>8. ASSUME NEW t \in Programs0, Nop(t) \/ Return(t)
      PROVE  Contents'
  <2>1. registers' \in WorkloadRegisters
    BY <1>1, <1>8, AdvanceTypes DEF Nop, Return
  <2> QED BY <1>1, <1>3, <1>8, <2>1 DEF Nop, Return
<1>9. ASSUME NEW t \in Programs0, Load(t)
      PROVE  Contents'
  <2>1. /\ space[t] # <<>> /\ pageTable = t /\ Fetched.addr \in Nat
        /\ Mapped(Fetched.addr)
    BY <1>9, ExecutesIs DEF Load
  <2>2. Physical(Fetched.addr) \in Memory
    <3>1. Fetched.addr < Extent(t) /\ Extent(t) \in Nat
      BY <1>1, <2>1, PhysicalIs, SpaceIsBlock
    <3> QED BY <1>1, <2>1, <3>1, PhysicalIs
  <2>3. registers' \in WorkloadRegisters
    BY <1>1, <1>9, <2>2, AdvanceTypes DEF Load
  <2> QED BY <1>1, <1>3, <1>9, <2>3 DEF Load
<1>10. ASSUME NEW t \in Programs0, Store(t)
       PROVE  Contents'
  <2>1. registers' \in WorkloadRegisters
    BY <1>1, <1>10, AdvanceTypes DEF Store
  <2>2. mainMemory' \in [Memory -> WorkloadWords]
    BY <1>1, <1>10 DEF Store
  <2> QED BY <1>1, <1>3, <1>10, <2>1, <2>2 DEF Store
<1>11. ASSUME NEW t \in Programs0, Read(t)
       PROVE  Contents'
  <2>1. registers' \in WorkloadRegisters
    BY <1>1, <1>11, AdvanceTypes DEF Read
  <2>2. Input \in WorkloadWords
    BY DEF WorkloadWords, Words
  <2>3. mainMemory' \in [Memory -> WorkloadWords]
    BY <1>1, <1>11, <2>2 DEF Read
  <2> QED BY <1>1, <1>3, <1>11, <2>1, <2>3 DEF Read
<1>12. ASSUME NEW t \in Programs0, Write(t)
       PROVE  Contents'
  <2>1. registers' \in WorkloadRegisters
    BY <1>1, <1>12, AdvanceTypes DEF Write
  <2>2. /\ space[t] # <<>> /\ Base(t) = 0 /\ Fetched.addr \in Nat /\ Fetched.addr < Extent(t)
    BY <1>12, ExecutesIs DEF Write
  <2>3. Fetched.addr \in Memory
    <3>1. Extent(t) <= NumPhysPages * PageSize /\ Extent(t) \in Nat
      BY <1>1, <2>2, SpaceIsBlock
    <3>2. NumPhysPages * PageSize \in Nat
      BY MemoryAssumption, PageAssumption
    <3> QED BY <2>2, <3>1, <3>2 DEF Memory
  <2>4. output' \in [Programs0 -> WorkloadWords]
    BY <1>1, <1>12, <2>3 DEF Write
  <2> QED BY <1>1, <1>3, <1>12, <2>1, <2>4 DEF Write
<1>13. ASSUME NEW t \in Programs0, ForkExecute(t)
       PROVE  Contents'
  <2>1. UNCHANGED <<execfile, userRegisters, output>> /\ registers' = InitialRegisters
    BY <1>13 DEF ForkExecute, LoadSucceeds
  <2>2. WorkloadWords' = WorkloadWords
    BY <1>2, <2>1
  <2>3. registers' \in WorkloadRegisters
    <3>1. Zero \in WorkloadWords
      BY DEF WorkloadWords, Words
    <3> QED BY <2>1, <3>1 DEF WorkloadRegisters, InitialRegisters
  <2>4. PICK b, e :
          /\ e = NumPages(execfile[t]) * PageSize
          /\ mainMemory' = [q \in Memory |->
               IF q - b \in 0 .. e - 1 THEN Machines!Image(execfile[t])[q - b] ELSE mainMemory[q]]
    BY <1>1, <1>13, LoadFillsBlock
  <2>5. t \in Present /\ execfile[t] \in Files /\ (Len(execfile) = 1 => space'[t][1] = 0)
    BY <1>1, <1>13, LoadFillsBlock
  <2>6. mainMemory' \in [Memory -> WorkloadWords]
    <3> SUFFICES ASSUME NEW q \in Memory PROVE mainMemory'[q] \in WorkloadWords
      BY <2>4
    <3>1. CASE q - b \in 0 .. e - 1
      <4>1. mainMemory'[q] = Machines!Image(execfile[t])[q - b]
        BY <2>4, <3>1
      <4> QED BY <1>1, <2>4, <2>5, <3>1, <4>1, ImageWords
    <3>2. CASE q - b \notin 0 .. e - 1
      BY <1>1, <2>4, <3>2
    <3> QED BY <3>1, <3>2
  <2>7. ASSUME Len(execfile) = 1, NEW u \in Programs0, space'[u] # <<>>
        PROVE  space'[u][1] = 0
    <3>1. CASE u = t
      BY <2>5, <2>7, <3>1
    <3>2. CASE u # t
      <4>1. space'[u] = space[u]
        BY <1>1, <1>13, <3>2 DEF ForkExecute, LoadSucceeds, Types
      <4> QED BY <1>1, <2>7, <4>1 DEF Contents
    <3> QED BY <3>1, <3>2
  <2>8. WorkloadRegisters' = WorkloadRegisters
    BY <2>2 DEF WorkloadRegisters
  <2> QED BY <1>1, <2>1, <2>2, <2>3, <2>6, <2>7, <2>8 DEF Contents
<1> QED
  BY <1>5, <1>6, <1>7, <1>8, <1>9, <1>10, <1>11, <1>12, <1>13 DEF Next

\* At the boot no memory holds a program.
LEMMA InitContents == Init => IsolationInv
<1> SUFFICES ASSUME Init PROVE IsolationInv
  OBVIOUS
<1>1. LoadInv
  BY InitLoads
<1>2. Zero \in WorkloadWords
  BY DEF WorkloadWords, Words
<1>3. InitialRegisters \in WorkloadRegisters
  BY <1>2 DEF WorkloadRegisters, InitialRegisters
<1> QED BY <1>1, <1>2, <1>3 DEF Init, Contents, IsolationInv

-----------------------------------------------------------------------------
(***************************************************************************)
(* The steps as the private machines see them.                             *)
(***************************************************************************)
\* A word w is stored: at a physical address, and at one of a private machine.
StoredAt(p, w) == mainMemory' = [mainMemory EXCEPT ![p] = w]
PrivatelyStored(t, a, w) == privateMem' = [privateMem EXCEPT ![t][a] = w]

\* A store to address a of the thread that runs changes this word of its machine and
\* nothing in any other.
LEMMA StoreIsPrivate ==
  ASSUME IsolationInv, FrameInv', NEW t \in Programs0, space[t] # <<>>, UNCHANGED space,
         NEW a \in 0 .. Extent(t) - 1, NEW w, StoredAt(Base(t) + a, w)
  PROVE  PrivatelyStored(t, a, w)
<1> USE DEF StoredAt, PrivatelyStored
<1>1. /\ FrameInv /\ DOMAIN mainMemory = Memory
      /\ Base(t) \in Nat /\ Extent(t) \in Nat /\ Base(t) + Extent(t) <= NumPhysPages * PageSize
      /\ NumPhysPages * PageSize \in Nat
  BY SpaceIsBlock, MemoryAssumption, PageAssumption DEF IsolationInv, LoadInv, SpaceInv, Contents
<1>2. Base(t) + a \in Memory
  BY <1>1 DEF Memory
<1>3. \A q \in Memory : mainMemory'[q] = IF q = Base(t) + a THEN w ELSE mainMemory[q]
  BY <1>1, <1>2
<1>4. ASSUME NEW u \in Programs0, space[u] # <<>>
      PROVE  /\ privateMem[u] = [x \in 0 .. Extent(u) - 1 |-> mainMemory[Base(u) + x]]
             /\ privateMem'[u] = [x \in 0 .. Extent(u) - 1 |-> mainMemory'[Base(u) + x]]
  <2>1. privateMem[u] = [x \in 0 .. Extent(u) - 1 |-> mainMemory[Base(u) + x]]
    BY <1>1, <1>4, PrivateMemoryIs DEF privateMem
  <2>2. privateMem'[u] = [x \in 0 .. Len(space[u]) * PageSize - 1 |->
           mainMemory'[space[u][x \div PageSize + 1] * PageSize + (x % PageSize)]]
    BY <1>4 DEF privateMem, PrivateMemory
  <2>3. \A x \in 0 .. Extent(u) - 1 :
          space[u][x \div PageSize + 1] * PageSize + (x % PageSize) = Base(u) + x
    BY <1>1, <1>4, SpaceIsBlock
  <2> QED BY <2>1, <2>2, <2>3 DEF Extent
<1>5. ASSUME NEW u \in Programs0, space[u] # <<>>, NEW x \in 0 .. Extent(u) - 1
      PROVE  Base(u) + x \in Memory /\ (Base(u) + x = Base(t) + a => u = t /\ x = a)
  <2>1. Base(u) \in Nat /\ Extent(u) \in Nat /\ Base(u) + Extent(u) <= NumPhysPages * PageSize
    BY <1>1, <1>5, SpaceIsBlock
  <2>2. u # t => Base(t) + Extent(t) <= Base(u) \/ Base(u) + Extent(u) <= Base(t)
    BY <1>1, <1>5, BlocksApart
  <2> QED BY <1>1, <2>1, <2>2 DEF Memory
<1>6. ASSUME NEW u \in Programs0
      PROVE  privateMem'[u] = IF u = t THEN [privateMem[t] EXCEPT ![a] = w] ELSE privateMem[u]
  <2>1. CASE space[u] = <<>>
    BY <2>1 DEF privateMem
  <2>2. CASE space[u] # <<>> /\ u # t
    <3>1. \A x \in 0 .. Extent(u) - 1 : mainMemory'[Base(u) + x] = mainMemory[Base(u) + x]
      BY <1>3, <1>5, <2>2
    <3>2. [x \in 0 .. Extent(u) - 1 |-> mainMemory'[Base(u) + x]]
            = [x \in 0 .. Extent(u) - 1 |-> mainMemory[Base(u) + x]]
      BY <3>1, Zenon
    <3>3. privateMem'[u] = privateMem[u]
      BY <1>4, <2>2, <3>2
    <3> QED BY <2>2, <3>3
  <2>3. CASE u = t
    <3>1. ASSUME NEW x \in 0 .. Extent(t) - 1
          PROVE  mainMemory'[Base(t) + x] = IF x = a THEN w ELSE mainMemory[Base(t) + x]
      BY <1>3, <1>5, <3>1
    <3>2. /\ privateMem[t] = [x \in 0 .. Extent(t) - 1 |-> mainMemory[Base(t) + x]]
          /\ privateMem'[t] = [x \in 0 .. Extent(t) - 1 |-> mainMemory'[Base(t) + x]]
      BY <1>4
    <3> DEFINE d == 0 .. Extent(t) - 1
               old(x) == mainMemory[Base(t) + x]
               new(x) == mainMemory'[Base(t) + x]
    <3>3. \A x \in d : new(x) = IF x = a THEN w ELSE old(x)
      BY <3>1
    <3>4. a \in d /\ privateMem[t] = [x \in d |-> old(x)] /\ privateMem'[t] = [x \in d |-> new(x)]
      BY <3>2
    <3> HIDE DEF d, old, new
    <3>5. privateMem'[t] = [privateMem[t] EXCEPT ![a] = w]
      BY <3>3, <3>4
    <3> QED BY <2>3, <3>5
  <2> QED BY <2>1, <2>2, <2>3
<1>7. /\ privateMem = [u \in Programs0 |-> privateMem[u]]
      /\ privateMem' = [u \in Programs0 |-> privateMem'[u]]
  BY DEF privateMem
<1> QED BY <1>6, <1>7

\* A step that leaves memory and page tables alone changes no private memory.
LEMMA MemStays ==
  ASSUME UNCHANGED <<space, mainMemory>>
  PROVE  privateMem' = privateMem
BY DEF privateMem, PrivateMemory

\* The program counter of the thread that runs is that of its private machine.
LEMMA AdvanceIsPrivate ==
  ASSUME NEW t \in Programs0, current = t, space[t] # <<>>, NEW w, Advance(w),
         UNCHANGED <<current, space, userRegisters>>
  PROVE  privateRegs' = [privateRegs EXCEPT ![t] = [pc |-> @.pc + 1, r |-> w]]
BY DEF privateRegs, Advance

LEMMA RegsStay ==
  ASSUME UNCHANGED <<current, space, registers, userRegisters>>
  PROVE  privateRegs' = privateRegs
BY DEF privateRegs

\* A thread that moves changes its own state and no other's.
LEMMA StateMoves ==
  ASSUME Types, NEW t \in Programs0, NEW p \in Places, at' = [at EXCEPT ![t] = p]
  PROVE  privateState' = [privateState EXCEPT ![t] =
                            CASE p \in {"none", "new", "begun"} -> "absent"
                              [] p \in {"calling", "asleep"}    -> "calling"
                              [] p = "finished"                 -> "exited"
                              [] OTHER                          -> "user"]
<1>1. at \in [Threads -> Places] /\ Programs0 \subseteq Threads
  BY DEF Types, Threads
<1>2. at'[t] = p /\ \A u \in Programs0 \ {t} : at'[u] = at[u]
  BY <1>1
<1> QED BY <1>2 DEF privateState, PrivateState

LEMMA StateStays ==
  ASSUME UNCHANGED at
  PROVE  privateState' = privateState
BY DEF privateState, PrivateState

\* Scheduler::Run saves the registers of one thread and restores those of another:
\* no private machine changes.
LEMMA SwitchIsInvisible ==
  ASSUME IsolationInv, NEW u \in Threads, SwitchTo(u, at), UNCHANGED <<space, mainMemory>>
  PROVE  UNCHANGED <<privateState, privateMem, privateRegs>>
<1>1. /\ Types /\ LoadedByPlace /\ at \in [Threads -> Places] /\ Programs0 \subseteq Threads
      /\ userRegisters \in [Programs0 -> WorkloadRegisters] /\ current \in Threads
      /\ Main \notin Programs0 /\ Threads = {Main} \cup Programs0
  BY DEF IsolationInv, LoadInv, SpaceInv, FrameInv, Types, Contents, Threads, Programs0, Main,
         MaxThreads
<1>2. at' = [at EXCEPT ![u] = IF @ = "new" THEN "begun" ELSE @]
  BY DEF SwitchTo
<1>3. privateState' = privateState
  BY <1>1, <1>2 DEF privateState, PrivateState
<1>4. privateMem' = privateMem
  BY MemStays
<1>5. ASSUME NEW t \in Programs0, space[t] # <<>>
      PROVE  (IF current' = t THEN registers' ELSE userRegisters'[t])
               = IF current = t THEN registers ELSE userRegisters[t]
  <2>1. at[t] # "new"
    BY <1>1, <1>5 DEF LoadedByPlace, LoadedPlaces
  <2>2. userRegisters'[t] = IF current = t THEN registers ELSE userRegisters[t]
    BY <1>1 DEF SwitchTo
  <2>3. current' = t => registers' = userRegisters'[t]
    BY <1>1, <2>1 DEF SwitchTo
  <2> QED BY <2>2, <2>3
<1>6. privateRegs' = privateRegs
  BY <1>5 DEF privateRegs
<1> QED BY <1>3, <1>4, <1>6

\* Load starts the private machine of its thread with the image of the file.
LEMMA LoadIsStart ==
  ASSUME WorkloadsConfined, IsolationInv, FrameInv', NEW t \in Programs0, ForkExecute(t)
  PROVE  Machines!Start(t)
<1>1. /\ LoadInv /\ FrameInv /\ Types /\ LoadedByPlace /\ space \in [Programs0 -> Seq(Frames)]
      /\ mainMemory \in [Memory -> WorkloadWords]
  BY DEF IsolationInv, LoadInv, SpaceInv, FrameInv, Types, Contents
<1>2. /\ at[t] = "begun" /\ at' = [at EXCEPT ![t] = "user"] /\ current = t
      /\ registers' = InitialRegisters /\ UNCHANGED <<current, userRegisters, output, execfile>>
  BY DEF ForkExecute, Running, LoadSucceeds, kernelVars, cpuVars
<1> DEFINE f == execfile[t]
<1>3. PICK b, e :
        /\ f \in Files /\ b = Used * PageSize /\ e = NumPages(f) * PageSize
        /\ Len(space'[t]) * PageSize = e
        /\ mainMemory' = [q \in Memory |->
             IF q - b \in 0 .. e - 1 THEN Machines!Image(f)[q - b] ELSE mainMemory[q]]
  <2>1. Base(t)' = Used * PageSize /\ Extent(t)' = NumPages(f) * PageSize
    BY <1>1, LoadFillsBlock
  <2>2. Len(space'[t]) * PageSize = Extent(t)'
    BY DEF Extent
  <2> QED BY <1>1, <2>1, <2>2, LoadFillsBlock
<1>4. space'[t] # <<>> /\ \A u \in Programs0 \ {t} : space'[u] = space[u]
  <2>1. PICK n \in Nat \ {0} : \E z : space' = [space EXCEPT ![t] = [i \in 1 .. n |-> z + i - 1]]
    <3>1. PICK n : n = NumPages(f)
      OBVIOUS
    <3>2. n \in Nat \ {0} /\ space' = [space EXCEPT ![t] = [i \in 1 .. n |-> Used + i - 1]]
      BY <1>1, <3>1, LoadTakesNext
    <3> QED BY <3>2
  <2>2. PICK z : space' = [space EXCEPT ![t] = [i \in 1 .. n |-> z + i - 1]]
    BY <2>1
  <2>3. DOMAIN [i \in 1 .. n |-> z + i - 1] = 1 .. n /\ 1 \in 1 .. n /\ DOMAIN <<>> = {}
    OBVIOUS
  <2>4. space'[t] = [i \in 1 .. n |-> z + i - 1]
    BY <1>1, <2>2
  <2>5. space'[t] # <<>>
    BY <2>3, <2>4
  <2> QED BY <1>1, <2>2, <2>5
<1>5. /\ b \in Nat /\ e \in Nat \ {0} /\ b + e <= NumPhysPages * PageSize
      /\ NumPhysPages * PageSize \in Nat
      /\ \A a \in 0 .. e - 1 :
           space'[t][a \div PageSize + 1] * PageSize + (a % PageSize) = b + a
  <2>1. TranslateAsBlock(space'[t], NumPages(f), Used)
    BY <1>1, LoadFillsBlock
  <2>2. b = Used * PageSize /\ e = NumPages(f) * PageSize
    BY <1>3
  <2>3. NumPhysPages * PageSize \in Nat
    BY MemoryAssumption, PageAssumption
  <2> QED BY <2>1, <2>2, <2>3 DEF TranslateAsBlock
<1>5a. ASSUME NEW q \in Memory
       PROVE  mainMemory'[q] =
                IF q - b \in 0 .. e - 1 THEN Machines!Image(f)[q - b] ELSE mainMemory[q]
  BY <1>3
<1>6. privateMem'[t] = Machines!Image(f)
  <2>1. privateMem'[t] = [a \in 0 .. e - 1 |->
           mainMemory'[space'[t][a \div PageSize + 1] * PageSize + (a % PageSize)]]
    BY <1>3, <1>4 DEF privateMem, PrivateMemory
  <2>2. ASSUME NEW a \in 0 .. e - 1
        PROVE  mainMemory'[space'[t][a \div PageSize + 1] * PageSize + (a % PageSize)]
                 = Machines!Image(f)[a]
    <3>1. PICK q \in Memory : q = b + a /\ q - b = a
      BY <1>5 DEF Memory
    <3>2. mainMemory'[q] = Machines!Image(f)[q - b]
      BY <1>5a, <3>1
    <3> QED BY <1>5, <3>1, <3>2
  <2>3. Machines!Image(f) = [a \in 0 .. e - 1 |-> Machines!Image(f)[a]]
    BY <1>3 DEF Machines!Image, Machines!NumPages, NumPages, Machines!Size, Size
  <2> QED BY <2>1, <2>2, <2>3
<1>7. ASSUME NEW u \in Programs0 \ {t}
      PROVE  privateMem'[u] = privateMem[u]
  <2>1. CASE space[u] = <<>>
    BY <1>4, <2>1 DEF privateMem
  <2>2. CASE space[u] # <<>>
    <3>1. /\ Base(u) \in Nat /\ Extent(u) \in Nat /\ Base(u) + Extent(u) <= NumPhysPages * PageSize
          /\ \A x \in 0 .. Extent(u) - 1 :
               space[u][x \div PageSize + 1] * PageSize + (x % PageSize) = Base(u) + x
      BY <1>1, <2>2, SpaceIsBlock
    <3>2. Base(u) + Extent(u) <= b
      <4> DEFINE m == Len(space[u])
                 c == space[u][1]
      <4>1. m \in Nat \ {0} /\ DOMAIN space[u] = 1 .. m /\ c \in Frames
        BY <1>1, <2>2
      <4>2. space[u][m] = c + m - 1 /\ space[u][m] < Used
        BY <1>1, <4>1 DEF FrameInv, FramesSideBySide, SpacesBelow
      <4>3. c \in Nat /\ Used \in Nat
        BY <1>1, <4>1, MemoryAssumption DEF Frames, Types, Used
      <4> HIDE DEF m, c
      <4>4. c + m <= Used
        BY <4>1, <4>2, <4>3
      <4>5. (c + m) * PageSize <= Used * PageSize /\ (c + m) * PageSize = c * PageSize + m * PageSize
        BY <4>1, <4>3, <4>4, PageAssumption, TimesGrows, TimesSum
      <4> QED BY <1>3, <4>5 DEF Base, Extent, c, m
    <3>3. ASSUME NEW x \in 0 .. Extent(u) - 1
          PROVE  mainMemory'[Base(u) + x] = mainMemory[Base(u) + x]
      <4>1. PICK q \in Memory : q = Base(u) + x /\ q - b \notin 0 .. e - 1
        BY <1>5, <3>1, <3>2 DEF Memory
      <4>2. mainMemory'[q] = mainMemory[q]
        BY <1>5a, <4>1
      <4> QED BY <4>1, <4>2
    <3>4. privateMem[u] = [x \in 0 .. Extent(u) - 1 |->
             mainMemory[space[u][x \div PageSize + 1] * PageSize + (x % PageSize)]]
      BY <2>2 DEF privateMem, PrivateMemory, Extent
    <3>5. privateMem'[u] = [x \in 0 .. Extent(u) - 1 |->
             mainMemory'[space[u][x \div PageSize + 1] * PageSize + (x % PageSize)]]
      BY <1>4, <2>2 DEF privateMem, PrivateMemory, Extent
    <3> QED BY <3>1, <3>3, <3>4, <3>5
  <2> QED BY <2>1, <2>2
<1>8. privateMem' = [privateMem EXCEPT ![t] = Machines!Image(f)]
  <2>1. /\ privateMem = [u \in Programs0 |-> privateMem[u]]
        /\ privateMem' = [u \in Programs0 |-> privateMem'[u]]
    BY DEF privateMem
  <2> QED BY <1>6, <1>7, <2>1
<1>9. privateRegs' = [privateRegs EXCEPT ![t] = InitialRegisters]
  BY <1>2, <1>4 DEF privateRegs
<1>10. privateState[t] = "absent" /\ privateState' = [privateState EXCEPT ![t] = "user"]
  <2>1. privateState[t] = "absent"
    BY <1>2 DEF privateState, PrivateState
  <2> QED BY <1>1, <1>2, <2>1, StateMoves DEF Places
<1>11. Machines!InitialRegisters = InitialRegisters
  BY DEF Machines!InitialRegisters, InitialRegisters, Machines!Zero, Zero
<1> QED BY <1>2, <1>3, <1>8, <1>9, <1>10, <1>11 DEF Machines!Start

\* Every step is a step of one private machine, or none of them notices it.
LEMMA NextIsPrivate ==
  ASSUME WorkloadsConfined, IsolationInv, FrameInv', [Next]_vars
  PROVE  [Machines!Next]_Machines!vars
<1> USE DEF kernelVars, memoryVars, machineVars, cpuVars
<1>1. /\ LoadInv /\ FrameInv /\ Types /\ Contents /\ LoadedByPlace /\ StartedInOrder
      /\ at \in [Threads -> Places] /\ Programs0 \subseteq Threads /\ Main \notin Programs0
      /\ ready \in Seq(Threads)
      /\ Threads = {Main} \cup Programs0
  <2>1. LoadInv /\ Contents
    BY DEF IsolationInv
  <2>2. FrameInv /\ LoadedByPlace /\ StartedInOrder
    BY <2>1 DEF LoadInv, SpaceInv
  <2>3. Types
    BY <2>2 DEF FrameInv
  <2>4. at \in [Threads -> Places] /\ ready \in Seq(Threads)
    BY <2>3 DEF Types
  <2>5. Programs0 \subseteq Threads /\ Main \notin Programs0 /\ Threads = {Main} \cup Programs0
    BY DEF Threads, Programs0, Main, MaxThreads
  <2> QED BY <2>1, <2>2, <2>3, <2>4, <2>5
<1>2. ASSUME UNCHANGED <<privateState, privateMem, privateRegs, output>>
      PROVE  [Machines!Next]_Machines!vars
  BY <1>2 DEF Machines!vars
<1>3. ASSUME NEW t \in Programs0,
             \/ Machines!Start(t) \/ Machines!Fail(t) \/ Machines!Nop(t) \/ Machines!Load(t)
             \/ Machines!Store(t) \/ Machines!Read(t) \/ Machines!Write(t)
             \/ Machines!PrintInt(t) \/ Machines!Return(t) \/ Machines!Exit(t)
      PROVE  [Machines!Next]_Machines!vars
  BY <1>3 DEF Machines!Next
<1>4. CASE Exec
  <2>1. threadNum \in Programs0 /\ at[threadNum] = "none"
    <3>1. /\ execfile \in Seq(Files) /\ Len(execfile) < 10 /\ Len(execfile) \in Nat
          /\ threadNum \in Nat \ {0}
      BY <1>1, WorkloadAssumption DEF Types, MaxThreads
    <3>2. threadNum \in 1 .. 9
      BY <1>4, <3>1 DEF Exec
    <3>3. threadNum \in Programs0
      BY <3>2 DEF Programs0, MaxThreads
    <3> QED BY <1>1, <3>2, <3>3 DEF StartedInOrder
  <2>2. at' = [at EXCEPT ![threadNum] = "new"]
    BY <1>4 DEF Exec
  <2>3. privateState' = privateState
    BY <1>1, <2>1, <2>2 DEF privateState, PrivateState
  <2> QED BY <1>2, <1>4, <2>3, MemStays, RegsStay DEF Exec
<1>5. CASE ExecAllEnds
  <2>1. privateState' = privateState
    BY <1>1, <1>5 DEF ExecAllEnds, Finishes, privateState, PrivateState
  <2> QED BY <1>2, <1>5, <2>1, MemStays, RegsStay DEF ExecAllEnds
<1>6. CASE Preempt \/ Dispatch
  <2>1. PICK u \in Threads : SwitchTo(u, at)
    <3>1. Head(ready) \in Threads
      BY <1>1, <1>6 DEF Preempt, Dispatch
    <3> QED BY <1>6, <3>1 DEF Preempt, Dispatch
  <2>2. UNCHANGED <<space, mainMemory, output>>
    BY <1>6 DEF Preempt, Dispatch
  <2> QED BY <1>2, <2>1, <2>2, SwitchIsInvisible
<1>7. ASSUME NEW t \in Programs0, ForkExecute(t)
      PROVE  [Machines!Next]_Machines!vars
  BY <1>3, <1>7, LoadIsStart
<1>8. ASSUME NEW t \in Programs0, LoadFails(t)
      PROVE  [Machines!Next]_Machines!vars
  <2>1. at[t] = "begun" /\ at' = [at EXCEPT ![t] = "finished"]
    BY <1>8 DEF LoadFails, Running, Finishes
  <2>2. privateState[t] = "absent"
    BY <2>1 DEF privateState, PrivateState
  <2>3. privateState' = [privateState EXCEPT ![t] = "exited"]
    BY <1>1, <2>1, StateMoves DEF Places
  <2>4. UNCHANGED <<privateMem, privateRegs, output>>
    BY <1>8, MemStays, RegsStay DEF LoadFails
  <2> QED BY <1>3, <2>2, <2>3, <2>4 DEF Machines!Fail
<1>9. ASSUME NEW t \in Programs0, LoadRefused(t) \/ Halt(t) \/ Fault(t)
      PROVE  [Machines!Next]_Machines!vars
  BY <1>2, <1>9, MemStays, RegsStay, StateStays DEF LoadRefused, Halt, Fault
<1>10. ASSUME NEW t \in Programs0, Nop(t)
       PROVE  [Machines!Next]_Machines!vars
  <2>1. /\ current = t /\ space[t] # <<>> /\ Machines!InUser(t)
        /\ Machines!Fetched(t) = Fetched /\ Fetched.op = "nop" /\ privateRegs[t] = registers
    BY <1>10, ExecutesIs DEF Nop
  <2>2. privateRegs' = [privateRegs EXCEPT ![t] = [pc |-> @.pc + 1, r |-> registers.r]]
    BY <1>10, <2>1, AdvanceIsPrivate DEF Nop
  <2>3. UNCHANGED <<privateState, privateMem, output>>
    BY <1>10, MemStays, StateStays DEF Nop
  <2> QED BY <1>3, <2>1, <2>2, <2>3 DEF Machines!Nop, Machines!Advance
<1>11. ASSUME NEW t \in Programs0, Load(t)
       PROVE  [Machines!Next]_Machines!vars
  <2>1. /\ current = t /\ space[t] # <<>> /\ pageTable = t /\ Machines!InUser(t)
        /\ Machines!Fetched(t) = Fetched /\ Fetched.op = "load" /\ Fetched.addr \in Nat
        /\ privateMem[t] = [a \in 0 .. Extent(t) - 1 |-> mainMemory[Base(t) + a]]
    BY <1>11, ExecutesIs DEF Load
  <2>2. Fetched.addr \in 0 .. Extent(t) - 1
    <3>1. Extent(t) \in Nat /\ Fetched.addr < Extent(t)
      BY <1>1, <1>11, <2>1, PhysicalIs, SpaceIsBlock DEF Load
    <3> QED BY <2>1, <3>1
  <2>3. mainMemory[Physical(Fetched.addr)] = privateMem[t][Fetched.addr]
    BY <1>1, <2>1, <2>2, PhysicalIs
  <2>4. privateRegs' =
          [privateRegs EXCEPT ![t] = [pc |-> @.pc + 1, r |-> privateMem[t][Fetched.addr]]]
    BY <1>11, <2>1, <2>3, AdvanceIsPrivate DEF Load
  <2>5. UNCHANGED <<privateState, privateMem, output>>
    BY <1>11, MemStays, StateStays DEF Load
  <2>6. Fetched.addr \in DOMAIN privateMem[t]
    BY <2>1, <2>2
  <2> QED BY <1>3, <2>1, <2>4, <2>5, <2>6 DEF Machines!Load, Machines!Advance
<1>12. ASSUME NEW t \in Programs0, Store(t)
       PROVE  [Machines!Next]_Machines!vars
  <2>1. /\ current = t /\ space[t] # <<>> /\ pageTable = t /\ Machines!InUser(t)
        /\ Machines!Fetched(t) = Fetched /\ Fetched.op = "store" /\ Fetched.addr \in Nat
        /\ privateMem[t] = [a \in 0 .. Extent(t) - 1 |-> mainMemory[Base(t) + a]]
        /\ privateRegs[t] = registers
    BY <1>12, ExecutesIs DEF Store
  <2>2. Fetched.addr \in 0 .. Extent(t) - 1
    <3>1. Extent(t) \in Nat /\ Fetched.addr < Extent(t)
      BY <1>1, <1>12, <2>1, PhysicalIs, SpaceIsBlock DEF Store
    <3> QED BY <2>1, <3>1
  <2>3. Physical(Fetched.addr) = Base(t) + Fetched.addr
    BY <1>1, <2>1, <2>2, PhysicalIs
  <2>4. privateMem' = [privateMem EXCEPT ![t][Fetched.addr] = registers.r]
    <3>1. PICK a \in 0 .. Extent(t) - 1 : a = Fetched.addr
      BY <2>2
    <3>2. UNCHANGED space /\ StoredAt(Base(t) + a, registers.r)
      BY <1>12, <2>3, <3>1 DEF Store, StoredAt
    <3>3. PrivatelyStored(t, a, registers.r)
      BY <2>1, <3>2, StoreIsPrivate
    <3> QED BY <3>1, <3>3 DEF PrivatelyStored
  <2>5. privateRegs' = [privateRegs EXCEPT ![t] = [pc |-> @.pc + 1, r |-> registers.r]]
    BY <1>12, <2>1, AdvanceIsPrivate DEF Store
  <2>6. UNCHANGED <<privateState, output>>
    BY <1>12, StateStays DEF Store
  <2>7. Fetched.addr \in DOMAIN privateMem[t]
    BY <2>1, <2>2
  <2> QED BY <1>3, <2>1, <2>4, <2>5, <2>6, <2>7 DEF Machines!Store, Machines!Advance
<1>13. ASSUME NEW t \in Programs0, Read(t)
       PROVE  [Machines!Next]_Machines!vars
  <2>1. /\ current = t /\ space[t] # <<>> /\ Machines!InUser(t)
        /\ Machines!Fetched(t) = Fetched /\ Fetched.op = "read" /\ Fetched.addr \in Nat
        /\ privateRegs[t] = registers /\ Base(t) = 0 /\ Fetched.addr < Extent(t)
    BY <1>13, ExecutesIs DEF Read
  <2>2. Fetched.addr \in 0 .. Extent(t) - 1
    BY <1>1, <2>1, SpaceIsBlock
  <2>3. privateMem' = [privateMem EXCEPT ![t][Fetched.addr] = Input]
    <3>1. PICK a \in 0 .. Extent(t) - 1 : a = Fetched.addr /\ a = Base(t) + a
      BY <2>1, <2>2
    <3>2. UNCHANGED space /\ StoredAt(Base(t) + a, Input)
      BY <1>13, <3>1 DEF Read, StoredAt
    <3>3. PrivatelyStored(t, a, Input)
      BY <2>1, <3>2, StoreIsPrivate
    <3> QED BY <3>1, <3>3 DEF PrivatelyStored
  <2>4. privateRegs' = [privateRegs EXCEPT ![t] = [pc |-> @.pc + 1, r |-> registers.r]]
    BY <1>13, <2>1, AdvanceIsPrivate DEF Read
  <2>5. UNCHANGED <<privateState, output>>
    BY <1>13, StateStays DEF Read
  <2>6. Machines!Input = Input
    BY DEF Machines!Input, Input
  <2> QED BY <1>3, <2>1, <2>3, <2>4, <2>5, <2>6 DEF Machines!Read, Machines!Advance
<1>14. ASSUME NEW t \in Programs0, Write(t)
       PROVE  [Machines!Next]_Machines!vars
  <2>1. /\ current = t /\ space[t] # <<>> /\ Machines!InUser(t)
        /\ Machines!Fetched(t) = Fetched /\ Fetched.op = "write" /\ Fetched.addr \in Nat
        /\ privateMem[t] = [a \in 0 .. Extent(t) - 1 |-> mainMemory[Base(t) + a]]
        /\ privateRegs[t] = registers /\ Base(t) = 0 /\ Fetched.addr < Extent(t)
    BY <1>14, ExecutesIs DEF Write
  <2>2. Fetched.addr \in 0 .. Extent(t) - 1
    BY <1>1, <2>1, SpaceIsBlock
  <2>3. privateMem[t][Fetched.addr] = mainMemory[Fetched.addr]
    BY <2>1, <2>2
  <2>4. privateRegs' = [privateRegs EXCEPT ![t] = [pc |-> @.pc + 1, r |-> registers.r]]
    BY <1>14, <2>1, AdvanceIsPrivate DEF Write
  <2>5. UNCHANGED <<privateState, privateMem>>
    BY <1>14, MemStays, StateStays DEF Write
  <2> QED BY <1>3, <1>14, <2>1, <2>3, <2>4, <2>5 DEF Write, Machines!Write, Machines!Advance
<1>15. ASSUME NEW t \in Programs0, PrintInt(t)
       PROVE  [Machines!Next]_Machines!vars
  <2>1. /\ Machines!InUser(t) /\ Machines!Fetched(t) = Fetched /\ Fetched.op = "print"
    BY <1>15, ExecutesIs DEF PrintInt
  <2>2. privateState' = [privateState EXCEPT ![t] = "calling"]
    BY <1>1, <1>15, StateMoves DEF PrintInt, Places
  <2>3. UNCHANGED <<privateMem, privateRegs, output>>
    BY <1>15, MemStays, RegsStay DEF PrintInt
  <2> QED BY <1>3, <2>1, <2>2, <2>3 DEF Machines!PrintInt
<1>16. ASSUME NEW t \in Programs0, Block(t) \/ Wake(t)
       PROVE  [Machines!Next]_Machines!vars
  <2>1. PICK p \in {"calling", "asleep"} :
          at[t] \in {"calling", "asleep"} /\ at' = [at EXCEPT ![t] = p]
    BY <1>16 DEF Block, Wake, Running
  <2>2. privateState' = privateState
    BY <1>1, <2>1 DEF privateState, PrivateState
  <2> QED BY <1>2, <1>16, <2>2, MemStays, RegsStay DEF Block, Wake
<1>17. ASSUME NEW t \in Programs0, Return(t)
       PROVE  [Machines!Next]_Machines!vars
  <2>1. current = t /\ at[t] = "calling" /\ space[t] # <<>>
    <3>1. current = t /\ at[t] = "calling"
      BY <1>17 DEF Return, Running
    <3> QED BY <1>1, <3>1 DEF LoadedByPlace, LoadedPlaces
  <2>2. privateState[t] = "calling" /\ privateState' = [privateState EXCEPT ![t] = "user"]
    <3>1. privateState[t] = "calling"
      BY <2>1 DEF privateState, PrivateState
    <3> QED BY <1>1, <1>17, <3>1, StateMoves DEF Return, Places
  <2>3. privateRegs[t] = registers
    BY <2>1 DEF privateRegs
  <2>4. privateRegs' = [privateRegs EXCEPT ![t] = [pc |-> @.pc + 1, r |-> registers.r]]
    BY <1>17, <2>1, AdvanceIsPrivate DEF Return
  <2>5. UNCHANGED <<privateMem, output>>
    BY <1>17, MemStays DEF Return
  <2> QED BY <1>3, <2>2, <2>3, <2>4, <2>5 DEF Machines!Return, Machines!Advance
<1>18. ASSUME NEW t \in Programs0, Exit(t)
       PROVE  [Machines!Next]_Machines!vars
  <2>1. /\ Machines!InUser(t) /\ Machines!Fetched(t) = Fetched /\ Fetched.op = "exit"
    BY <1>18, ExecutesIs DEF Exit
  <2>2. privateState' = [privateState EXCEPT ![t] = "exited"]
    BY <1>1, <1>18, StateMoves DEF Exit, Finishes, Places
  <2>3. UNCHANGED <<privateMem, privateRegs, output>>
    BY <1>18, MemStays, RegsStay DEF Exit
  <2> QED BY <1>3, <2>1, <2>2, <2>3 DEF Machines!Exit
<1>19. CASE UNCHANGED vars
  BY <1>2, <1>19, MemStays, RegsStay, StateStays DEF vars
<1> QED
  BY <1>4, <1>5, <1>6, <1>7, <1>8, <1>9, <1>10, <1>11, <1>12, <1>13, <1>14, <1>15, <1>16, <1>17,
     <1>18, <1>19 DEF Next

\* The memory and the registers hold nothing but the words of the programs that were
\* loaded, of Read, and cleared ones.
THEOREM ContentsHold ==
  ASSUME WorkloadsConfined
  PROVE  Spec => []IsolationInv
<1>1. IsolationInv /\ [Next]_vars => IsolationInv'
  <2> SUFFICES ASSUME IsolationInv, [Next]_vars PROVE IsolationInv'
    OBVIOUS
  <2>1. LoadInv'
    BY NextLoads DEF IsolationInv
  <2> QED BY <2>1, NextContents DEF IsolationInv
<1> QED BY InitContents, <1>1, PTL DEF Spec

\* Each user program runs as on a machine of its own: whatever the kernel does to
\* share the memory and the registers, no program sees another one, and each finds
\* its file where it wants it.  WorkloadsConfined says what the loader and the
\* system calls do not do right.
THEOREM ProgramsAreIsolated ==
  ASSUME WorkloadsConfined
  PROVE  Spec => Isolated
<1>1. Init => Machines!Init
  BY DEF Init, Machines!Init, privateState, PrivateState, privateMem, privateRegs,
         Machines!InitialRegisters, InitialRegisters, Machines!Zero, Zero, Programs0, Threads,
         Main, MaxThreads
<1>2. IsolationInv /\ IsolationInv' /\ [Next]_vars => [Machines!Next]_Machines!vars
  BY NextIsPrivate DEF IsolationInv, LoadInv, SpaceInv
<1>3. Spec => []IsolationInv
  BY ContentsHold
<1> QED BY <1>1, <1>2, <1>3, PTL DEF Spec, Isolated, Machines!Spec
===============================================================================
