------------------------------ MODULE UserPrograms ------------------------------
(***************************************************************************)
(* User programs in one physical memory: Kernel::ExecAll and Exec, the     *)
(* table of frames, AddrSpace::Load and Execute, what Scheduler::Run saves *)
(* and restores, Machine::Translate, and the system calls that reach into  *)
(* a program's memory (threads/kernel.cc, userprog/addrspace.cc and        *)
(* exception.cc, threads/scheduler.cc and thread.cc; MP1, MP2 and MP3 have *)
(* the same).                                                              *)
(*                                                                         *)
(* A step is what happens between two ticks.  When a tick takes the CPU    *)
(* from a thread, and when a thread that prints is woken, is left open:    *)
(* the devices are in Devices.                                             *)
(***************************************************************************)
EXTENDS Programs

CONSTANTS
  NumPhysPages, \* frames of the machine
  Executable,   \* the files that are there
  Workloads     \* the lists of files the kernel may be started with (-e)

Main == 0
MaxThreads == 10 \* the size of Kernel::t; main has number 0 and no entry
Nil == -1

ASSUME MemoryAssumption == NumPhysPages \in Nat \ {0} /\ Executable \subseteq Files
ASSUME WorkloadAssumption == \A w \in Workloads : w \in Seq(Files) /\ Len(w) < MaxThreads

VARIABLES
  execfile,   \* Kernel::execfile
  threadNum,  \* Kernel::threadNum
  frameTable, numFreeFrame, \* Kernel::frameTable, NumFreeFrame
  mainMemory, registers, \* of the machine
  pageTable,  \* Machine::pageTable: the thread whose table it is
  space,      \* the frames in each thread's own page table
  userRegisters, \* Thread::userRegisters
  at,         \* where each thread is
  current, ready, \* Kernel::currentThread, Scheduler::readyList
  cpu,        \* run, choose (in Sleep), refused, faulted or halted
  output      \* the last word each program gave to Write

kernelVars == <<execfile, threadNum>>
memoryVars == <<frameTable, numFreeFrame, mainMemory, space>>
machineVars == <<registers, pageTable, userRegisters>>
cpuVars == <<current, ready, cpu>>
vars == <<kernelVars, memoryVars, machineVars, at, cpuVars, output>>

Frames == 0 .. NumPhysPages - 1
Memory == 0 .. NumPhysPages * PageSize - 1
Programs0 == 1 .. MaxThreads - 1
Threads == {Main} \cup Programs0

\* The boot leaves a cleared memory and all frames free (the table is never
\* written: its memory is fresh from the host, which clears it).
Init ==
  /\ execfile \in Workloads
  /\ threadNum = 1
  /\ frameTable = [f \in Frames |-> FALSE]
  /\ numFreeFrame = NumPhysPages
  /\ mainMemory = [p \in Memory |-> Zero]
  /\ registers = InitialRegisters
  /\ pageTable = Nil
  /\ space = [t \in Programs0 |-> <<>>]
  /\ userRegisters = [t \in Programs0 |-> InitialRegisters]
  /\ at = [t \in Threads |-> IF t = Main THEN "exec" ELSE "none"]
  /\ current = Main /\ ready = <<>> /\ cpu = "run"
  /\ output = [t \in Programs0 |-> Zero]

Running(t, place) == cpu = "run" /\ current = t /\ at[t] = place

-----------------------------------------------------------------------------
(* The main thread.                                                        *)

\* Kernel::Exec of the next file of the command line.
Exec ==
  /\ Running(Main, "exec")
  /\ threadNum <= Len(execfile)
  /\ at' = [at EXCEPT ![threadNum] = "new"]
  /\ ready' = Append(ready, threadNum)
  /\ threadNum' = threadNum + 1
  /\ UNCHANGED <<execfile, memoryVars, machineVars, current, cpu, output>>

\* Thread::Finish sleeps for good.
Finishes(t) == at' = [at EXCEPT ![t] = "finished"] /\ cpu' = "choose"

ExecAllEnds ==
  /\ Running(Main, "exec")
  /\ threadNum > Len(execfile)
  /\ Finishes(Main)
  /\ UNCHANGED <<kernelVars, memoryVars, machineVars, current, ready, output>>

-----------------------------------------------------------------------------
(* AddrSpace::Load and Execute.                                            *)

Free == {j \in Frames : ~frameTable[j]}

\* The frame that page i gets: the search takes the lowest free frame for each page
\* in turn.
FreeFrame(i) == CHOOSE j \in Free : Cardinality({k \in Free : k < j}) = i

\* OpenFile::ReadAt of segment s of file f to physical address p.
ReadAt(memory, p, f, s) ==
  [q \in Memory |->
     IF q - p \in 0 .. Header[f][s].size - 1 THEN Word(f, Header[f][s].at + q - p) ELSE memory[q]]

\* Where the segment s of f is read to.  The offset in the page is the code's for
\* both segments, and read-only data is not translated at all.
Segment(frames, f, s) ==
  IF s = "rdata" THEN Header[f][s].at
  ELSE frames[Header[f][s].at \div PageSize + 1] * PageSize + (Header[f]["code"].at % PageSize)

\* The memory that Load leaves.
Loaded(frames, f) ==
  LET cleared == [q \in Memory |->
        IF \E i \in DOMAIN frames : frames[i] = q \div PageSize THEN Zero ELSE mainMemory[q]]
      read(memory, s) ==
        IF Header[f][s].size > 0 THEN ReadAt(memory, Segment(frames, f, s), f, s) ELSE memory
  IN read(read(read(cleared, "code"), "init"), "rdata")

\* Mutants of LoadSucceeds: the frames are not marked; they are counted twice.
LoadSucceedsUnmarked(t, f) ==
  /\ LET frames == [i \in 1 .. NumPages(f) |-> FreeFrame(i - 1)]
     IN /\ space' = [space EXCEPT ![t] = frames]
        /\ frameTable' = frameTable
        /\ numFreeFrame' = numFreeFrame - NumPages(f)
        /\ mainMemory' = Loaded(frames, f)
  /\ registers' = InitialRegisters
  /\ pageTable' = t
  /\ at' = [at EXCEPT ![t] = "user"]
LoadSucceedsTwice(t, f) ==
  /\ LET frames == [i \in 1 .. NumPages(f) |-> FreeFrame(i - 1)]
     IN /\ space' = [space EXCEPT ![t] = frames]
        /\ frameTable' = [j \in Frames |-> frameTable[j] \/ \E i \in DOMAIN frames : frames[i] = j]
        /\ numFreeFrame' = numFreeFrame - 2 * NumPages(f)
        /\ mainMemory' = Loaded(frames, f)
  /\ registers' = InitialRegisters
  /\ pageTable' = t
  /\ at' = [at EXCEPT ![t] = "user"]

LoadSucceeds(t, f) ==
  /\ LET frames == [i \in 1 .. NumPages(f) |-> FreeFrame(i - 1)]
     IN /\ space' = [space EXCEPT ![t] = frames]
        /\ frameTable' = [j \in Frames |-> frameTable[j] \/ \E i \in DOMAIN frames : frames[i] = j]
        /\ numFreeFrame' = numFreeFrame - NumPages(f)
        /\ mainMemory' = Loaded(frames, f)
  /\ registers' = InitialRegisters
  /\ pageTable' = t
  /\ at' = [at EXCEPT ![t] = "user"]

\* ForkExecute; a thread has the number of its file.  No tick comes between the
\* start of Load and the first instruction.
ForkExecute(t) ==
  /\ Running(t, "begun")
  /\ execfile[t] \in Executable /\ NumPages(execfile[t]) <= numFreeFrame
  /\ LoadSucceeds(t, execfile[t])
  /\ UNCHANGED <<kernelVars, userRegisters, cpuVars, output>>

\* The file is not there.
LoadFails(t) ==
  /\ Running(t, "begun")
  /\ execfile[t] \notin Executable
  /\ Finishes(t)
  /\ UNCHANGED <<kernelVars, memoryVars, machineVars, current, ready, output>>

\* ASSERT(numPages <= kernel->NumFreeFrame) stops the whole kernel.
LoadRefused(t) ==
  /\ Running(t, "begun")
  /\ execfile[t] \in Executable /\ NumPages(execfile[t]) > numFreeFrame
  /\ cpu' = "refused"
  /\ UNCHANGED <<kernelVars, memoryVars, machineVars, at, current, ready, output>>

-----------------------------------------------------------------------------
(* User mode.                                                              *)

\* Machine::Translate: the words below pageTableSize * PageSize are mapped.
Mapped(a) == pageTable # Nil /\ a < Len(space[pageTable]) * PageSize

Physical(a) == space[pageTable][a \div PageSize + 1] * PageSize + (a % PageSize)

Fetched == Instruction(mainMemory[Physical(registers.pc)])
Executes(t, op) == Running(t, "user") /\ Mapped(registers.pc) /\ Fetched.op = op
Advance(word) == registers' = [pc |-> registers.pc + 1, r |-> word]

Nop(t) ==
  /\ Executes(t, "nop")
  /\ Advance(registers.r)
  /\ UNCHANGED <<kernelVars, memoryVars, pageTable, userRegisters, at, cpuVars, output>>

Load(t) ==
  /\ Executes(t, "load") /\ Mapped(Fetched.addr)
  /\ Advance(mainMemory[Physical(Fetched.addr)])
  /\ UNCHANGED <<kernelVars, memoryVars, pageTable, userRegisters, at, cpuVars, output>>

Store(t) ==
  /\ Executes(t, "store") /\ Mapped(Fetched.addr)
  /\ mainMemory' = [mainMemory EXCEPT ![Physical(Fetched.addr)] = registers.r]
  /\ Advance(registers.r)
  /\ UNCHANGED <<kernelVars, frameTable, numFreeFrame, space, pageTable, userRegisters, at,
                 cpuVars, output>>

\* SC_Read and SC_Write hand &mainMemory[address] to the file, and no tick comes
\* before they return.
Read(t) ==
  /\ Executes(t, "read")
  /\ mainMemory' = [mainMemory EXCEPT ![Fetched.addr] = Input]
  /\ Advance(registers.r)
  /\ UNCHANGED <<kernelVars, frameTable, numFreeFrame, space, pageTable, userRegisters, at,
                 cpuVars, output>>

Write(t) ==
  /\ Executes(t, "write")
  /\ output' = [output EXCEPT ![t] = mainMemory[Fetched.addr]]
  /\ Advance(registers.r)
  /\ UNCHANGED <<kernelVars, memoryVars, pageTable, userRegisters, at, cpuVars>>

\* SC_PrintInt waits for the console, again and again.
PrintInt(t) ==
  /\ Executes(t, "print")
  /\ at' = [at EXCEPT ![t] = "calling"]
  /\ UNCHANGED <<kernelVars, memoryVars, machineVars, cpuVars, output>>

Block(t) ==
  /\ Running(t, "calling")
  /\ at' = [at EXCEPT ![t] = "asleep"]
  /\ cpu' = "choose"
  /\ UNCHANGED <<kernelVars, memoryVars, machineVars, current, ready, output>>

Wake(t) ==
  /\ at[t] = "asleep" /\ cpu \in {"run", "choose"}
  /\ at' = [at EXCEPT ![t] = "calling"]
  /\ ready' = Append(ready, t)
  /\ UNCHANGED <<kernelVars, memoryVars, machineVars, current, cpu, output>>

Return(t) ==
  /\ Running(t, "calling")
  /\ at' = [at EXCEPT ![t] = "user"]
  /\ Advance(registers.r)
  /\ UNCHANGED <<kernelVars, memoryVars, pageTable, userRegisters, cpuVars, output>>

\* SC_Exit.  Nobody deletes the address space: its frames stay marked.
Exit(t) ==
  /\ Executes(t, "exit")
  /\ Finishes(t)
  /\ UNCHANGED <<kernelVars, memoryVars, machineVars, current, ready, output>>

\* SC_Halt and SC_MSG end the kernel with all its programs.
Halt(t) ==
  /\ Executes(t, "halt")
  /\ cpu' = "halted"
  /\ UNCHANGED <<kernelVars, memoryVars, machineVars, at, current, ready, output>>

\* An instruction or an address that is none ends in ASSERTNOTREACHED of
\* ExceptionHandler.
Fault(t) ==
  /\ Running(t, "user")
  /\ \/ ~Mapped(registers.pc)
     \/ /\ Mapped(registers.pc)
        /\ \/ Fetched.op = "illegal"
           \/ Fetched.op \in {"load", "store"} /\ ~Mapped(Fetched.addr)
  /\ cpu' = "faulted"
  /\ UNCHANGED <<kernelVars, memoryVars, machineVars, at, current, ready, output>>

-----------------------------------------------------------------------------
(* Scheduler::Run.                                                         *)

\* Mutant of SwitchTo: the user registers are not saved.
SwitchToUnsaved(u, place) ==
  /\ current' = u
  /\ cpu' = "run"
  /\ userRegisters' = userRegisters
  /\ IF u = Main \/ place[u] = "new"
       THEN UNCHANGED <<registers, pageTable>>
       ELSE /\ registers' = userRegisters'[u]
            /\ pageTable' = IF space[u] = <<>> THEN Nil ELSE u
  /\ at' = [place EXCEPT ![u] = IF @ = "new" THEN "begun" ELSE @]

\* From the current thread to u.  The main thread has no address space; a new
\* thread starts in Begin and restores nothing; a thread that has not loaded its
\* program has an address space whose page table is not set.
SwitchTo(u, place) ==
  /\ current' = u
  /\ cpu' = "run"
  /\ userRegisters' =
       IF current = Main THEN userRegisters ELSE [userRegisters EXCEPT ![current] = registers]
  /\ IF u = Main \/ place[u] = "new"
       THEN UNCHANGED <<registers, pageTable>>
       ELSE /\ registers' = userRegisters'[u]
            /\ pageTable' = IF space[u] = <<>> THEN Nil ELSE u
  /\ at' = [place EXCEPT ![u] = IF @ = "new" THEN "begun" ELSE @]

\* Thread::Yield in a tick.
Preempt ==
  /\ cpu = "run" /\ ready # <<>>
  /\ ready' = Append(Tail(ready), current)
  /\ SwitchTo(Head(ready), at)
  /\ UNCHANGED <<kernelVars, memoryVars, output>>

\* Thread::Sleep finds the next thread.
Dispatch ==
  /\ cpu = "choose" /\ ready # <<>>
  /\ ready' = Tail(ready)
  /\ SwitchTo(Head(ready), at)
  /\ UNCHANGED <<kernelVars, memoryVars, output>>

Next ==
  \/ Exec \/ ExecAllEnds \/ Preempt \/ Dispatch
  \/ \E t \in Programs0 :
       \/ ForkExecute(t) \/ LoadFails(t) \/ LoadRefused(t) \/ Nop(t) \/ Load(t) \/ Store(t)
       \/ Read(t) \/ Write(t) \/ PrintInt(t) \/ Block(t) \/ Wake(t) \/ Return(t) \/ Exit(t)
       \/ Halt(t) \/ Fault(t)

Spec == Init /\ [][Next]_vars

-----------------------------------------------------------------------------
(* Properties.                                                             *)

Places == {"exec", "none", "new", "begun", "user", "calling", "asleep", "finished"}

TypeOK ==
  /\ execfile \in Workloads /\ threadNum \in 1 .. MaxThreads
  /\ frameTable \in [Frames -> BOOLEAN] /\ numFreeFrame \in 0 .. NumPhysPages
  /\ mainMemory \in [Memory -> Words]
  /\ registers \in Registers
  /\ pageTable \in Programs0 \cup {Nil}
  /\ space \in [Programs0 -> Seq(Frames)]
  /\ userRegisters \in [Programs0 -> Registers]
  /\ at \in [Threads -> Places]
  /\ current \in Threads /\ ready \in Seq(Threads)
  /\ cpu \in {"run", "choose", "refused", "faulted", "halted"}
  /\ output \in [Programs0 -> Words]

\* A frame belongs to at most one page of one program, and is then marked.
FramesOwnedOnce ==
  /\ \A t, u \in Programs0 : \A i \in DOMAIN space[t], k \in DOMAIN space[u] :
       space[t][i] = space[u][k] => t = u /\ i = k
  /\ \A t \in Programs0 : \A i \in DOMAIN space[t] : frameTable[space[t][i]]

\* Load reads a segment of several pages with one ReadAt, so the frames of an
\* address space must lie side by side and in order.
FramesSideBySide ==
  \A t \in Programs0 : \A i \in DOMAIN space[t] : space[t][i] = space[t][1] + i - 1

\* NumFreeFrame is the number of frames that are not marked: when the ASSERT of
\* Load passes, each page finds a frame.
FreeCountExact == numFreeFrame = Cardinality(Free)

\* While user code runs the machine has the page table of the running thread.
RunsInOwnSpace ==
  \A t \in Programs0 :
    current = t /\ at[t] \in {"user", "calling"} => pageTable = t /\ space[t] # <<>>

\* The pages of the programs of the workload that are there.
PagesOf(t) == {t} \X (1 .. NumPages(execfile[t]))
Present == {t \in 1 .. Len(execfile) : execfile[t] \in Executable}
PagesNeeded == Cardinality(UNION {PagesOf(t) : t \in Present})

\* Whether the kernel stops for want of memory depends on the workload alone, and
\* on no interleaving: it happens if all programs together do not fit.  (It does
\* so even if they never run at the same time, for no frame comes back.)
RefusedByWorkload ==
  /\ cpu = "refused" => PagesNeeded > NumPhysPages
  /\ (\A t \in 1 .. Len(execfile) : at[t] = "finished") => PagesNeeded <= NumPhysPages

\* What Load and the system calls do right: the segments lie in the address space,
\* initialised data starts on a page, and the buffers of Read and Write are in it.
Fits(f) ==
  /\ \A s \in {"code", "init", "rdata"} :
       Header[f][s].at + Header[f][s].size <= NumPages(f) * PageSize
  /\ Header[f].init.size > 0 => Header[f].init.at % PageSize = 0
  /\ \A i \in DOMAIN Text[f] :
       Text[f][i].op \in {"read", "write"} => Text[f][i].addr < NumPages(f) * PageSize

\* Read-only data and the buffers are not translated, which is right only for a
\* program that is alone in the memory.
Translated(f) ==
  Header[f].rdata.size = 0 /\ \A i \in DOMAIN Text[f] : Text[f][i].op \notin {"read", "write"}
Confined(w) ==
  \A t \in 1 .. Len(w) : w[t] \in Executable => Fits(w[t]) /\ (Translated(w[t]) \/ Len(w) = 1)
WorkloadsConfined == \A w \in Workloads : Confined(w)

\* Each program has a machine of its own.
PrivateMemory(t) == [a \in 0 .. Len(space[t]) * PageSize - 1 |->
                       mainMemory[space[t][a \div PageSize + 1] * PageSize + (a % PageSize)]]
PrivateState(t) ==
  CASE at[t] \in {"none", "new", "begun"} -> "absent"
    [] at[t] \in {"calling", "asleep"}    -> "calling"
    [] at[t] = "finished"                 -> "exited"
    [] OTHER                              -> "user"

privateState == [t \in Programs0 |-> PrivateState(t)]
privateMem == [t \in Programs0 |-> IF space[t] = <<>> THEN Zero ELSE PrivateMemory(t)]
privateRegs == [t \in Programs0 |-> IF space[t] = <<>> THEN InitialRegisters
                                    ELSE IF current = t THEN registers ELSE userRegisters[t]]

Machines == INSTANCE PrivateMachines WITH
  Threads <- Programs0, state <- privateState, mem <- privateMem, regs <- privateRegs

\* Each program behaves as if it had a machine of its own.
Isolated == Machines!Spec
===============================================================================
