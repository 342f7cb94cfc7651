# Verification of the NachOS kernel

NachOS is a teaching operating system: a kernel that runs as one Unix process
on a simulated MIPS machine.  The repository holds four successive copies of it
(`src/MP1` ... `src/MP4`), one per assignment.  Each part is modelled from the
copy in which it is at its fullest: the scheduler from
`src/MP3/NachOS-4.0_MP3/code`, the file system and the interrupts from
`src/MP4/NachOS-4.0_MP4/code`, programs and memory from `src/MP2/code`, the
post office, the network and the processor, which are the same in all, from
`src/MP1/code`.  Paths below are relative to these `code/` directories.

## 1. Inventory

| Part | Source | State it keeps | Operations | Interacts with |
|---|---|---|---|---|
| Scheduler | MP3 `threads/scheduler.cc` | three ready lists, the thread to be destroyed | AddToQueue, Scheduling, Aging, ReArrangeThreads, Check_Preempt, Run, CheckToBeDestroyed | Thread, List, Alarm, Semaphore |
| Thread | MP3 `threads/thread.cc` | status, priority, burst estimate, wait ticks | Fork, Begin, Yield, Sleep, Finish | Scheduler, Interrupt |
| Lists | `lib/list.cc`, `lib/list.h` | elements, first, last | Append, RemoveFront, Insert, iterator | everything |
| Synchronization | `threads/synch.cc`, `synchlist.cc` | semaphore value and queue, lock holder, condition queue | P, V, Acquire, Release, Wait, Signal, Broadcast; SynchList Append and RemoveFront | Scheduler |
| Interrupts, timer, alarm | `machine/interrupt.cc`, `timer.cc`, `threads/alarm.cc` | level, pending interrupts, status | SetLevel, OneTick, Idle, Schedule, CheckIfDue, CallBack | Scheduler, devices |
| Devices | `machine/console.cc`, `disk.cc`, `network.cc` | busy flags, one incoming character or packet | PutChar, GetChar, ReadRequest, WriteRequest, CallBack | Interrupt |
| Synchronous devices | `userprog/synchconsole.cc`, `filesys/synchdisk.cc` | a lock and a semaphore each | GetChar, PutChar, PutInt, ReadSector, WriteSector, CallBack | devices, semaphores |
| Kernel, system calls | `threads/kernel.cc`, `userprog/exception.cc`, `ksyscall.h` | the program table, the frame table | ExecAll, Exec, SC_* | all |
| Address spaces | `userprog/addrspace.cc` | page table; shared frame table | Load, Execute, Translate, destructor | Kernel, machine |
| File system | MP4 `filesys/*.cc` | free map, directories, file headers, the open file | Create, CreateDir, Open, Read, Write, Close, Remove, recursive Remove | SynchDisk |
| Post office | `network/post.cc` | a mailbox per box number | Send, Receive, PostalDelivery | network, SynchList |
| MIPS machine | `machine/mipssim.cc`, `translate.cc`, `machine.cc` | registers, memory, TLB | Run, OneInstruction, Translate | exception handler |

How the parts interact: there is one CPU and one kernel thread at a time runs
on it; threads switch only inside `Scheduler::Run`, always with interrupts
disabled.  Hardware is simulated by *pending interrupts*: a device operation
schedules a callback some ticks ahead, and `Interrupt::OneTick` or
`Interrupt::Idle` fires it on the stack of whichever thread happens to run.
The hard behaviours are therefore: a switch in the middle of a list operation
(the scheduler's migration loops), the window between disabling interrupts and
going to sleep, callbacks that wake the thread they run on, the order in which
several threads get a lock or a device, freed memory used again (list elements,
finished threads), and on disk the order of the writes of several structures.

What makes each part correct:

* scheduler: the lists hold exactly the READY threads; the running thread is in
  none; a finished thread is deleted once and never runs; preemption only for a
  reason; no thread is lost; L3 is fair; the lists keep their order;
* synchronization: mutual exclusion, no lost wakeup, no use of a deleted waiter;
* interrupts and devices: no request to a busy device, each request answered
  once, the answer goes to the thread that asked, the machine idles only when
  nobody can run;
* address spaces: no frame belongs to two processes, a program's frames lie
  side by side as the loading of segments demands, and each program runs as on a
  machine of its own;
* post office: what is received was sent, once, in order; a sender gets its
  device back whether the packet arrives or not;
* processor: each instruction does what the architecture says, wherever an
  interrupt or an exception finds a load still pending;
* file system: no sector belongs to two files, each sector in use is marked in
  the free map, and each marked sector is in use.

## 2. The modules

| Module | Models |
|---|---|
| `NachosList` | the operations of `List`, `SortedList` and `ListIterator` on sequences |
| `Scheduler` | MP3 `scheduler.cc`, `thread.cc`, with V and the idle loop as they touch it |
| `Dispatcher` | the abstract life of threads on one CPU, which `Scheduler` implements |
| `MCScheduler` | the instance for TLC |
| `Semaphore` | `synch.cc`: P and V, for the modules built on semaphores |
| `SynchList` | MP3 `synchlist.cc` with the Lock and the Condition it uses, on `Semaphore` |
| `BlockingQueue` | what SynchList promises; `SynchList` implements it |
| `Devices` | `interrupt.cc`, `timer.cc`, `alarm.cc`, `console.cc`, `disk.cc` with the drivers `synchconsole.cc` and `synchdisk.cc`, on `Semaphore`, `NachosList` and `Disk` |
| `Disk` | the geometry and the latencies of MP4 `disk.cc` |
| `Programs` | program files (`noff.h`) and what a program does, for the next two |
| `UserPrograms` | MP2 `kernel.cc`, `addrspace.cc`, `exception.cc`, `translate.cc`, and what `Scheduler::Run` saves |
| `PrivateMachines` | each program on a machine of its own; `UserPrograms` implements it |
| `MCUserPrograms` | program files and command lines for TLC |
| `PostOffice` | MP1 `post.cc`, `network.cc`, the sockets of `sysdep.cc`, `Kernel::NetworkTest` |
| `MailService` | what the post office promises; `PostOffice` implements it |
| `MCPostOffice` | hosts and their clients for TLC |
| `MipsWords` | words, bytes and the encoding of instructions |
| `Mips` | MP1 `mipssim.cc`, `machine.cc`: the simulated processor |
| `MipsArchitecture` | what the processor should do; `Mips` implements it |
| `MCMips` | the programs and operands that TLC runs |
| `FileHeader` | MP4 `filehdr.cc` on the bitmap of sectors: an operator for each level of headers |
| `FileSystem` | MP4 `filesys.cc`, `directory.cc`, `openfile.cc`, on `FileHeader` |
| `FileTree` | what the file system promises; `FileSystem` implements it |
| `MCFileSystem` | the instance for TLC |
| `NachosListProofs`, `SchedulerProofs`, `SynchListProofs`, `DevicesProofs`, `UserProgramsProofs`, `PostOfficeProofs`, `FileSystemProofs`, `MipsProofs` | theorems |

The modules meet where the parts of the kernel do.  `Devices` and `SynchList`
use the P and V of `Semaphore`; the wakeups that `Scheduler` takes from any
handler are those that `Devices` fires; the tick that takes the CPU from a
program anywhere in `UserPrograms` is the timer of `Devices`; a mailbox of
`PostOffice` is what `BlockingQueue` says, which `SynchList` is proved to
implement; the interrupt that `Mips` takes between two instructions is again
that of `Devices`.

### Scheduler

*State.* `status`, `priority`, `approx` (approx_bursttime), `accu`
(accu_wait_ticks) are the members of `Thread`; `waited` is
`totalTicks - start_wait_ticks`, the only way these two are used; `queue` holds
L1List, L2List and L3List as sequences, `toBeDestroyed` and `currentThread` are
the members of those names.  `pc` is the place in `Yield` or `Sleep` where each
thread is, and `iter` the list element its iterator stands on: both are needed
for every thread, because `Check_Preempt` can switch threads in the middle of
the loops of `ReArrangeThreads`.

*Actions.* `Fork`, `Finish`, `Sleep`, `Yield` are the calls of a running thread;
`WakeUp` is `Semaphore::V`, which puts the thread at the head of a semaphore's
queue into a ready list; `Tick` lets time pass.  A yield is cut into its loop
iterations (`Loop3`, `Loop2Skip`, `Loop2Move` and the ends of the loops), since
each iteration may switch; `YieldSwitches` and `YieldReturns` are its last
lines.  `SleepSwitches`, `Idle` and `IdleReturns` are the loop of `Sleep`;
`Resume` and `ResumeLoop` are what a thread does first when it gets the CPU.
Everything else the code does with interrupts off is inside these steps.

*Memory.* An iterator is left on an element that `RemoveFront` deletes.  glibc
hands the chunk that was freed last to the next `new` of that size, so the
element of the removed thread is the element of the next inserted one.  When
no insertion follows, the memory is free and stepping the iterator is undefined:
the model then lets it find NULL or any element in a list.  (A compiled copy of
`list.h` and of the loop behaves as the model says.)

*Bounds.* Three threads (Main, a, b); L2's band is 2..3, L1's 4..5 in
the safety run (4 alone for liveness, 4..6 in the third); aging adds 2 after 2
units of waiting; `MaxWait = 1` says that two Agings are never further apart
than one unit, as 100 ticks of the timer against the 1500 ticks that aging asks
for.  Three threads are enough for a list with two members while a
third runs, which finding 1 needs; with four the state space is out
of reach.  That no priority passes the cap would depend on this scale: a thread
that is kept in L2 by the loop that moves the wrong thread can age there past
149, but only if it stays for five times 1500 ticks, with one thread ahead of
it leaving at each tick of 100.  New threads get priority 1 in the safety run (the scale of 45
in the code: such a thread passes through all three lists) and 1 or 4 in the
liveness run.  Threads are symmetric but for Main; the symmetry is used in the
safety runs only.

*Fairness.* `FairSpec` is weakly fair to `KernelCode`, the steps a thread does
with interrupts disabled: nothing can keep the CPU from them.  What a thread
does with interrupts on, and when interrupts come, is left free.

### SynchList

*State.* `value` and `queue` are the members of each `Semaphore`: the one of
the lock and one per waiting thread, which `Condition::Wait` makes and deletes
(`waiter` says whether it exists).  `lockHolder`, `waitQueue` and `list` are the
members of `Lock`, `Condition` and `SynchList`; `pc`, `op`, `item` and
`signalled` are what the code has in the program counter and the locals of each
thread.

*Actions.* P and V run with interrupts disabled and are one step each; between
any two other statements another thread may get the CPU.  `AcquireSleeps`,
`AcquireTakes` and `Own` are `Lock::Acquire`, `Put`, `SignalNobody`, `Signal`
and `Wake` the body of `Append`, `TestFull`, `TestEmpty`, `WaitReleases`,
`WaitV`, `WaitSleeps`, `WaitWakes` and `Take` that of `RemoveFront` with
`Condition::Wait` in it, `Release` and `ReleaseV` are `Lock::Release`.  A thread
that V wakes tests the value again, as the loop in P does, so another thread can
be faster.

*Bounds.* Three threads with two calls each and two items: two can wait while
one appends, or one more remove between a signal and the thread that it woke.
There is no deadlock checking: threads stop after their calls, and one that
waits for an item nobody appends waits rightly.

*Fairness.* `FairSpec` is weakly fair to each thread's own steps: a ready thread
runs again.  A FIFO ready list with the timer gives that (MP1, MP2, and MP4 as
long as programs block); the scheduler of MP3 does not for the threads of L3
(see Deviations).  Calls are not fair.

### Interrupts, console and disk

*State.* `pending` is the list of pending interrupts, by the device that asked,
and `due` the ticks left to each, `PendingInterrupt::when - totalTicks`.  `mode`
is `Interrupt::status`; whether interrupts are enabled is `enabled` until the
kernel has booted, and implied by the place in the code afterwards.  `busy`
stands for `putBusy` and `active`, `incoming` for the console's buffer, with the
end of the input as a value of its own; `value` and `queue` for the driver's
semaphores, one of its lock and one that the handler signals.  `clock`,
`bufferAge` and `lastSector` (`Disk`) are what the latency of a request depends
on: where the disk has turned to and since when the track buffer is filling.

*Actions.* A thread's step is what it does from one tick to the next.  `Fire` is
one iteration of `CheckIfDue` with the whole handler in it; handlers may
schedule and make threads ready while others of the same tick wait.  `EndTick`
is the end of `OneTick`, where `yieldOnReturn` enables interrupts, starts a
tick inside the tick and gives the CPU away (`YieldCurrent`); `owed` holds the
status each thread will put back.  `Idle` jumps to the next interrupt, and halts
if there is none; `EndIdle` returns to the loop of `Sleep`.  The driver calls
follow the code statement by statement (`AcquireSleeps` to `Release`).

*Bounds.* Main and two programs; one call of ConsoleTest; a number of two
characters for each program of MP2 (`PrintCalls`), and two sectors one after the
other for each program of MP4 (`DiskCalls`), whose timer is off: there a thread
can take the disk's lock back before the one it has woken gets the CPU, which
then sleeps again.  That a thread is overtaken at the lock of the console too, by
the same code of `Semaphore`, is out of the run (two numbers in MP2 pass at
`TimerDelays = {3}`, but with random slices take too long); `SynchList` has it
under a preemption anywhere.  A track has two sectors on a disk of four; the
delays are of the order of a tick (`stats.h` has 10 and 1 against 100 to 500), so
that an interrupt falls into every window.  Both kernels are initial states of
the same run.  Longer times change the number of ticks between two events, not
their possible orders.

*Fairness.* The simulated CPU always steps (`WF_vars(Next)`: the kernel is one
process that never waits for anything outside it).  In MP4, where a program
that computes is never preempted, programs are assumed to stop computing; and
with random time slices (`-rs`) a thread does not for ever get slices that are
over before its switch is (both `SF`).  `ReadyRuns` would be false of MP2
without the timer and is true with it, also next to programs that loop.
`CallsReturn` has no fairness on locks, for P has none: it holds because each
program makes finitely many calls (`DiskCalls`, `PrintCalls`), and the Deviations
say what happens otherwise.

### Programs in memory

*State.* `frameTable`, `numFreeFrame`, `mainMemory`, `registers`, `pageTable` are
those of the code; `space[t]` lists the frames of the thread's own page table;
`userRegisters` what `SaveUserState` has put aside.  A thread's number is its
place in `Kernel::t`; `at` says where it is between `Fork` and its exit.

*Actions.* `Exec` and `ExecAllEnds` are `Kernel::ExecAll`; `LoadSucceeds`,
`LoadFails` and `LoadRefused` the outcomes of `AddrSpace::Load`, with all its
`ReadAt`s; `Load`, `Store`, `Read`, `Write`, `PrintInt`, `Return`, `Exit`, `Halt`
and `Fault` the instructions and system calls of programs, through
`Translate`; `SwitchTo`, used by `Preempt`, `Block` and `Dispatch`, saves and
restores registers and page table as `Scheduler::Run` does.  A preemption may
come between any two of them.

*Bounds.* Pages of two words and eight frames; files of three to six words:
code only, with initialised data, with read-only data, with a buffer, one that
halts, one that uses an address outside its space, one that does not exist.
The command lines run up to three of them, and fill the memory exactly and one
page too far.  Words are what the run tells apart: a program's own data and
whose they are.

### Post office

*State.* `inbox` is the packet buffer of `NetworkInput`, `wire` the host's
socket; `messageAvailable` and `messageSent` are the semaphores, `sending` the
pending interrupts of `NetworkOutput`, `worker` and `letter` the postal worker.
A host that has not started or has stopped has no socket.

*Actions.* `PollNetwork`, `SendInterrupt` are the handlers; `AwaitMessage`,
`ReceivePacket`, `PutInBox` the postal worker; `CallSend` to `ReleaseSend` and
`CallReceive` to `ReturnMail` the calls; `Transmit` may lose the packet on a
lossy network, `Retry` and `GiveUp` are the ten attempts at a socket that is
not there.  `Stop` ends a host at any time it may halt, with what it holds.

*Bounds.* Two hosts that run `NetworkTest`, one of them with a second client
that sends: two senders contend for one device, and a box is used that the test
does not read.  *Fairness:* a running host's machine steps on, and its clients and
its worker are scheduled; on a perfect network both hosts start (`FairSpec`, weak
fairness of `Progress`).  There is none on `Stop`, nor on `Boot` on the lossy network: a host
may run for ever or never start, and `SendsReturn` holds in all these cases
through the interrupt that is scheduled before the packet is dropped, and
through `GiveUp`.

### Processor

*State.* The registers of `Machine`, with the pending load (`LoadReg`,
`LoadValueReg`) and the two counters; words are unsigned, and `Signed` and `Word`
convert where the code casts.  Instructions are encoded and decoded.

*Actions.* One action per group of cases of the `switch` in `OneInstruction`;
`RaiseException` is part of those that trap, and ends the pending load, as
`CheckIfDue` does, which is a step of its own between any two instructions.
`Mult` is the loop of the code, bit by bit, with its carries.  The logical
operations are those of sets of bit numbers (`Bits`, `OfBits`), so that the module
can be reasoned about.

*Specification.* `MipsArchitecture` says of each instruction what it does to
integers, bits and bytes, with loads done at once; `Implements` maps a pending
load as done.  `Disciplined` says which programs that is about, at each instruction
that is reached: it does not use the register of a load in the instruction
before it (LWL and LWR excepted), is no branch and no system call in a delay
slot, and does not call by a register that the call writes; and, for two
limits of the simulator, SRL and SRLV shift only what is not negative, and J
and JAL stay in the lowest of the regions that a jump cannot leave.  *Bounds:*
bytes of two bits, so words of eight; each instruction
with operands at the edges of the words (0, 1, 90, 127, 128 and 255), loads and
stores at each alignment, branches, procedure calls, and unaligned copies, with
interrupts anywhere.

### File system

*State.* `disk` is what each sector holds, `marked` the bitmap on the disk,
`opened` the `OpenFile` objects of the running program with their
seek position, `opfile` the pointer in `FileSystem` that Read, Write and Close
use.  A sector holds a file header, a directory's table, or data.  All other
state of the code (copies of the bitmap, of directories and of headers) lives
within one call and is a LET of the operator that models the call.

*Actions.* `Create`, `CreateDir`, `RemoveFile` (Remove with its flag Recursive),
`Open`, `OpenFails`, `Read`, `Write`, `Close` and `Exit`.  Each is a whole call:
`filesys.cc` "assumes there is no concurrent access".  A call goes down the path
as the loops over strtok do, with the table in memory, the last file and the
one before it (`WalkFrom`).  `CreateDir` and `RemoveFile` are commands of
`main`, each in a process of its own that finds the disk of the last one; where
an ASSERT ends the process in the middle of a call, the disk stays as the call
had left it.

*What is abstracted.* Sizes are in sectors, and Read and Write move one sector.
The table of a directory takes one sector, as does the bitmap, which is a
variable of its own.  Names are atoms.  A regular file read as a directory has
no entry in use.

*Callers.* With `Careful = TRUE` callers use paths below directories that exist
and open no directory, and `Ids` has one member: one file is open at a time.
The passing runs do that; what happens otherwise is under Deviations.

*Bounds.* Two names, paths of two names (three in the recursive run, for a
directory in a directory in a directory), two entries per directory, so that a
directory fills up, and a disk of 10 sectors, four of which are in use when it
is formatted, so that the disk fills up too.  `NumDirect` is 2 in place of 30:
files of 1 and 2 sectors have one level, 3 two, 5 and 7 three.  The run for
large files has a disk with room for all headers and removes
nothing, since `Deallocate` does not undo what `Allocate` did.

### Runs

| Run | Shows |
|---|---|
| `SchedulerSafety` | the three lists hold exactly the READY threads (`ReadyListsExact`), finished threads are buried before the next can finish (`CarcassBuried`), L1 stays sorted although aging and migration reach into it (`L1Sorted`), preemption has a reason (`PreemptionJustified`), the abstract dispatcher is implemented (`Dispatches`) |
| `SchedulerLiveness` | the idle loop ends when a thread is ready (`IdleEnds`), a finished thread is deleted (`CarcassDeleted`) |
| `SynchList` | no lost wakeup in P (`WakeupsMatched`), none in Wait, and no Signal to a thread that has left Wait and deleted its semaphore (`SignalsAccounted`), the abstract queue is implemented (`Implements`), items and calls do not wait for ever (`ItemsDelivered`, `AppendsReturn`) |
| `Devices` | one answer for one request, to the thread that asked (`AnswersMatched`), one signal for one character (`InputMatched`), the status restored over nested ticks (`ModeRestored`), numbers printed in one piece (`OutputTogether`), the machine halts by itself only when nobody can run (`HaltIsQuiet`), the disk answers when the sector has passed and no earlier (`LatencyExact`), a call returns, also when the disk's lock is taken back by the thread that gave it up, if calls are finitely many (`CallsReturn`), a ready thread runs (`ReadyRuns`), MP4 halts when all is done (`MP4Halts`) |
| `UserPrograms` | frames owned once and marked (`FramesOwnedOnce`), memory runs out by workload and not by interleaving (`RefusedByWorkload`), each program runs as on its own machine (`Isolated`) |
| `PostOffice` | a packet is announced once (`PacketAnnounced`), senders take turns (`OneAtATime`), mail is what was sent, once, in order (`Delivers`), `SendsReturn` on every network, `TestEnds` on a perfect one |
| `Mips` | the processor does what the architecture says (`Implements`), unaligned copies are whole (`CopiesWhole`), every program of the run is one that the proof is about, and stays so whatever interrupts come (`Disciplined`) |
| `FileSystemPlain` | no sector belongs to two files (`SectorsOwnedOnce`), the bitmap is exact (`FreeMapExact`), each call is about the path it is given (`FollowsItsPath`), files and directories form a tree that changes by one of them at a time (`ImplementsTree`) |
| `FileSystemRecursive` | removal of nested directories takes what is below them and nothing else (`OwnedAreMarked`, `ImplementsTree`) |
| `FileSystemLarge` | headers of two and three levels: all the sectors of a file are there (`FilesAreWhole`), and each position is the sector it was written to (`ImplementsTree`) |
| `SchedulerAbort`, `DevicesEarlyEnd` | findings 1 and 2 |

The invariants that only support others or follow from them (types, `PcMatchesStatus`, `CallMatchesPc`,
`MutualExclusion`, `NeverRemovesFromEmpty`, `WaitersAlive`, `LocksExclude`, `PendingExact`,
`FramesSideBySide`, `FreeCountExact`, `RunsInOwnSpace`) and `FinishedIsFinal` are proved for every
instance (section 3) and not run again.  `TypeOK` of the file system, of the
devices, of programs and of the processor say what their variables hold; they
can be added to the INVARIANTS of the configurations.

### Findings

Each has a run that ends in a counterexample.

1. `SchedulerAbort`: the L3 loop of `ReArrangeThreads` calls `RemoveFront` on an
   empty list and the kernel aborts, when a thread of L3 is promoted to L2 and
   gets in front of another one there: the iterator goes on through L2.
2. `DevicesEarlyEnd`: MP4 `kernel.cc:131-133` says that timer and console are
   disabled after all threads complete; `Thread::Sleep` (`thread.cc:251`) does it
   whenever no thread is ready, so already when the kernel reads its first
   sector: MP4 has no time slices, and the console gives no input.

### Deviations

The models follow the code in the following too, and the passing runs stay clear
of it by their constants; counterexamples appear when these are changed as said.

* The L2 loop (MP3 `scheduler.cc:234`) tests the iterator's thread and moves the
  front of L2: with two threads there, a thread of L2's band gets into L1.
* Each yield rotates L3 by one before the front is taken (`scheduler.cc:198`), so
  that with three threads two can alternate and the third wait for ever.
* `Semaphore::P` tests the value again and `V` hands nothing over, so a thread that
  releases a lock can take it back before the thread it has woken runs.  In MP4,
  with the timer off, a program that goes on from sector to sector does so each
  time, and another's call waits for ever: `CallsReturn` with a `Call` that does
  not count the calls of programs.  The calls of `SynchList` are finite for the same
  reason (`AppendsReturn`).
* Aging changes priorities inside L2 without moving the threads, so L2 is not
  sorted by priority, as `scheduler.h:68` and `SortedList::SanityCheck` say.
* Recursive Remove (MP4 `filesys.cc:826`) reads the bitmap before it empties the
  directory and writes the old copy back: the sectors of what was inside are
  lost (`FreeMapExact` with `Recursives = {TRUE}`).
* `FileHeader::Allocate` (`filehdr.cc:149`) counts the sectors of the data only and
  does not look at the results for the parts: on a nearly full disk a large file
  is created without its data (`FilesAreWhole` with `MaxDepth = 1` and
  `Sizes = {4}`).
* `FileHeader::Deallocate` never frees the sectors of lower headers
  (`FreeMapExact` with `Sizes = {3}` and 12 sectors).
* `Deallocate` of a file of three levels or more reaches an entry that was
  never set, and the disk's ASSERT ends the kernel (`NumDirect =
  3`, `Sizes = {10}` and 40 sectors: `RemoveHeader` aborts).
* `FileHeader::ByteToSector` (`filehdr.cc:342`) has no `return` in its four recursive
  cases.  The Makefile builds without optimisation, and there the result of the
  inner call is still in the return register: the model returns it.
* Remove of a path below an empty regular file frees a file of the root
  (`FollowsItsPath` with
  `Sizes = {0, 1}` and `Careful = FALSE`).
* Create below a directory that does not exist creates a file of the
  directory's name (`FollowsItsPath` with `Careful = FALSE`).
* Open of a directory looks its name up again, inside it (`FollowsItsPath` with
  `Careful = FALSE`).
* Read, Write and Close ignore the file they are given and use the one opened
  last.
* Read-only data, and the buffers of SC_Read and SC_Write, go to their virtual
  addresses untranslated (MP2 `addrspace.cc:262`, `exception.cc:93`): right for the
  first program only (`Isolated` with the workloads `<<"copy", "constants">>` and
  `<<"copy", "buffer">>`).
* No frame of a finished program comes back, for nothing deletes an `AddrSpace`:
  a workload is refused when all its programs together do not fit
  (`RefusedByWorkload` says so).
* SRL and SRLV of a negative word bring in ones (MP1 `mipssim.cc:528`;
  `Implements` with `Operands \o <<Asm("SRL", 6, 0, 4, 2)>> \o End`), and DIV of the
  least integer by -1 stops the host.
* A system call in the delay slot of a branch loses the branch
  (`exception.cc:219`; `Implements` with
  `SumByKernel \o <<Asm("BEQ", 0, 0, 0, 2), Call, Nop>> \o End`).
* `NetworkTest` sends once and waits: on a lossy network it may never end
  (`TestEnds` without its condition).  `network.h` speaks of the reliability of
  the network; the code uses the number as the chance that a packet is
  delivered.

## 3. Proofs

`NachosListProofs` shows what `Insert`, `Append` and `RemoveFront` do to the
members of a list and to its freedom from repetitions.  `SchedulerProofs` lifts
this to the three lists (`EnqueueAdds`, `SchedulingRemoves`, `MigrationKeeps`)
and proves, for any set of threads, any priorities and any aging constants that
satisfy `PrioritiesAssumption`, that

    IInv == TypeOK /\ ReadyListsExact /\ CarcassBuried /\ PcMatchesStatus

is inductive.  `ReadyListsExact` is not inductive alone: that a switch keeps it
needs that the thread it picks is switched out and that the thread it leaves is
RUNNING, which `PcMatchesStatus` says; that in turn needs, for the burial, that
nothing waits to be destroyed while the current thread is not fresh from a
switch, which `CarcassBuried` says.  The theorems are `TypeCorrect`,
`ListsAreExact`, `CarcassesAreBuried`, `CodeMatchesStatus`,
`FinishedNeverReturns` and `SchedulerDispatches` (the refinement of
`Dispatcher`).  `ShortestJobFirst` adds `L1Sorted` to the invariant: `Insert` keeps
a sorted list sorted (`SortedInsertSorts`), and the estimate of a thread changes
only while it is in no list.  On it rests `PreemptsWithReason`: the thread that
`Scheduling` picks in `Check_Preempt` need not be the one that was migrated, but
the front of a sorted L1 is at most as long.

`SynchListProofs` proves, for any threads, any items and any number of calls,
that

    IInv == TypeOK /\ MutualExclusion /\ NeverRemovesFromEmpty /\ SignalsAccounted
            /\ WaitersAlive /\ CallMatchesPc

is inductive (from `NamesAssumption`, `SemsAssumption` and
`MaxCallsAssumption`, which name distinct things, and `ThreadsAssumption`: there
are finitely many threads).  `NeverRemovesFromEmpty`
needs `MutualExclusion`, for nobody else may remove between the test and
the removal, and that needs `CallMatchesPc`, for only the value 1 of the lock's
semaphore lets one in.  `SignalsAccounted` places each waiting thread in one of
three places, and each step of `Wait` and `Signal` moves it to the next; that
`WaitersAlive` holds follows once a thread can leave `Wait` only from the third.  On the
invariant rests `SynchListImplements`: each call changes the list in one step,
as the atomic queue does, and every other step is a stutter or a call or a
return.  `NoWakeupIsLost` adds that a sleeping thread is
in the queue of the semaphore whose loop it is in, once, and that somebody is
about to test a value that is not 0 while others sleep.

`DevicesProofs` proves, for any threads, times, delays and bounds and in both
kernels, that `DeviceInv`, the conjunction of types, `LockInv`, `AnswerInv`,
`InputInv` and `PendingInv`, is inductive.  A driver's lock lets one thread in
(`LockInv`), so at most one waits for the device; the request makes the device
busy and schedules one interrupt, which makes it idle and signals
(`PendingInv`, `AnswerInv`); the signal is consumed before the lock is given
back.  Theorems: `DriversExclude`, `AnswersAreMatched`, `InputIsMatched`,
`PendingIsExact`, `OutputsStayTogether`.  They say nothing of the scheduler, the
clock and the queues, and need nothing of them.

What the threads do is `ThreadInv`, which is inductive together with
`DeviceInv`:

* `PlaceInv`: a thread that has started and not ended is on the CPU, in the ready
  list or in the queue of the semaphore whose loop it is in, and in one of them
  only.
* `ModeInv`: a thread that left the CPU inside a tick owes the status of the code
  it was in, and one in the ready list that owes nothing was woken inside P; so
  the thread that gets the CPU runs in the status its code needs, however many
  ticks were cut short.  `ModeIsRestored` follows (`ModeRestored`).
* `WakeInv`: while a semaphore is not 0 and threads sleep at it, another is about
  to test it.  The values of the drivers' semaphores are 0 or 1 (`LockInv`,
  `AnswerInv`, `InputInv` of `DeviceInv`), so one such thread is enough; with
  larger values a V might wake one thread and leave another asleep.
* `HaltInv`: MP4 alone switches its devices off, only Main reads the keyboard, and
  a machine that has halted by itself has no pending interrupt.

`HaltsQuietly` (`HaltIsQuiet`) puts them together.  With nothing ready and nothing
pending every thread has ended or sleeps in a queue.  A busy device has a
pending interrupt, so no thread waits for the display or the disk; a lock
whose holder does not sleep is held by nobody, so by `WakeInv` nobody sleeps at
it; what is left is the reader of the keyboard.

The first part of the module is about the arithmetic of the head, for any geometry and speed that
`DiskAssumption` allows.  `HeadInv` says that the track buffer began to fill at a
sector boundary, or has the whole track.  `ModuloDiffIsNext`: the count the code
takes modulo the sectors of a track is the distance to the next boundary with
which the sector begins.  `TransferIs`: seek, rotation and turning of the code add
up to the first such boundary after the seek, and `BufferIs`: the comparison with
the time since the buffer began to fill holds exactly when the sector has begun
to pass, or is at the head now, where both ways take the same time.
`HeadInv => LatencyExact` follows (`LatencyIs`), and `LatencyIsExact`
says that the machine keeps `HeadInv`: time passes between
requests, each request moves the head, and no interrupt is due in the past.

`UserProgramsProofs` proves, for any files, workloads, page sizes and memories
(`MemoryAssumption`, `WorkloadAssumption` and those of `Programs`), that `SpaceInv`
is inductive: frames are taken from the lowest up and never come back, so the
frames in use are the first `NumPhysPages - NumFreeFrame` ones (`UsedIsPrefix`),
every address space lies in them (`SpacesBelow`), and the next `Load` gets the
next ones, in order.  `FramesOwnedOnce` and `FramesSideBySide` are not inductive
without that.  Theorems: `FramesAreOwnedOnce`, `FramesLieSideBySide`,
`FreeCountIsExact`, `RunsInItsSpace`.  `FramesLieSideBySide` would no longer be
provable if frames were freed, which is what makes the loading of segments in
one piece right today.

`LoadInv` adds an account of the loads: threads start in the order of the command
line, a thread that has started has the pages of its file or is one whose
file does not exist, and the frames in use are as many as the pages of the
loaded programs (`FramesCounted`, with the cardinality lemmas of the library).
A load that is refused then needs more pages than are left, and so does the
whole workload (`RefusalByWorkload`, for `RefusedByWorkload`).

`IsolationInv` adds what memory holds (`Contents`: words and registers that the
program may have).  On it rests `ProgramsAreIsolated`, the refinement of
`PrivateMachines` (`Isolated`): an address space is one block of frames
(`SpaceIsBlock`), so a virtual address translates to the base of the block plus
itself (`PhysicalIs`), and the blocks of two programs do not meet
(`BlocksApart`).  A load, whose reads of the file go to the place of the
first frame of a segment and on from there, leaves in its block the image that a
program alone would start with (`LoadIsStart`) and nothing elsewhere; a store
changes one word of one private memory (`StoreIsPrivate`); a switch, which moves
registers between the machine and the thread, changes no private machine
(`SwitchIsInvisible`).  The theorem has the hypothesis `WorkloadsConfined`: the
segments of each file lie in its pages, initialised data begin on a page, and a
program with read-only data or with calls of SC_Read and SC_Write is alone in its
workload.  Each part of it is a place where the code writes to memory without
translation or without looking at the page table (see Deviations), so without it
the statement is false; `MCUserPrograms` assumes it of the workloads that TLC
runs, where it is evaluated.

`PostOfficeProofs` proves, for any hosts, clients, scripts and boxes, any network
and hosts that stop at any time, that `MailInv` (types, `InputInv`, `OutputInv`,
`CallInv`) is inductive, the theorems `PostOfficeTyped`, `PacketsAnnounced` and
`SendsOneAtATime`, and `PostOfficeDelivers`, the refinement of `MailService`: the
mail on its way to a host is the letter in the worker's hands, the packet in
the buffer and those in the socket, in this order, and every step of worker,
handler and sender moves it along as the service does, or not at all.

`FileSystemProofs` proves, for a disk of any size, headers of any number of
entries, directories of any size and paths of any length (`DiskAssumption`,
`FormatAssumption`, `CallersAssumption`), under the hypothesis

    PlainCalls == Sizes \subseteq Small /\ Recursives \subseteq {FALSE} /\ Careful = TRUE

that is for files that fit one header (`Small` is `0..NumDirect`; 30 sectors in the
code), for -r and not -rr, and for the callers of section 2, that `FileInv` is
inductive.  Its main part, `Represents`, relates the disk and the bitmap to
a set of nodes, each a path with the sector of its header:

* `NodesTyped`: a path is that of one node, and a header that of one node;
* `HeadersFit`: each header has its entries set up to its size and no further;
* `TablesFit`, `Placed`: no name is twice in a directory's table, each entry in use
  is for a node, and each node has an entry in a directory that is a node
  itself or the root;
* `OwnedApart`: no sector is in two places, and none is header and data;
* `Marks`: the bitmap is the set of the headers and of what they hold.

None of the properties is inductive without these: that a new file takes no
sector of another needs the bitmap to be exact, that a removal frees only the
file's own sectors needs that they are nobody else's, and that the table read at
the end of a path is that of its directory needs all the tables on the way.
`NodesAre` shows that `NodesOn`, which reads the tree level by level, finds
exactly the nodes represented.  `WalkEnds` is about the loops over the names: by
induction on the turns, the loop is in the directory of the names it has
followed, and at the end it stands before the last name, which no entry has, or
has entered the node of the path.  `CreationIs` and `RemovalIs` then say what a
call leaves, and `AddNode`, `RemoveNode` and `WriteNode` that such a disk
represents the tree with one node more, one less, or the same.  The other parts
of `FileInv` say that a program's open file is a file of the tree.  `AllocateIs`
and `DeallocateIs` show that neither call fails half-way for such files.  The
theorems are `FileInvariant`, `TypeCorrect`, `SectorsOwned` (from `HeldApart`: two
places are not in one sector, so there are as many), `FreeMapIsExact`,
`OwnedMarked`, `FilesWhole`, `FollowsPath`, and `TreeImplemented`, the refinement of
`FileTree`: a removal takes nothing else away because nothing is below a file
(`NothingBelow`).  `FilesWhole` is about files of one level, and `OwnedMarked`
about calls without -rr; the runs go beyond both.  Induction over the turns of a
loop is proved from the least element of a set of numbers (`Least`, `Induct`), as no
rule with a predicate can be instantiated.

`MipsProofs` proves, for bytes of any width that is a power of two and at least 2
(`WordAssumption`; eight bits in the code), any set of registers with those that
calls use, any assembled programs and any data (`ProgramsAssumption`), that

    Inv == TypeOK /\ WholeWords

is inductive (`TypesKept`, `TypeCorrect`).  `WholeWords` says that the data begin
and end at a multiple of four: without it an aligned access whose first
byte is in memory could end outside, and the loaded value would not be a word.
On `Inv` rests the refinement of `MipsArchitecture`,

    ProcessorImplements == Spec /\ []Disciplined => Implements

in these steps:

* Arithmetic: division with remainder and powers of two by induction
  (`Induct`, and `Recursion`, that a function may be defined by it); a word is its
  bits (`Bits` and `OfBits` are inverse) and its four bytes; masks, shifts and signs as
  operations on numbers; the bit tests of the signs find the overflow of ADD,
  ADDI and SUB.
* `MultIs`: the invariant of the loop of `Mult` is that what has been summed, and
  what is left of one factor times the other as often doubled, make the product
  modulo the double word; the carry found by comparison is that of the sum.
  The magnitude of the least integer is itself, and the negation over two
  words is that of the double word.
* `Decode` undoes `Encode`, operation by operation.
* A lemma for each action that its step is one of the architecture on
  `AfterLoad`, the registers with the pending load done; and that an interrupt
  (`CheckIfDue`) is a stutter there.

The theorem needs `Disciplined`.  Where a clause about loads, delay slots or link
registers fails, the architecture itself promises nothing; the system call in a
delay slot and the negative word in SRL and SRLV are deviations of the code
(section 2), and a jump out of the lowest region is one that `MipsArchitecture`
does not describe.  The run `Mips` checks `Disciplined` as an invariant of all its
programs, which include every instruction, so the hypothesis is one that
programs meet.

Only model-checked:

* liveness, which the prover cannot do: `IdleEnds`, `CarcassDeleted`,
  `ItemsDelivered`, `AppendsReturn`, `CallsReturn`, `ReadyRuns`, `MP4Halts`,
  `SendsReturn`, `TestEnds`;
* the file system with files of more than one level and with recursive removal
  (`FileSystemLarge`, `FileSystemRecursive`): `Allocate` and `RecursiveRemove` fold
  over the parts of a file and the entries of a directory, and what a fold or a
  recursive function over disks gives for every input is induction over data;
  where callers are not careful the properties do not hold (see Deviations);
* that the particular programs of `MCMips` copy unaligned words whole
  (`CopiesWhole`): a statement about those sixteen programs, for which the run is
  exhaustive.

## 4. Order of the work

The scheduler with its dispatcher, SynchList with its queue, and the file
system came first; then devices with interrupts, programs in memory, the post
office, and the processor, each with its abstract specification where it has
one, and the proofs, of the file system and the processor last.  What would come
next: the proof that sectors are owned once also by files of several levels; the
order of the pending interrupts; and burst times, which need the ticks of the whole machine.

## 5. Not modelled

* The file system under concurrent calls: `filesys.cc:31` says that there is no
  synchronization for them, so there is no claim to check; each call is one step.
* The arithmetic of burst times: `update_burst_time` reads members that no
  constructor sets, so the model takes any value as its result.
* The translation through a TLB, which no kernel of the repository is built
  with; the debugger of the simulator; statistics, dumps and self tests.
* The library's host calls but for the sockets, the hash table and
  `Condition::Broadcast`, which have no caller in the kernel, and the table of
  host files of MP1's stub file system.
* The user programs under `test/`, the compiler tools under `coff2noff` and
  `usr/local`: not the kernel.  In the file system, List and Print only read; use
  of an `OpenFile` after Close by a program with another file open is undefined
  and left out.

The four kernels are near copies of each other, and most of the files in the
repository are headers and libraries of the cross compiler, so the lines that
the definitions are mapped to are a small part of all lines: each part of the
kernel is modelled once, from one of its copies.
