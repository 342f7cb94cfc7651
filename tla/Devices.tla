-------------------------------- MODULE Devices --------------------------------
(***************************************************************************)
(* Simulated time, interrupts, and the drivers of the console and the disk *)
(* (machine/interrupt.cc, timer.cc, console.cc, disk.cc, threads/alarm.cc, *)
(* userprog/synchconsole.cc, filesys/synchdisk.cc), with the first-come    *)
(* scheduler of these kernels and Thread::Yield and Thread::Sleep.         *)
(*                                                                         *)
(* There is one CPU.  An interrupt is taken only in OneTick, which runs    *)
(* when interrupts are enabled again and after each user instruction, and  *)
(* in Idle; what a thread does from one tick to the next is one step here. *)
(* A device that has asked for an interrupt is in pending, and due says    *)
(* how much simulated time is left (PendingInterrupt::when minus           *)
(* totalTicks).                                                            *)
(*                                                                         *)
(* Two kernels are modelled.  That of MP2 (MP1 and MP3 have its drivers)   *)
(* lets a user program print a number; the user programs of MP4 read and   *)
(* write sectors, which its main thread does too while it boots, and its   *)
(* Sleep calls PrepareToEnd before it idles.  In both the main thread may  *)
(* run ConsoleTest before it forks the programs.                           *)
(***************************************************************************)
EXTENDS Semaphore, NachosList, Disk

CONSTANTS
  Main,        \* the thread that boots the kernel
  Nil,         \* a NULL pointer
  Kernels,     \* the kernels that are checked, from {"MP2", "MP4"}
  SystemTick, UserTick, ConsoleTime, \* stats.h
  TimerDelays, \* TimerTicks; with -rs any of 1..2*TimerTicks
  Lengths,     \* the characters PutInt prints, digits and newline
  BootCalls,   \* the sectors MP4 reads and writes while it boots
  TestCalls,   \* bound: the calls of ConsoleTest
  PrintCalls,  \* bound: the numbers each program of MP2 prints
  DiskCalls    \* bound: the sectors each program of MP4 reads or writes

Drivers == {"out", "in", "disk"}
DeviceSems == {"lock", "done"} \X Drivers
Devs == Drivers \cup {"timer"}

ASSUME NamesAssumption == Main \in Threads /\ Nil \notin Threads
ASSUME SemsAssumption == Sems = DeviceSems
ASSUME KernelsAssumption == Kernels \subseteq {"MP2", "MP4"}
ASSUME TimesAssumption ==
  /\ {SystemTick, UserTick, ConsoleTime} \subseteq Nat \ {0}
  /\ TimerDelays \subseteq Nat \ {0}
ASSUME BoundsAssumption ==
  Lengths \subseteq Nat \ {0} /\ BootCalls \in Nat \ {0}
  /\ {TestCalls, PrintCalls, DiskCalls} \subseteq Nat

VARIABLES
  kernel,        \* which kernel runs
  cpu,           \* what the CPU is in: a thread's code, OneTick, Idle, Sleep
  mode,          \* Interrupt::status
  enabled,       \* whether the kernel has booted and enabled interrupts
  current,       \* Kernel::currentThread
  ready,         \* Scheduler::readyList
  owed,          \* oldStatus of the OneTick in which the thread has yielded
  pending, due,  \* Interrupt::pending, and the time left
  yieldOnReturn, \* Interrupt::yieldOnReturn
  disabled,      \* Timer::disable and ConsoleInput::disabled
  busy,          \* ConsoleOutput::putBusy and Disk::active
  incoming,      \* ConsoleInput::incoming, or the end of the input
  lockHolder,    \* Lock::lockHolder
  pc, op, left,  \* a thread's next statement, its driver, characters to print
  screen,        \* the thread that wrote the last character
  calls          \* calls made, for the bounds

irqVars == <<pending, due, yieldOnReturn, headVars>>
cpuVars == <<cpu, mode, enabled, current, ready, owed>>
timeVars == <<due, clock, bufferAge>>
devVars == <<disabled, busy, incoming, screen>>
threadVars == <<pc, op, left, calls>>
vars == <<kernel, semVars, irqVars, cpuVars, devVars, lockHolder, threadVars>>

lock(d) == <<"lock", d>>
done(d) == <<"done", d>>

PCs == {"new", "boot", "fork", "user", "acquire", "own", "request", "await",
        "answered", "release", "return", "exited"}

\* Where a thread makes its calls from.
Home(t) == IF t # Main THEN "user" ELSE IF enabled THEN "fork" ELSE "boot"

Init ==
  /\ kernel \in Kernels
  /\ value = [s \in Sems |-> IF s[1] = "lock" THEN 1 ELSE 0]
  /\ queue = [s \in Sems |-> <<>>]
  /\ cpu = "run" /\ mode = "System" /\ enabled = FALSE
  /\ current = Main /\ ready = <<>>
  /\ owed = [t \in Threads |-> "none"]
  /\ \E n \in TimerDelays :
       due = [d \in Devs |-> IF d = "timer" THEN n ELSE IF d = "in" THEN ConsoleTime ELSE 0]
  /\ pending = SortedInsert(<<"timer">>, "in", due)
  /\ yieldOnReturn = FALSE /\ disabled = FALSE
  /\ busy = [d \in {"out", "disk"} |-> FALSE]
  /\ incoming = "none"
  /\ lockHolder = [d \in Drivers |-> Nil]
  /\ pc = [t \in Threads |-> IF t = Main THEN "boot" ELSE "new"]
  /\ op = [t \in Threads |-> "none"]
  /\ left = [t \in Threads |-> 0]
  /\ screen = Nil
  /\ DiskInit
  /\ calls = [t \in Threads |-> 0]

-----------------------------------------------------------------------------
(* Time.                                                                   *)

\* The time left of each pending interrupt after n ticks.
Passed(n) == [d \in Devs |-> IF d \in Range(pending) THEN due[d] - n ELSE 0]

TickOf(m) == IF m = "System" THEN SystemTick ELSE UserTick

\* n ticks pass.  Only MP4 uses the disk: the others' need not turn.
Advance(n) ==
  /\ due' = Passed(n)
  /\ IF kernel = "MP4" THEN ClockAdvances(n) ELSE UNCHANGED <<clock, bufferAge>>

\* OneTick up to its call of CheckIfDue, in status m.
Tick(m) == cpu' = "tick" /\ Advance(TickOf(m))

\* SetLevel(oldLevel) at the end of P, V and Fork: a tick unless interrupts
\* were off at the call, as they are while the kernel boots.
RestoreLevel == IF enabled THEN Tick(mode) ELSE UNCHANGED <<cpu, timeVars>>

\* Interrupt::Schedule of device d.
Schedule(queued, d, fromNow) ==
  /\ due' = [due EXCEPT ![d] = fromNow]
  /\ pending' = SortedInsert(queued, d, due')

\* The thread V makes ready, if one sleeps.
Woken(s) == IF queue[s] = <<>> THEN <<>> ELSE <<Head(queue[s])>>

-----------------------------------------------------------------------------
(* Threads outside the drivers.                                            *)

Running(t, label) == cpu = "run" /\ current = t /\ pc[t] = label
Go(t, label) == pc' = [pc EXCEPT ![t] = label]

\* The end of Kernel::Initialize: interrupt->Enable().  In MP4 the constructor of
\* the file system has used the disk before.
Enable ==
  /\ Running(Main, "boot")
  /\ kernel = "MP4" => calls[Main] = BootCalls
  /\ calls' = [calls EXCEPT ![Main] = 0]
  /\ enabled' = TRUE
  /\ Tick(mode)
  /\ Go(Main, "fork")
  /\ UNCHANGED <<kernel, semVars, pending, yieldOnReturn, lastSector, mode, current, ready, owed,
                 devVars, lockHolder, op, left>>

\* Thread::Fork of a user program.  The new thread starts in Begin, which enables
\* interrupts, and then runs in user mode.
Fork(t) ==
  /\ Running(Main, "fork") /\ pc[t] = "new"
  /\ pc' = [pc EXCEPT ![t] = "user"]
  /\ owed' = [owed EXCEPT ![t] = "User"]
  /\ ready' = Append(ready, t)
  /\ RestoreLevel
  /\ UNCHANGED <<kernel, semVars, pending, yieldOnReturn, lastSector, mode, enabled, current,
                 devVars, lockHolder, op, left, calls>>

\* An instruction of a user program, in Machine::Run.
Instruction(t) ==
  /\ Running(t, "user")
  /\ Tick("User")
  /\ UNCHANGED <<kernel, semVars, pending, yieldOnReturn, lastSector, mode, enabled, current, ready,
                 owed, devVars, lockHolder, threadVars>>

\* The drivers a thread calls, and the characters it prints with one call.
Calls(t) ==
  CASE t # Main            -> {IF kernel = "MP4" THEN "disk" ELSE "out"}
    [] t = Main /\ enabled -> {"in", "out"}
    [] OTHER               -> IF kernel = "MP4" THEN {"disk"} ELSE {}
Characters(t, d) == IF d # "out" THEN {0} ELSE IF t = Main THEN {1} ELSE Lengths

Call(t) ==
  /\ Running(t, Home(t))
  /\ calls[t] < CASE pc[t] = "boot" -> BootCalls
                   [] pc[t] = "fork" -> TestCalls
                   [] OTHER          -> IF kernel = "MP4" THEN DiskCalls ELSE PrintCalls
  /\ t = Main /\ enabled => \A u \in Threads \ {Main} : pc[u] = "new"
  /\ \E d \in Calls(t) :
       /\ op' = [op EXCEPT ![t] = d]
       /\ \E n \in Characters(t, d) : left' = [left EXCEPT ![t] = n]
  /\ calls' = [calls EXCEPT ![t] = @ + 1]
  /\ mode' = "System"
  /\ Go(t, "acquire")
  /\ UNCHANGED <<kernel, semVars, irqVars, cpu, enabled, current, ready, owed, devVars,
                 lockHolder>>

\* Thread::Finish: of a program that exits, and of main once all are forked.
Finish(t) ==
  /\ Running(t, Home(t)) /\ pc[t] # "boot"
  /\ t = Main => \A u \in Threads : pc[u] # "new"
  /\ Go(t, "exited")
  /\ mode' = "System"
  /\ cpu' = "sleep"
  /\ UNCHANGED <<kernel, semVars, irqVars, enabled, current, ready, owed, devVars,
                 lockHolder, op, left, calls>>

-----------------------------------------------------------------------------
(* The drivers: each has a lock, and a semaphore its interrupt handler     *)
(* signals.                                                                *)

AcquireSleeps(t) ==
  /\ Running(t, "acquire")
  /\ PSleeps(t, lock(op[t]))
  /\ cpu' = "sleep"
  /\ UNCHANGED <<kernel, irqVars, mode, enabled, current, ready, owed, devVars,
                 lockHolder, threadVars>>

AcquireTakes(t) ==
  /\ Running(t, "acquire")
  /\ PTakes(lock(op[t]))
  /\ RestoreLevel
  /\ Go(t, "own")
  /\ UNCHANGED <<kernel, pending, yieldOnReturn, lastSector, mode, enabled, current, ready, owed,
                 devVars, lockHolder, op, left, calls>>

Own(t) ==
  /\ Running(t, "own")
  /\ lockHolder' = [lockHolder EXCEPT ![op[t]] = t]
  /\ Go(t, IF op[t] = "in" THEN "await" ELSE "request")
  /\ UNCHANGED <<kernel, semVars, irqVars, cpuVars, devVars, op, left, calls>>

\* ConsoleOutput::PutChar.
PutChar(t) ==
  /\ Running(t, "request") /\ op[t] = "out"
  /\ ~busy["out"]
  /\ busy' = [busy EXCEPT !["out"] = TRUE]
  /\ screen' = t
  /\ left' = [left EXCEPT ![t] = @ - 1]
  /\ Schedule(pending, "out", ConsoleTime)
  /\ Go(t, "await")
  /\ UNCHANGED <<kernel, headVars, semVars, yieldOnReturn, cpuVars, disabled, incoming, lockHolder,
                 op, calls>>

\* Disk::ReadRequest and WriteRequest.
DiskRequest(t) ==
  /\ Running(t, "request") /\ op[t] = "disk"
  /\ ~busy["disk"]
  /\ busy' = [busy EXCEPT !["disk"] = TRUE]
  /\ \E s \in Sectors, writing \in BOOLEAN :
       Schedule(pending, "disk", ComputeLatency(s, writing)) /\ UpdateLast(s)
  /\ Go(t, "await")
  /\ UNCHANGED <<kernel, semVars, clock, yieldOnReturn, cpuVars, disabled, incoming, screen,
                 lockHolder, op, left, calls>>

AwaitSleeps(t) ==
  /\ Running(t, "await")
  /\ PSleeps(t, done(op[t]))
  /\ cpu' = "sleep"
  /\ UNCHANGED <<kernel, irqVars, mode, enabled, current, ready, owed, devVars,
                 lockHolder, threadVars>>

AwaitTakes(t) ==
  /\ Running(t, "await")
  /\ PTakes(done(op[t]))
  /\ RestoreLevel
  /\ Go(t, "answered")
  /\ UNCHANGED <<kernel, pending, yieldOnReturn, lastSector, mode, enabled, current, ready, owed,
                 devVars, lockHolder, op, left, calls>>

\* The loop of PutInt; PutChar and the disk's calls end here.
Answered(t) ==
  /\ Running(t, "answered") /\ op[t] # "in"
  /\ Go(t, IF left[t] > 0 THEN "request" ELSE "release")
  /\ UNCHANGED <<kernel, semVars, irqVars, cpuVars, devVars, lockHolder, op, left, calls>>

\* ConsoleInput::GetChar: after a character the next poll is scheduled.
TakeChar(t) ==
  /\ Running(t, "answered") /\ op[t] = "in"
  /\ IF incoming = "char" THEN Schedule(pending, "in", ConsoleTime)
                          ELSE UNCHANGED <<pending, due>>
  /\ incoming' = "none"
  /\ Go(t, "release")
  /\ UNCHANGED <<kernel, headVars, semVars, yieldOnReturn, cpuVars, disabled, busy, screen,
                 lockHolder, op, left, calls>>

\* Lock::Release, and the return of the driver.
Release(t) ==
  /\ Running(t, "release") /\ lockHolder[op[t]] = t
  /\ lockHolder' = [lockHolder EXCEPT ![op[t]] = Nil]
  /\ V(lock(op[t]))
  /\ ready' = ready \o Woken(lock(op[t]))
  /\ RestoreLevel
  /\ op' = [op EXCEPT ![t] = "none"]
  /\ Go(t, IF t = Main THEN Home(t) ELSE "return")
  /\ UNCHANGED <<kernel, pending, yieldOnReturn, lastSector, mode, enabled, current, owed, devVars,
                 left, calls>>

\* The end of RaiseException and of the instruction that made the call.
Return(t) ==
  /\ Running(t, "return")
  /\ mode' = "User"
  /\ Tick("User")
  /\ Go(t, "user")
  /\ UNCHANGED <<kernel, semVars, pending, yieldOnReturn, lastSector, enabled, current, ready, owed,
                 devVars, lockHolder, op, left, calls>>

-----------------------------------------------------------------------------
(* CheckIfDue: the handlers of the interrupts that are due, one by one.    *)

FrontDue == pending # <<>> /\ due[Head(pending)] <= 0
Fires(d) == cpu \in {"tick", "idle"} /\ FrontDue /\ Head(pending) = d

\* The handlers' V: the sleeper becomes ready.
Signal(d) == V(done(d)) /\ ready' = ready \o Woken(done(d))

\* Mutant of FireTimer: the timer is not set again.
FireTimerOnce ==
  /\ Fires("timer")
  /\ yieldOnReturn' = (yieldOnReturn \/ mode # "Idle")
  /\ pending' = Tail(pending) /\ due' = [due EXCEPT !["timer"] = 0]
  /\ UNCHANGED <<kernel, headVars, semVars, cpuVars, devVars, lockHolder, threadVars>>

\* Timer::CallBack with Alarm::CallBack.
FireTimer ==
  /\ Fires("timer")
  /\ yieldOnReturn' = (yieldOnReturn \/ mode # "Idle")
  /\ IF disabled
       THEN pending' = Tail(pending) /\ due' = [due EXCEPT !["timer"] = 0]
       ELSE \E n \in TimerDelays : Schedule(Tail(pending), "timer", n)
  /\ UNCHANGED <<kernel, headVars, semVars, cpuVars, devVars, lockHolder, threadVars>>

\* Mutant of FireDone: the device stays busy.
FireDoneStaysBusy(d) ==
  /\ d \in {"out", "disk"} /\ Fires(d)
  /\ pending' = Tail(pending) /\ due' = [due EXCEPT ![d] = 0]
  /\ Signal(d)
  /\ UNCHANGED <<kernel, headVars, yieldOnReturn, cpu, mode, enabled, current, owed,
                 devVars, lockHolder, threadVars>>

\* ConsoleOutput::CallBack and Disk::CallBack.
FireDone(d) ==
  /\ d \in {"out", "disk"} /\ Fires(d)
  /\ busy' = [busy EXCEPT ![d] = FALSE]
  /\ pending' = Tail(pending) /\ due' = [due EXCEPT ![d] = 0]
  /\ Signal(d)
  /\ UNCHANGED <<kernel, headVars, yieldOnReturn, cpu, mode, enabled, current, owed, disabled,
                 incoming, screen, lockHolder, threadVars>>

\* Mutant of FireInDisabled: the console polls on.
FireInDisabledPolls ==
  /\ Fires("in") /\ disabled
  /\ Schedule(Tail(pending), "in", ConsoleTime)
  /\ UNCHANGED <<kernel, headVars, semVars, yieldOnReturn, cpuVars, devVars, lockHolder, threadVars>>

\* ConsoleInput::CallBack when it is disabled, and when nothing is typed; it
\* asserts that the buffer is empty (InputMatched).
FireInDisabled ==
  /\ Fires("in") /\ disabled /\ incoming = "none"
  /\ pending' = Tail(pending) /\ due' = [due EXCEPT !["in"] = 0]
  /\ UNCHANGED <<kernel, headVars, semVars, yieldOnReturn, cpuVars, devVars, lockHolder, threadVars>>

FireInPolls ==
  /\ Fires("in") /\ ~disabled /\ incoming = "none"
  /\ Schedule(Tail(pending), "in", ConsoleTime)
  /\ UNCHANGED <<kernel, headVars, semVars, yieldOnReturn, cpuVars, devVars, lockHolder, threadVars>>

\* Mutant of FireInReads: the console goes on polling with a character in its buffer.
FireInReadsOn(got) ==
  /\ Fires("in") /\ ~disabled
  /\ incoming' = got
  /\ Schedule(Tail(pending), "in", ConsoleTime)
  /\ Signal("in")
  /\ UNCHANGED <<kernel, headVars, yieldOnReturn, cpu, mode, enabled, current, owed, disabled,
                 busy, screen, lockHolder, threadVars>>

\* A character, or the end of the input; a byte 255 is the same as the end, for
\* incoming is a char and EOF is -1.
FireInReads(got) ==
  /\ Fires("in") /\ ~disabled /\ incoming = "none"
  /\ incoming' = got
  /\ pending' = Tail(pending) /\ due' = [due EXCEPT !["in"] = 0]
  /\ Signal("in")
  /\ UNCHANGED <<kernel, headVars, yieldOnReturn, cpu, mode, enabled, current, owed, disabled,
                 busy, screen, lockHolder, threadVars>>

Fire ==
  \/ FireTimer \/ FireInDisabled \/ FireInPolls
  \/ \E d \in {"out", "disk"} : FireDone(d)
  \/ \E got \in {"char", "eof"} : FireInReads(got)

-----------------------------------------------------------------------------
(* The end of OneTick, Thread::Yield, Thread::Sleep and Idle.              *)

\* Scheduler::Run of the first ready thread: one that had yielded enables
\* interrupts and so starts a new tick; one that slept tests its semaphore.
RunFirst ==
  /\ current' = Head(ready)
  /\ IF owed[Head(ready)] = "none" THEN cpu' = "run" /\ UNCHANGED timeVars ELSE Tick("System")

\* Mutant of EndTick: the status is left as the nested tick had it.
EndTickForgets ==
  /\ cpu = "tick" /\ ~FrontDue /\ ~yieldOnReturn
  /\ cpu' = "run"
  /\ owed' = [owed EXCEPT ![current] = "none"]
  /\ UNCHANGED <<kernel, semVars, irqVars, mode, enabled, current, ready, devVars,
                 lockHolder, threadVars>>

\* Nobody asked for a context switch: the thread goes on, out of all the ticks
\* it is in.
EndTick ==
  /\ cpu = "tick" /\ ~FrontDue /\ ~yieldOnReturn
  /\ cpu' = "run"
  /\ mode' = IF owed[current] = "none" THEN mode ELSE owed[current]
  /\ owed' = [owed EXCEPT ![current] = "none"]
  /\ UNCHANGED <<kernel, semVars, irqVars, enabled, current, ready, devVars, lockHolder,
                 threadVars>>

\* Yield, called by OneTick.
YieldCurrent ==
  /\ cpu = "tick" /\ ~FrontDue /\ yieldOnReturn
  /\ yieldOnReturn' = FALSE
  /\ mode' = "System"
  /\ owed' = [owed EXCEPT ![current] = IF @ = "none" THEN mode ELSE @]
  /\ IF ready = <<>>
       THEN Tick("System") /\ UNCHANGED <<current, ready>>
       ELSE RunFirst /\ ready' = Append(Tail(ready), current)
  /\ UNCHANGED <<kernel, semVars, pending, lastSector, enabled, devVars, lockHolder,
                 threadVars>>

\* Sleep finds a ready thread.
Dispatch ==
  /\ cpu = "sleep" /\ ready # <<>>
  /\ RunFirst
  /\ ready' = Tail(ready)
  /\ UNCHANGED <<kernel, semVars, pending, yieldOnReturn, lastSector, mode, enabled, owed, devVars,
                 lockHolder, threadVars>>

\* Mutant of Idle: it halts though a device is at work.
IdleHalts ==
  /\ cpu = "sleep" /\ ready = <<>>
  /\ disabled' = (disabled \/ kernel = "MP4")
  /\ mode' = "Idle" /\ cpu' = "halted"
  /\ UNCHANGED <<kernel, semVars, irqVars, enabled, current, ready, owed, busy, incoming,
                 screen, lockHolder, threadVars>>

\* Sleep finds none: in MP4 PrepareToEnd, then Idle moves the clock to the first
\* interrupt, or halts if there is none.
Idle ==
  /\ cpu = "sleep" /\ ready = <<>>
  /\ disabled' = (disabled \/ kernel = "MP4")
  /\ mode' = "Idle"
  /\ IF pending = <<>>
       THEN cpu' = "halted" /\ UNCHANGED timeVars
       ELSE /\ cpu' = "idle"
            /\ IF due[Head(pending)] > 0 THEN Advance(due[Head(pending)]) ELSE UNCHANGED timeVars
  /\ UNCHANGED <<kernel, semVars, pending, yieldOnReturn, lastSector, enabled, current, ready, owed,
                 busy, incoming, screen, lockHolder, threadVars>>

EndIdle ==
  /\ cpu = "idle" /\ ~FrontDue
  /\ cpu' = "sleep"
  /\ mode' = "System"
  /\ UNCHANGED <<kernel, semVars, irqVars, enabled, current, ready, owed, devVars,
                 lockHolder, threadVars>>

-----------------------------------------------------------------------------
ThreadStep(t) ==
  \/ Fork(t) \/ Instruction(t) \/ Call(t) \/ Finish(t) \/ AcquireSleeps(t)
  \/ AcquireTakes(t) \/ Own(t) \/ PutChar(t) \/ DiskRequest(t) \/ AwaitSleeps(t)
  \/ AwaitTakes(t) \/ Answered(t) \/ TakeChar(t) \/ Release(t) \/ Return(t)

Next ==
  \/ Enable \/ Fire \/ EndTick \/ YieldCurrent \/ Dispatch \/ Idle \/ EndIdle
  \/ \E t \in Threads : ThreadStep(t)

Spec == Init /\ [][Next]_vars

-----------------------------------------------------------------------------
(* Properties.                                                             *)

Positions == {"run", "tick", "idle", "sleep", "halted"}

TypeOK ==
  /\ SemTypeOK
  /\ kernel \in Kernels /\ cpu \in Positions /\ mode \in {"System", "User", "Idle"}
  /\ enabled \in BOOLEAN /\ yieldOnReturn \in BOOLEAN /\ disabled \in BOOLEAN
  /\ current \in Threads /\ ready \in Seq(Threads)
  /\ owed \in [Threads -> {"none", "System", "User"}]
  /\ pending \in Seq(Devs) /\ due \in [Devs -> Int]
  /\ clock \in Int /\ bufferAge \in Int /\ lastSector \in Sectors
  /\ busy \in [{"out", "disk"} -> BOOLEAN]
  /\ incoming \in {"none", "char", "eof"}
  /\ lockHolder \in [Drivers -> Threads \cup {Nil}]
  /\ pc \in [Threads -> PCs]
  /\ op \in [Threads -> Drivers \cup {"none"}]
  /\ left \in [Threads -> Nat]
  /\ screen \in Threads \cup {Nil}
  /\ calls \in [Threads -> Nat]

Inside(t) == pc[t] \in {"own", "request", "await", "answered", "release"}
Users(d) == {t \in Threads : Inside(t) /\ op[t] = d}
Awaiting(d) == {t \in Users(d) : pc[t] = "await"}

\* At most one thread is past Acquire of a driver's lock, and it is the one the
\* ASSERT of Release looks for; the lock's semaphore is 0 exactly then.
LocksExclude ==
  \A d \in Drivers :
    /\ \A t, u \in Users(d) : t = u
    /\ value[lock(d)] = IF Users(d) = {} THEN 1 ELSE 0
    /\ \A t \in Users(d) : pc[t] # "own" => lockHolder[d] = t

\* A request has one answer and it goes to the thread that made it: while a
\* thread waits in the driver, either the device is still busy or its signal is
\* in the semaphore, never both; when none waits there is neither, so nobody
\* returns on the answer to an earlier request, and the ASSERTs of
\* ConsoleOutput::PutChar and Disk::ReadRequest find the device idle.
AnswersMatched ==
  \A d \in {"out", "disk"} :
    value[done(d)] + (IF busy[d] THEN 1 ELSE 0) = Cardinality(Awaiting(d))

\* The console's input: one signal for each character or end of input that has
\* not been taken, and no poll is pending with a character in the buffer, which
\* is the ASSERT(incoming == EOF) of ConsoleInput::CallBack.
InputMatched ==
  /\ value[done("in")] = IF incoming # "none" /\ (\A t \in Users("in") : pc[t] # "answered")
                           THEN 1 ELSE 0
  /\ "in" \in Range(pending) => incoming = "none"
  /\ \A t \in Users("in") : pc[t] = "answered" => incoming # "none"

\* Each device has at most one interrupt pending: a busy one exactly one, the
\* timer always one unless it is disabled.
PendingExact ==
  /\ NoRepeats(pending)
  /\ \A d \in {"out", "disk"} : d \in Range(pending) <=> busy[d]
  /\ ~disabled => "timer" \in Range(pending)

\* OneTick puts the status back that it found, however many ticks and yields
\* were nested in it: user instructions, and nothing else, run in user mode.
ModeRestored ==
  cpu = "run" => mode = IF pc[current] = "user" THEN "User" ELSE "System"

\* Two numbers are never mixed on the screen: between the first character of a
\* number and the return of PutInt the last character is the printing thread's.
OutputTogether ==
  \A t \in Users("out") : pc[t] \in {"await", "answered", "release"} => screen = t

\* The machine halts by itself only when no thread can ever run again: all have
\* exited, or wait for an input that will not come.  With the timer running it
\* never does ("there are always pending interrupts", Interrupt::Idle).
HaltIsQuiet ==
  cpu = "halted" =>
    /\ kernel = "MP4"
    /\ \A d \in {"out", "disk"} : ~busy[d] /\ Users(d) = {}
    /\ \A t \in Threads : pc[t] \in {"new", "exited"} \/ (t = Main /\ op[t] = "in")

\* "We manually disable timer, console, etc. after all threads complete" (MP4
\* kernel.cc:133).  Sleep does it whenever no thread is ready.
DisabledAtEnd == disabled => \A t \in Threads : pc[t] = "exited"

-----------------------------------------------------------------------------
(* Liveness.  The simulated CPU always goes on.  In MP4 nothing stops a    *)
(* program that computes, so there its programs are assumed to stop by     *)
(* themselves.  A random time slice (-rs) may be shorter than the tick of  *)
(* the context switch itself; no thread gets such slices only.             *)

NextUp == IF ready = <<>> THEN current ELSE Head(ready)

LeavesUser(t) == kernel = "MP4" /\ t # Main /\ (Call(t) \/ Finish(t))

FairSpec ==
  /\ Spec
  /\ WF_vars(Next)
  /\ \A t \in Threads : SF_vars(LeavesUser(t))
  /\ \A t \in Threads : SF_vars(FireTimer /\ due'["timer"] > SystemTick /\ NextUp = t)

\* A call of the disk or of the display returns, if programs make finitely many:
\* the interrupt comes, the thread is woken, and one that has been woken for the
\* lock and finds it taken again by the thread that gave it back (Semaphore::P
\* tests the value again) is woken once more by the next Release.  Against a
\* program that goes on calling it need not return.
InCall(t) == op[t] \in {"out", "disk"}
CallsReturn == \A t \in Threads : InCall(t) ~> ~InCall(t)

\* A ready thread runs in the end; in MP2 even next to programs that compute for
\* ever, because the timer takes the CPU from them.
ReadyRuns == \A t \in Threads : t \in Range(ready) ~> current = t

\* MP4 ends: once the programs have stopped the machine halts.
MP4Halts == kernel = "MP4" /\ enabled ~> cpu = "halted"
===============================================================================
