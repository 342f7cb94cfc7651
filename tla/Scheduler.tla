------------------------------- MODULE Scheduler -------------------------------
(***************************************************************************)
(* The CPU scheduler of MP3 (threads/scheduler.cc, threads/thread.cc): a   *)
(* uniprocessor with three ready lists, L1 (preemptive, shortest           *)
(* approximated burst first), L2 (non-preemptive, by priority) and L3      *)
(* (round robin), aging, migration between the lists, preemption by        *)
(* migrated threads, sleeping, the idle loop and the deferred deletion of  *)
(* finished threads.                                                       *)
(*                                                                         *)
(* Everything between two context switches runs with interrupts disabled,  *)
(* so only the current thread steps.  But Scheduler::ReArrangeThreads can  *)
(* switch threads in the MIDDLE of its loops (Check_Preempt calls Run), so *)
(* each thread has its own pc and its own list iterator, and a loop is     *)
(* one action per iteration.                                               *)
(*                                                                         *)
(* Iterators.  A ListIterator holds a ListElement.  The elements of the    *)
(* ready lists carry one thread each, so an element is named by the thread *)
(* it carries.  RemoveFront deletes the element; the next element          *)
(* allocated (same size, glibc hands back the chunk freed last) is the     *)
(* same memory, so an iterator left on a removed element denotes the       *)
(* thread that is inserted next.  When nothing is inserted next, the       *)
(* memory goes back to the heap: the iterator is Freed, and stepping it    *)
(* yields NULL or any element then in a list (undefined behaviour).        *)
(*                                                                         *)
(* Time.  Only differences of totalTicks matter: waited[t] is totalTicks   *)
(* - start_wait_ticks, for threads in a ready list.  The value computed by *)
(* update_burst_time depends on two members that no constructor sets       *)
(* (True_ticks, last_approx_bursttime): it is any member of Bursts.        *)
(***************************************************************************)
EXTENDS NachosList

CONSTANTS
  Threads,         \* the thread control blocks of a run
  Main,            \* the thread Kernel::Initialize creates
  Nil, Freed,      \* a NULL pointer; an element returned to the heap
  InitPriorities,  \* the priorities Kernel::Exec gives new threads
  Bursts,          \* the values of approx_bursttime
  L1Min, L2Min,    \* 100 and 50: the least priorities of L1 and of L2
  MaxPriority,     \* 149
  AgeStep,         \* 10: what aging adds
  AgeTicks,        \* 1500: the accumulated wait that aging asks for
  MaxWait          \* bound: time between two Agings of one thread

ASSUME MainAssumption == Main \in Threads
ASSUME NilAssumption == Nil \notin Threads /\ Freed \notin Threads /\ Nil # Freed
ASSUME PrioritiesAssumption ==
  /\ InitPriorities \subseteq Nat
  /\ Bursts \subseteq Nat /\ 0 \in Bursts
  /\ L1Min \in Nat /\ L2Min \in Nat /\ MaxPriority \in Nat
  /\ AgeStep \in Nat /\ AgeTicks \in Nat \ {0} /\ MaxWait \in Nat
  /\ 0 < L2Min /\ L2Min < L1Min /\ L1Min <= MaxPriority

VARIABLES
  status,        \* Thread::status
  priority,      \* Thread::priority
  approx,        \* Thread::approx_bursttime
  accu,          \* Thread::accu_wait_ticks
  waited,        \* totalTicks - Thread::start_wait_ticks
  pc,            \* where each thread is in the code of Yield and Sleep
  iter,          \* the iterator of each thread's ReArrangeThreads
  queue,         \* L1List, L2List, L3List
  currentThread, \* Kernel::currentThread
  toBeDestroyed, \* Scheduler::toBeDestroyed
  aborted        \* an ASSERT failed: the machine is gone

vars == <<status, priority, approx, accu, waited, pc, iter, queue,
          currentThread, toBeDestroyed, aborted>>

Statuses == {"JUST_CREATED", "RUNNING", "READY", "BLOCKED"}

\* created: no Fork yet.  begin: forked, never run.  user: interrupts on.
\* loop3, loop2: in ReArrangeThreads.  tail: after it, in Yield.  cut: switched
\* out at the end of Yield or in Sleep; cut3, cut2: in Check_Preempt in a loop.
\* sleep, idle: the loop of Sleep(FALSE) and Interrupt::Idle in it; finish,
\* finIdle: of Sleep(TRUE).  zombie: switched out for good.  deleted.
SwitchedOut == {"begin", "cut", "cut3", "cut2"}
Idling == {"idle", "finIdle"}
PCs == SwitchedOut \cup Idling \cup
       {"created", "user", "loop3", "loop2", "tail", "sleep", "finish",
        "zombie", "deleted"}

Levels == 1..3

-----------------------------------------------------------------------------
(* The ready lists.                                                        *)

InWhichQueue(t) ==
  IF priority[t] >= L1Min THEN 1 ELSE IF priority[t] >= L2Min THEN 2 ELSE 3

\* Mutant of Key: both lists ordered by priority.
KeyByPriority(level) == [t \in Threads |-> -priority[t]]

\* L1SchedulingCompare and L2SchedulingCompare, as keys of increasing order.
Key(level) == IF level = 1 THEN approx ELSE [t \in Threads |-> -priority[t]]

Enqueue(Q, t, level) ==
  [Q EXCEPT ![level] = IF level = 3 THEN Append(@, t)
                                    ELSE SortedInsert(@, t, Key(level))]

RemoveFront(Q, level) == [Q EXCEPT ![level] = Tail(@)]

AddToQueue(Q, t) == Enqueue(Q, t, InWhichQueue(t))

NoneReady(Q) == \A level \in Levels : Q[level] = <<>>

\* Scheduling() takes the front of the first list that is not empty.
TopLevel(Q) == IF Q[1] # <<>> THEN 1 ELSE IF Q[2] # <<>> THEN 2 ELSE 3
Picked(Q) == Head(Q[TopLevel(Q)])
\* Mutant of Scheduling: Front() in the place of RemoveFront().
SchedulingKeeps(Q) == Q

Scheduling(Q) == RemoveFront(Q, TopLevel(Q))

InList(Q, level) == Range(Q[level])
Queued(Q) == UNION {InList(Q, level) : level \in Levels}

\* ListIterator::ListIterator on a list, and ListIterator::Next.
FirstElement(Q, level) == IF Q[level] = <<>> THEN Nil ELSE Head(Q[level])
NextElements(Q, e) ==
  LET successors == UNION {ListNext(Q[level], e) : level \in Levels}
  IN  IF e = Freed THEN Queued(Q) \cup {Nil}
      ELSE IF successors = {} THEN {Nil} ELSE successors

\* The element that carried x carries y from now on.
Recycle(x, y) == [t \in Threads |-> IF iter[t] = x THEN y ELSE iter[t]]

-----------------------------------------------------------------------------
Init ==
  /\ status = [t \in Threads |-> IF t = Main THEN "RUNNING" ELSE "JUST_CREATED"]
  /\ priority \in [Threads -> InitPriorities \cup {0}]
  /\ \A t \in Threads : IF t = Main THEN priority[t] = 0
                                    ELSE priority[t] \in InitPriorities
  /\ approx = [t \in Threads |-> 0]
  /\ accu = [t \in Threads |-> 0]
  /\ waited = [t \in Threads |-> 0]
  /\ pc = [t \in Threads |-> IF t = Main THEN "user" ELSE "created"]
  /\ iter = [t \in Threads |-> Nil]
  /\ queue = [level \in Levels |-> <<>>]
  /\ currentThread = Main
  /\ toBeDestroyed = Nil
  /\ aborted = FALSE

At(label) == ~aborted /\ pc[currentThread] = label

\* AddToQueue of a thread that some other code makes ready.
MakeReady(t) ==
  /\ queue' = AddToQueue(queue, t)
  /\ status' = [status EXCEPT ![t] = "READY"]
  /\ waited' = [waited EXCEPT ![t] = 0]

\* Check_Preempt and the end of Yield: the CPU goes to the thread Scheduling
\* picks from Q and the current thread goes back to a list.
SwitchTo(Q, label) ==
  LET next == Picked(Q)
      me   == currentThread
  IN  /\ queue' = AddToQueue(Scheduling(Q), me)
      /\ status' = [status EXCEPT ![me] = "READY", ![next] = "RUNNING"]
      /\ waited' = [waited EXCEPT ![me] = 0]
      /\ pc' = [pc EXCEPT ![me] = label]
      /\ iter' = Recycle(next, me)
      /\ currentThread' = next

-----------------------------------------------------------------------------
(* What the running thread does while interrupts are on.                   *)

Fork(t) ==
  /\ At("user") /\ pc[t] = "created"
  /\ MakeReady(t)
  /\ pc' = [pc EXCEPT ![t] = "begin"]
  /\ UNCHANGED <<priority, approx, accu, iter, currentThread, toBeDestroyed, aborted>>

\* Simulated time passes; threads in a list get older.
Tick ==
  /\ At("user")
  /\ \A t \in Queued(queue) : waited[t] < MaxWait
  /\ waited' = [t \in Threads |-> IF t \in Queued(queue) THEN waited[t] + 1
                                                         ELSE waited[t]]
  /\ UNCHANGED <<status, priority, approx, accu, pc, iter, queue, currentThread,
                 toBeDestroyed, aborted>>

\* Scheduler::Aging on one thread, in the list of this level.
Aged(t) == t \in Queued(queue) /\ accu[t] + waited[t] >= AgeTicks

AgedPriority(t) ==
  IF ~Aged(t) THEN priority[t]
  ELSE IF t \in InList(queue, 1) /\ priority[t] + AgeStep >= MaxPriority
       THEN MaxPriority ELSE priority[t] + AgeStep

Aging ==
  /\ priority' = [t \in Threads |-> AgedPriority(t)]
  /\ accu' = [t \in Threads |->
                IF t \in Queued(queue)
                THEN accu[t] + waited[t] - (IF Aged(t) THEN AgeTicks ELSE 0)
                ELSE accu[t]]
  /\ waited' = [t \in Threads |-> IF t \in Queued(queue) THEN 0 ELSE waited[t]]

\* Thread::Yield, called by the thread or by OneTick after a timer interrupt,
\* up to the creation of iter3.
Yield ==
  /\ At("user")
  /\ Aging
  /\ pc' = [pc EXCEPT ![currentThread] = "loop3"]
  /\ iter' = [iter EXCEPT ![currentThread] = FirstElement(queue, 3)]
  /\ UNCHANGED <<status, approx, queue, currentThread, toBeDestroyed, aborted>>

\* Mutant of Sleep: the status is left RUNNING.
SleepStaysRunning ==
  /\ At("user")
  /\ \E burst \in Bursts : approx' = [approx EXCEPT ![currentThread] = burst]
  /\ pc' = [pc EXCEPT ![currentThread] = "sleep"]
  /\ UNCHANGED <<status, priority, accu, waited, iter, queue, currentThread,
                 toBeDestroyed, aborted>>

\* Thread::Sleep up to its loop.
Sleep ==
  /\ At("user")
  /\ \E burst \in Bursts : approx' = [approx EXCEPT ![currentThread] = burst]
  /\ status' = [status EXCEPT ![currentThread] = "BLOCKED"]
  /\ pc' = [pc EXCEPT ![currentThread] = "sleep"]
  /\ UNCHANGED <<priority, accu, waited, iter, queue, currentThread, toBeDestroyed, aborted>>

Finish ==
  /\ At("user")
  /\ status' = [status EXCEPT ![currentThread] = "BLOCKED"]
  /\ pc' = [pc EXCEPT ![currentThread] = "finish"]
  /\ UNCHANGED <<priority, approx, accu, waited, iter, queue, currentThread,
                 toBeDestroyed, aborted>>

\* Semaphore::V of a thread asleep, by the running thread or by the handler of
\* an interrupt (also one that Interrupt::Idle fires).  V never preempts.
WakeUp(t) ==
  /\ ~aborted /\ pc[currentThread] \in {"user"} \cup Idling
  /\ status[t] = "BLOCKED" /\ pc[t] \in {"cut", "idle"}
  /\ MakeReady(t)
  /\ UNCHANGED <<priority, approx, accu, pc, iter, currentThread, toBeDestroyed, aborted>>

-----------------------------------------------------------------------------
(* Scheduler::ReArrangeThreads and the rest of Thread::Yield.              *)

\* Mutant of Preempts: within L1 any migrated thread preempts.
PreemptsWithinL1(t) ==
  \/ InWhichQueue(t) < InWhichQueue(currentThread)
  \/ InWhichQueue(t) = 1 /\ InWhichQueue(currentThread) = 1

Preempts(t) ==
  LET mine == InWhichQueue(currentThread)
  IN  \/ mine = 3 /\ InWhichQueue(t) < 3
      \/ mine = 2 /\ InWhichQueue(t) = 1
      \/ mine = 1 /\ InWhichQueue(t) = 1 /\ approx[t] < approx[currentThread]

\* The iterator steps on the lists Q.
Advance(Q) ==
  \E e \in NextElements(Q, iter[currentThread]) :
    iter' = [iter EXCEPT ![currentThread] = e]

\* One iteration that takes the front of one list to another: it goes on, or
\* Check_Preempt of the migrated thread switches away in the middle of it.
Migrate(from, to, label) ==
  LET thread == Head(queue[from])
      Q == Enqueue(RemoveFront(queue, from), thread, to)
  IN  \/ /\ ~Preempts(thread)
         /\ queue' = Q
         /\ Advance(Q)
         /\ UNCHANGED <<status, waited, pc, currentThread>>
      \/ /\ Preempts(thread)
         /\ SwitchTo(Q, label)

\* The body of the L3 loop never looks at the iterator's item.
Loop3 ==
  /\ At("loop3") /\ iter[currentThread] # Nil
  /\ queue[3] # <<>>
  /\ Migrate(3, InWhichQueue(Head(queue[3])), "cut3")
  /\ UNCHANGED <<priority, approx, accu, toBeDestroyed, aborted>>

Loop3Done ==
  /\ At("loop3") /\ iter[currentThread] = Nil
  /\ pc' = [pc EXCEPT ![currentThread] = "loop2"]
  /\ iter' = [iter EXCEPT ![currentThread] = FirstElement(queue, 2)]
  /\ UNCHANGED <<status, priority, approx, accu, waited, queue, currentThread,
                 toBeDestroyed, aborted>>

\* The L2 loop looks at the iterator's item and moves the front.
Migrates2 == priority[iter[currentThread]] >= L1Min

Loop2Skip ==
  /\ At("loop2") /\ iter[currentThread] # Nil /\ ~Migrates2
  /\ Advance(queue)
  /\ UNCHANGED <<status, priority, approx, accu, waited, pc, queue, currentThread,
                 toBeDestroyed, aborted>>

Loop2Move ==
  /\ At("loop2") /\ iter[currentThread] # Nil /\ Migrates2
  /\ queue[2] # <<>>
  /\ Migrate(2, 1, "cut2")
  /\ UNCHANGED <<priority, approx, accu, toBeDestroyed, aborted>>

Loop2Done ==
  /\ At("loop2") /\ iter[currentThread] = Nil
  /\ pc' = [pc EXCEPT ![currentThread] = "tail"]
  /\ UNCHANGED <<status, priority, approx, accu, waited, iter, queue,
                 currentThread, toBeDestroyed, aborted>>

\* List::RemoveFront of an empty list: ASSERT(!IsEmpty()) calls Abort.
RemoveFrontAborts ==
  /\ iter[currentThread] # Nil
  /\ \/ At("loop3") /\ queue[3] = <<>>
     \/ At("loop2") /\ Migrates2 /\ queue[2] = <<>>
  /\ aborted' = TRUE
  /\ UNCHANGED <<status, priority, approx, accu, waited, pc, iter, queue,
                 currentThread, toBeDestroyed>>

\* Only a thread of L3 gives up its time slice.
YieldSwitches ==
  /\ At("tail") /\ InWhichQueue(currentThread) = 3 /\ ~NoneReady(queue)
  /\ SwitchTo(queue, "cut")
  /\ UNCHANGED <<priority, approx, accu, toBeDestroyed, aborted>>

YieldReturns ==
  /\ At("tail") /\ (InWhichQueue(currentThread) < 3 \/ NoneReady(queue))
  /\ pc' = [pc EXCEPT ![currentThread] = "user"]
  /\ UNCHANGED <<status, priority, approx, accu, waited, iter, queue,
                 currentThread, toBeDestroyed, aborted>>

-----------------------------------------------------------------------------
(* The loop of Thread::Sleep, and the first code after a SWITCH.           *)

\* Scheduling() found a thread: Run(nextThread, finishing).  It may be the
\* sleeping thread itself, if a handler woke it while the machine idled.
SleepSwitches ==
  /\ At("sleep") \/ At("finish")
  /\ ~NoneReady(queue)
  /\ LET next == Picked(queue)
         me == currentThread
     IN  /\ queue' = Scheduling(queue)
         /\ status' = [status EXCEPT ![next] = "RUNNING"]
         /\ pc' = [pc EXCEPT ![me] = IF @ = "sleep" THEN "cut" ELSE "zombie"]
         /\ toBeDestroyed' = IF pc[me] = "finish" THEN me ELSE toBeDestroyed
         /\ iter' = Recycle(next, Freed)
         /\ currentThread' = next
  /\ UNCHANGED <<priority, approx, accu, waited, aborted>>

\* Scheduling() found none: Interrupt::Idle advances the clock and fires the
\* handlers that are due.
Idle ==
  /\ At("sleep") \/ At("finish")
  /\ NoneReady(queue)
  /\ pc' = [pc EXCEPT ![currentThread] = IF @ = "sleep" THEN "idle" ELSE "finIdle"]
  /\ UNCHANGED <<status, priority, approx, accu, waited, iter, queue,
                 currentThread, toBeDestroyed, aborted>>

\* Mutant of IdleReturns: Idle goes on although a handler made a thread ready.
IdleReturnsUnready ==
  /\ At("idle") \/ At("finIdle")
  /\ NoneReady(queue)
  /\ pc' = [pc EXCEPT ![currentThread] = IF @ = "idle" THEN "sleep" ELSE "finish"]
  /\ UNCHANGED <<status, priority, approx, accu, waited, iter, queue,
                 currentThread, toBeDestroyed, aborted>>

IdleReturns ==
  /\ At("idle") \/ At("finIdle")
  /\ pc' = [pc EXCEPT ![currentThread] = IF @ = "idle" THEN "sleep" ELSE "finish"]
  /\ UNCHANGED <<status, priority, approx, accu, waited, iter, queue,
                 currentThread, toBeDestroyed, aborted>>

\* CheckToBeDestroyed.  The members of a deleted thread no longer exist: 0.
Forget(member) == [t \in Threads |-> IF t = toBeDestroyed THEN 0 ELSE member[t]]

DestroyFinished ==
  /\ toBeDestroyed' = Nil
  /\ pc' = [t \in Threads |->
              IF t = toBeDestroyed THEN "deleted"
              ELSE IF t # currentThread THEN pc[t]
              ELSE CASE pc[t] = "cut3" -> "loop3"
                     [] pc[t] = "cut2" -> "loop2"
                     [] OTHER -> "user"]
  /\ priority' = Forget(priority) /\ approx' = Forget(approx)
  /\ accu' = Forget(accu) /\ waited' = Forget(waited)
  /\ UNCHANGED <<status, queue, currentThread, aborted>>

\* Mutant of Resume: Thread::Begin without CheckToBeDestroyed.
ResumeBeginsDirectly ==
  \/ At("cut") /\ DestroyFinished /\ UNCHANGED iter
  \/ /\ At("begin")
     /\ pc' = [pc EXCEPT ![currentThread] = "user"]
     /\ UNCHANGED <<status, priority, approx, accu, waited, iter, queue,
                    currentThread, toBeDestroyed, aborted>>

\* Thread::Begin of a new thread, or the return from Run at the end of Yield or
\* in Sleep.
Resume ==
  /\ At("begin") \/ At("cut")
  /\ DestroyFinished
  /\ UNCHANGED iter

\* The return from Run in Check_Preempt: the interrupted loop goes on with
\* iter->Next() on lists that have changed.
ResumeLoop ==
  /\ At("cut3") \/ At("cut2")
  /\ DestroyFinished
  /\ Advance(queue)

Next ==
  \/ \E t \in Threads : Fork(t) \/ WakeUp(t)
  \/ Tick \/ Yield \/ Sleep \/ Finish
  \/ Loop3 \/ Loop3Done \/ Loop2Skip \/ Loop2Move \/ Loop2Done \/ RemoveFrontAborts
  \/ YieldSwitches \/ YieldReturns
  \/ SleepSwitches \/ Idle \/ IdleReturns
  \/ Resume \/ ResumeLoop

Spec == Init /\ [][Next]_vars

-----------------------------------------------------------------------------
(* Properties.                                                             *)

\* Type invariant.
TypeOK ==
  /\ status \in [Threads -> Statuses]
  /\ priority \in [Threads -> Nat]
  /\ approx \in [Threads -> Bursts]
  /\ accu \in [Threads -> Nat]
  /\ waited \in [Threads -> Nat]
  /\ pc \in [Threads -> PCs]
  /\ iter \in [Threads -> Threads \cup {Nil, Freed}]
  /\ queue \in [Levels -> Seq(Threads)]
  /\ currentThread \in Threads
  /\ toBeDestroyed \in Threads \cup {Nil}
  /\ aborted \in BOOLEAN

\* Across all three lists a thread appears at most once.
OnceInLists(Q) ==
  /\ \A level \in Levels : NoRepeats(Q[level])
  /\ \A level, other \in Levels :
       level # other => InList(Q, level) \cap InList(Q, other) = {}

\* The ready lists hold exactly the READY threads, each once, wherever a switch
\* interrupted a migration; the RUNNING thread is the current one and in no list.
ReadyListsExact ==
  /\ OnceInLists(queue)
  /\ Queued(queue) = {t \in Threads : status[t] = "READY"}
  /\ \A t \in Threads : status[t] = "RUNNING" => t = currentThread

\* A finished thread is deleted by the very next code that runs: so Run's
\* ASSERT(toBeDestroyed == NULL) and ~Thread's ASSERT(this != currentThread)
\* never fail, and no list holds the carcass.
CarcassBuried ==
  toBeDestroyed # Nil =>
    /\ toBeDestroyed # currentThread
    /\ pc[toBeDestroyed] = "zombie"
    /\ pc[currentThread] \in SwitchedOut
    /\ toBeDestroyed \notin Queued(queue)

\* Where a thread is in the kernel's code and what its status says agree; with
\* the three invariants above this is inductive (SchedulerProofs).
InKernel == {"sleep", "idle", "finish", "finIdle"}
RunningPcs == {"user", "loop3", "loop2", "tail"}

PcMatchesStatus ==
  /\ \A t \in Threads :
       /\ pc[t] = "created" <=> status[t] = "JUST_CREATED"
       /\ pc[t] \in RunningPcs => status[t] = "RUNNING"
       /\ pc[t] \in {"begin", "cut3", "cut2"} => status[t] \in {"READY", "RUNNING"}
       /\ pc[t] \in InKernel => t = currentThread
       /\ pc[t] \in {"sleep", "idle"} => status[t] \in {"BLOCKED", "READY"}
       /\ pc[t] \in {"finish", "finIdle", "zombie", "deleted"} => status[t] = "BLOCKED"
       /\ pc[t] = "zombie" => t = toBeDestroyed
  /\ pc[currentThread] \in InKernel \/ status[currentThread] = "RUNNING"

IInv == TypeOK /\ ReadyListsExact /\ CarcassBuried /\ PcMatchesStatus

\* L1 stays sorted by approximated burst although aging and migration reach
\* into it: Scheduling picks the shortest job.
L1Sorted == SortedBy(queue[1], approx)

\* A running L1 thread loses the CPU only to a shorter job, a running L2 thread
\* only while a thread of L1's band is ready.
PreemptionJustified ==
  [][ currentThread' # currentThread /\ status'[currentThread] = "READY"
      /\ pc[currentThread] \notin Idling \cup {"sleep"}
      => LET mine == InWhichQueue(currentThread)
         IN  /\ mine = 1 => approx[currentThread'] < approx[currentThread]
             /\ mine = 2 => \E t \in Queued(queue) : InWhichQueue(t) = 1
    ]_vars

\* A thread that finished never runs again and is never made ready.
FinishedIsFinal ==
  [][ \A t \in Threads :
        pc[t] \in {"finish", "finIdle", "zombie", "deleted"}
          => status'[t] = "BLOCKED" /\ pc'[t] \in {"finish", "finIdle", "zombie", "deleted"}
    ]_vars

-----------------------------------------------------------------------------
(* The lives of the threads, as the abstract dispatcher has them.          *)

Life(t) ==
  CASE pc[t] \in {"finish", "finIdle", "zombie"} -> "finished"
    [] pc[t] = "deleted" -> "deleted"
    [] status[t] = "JUST_CREATED" -> "created"
    [] status[t] = "READY" -> "ready"
    [] status[t] = "RUNNING" -> "running"
    [] OTHER -> "blocked"

D == INSTANCE Dispatcher WITH life <- [t \in Threads |-> Life(t)], cpu <- currentThread

\* Every step of the scheduler is a step of the dispatcher's, or none: whatever
\* the loops, migrations and iterators do, a thread runs only when ready, keeps
\* its place while switched out, and dies once.
Dispatches == D!DSpec

-----------------------------------------------------------------------------
(* Liveness.  Interrupts are off between the steps of the kernel's own     *)
(* code, so nothing can hold it up: each of them is weakly fair.  Nothing  *)
(* is assumed of what a thread does, or of when interrupts come.           *)

KernelCode ==
  \/ Loop3 \/ Loop3Done \/ Loop2Skip \/ Loop2Move \/ Loop2Done \/ RemoveFrontAborts
  \/ YieldSwitches \/ YieldReturns \/ SleepSwitches \/ IdleReturns \/ Resume \/ ResumeLoop

FairSpec == Spec /\ WF_vars(KernelCode)

\* The CPU does not idle while a thread is ready: a thread woken by a handler
\* during Interrupt::Idle gets the machine.
IdleEnds ==
  (~NoneReady(queue) /\ pc[currentThread] \in Idling \cup {"sleep", "finish"})
    ~> status[currentThread] = "RUNNING"

\* The carcass of a finished thread is deleted, whatever thread runs next.
CarcassDeleted == \A t \in Threads : (pc[t] = "zombie") ~> (pc[t] = "deleted")

-----------------------------------------------------------------------------
(* What the comments and assertions of the code say and the code does not  *)
(* keep.                                                                   *)

\* List::RemoveFront is never called on an empty list (its ASSERT, list.cc:130).
RemoveFrontNeverAborts == ~aborted
===============================================================================
