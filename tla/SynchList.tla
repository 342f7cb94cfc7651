------------------------------- MODULE SynchList -------------------------------
(***************************************************************************)
(* The monitor of threads/synchlist.cc: a list under a Lock, with a        *)
(* Condition for "the list is empty".  Lock and Condition (threads/        *)
(* synch.cc) are themselves made of semaphores: a lock's semaphore of      *)
(* initial value 1, and a new semaphore for each thread that waits.        *)
(*                                                                         *)
(* A thread may lose the CPU between any two statements; a step is one     *)
(* statement that reads or writes shared state, and each P and V is one    *)
(* step (Semaphore.tla).                                                   *)
(*                                                                         *)
(* The waiter semaphore of a thread is named by the thread: it has at most *)
(* one at a time.                                                          *)
(***************************************************************************)
EXTENDS Semaphore

CONSTANTS
  Nil,      \* a NULL pointer
  Mutex,    \* the semaphore of the lock
  Items,    \* the objects that are appended
  MaxCalls  \* bound: the calls each thread makes

ASSUME NamesAssumption ==
  /\ Nil \notin Threads /\ Mutex \notin Threads /\ Nil \notin Items
ASSUME SemsAssumption == Sems = Threads \cup {Mutex}
ASSUME MaxCallsAssumption == MaxCalls \in Nat
ASSUME ThreadsAssumption == IsFiniteSet(Threads)

VARIABLES
  lockHolder, \* Lock::lockHolder
  waitQueue,  \* Condition::waitQueue
  waiter,     \* whether the thread's waiter semaphore exists
  list,       \* SynchList::list
  pc,         \* the next statement of each thread
  op,         \* the call a thread is in
  item,       \* its argument, or what it removed
  signalled,  \* Signal's local: the thread whose semaphore it will V
  calls       \* calls made, for MaxCalls

vars == <<value, queue, lockHolder, waitQueue, waiter, list, pc, op, item,
          signalled, calls>>

PCs == {"idle", "acquire", "own", "put", "signal", "wake", "test", "wait",
        "waitV", "sleep", "take", "release", "releaseV"}

\* Between the P of Acquire and the V of Release.
InsidePcs == {"own", "put", "signal", "wake", "test", "wait", "waitV", "take",
              "release", "releaseV"}
Inside(t) == pc[t] \in InsidePcs

Init ==
  /\ value = [s \in Sems |-> IF s = Mutex THEN 1 ELSE 0]
  /\ queue = [s \in Sems |-> <<>>]
  /\ lockHolder = Nil
  /\ waitQueue = <<>>
  /\ waiter = [t \in Threads |-> FALSE]
  /\ list = <<>>
  /\ pc = [t \in Threads |-> "idle"]
  /\ op = [t \in Threads |-> "none"]
  /\ item = [t \in Threads |-> Nil]
  /\ signalled = [t \in Threads |-> Nil]
  /\ calls = [t \in Threads |-> 0]

At(t, label) == pc[t] = label /\ ~Asleep(t)
Go(t, label) == pc' = [pc EXCEPT ![t] = label]

-----------------------------------------------------------------------------
(* The callers.  An object is in one place: List::Append asserts that it   *)
(* is not in the list already.                                             *)

InUse == Range(list) \cup {item[t] : t \in Threads}

Call(t, which, x) ==
  /\ At(t, "idle") /\ calls[t] < MaxCalls
  /\ calls' = [calls EXCEPT ![t] = @ + 1]
  /\ op' = [op EXCEPT ![t] = which]
  /\ item' = [item EXCEPT ![t] = x]
  /\ Go(t, "acquire")
  /\ UNCHANGED <<value, queue, lockHolder, waitQueue, waiter, list, signalled>>

CallAppend(t) == \E x \in Items \ InUse : Call(t, "append", x)
CallRemoveFront(t) == Call(t, "remove", Nil)

-----------------------------------------------------------------------------
(* Lock::Acquire and Lock::Release.                                        *)

AcquireSleeps(t) ==
  /\ At(t, "acquire")
  /\ PSleeps(t, Mutex)
  /\ UNCHANGED <<lockHolder, waitQueue, waiter, list, pc, op, item, signalled, calls>>

AcquireTakes(t) ==
  /\ At(t, "acquire")
  /\ PTakes(Mutex)
  /\ Go(t, "own")
  /\ UNCHANGED <<lockHolder, waitQueue, waiter, list, op, item, signalled, calls>>

\* The end of Acquire, and of Wait when it was called there: delete waiter.
Own(t) ==
  /\ At(t, "own")
  /\ lockHolder' = t
  /\ waiter' = [waiter EXCEPT ![t] = FALSE]
  /\ Go(t, IF op[t] = "append" THEN "put" ELSE "test")
  /\ UNCHANGED <<value, queue, waitQueue, list, op, item, signalled, calls>>

Release(t) ==
  /\ At(t, "release") /\ lockHolder = t
  /\ lockHolder' = Nil
  /\ Go(t, "releaseV")
  /\ UNCHANGED <<value, queue, waitQueue, waiter, list, op, item, signalled, calls>>

\* The V of Release, and the return of the call.
ReleaseV(t) ==
  /\ At(t, "releaseV")
  /\ V(Mutex)
  /\ op' = [op EXCEPT ![t] = "none"]
  /\ item' = [item EXCEPT ![t] = Nil]
  /\ Go(t, "idle")
  /\ UNCHANGED <<lockHolder, waitQueue, waiter, list, signalled, calls>>

-----------------------------------------------------------------------------
(* SynchList::Append with Condition::Signal.                               *)

Put(t) ==
  /\ At(t, "put")
  /\ list' = Append(list, item[t])
  /\ Go(t, "signal")
  /\ UNCHANGED <<value, queue, lockHolder, waitQueue, waiter, op, item, signalled, calls>>

SignalNobody(t) ==
  /\ At(t, "signal") /\ lockHolder = t /\ waitQueue = <<>>
  /\ Go(t, "release")
  /\ UNCHANGED <<value, queue, lockHolder, waitQueue, waiter, list, op, item,
                 signalled, calls>>

Signal(t) ==
  /\ At(t, "signal") /\ lockHolder = t /\ waitQueue # <<>>
  /\ signalled' = [signalled EXCEPT ![t] = Head(waitQueue)]
  /\ waitQueue' = Tail(waitQueue)
  /\ Go(t, "wake")
  /\ UNCHANGED <<value, queue, lockHolder, waiter, list, op, item, calls>>

\* Mutant of Wake: a signal for a thread that is not yet asleep is dropped.
WakeSleepersOnly(t) ==
  /\ At(t, "wake")
  /\ IF Asleep(signalled[t]) THEN V(signalled[t]) ELSE UNCHANGED semVars
  /\ signalled' = [signalled EXCEPT ![t] = Nil]
  /\ Go(t, "release")
  /\ UNCHANGED <<lockHolder, waitQueue, waiter, list, op, item, calls>>

\* waiter->V().
Wake(t) ==
  /\ At(t, "wake")
  /\ V(signalled[t])
  /\ signalled' = [signalled EXCEPT ![t] = Nil]
  /\ Go(t, "release")
  /\ UNCHANGED <<lockHolder, waitQueue, waiter, list, op, item, calls>>

-----------------------------------------------------------------------------
(* SynchList::RemoveFront with Condition::Wait.                            *)

TestFull(t) ==
  /\ At(t, "test") /\ list # <<>>
  /\ Go(t, "take")
  /\ UNCHANGED <<value, queue, lockHolder, waitQueue, waiter, list, op, item,
                 signalled, calls>>

\* The list is empty: Wait makes a waiter and queues it.
TestEmpty(t) ==
  /\ At(t, "test") /\ list = <<>> /\ lockHolder = t
  /\ waiter' = [waiter EXCEPT ![t] = TRUE]
  /\ value' = [value EXCEPT ![t] = 0]
  /\ waitQueue' = Append(waitQueue, t)
  /\ Go(t, "wait")
  /\ UNCHANGED <<queue, lockHolder, list, op, item, signalled, calls>>

WaitReleases(t) ==
  /\ At(t, "wait") /\ lockHolder = t
  /\ lockHolder' = Nil
  /\ Go(t, "waitV")
  /\ UNCHANGED <<value, queue, waitQueue, waiter, list, op, item, signalled, calls>>

WaitV(t) ==
  /\ At(t, "waitV")
  /\ V(Mutex)
  /\ Go(t, "sleep")
  /\ UNCHANGED <<lockHolder, waitQueue, waiter, list, op, item, signalled, calls>>

\* waiter->P().
WaitSleeps(t) ==
  /\ At(t, "sleep")
  /\ PSleeps(t, t)
  /\ UNCHANGED <<lockHolder, waitQueue, waiter, list, pc, op, item, signalled, calls>>

\* The signal is there: Wait acquires the lock again.
WaitWakes(t) ==
  /\ At(t, "sleep")
  /\ PTakes(t)
  /\ Go(t, "acquire")
  /\ UNCHANGED <<lockHolder, waitQueue, waiter, list, op, item, signalled, calls>>

\* Mutant of Take: Front() in the place of RemoveFront().
TakeLeaves(t) ==
  /\ At(t, "take")
  /\ item' = [item EXCEPT ![t] = Head(list)]
  /\ Go(t, "release")
  /\ UNCHANGED <<value, queue, lockHolder, waitQueue, waiter, list, op, signalled, calls>>

Take(t) ==
  /\ At(t, "take")
  /\ item' = [item EXCEPT ![t] = Head(list)]
  /\ list' = Tail(list)
  /\ Go(t, "release")
  /\ UNCHANGED <<value, queue, lockHolder, waitQueue, waiter, op, signalled, calls>>

-----------------------------------------------------------------------------
Step(t) ==
  \/ AcquireSleeps(t) \/ AcquireTakes(t) \/ Own(t) \/ Release(t) \/ ReleaseV(t)
  \/ Put(t) \/ SignalNobody(t) \/ Signal(t) \/ Wake(t)
  \/ TestFull(t) \/ TestEmpty(t) \/ WaitReleases(t) \/ WaitV(t)
  \/ WaitSleeps(t) \/ WaitWakes(t) \/ Take(t)

Next == \E t \in Threads : CallAppend(t) \/ CallRemoveFront(t) \/ Step(t)

Spec == Init /\ [][Next]_vars

-----------------------------------------------------------------------------
(* Properties.                                                             *)

TypeOK ==
  /\ SemTypeOK
  /\ lockHolder \in Threads \cup {Nil}
  /\ waitQueue \in Seq(Threads)
  /\ waiter \in [Threads -> BOOLEAN]
  /\ list \in Seq(Items)
  /\ pc \in [Threads -> PCs]
  /\ op \in [Threads -> {"none", "append", "remove"}]
  /\ item \in [Threads -> Items \cup {Nil}]
  /\ signalled \in [Threads -> Threads \cup {Nil}]
  /\ calls \in [Threads -> 0..MaxCalls]

\* Lock: one thread at most is between Acquire and Release, a free lock has the
\* value 1, and lockHolder, which the ASSERTs of Release, Signal and Wait test,
\* names the thread inside whenever one of them tests it.
MutualExclusion ==
  /\ \A t, u \in Threads : Inside(t) /\ Inside(u) => t = u
  /\ value[Mutex] = 1 <=> \A t \in Threads : ~Inside(t)
  /\ \A t \in Threads : pc[t] \in {"signal", "test", "wait", "release"} => lockHolder = t

\* The ASSERT of List::RemoveFront: a thread that found the list not empty
\* finds it so when it removes, whatever ran in between.
NeverRemovesFromEmpty == \A t \in Threads : pc[t] = "take" => list # <<>>

\* No wakeup is lost in P: as long as threads sleep in a semaphore's queue, each
\* unit of its value is matched by a thread that is awake and about to test it.
Testing(s) ==
  {t \in Threads : pc[t] = (IF s = Mutex THEN "acquire" ELSE "sleep")
                   /\ (s = Mutex \/ s = t) /\ ~Asleep(t)}
WakeupsMatched ==
  \A s \in Sems : queue[s] # <<>> => value[s] <= Cardinality(Testing(s))

\* "There is no chance the waiter will miss the signal" (synch.cc, Wait): a
\* thread in Wait is in the condition's queue, or about to be signalled by one
\* thread, or has one signal in its semaphore; and it is in one of these only.
InWait(t) == pc[t] \in {"wait", "waitV", "sleep"}
InQueue(t) == t \in Range(waitQueue)
BeingSignalled(t) == \E u \in Threads : signalled[u] = t

SignalsAccounted ==
  /\ IsInjective(waitQueue)
  /\ \A t, u \in Threads : signalled[t] = signalled[u] /\ t # u => signalled[t] = Nil
  /\ \A t \in Threads :
       /\ value[t] \in {0, 1}
       /\ InWait(t) <=> InQueue(t) \/ BeingSignalled(t) \/ value[t] = 1
       /\ ~(InQueue(t) /\ BeingSignalled(t))
       /\ InQueue(t) \/ BeingSignalled(t) => value[t] = 0

\* No pointer to a deleted waiter: Condition::Wait deletes its semaphore while
\* neither the queue nor a Signal in progress knows it.
WaitersAlive ==
  \A t \in Threads : InQueue(t) \/ BeingSignalled(t) => waiter[t]

\* The call a thread is in agrees with its next statement; with the invariants
\* above this is inductive (SynchListProofs).
CallMatchesPc ==
  /\ value[Mutex] \in {0, 1}
  /\ \A t \in Threads :
       /\ pc[t] = "idle" <=> op[t] = "none"
       /\ op[t] = "none" => item[t] = Nil
       /\ op[t] = "append" => item[t] \in Items
       /\ pc[t] \in {"put", "signal", "wake"} => op[t] = "append"
       /\ pc[t] \in {"test", "take"} \/ InWait(t) => op[t] = "remove"
       /\ InWait(t) => waiter[t]
       /\ pc[t] = "wake" <=> signalled[t] # Nil
       /\ pc[t] \in {"put", "wake", "take"} => lockHolder = t

IInv ==
  /\ TypeOK /\ MutualExclusion /\ NeverRemovesFromEmpty /\ SignalsAccounted
  /\ WaitersAlive /\ CallMatchesPc

-----------------------------------------------------------------------------
(* The blocking queue SynchList implements: a call has taken effect once   *)
(* its thread has changed the list.                                        *)

Done(t) ==
  pc[t] \in IF op[t] = "append" THEN {"signal", "wake", "release", "releaseV"}
                               ELSE {"release", "releaseV"}

Invocations == [t \in Threads |-> [op |-> op[t], item |-> item[t], done |-> Done(t)]]

B == INSTANCE BlockingQueue WITH buffer <- list, call <- Invocations

\* SynchList implements the blocking queue.
Implements == B!BSpec

-----------------------------------------------------------------------------
(* Liveness, for a scheduler that runs each ready thread again: the FIFO   *)
(* ready list of MP4 with the timer.  (L3 of MP3 is not fair: a yield      *)
(* rotates it before it takes its front.)                                  *)

FairSpec == Spec /\ \A t \in Threads : WF_vars(Step(t))

\* An item does not stay in the list while a thread waits for one.
ItemsDelivered ==
  (list # <<>> /\ \E t \in Threads : op[t] = "remove" /\ ~Done(t))
    ~> (list = <<>> \/ \A t \in Threads : op[t] # "remove" \/ Done(t))

\* Each Append returns.
AppendsReturn == \A t \in Threads : (op[t] = "append") ~> (op[t] = "none")
===============================================================================
