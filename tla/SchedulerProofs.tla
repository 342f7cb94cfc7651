---------------------------- MODULE SchedulerProofs ----------------------------
(***************************************************************************)
(* Proofs about Scheduler for any number of threads, any priorities and    *)
(* any aging constants.  The inductive invariant is IInv: the lists hold   *)
(* exactly the READY threads, and each thread's status agrees with where   *)
(* it is in the kernel's code.  The second half is what makes the first    *)
(* inductive: it says that what Scheduling picks is switched out.          *)
(***************************************************************************)
EXTENDS Scheduler, NachosListProofs

ListsOK(Q) == Q \in [Levels -> Seq(Threads)] /\ OnceInLists(Q)

-----------------------------------------------------------------------------
(* The operations on the three lists.                                      *)

\* A thread that is in no list gets into one of them.
LEMMA EnqueueAdds ==
  ASSUME NEW Q, ListsOK(Q), NEW t \in Threads, t \notin Queued(Q), NEW level \in Levels
  PROVE  /\ ListsOK(Enqueue(Q, t, level))
         /\ Queued(Enqueue(Q, t, level)) = Queued(Q) \cup {t}
<1> DEFINE q == Q[level]
           r == IF level = 3 THEN Append(q, t) ELSE SortedInsert(q, t, Key(level))
<1>1. /\ q \in Seq(Threads) /\ NoRepeats(q) /\ t \notin Range(q)
  BY DEF ListsOK, OnceInLists, Queued, InList
<1>2. /\ r \in Seq(Threads) /\ NoRepeats(r) /\ Range(r) = Range(q) \cup {t}
  <2>1. CASE level = 3
    BY <1>1, <2>1, AppendAdds
  <2>2. CASE level # 3
    BY <1>1, <2>2, SortedInsertAdds
  <2> QED BY <2>1, <2>2
<1>3. Enqueue(Q, t, level) = [Q EXCEPT ![level] = r]
  BY DEF Enqueue
<1> HIDE DEF q, r
<1>4. /\ Enqueue(Q, t, level) \in [Levels -> Seq(Threads)]
      /\ Enqueue(Q, t, level)[level] = r
      /\ \A other \in Levels : other # level => Enqueue(Q, t, level)[other] = Q[other]
  BY <1>2, <1>3 DEF ListsOK
<1>5. \A other \in Levels : InList(Enqueue(Q, t, level), other) =
        IF other = level THEN InList(Q, other) \cup {t} ELSE InList(Q, other)
  BY <1>2, <1>4 DEF InList, q
<1>6. OnceInLists(Enqueue(Q, t, level))
  <2>1. \A other \in Levels : NoRepeats(Enqueue(Q, t, level)[other])
    BY <1>2, <1>4 DEF ListsOK, OnceInLists
  <2>2. \A other \in Levels : t \notin InList(Q, other)
    BY DEF Queued
  <2>3. \A l, m \in Levels : l # m => InList(Q, l) \cap InList(Q, m) = {}
    BY DEF ListsOK, OnceInLists
  <2>4. \A l, m \in Levels : l # m =>
          InList(Enqueue(Q, t, level), l) \cap InList(Enqueue(Q, t, level), m) = {}
    BY <1>5, <2>2, <2>3
  <2> QED BY <2>1, <2>4 DEF OnceInLists
<1>7. Queued(Enqueue(Q, t, level)) = Queued(Q) \cup {t}
  BY <1>5 DEF Queued
<1> QED BY <1>4, <1>6, <1>7 DEF ListsOK

\* The front of a list leaves it.
LEMMA RemoveFrontRemoves ==
  ASSUME NEW Q, ListsOK(Q), NEW level \in Levels, Q[level] # <<>>
  PROVE  /\ ListsOK(RemoveFront(Q, level))
         /\ Head(Q[level]) \in Queued(Q) /\ Head(Q[level]) \in Threads
         /\ Queued(RemoveFront(Q, level)) = Queued(Q) \ {Head(Q[level])}
<1> DEFINE q == Q[level]
           r == Tail(q)
<1>1. /\ q \in Seq(Threads) /\ NoRepeats(q) /\ q # <<>>
  BY DEF ListsOK, OnceInLists
<1>2. /\ r \in Seq(Threads) /\ NoRepeats(r) /\ Range(r) = Range(q) \ {Head(q)}
      /\ Head(q) \in Range(q) /\ Head(q) \in Threads
  BY <1>1, TailRemoves, HeadTailProperties
<1>3. RemoveFront(Q, level) = [Q EXCEPT ![level] = r]
  BY DEF RemoveFront
<1> HIDE DEF r
<1>4. /\ RemoveFront(Q, level) \in [Levels -> Seq(Threads)]
      /\ RemoveFront(Q, level)[level] = r
      /\ \A other \in Levels : other # level => RemoveFront(Q, level)[other] = Q[other]
  BY <1>2, <1>3 DEF ListsOK
<1>5. \A other \in Levels : InList(RemoveFront(Q, level), other) =
        IF other = level THEN InList(Q, other) \ {Head(q)} ELSE InList(Q, other)
  BY <1>2, <1>4 DEF InList
<1>6. \A other \in Levels : other # level => Head(q) \notin InList(Q, other)
  BY <1>2 DEF ListsOK, OnceInLists, InList
<1>7. OnceInLists(RemoveFront(Q, level))
  BY <1>2, <1>4, <1>5 DEF ListsOK, OnceInLists
<1>8. Queued(RemoveFront(Q, level)) = Queued(Q) \ {Head(q)}
  BY <1>5, <1>6 DEF Queued
<1>9. Head(q) \in Queued(Q)
  BY <1>2 DEF Queued, InList
<1> QED BY <1>2, <1>4, <1>7, <1>8, <1>9 DEF ListsOK

\* Scheduling takes the thread it picks out of the lists.
LEMMA SchedulingRemoves ==
  ASSUME NEW Q, ListsOK(Q), ~NoneReady(Q)
  PROVE  /\ Picked(Q) \in Queued(Q) /\ Picked(Q) \in Threads
         /\ ListsOK(Scheduling(Q))
         /\ Queued(Scheduling(Q)) = Queued(Q) \ {Picked(Q)}
<1>1. TopLevel(Q) \in Levels /\ Q[TopLevel(Q)] # <<>>
  BY DEF NoneReady, TopLevel, Levels
<1> QED BY <1>1, RemoveFrontRemoves DEF Picked, Scheduling

\* A migration leaves the set of ready threads as it was.
LEMMA MigrationKeeps ==
  ASSUME NEW Q, ListsOK(Q), NEW from \in Levels, NEW to \in Levels, Q[from] # <<>>
  PROVE  LET R == Enqueue(RemoveFront(Q, from), Head(Q[from]), to)
         IN  ListsOK(R) /\ Queued(R) = Queued(Q) /\ ~NoneReady(R)
<1> DEFINE front == Head(Q[from])
           P == RemoveFront(Q, from)
           R == Enqueue(P, front, to)
<1>1. /\ ListsOK(P) /\ front \in Queued(Q) /\ front \in Threads
      /\ Queued(P) = Queued(Q) \ {front}
  BY RemoveFrontRemoves
<1> HIDE DEF P, front
<1>2. ListsOK(R) /\ Queued(R) = Queued(P) \cup {front}
  BY <1>1, EnqueueAdds
<1> HIDE DEF R
<1>3. Queued(R) = Queued(Q) /\ front \in Queued(R)
  BY <1>1, <1>2
<1>4. ~NoneReady(R)
  <2> SUFFICES ASSUME NoneReady(R) PROVE FALSE
    OBVIOUS
  <2>1. \A level \in Levels : InList(R, level) = {}
    BY DEF NoneReady, InList, Range
  <2> QED BY <1>3, <2>1 DEF Queued
<1> QED BY <1>2, <1>3, <1>4 DEF P, R, front

LEMMA LevelOfThread == \A t \in Threads : InWhichQueue(t) \in Levels
BY DEF InWhichQueue, Levels

\* An iterator steps to a thread or to the end.
LEMMA AdvanceTyped ==
  ASSUME NEW Q, ListsOK(Q), NEW e
  PROVE  NextElements(Q, e) \subseteq Threads \cup {Nil}
<1>1. \A level \in Levels : Q[level] \in Seq(Threads)
  BY DEF ListsOK
<1>2. \A level \in Levels : ListNext(Q[level], e) \subseteq Threads
  BY <1>1 DEF ListNext
<1>3. \A level \in Levels : InList(Q, level) \subseteq Threads
  BY <1>1 DEF InList, Range
<1> QED BY <1>2, <1>3 DEF NextElements, Queued

-----------------------------------------------------------------------------
(* The inductive invariant.                                                *)

\* The lists are well formed and hold the READY threads.
LEMMA ReadyThreads ==
  ASSUME IInv
  PROVE  /\ ListsOK(queue)
         /\ \A t \in Threads : t \in Queued(queue) <=> status[t] = "READY"
         /\ Queued(queue) \subseteq Threads
BY DEF IInv, TypeOK, ReadyListsExact, ListsOK

\* A READY thread that does not have the CPU is switched out.
LEMMA ReadyIsSwitchedOut ==
  ASSUME IInv, NEW t \in Threads, status[t] = "READY", t # currentThread
  PROVE  pc[t] \in SwitchedOut
<1>1. pc[t] \in PCs
  BY DEF IInv, TypeOK
<1> QED BY <1>1 DEF IInv, PcMatchesStatus, PCs, SwitchedOut, Idling, InKernel, RunningPcs

\* While the current thread is not fresh from a switch, nothing is to be destroyed.
LEMMA NothingToDestroy ==
  ASSUME IInv, pc[currentThread] \notin SwitchedOut
  PROVE  /\ toBeDestroyed = Nil
         /\ \A t \in Threads : pc[t] # "zombie"
BY NilAssumption DEF IInv, CarcassBuried, PcMatchesStatus

THEOREM InitIInv == Init => IInv
<1> SUFFICES ASSUME Init PROVE IInv
  OBVIOUS
<1> USE MainAssumption, NilAssumption, PrioritiesAssumption
<1>1. TypeOK
  <2>1. priority \in [Threads -> Nat]
    BY DEF Init
  <2>2. status \in [Threads -> Statuses] /\ pc \in [Threads -> PCs]
    BY DEF Init, Statuses, PCs
  <2>3. queue \in [Levels -> Seq(Threads)]
    BY DEF Init
  <2>4. approx \in [Threads -> Bursts] /\ accu \in [Threads -> Nat] /\ waited \in [Threads -> Nat]
    BY DEF Init
  <2>5. /\ iter \in [Threads -> Threads \cup {Nil, Freed}] /\ currentThread \in Threads
        /\ toBeDestroyed \in Threads \cup {Nil} /\ aborted \in BOOLEAN
    BY DEF Init
  <2> QED BY <2>1, <2>2, <2>3, <2>4, <2>5 DEF TypeOK
<1>2. \A level \in Levels : InList(queue, level) = {} /\ NoRepeats(queue[level])
  BY DEF Init, InList, Range, NoRepeats, IsInjective
<1>3. ReadyListsExact
  <2>1. Queued(queue) = {}
    BY <1>2 DEF Queued
  <2>2. OnceInLists(queue)
    BY <1>2 DEF OnceInLists
  <2> QED BY <2>1, <2>2 DEF Init, ReadyListsExact
<1>4. CarcassBuried
  BY DEF Init, CarcassBuried
<1>5. PcMatchesStatus
  BY DEF Init, PcMatchesStatus, InKernel, RunningPcs
<1> QED BY <1>1, <1>3, <1>4, <1>5 DEF IInv

\* MakeReady of a thread that was neither READY nor RUNNING.
LEMMA MakeReadyKeeps ==
  ASSUME IInv, NEW t \in Threads, MakeReady(t), UNCHANGED currentThread,
         status[t] \in {"JUST_CREATED", "BLOCKED"}
  PROVE  /\ queue' \in [Levels -> Seq(Threads)]
         /\ status' \in [Threads -> Statuses]
         /\ waited' \in [Threads -> Nat]
         /\ ReadyListsExact'
<1>1. ListsOK(queue) /\ t \notin Queued(queue)
  BY ReadyThreads
<1>2. ListsOK(queue') /\ Queued(queue') = Queued(queue) \cup {t}
  BY <1>1, EnqueueAdds, LevelOfThread DEF MakeReady, AddToQueue
<1>3. /\ status' = [status EXCEPT ![t] = "READY"]
      /\ waited' = [waited EXCEPT ![t] = 0]
      /\ status \in [Threads -> Statuses] /\ waited \in [Threads -> Nat]
  BY DEF MakeReady, IInv, TypeOK
<1>4. status' \in [Threads -> Statuses] /\ waited' \in [Threads -> Nat]
  BY <1>3 DEF Statuses
<1>5. Queued(queue') = {u \in Threads : status'[u] = "READY"}
  BY <1>2, <1>3, ReadyThreads
<1>6. \A u \in Threads : status'[u] = "RUNNING" => u = currentThread'
  BY <1>3 DEF IInv, ReadyListsExact
<1> QED BY <1>2, <1>4, <1>5, <1>6 DEF ReadyListsExact, ListsOK, OnceInLists, Queued, InList

-----------------------------------------------------------------------------
(* Each action keeps the invariant.                                        *)

LEMMA ForkKeeps ==
  ASSUME IInv, NEW t \in Threads, Fork(t)
  PROVE  IInv'
<1> USE DEF Fork, At
<1>1. status[t] = "JUST_CREATED" /\ t # currentThread
  BY DEF IInv, PcMatchesStatus
<1>2. ReadyListsExact' /\ TypeOK'
  BY <1>1, MakeReadyKeeps DEF IInv, TypeOK, PCs, SwitchedOut
<1>3. toBeDestroyed = Nil /\ \A u \in Threads : pc[u] # "zombie"
  BY NothingToDestroy DEF SwitchedOut
<1>4. CarcassBuried'
  BY <1>3 DEF CarcassBuried
<1>5. PcMatchesStatus'
  BY <1>1, <1>3 DEF IInv, TypeOK, PcMatchesStatus, MakeReady, InKernel, RunningPcs
<1> QED BY <1>2, <1>4, <1>5 DEF IInv

LEMMA WakeUpKeeps ==
  ASSUME IInv, NEW t \in Threads, WakeUp(t)
  PROVE  IInv'
<1> USE DEF WakeUp
<1>1. ReadyListsExact' /\ TypeOK'
  BY MakeReadyKeeps DEF IInv, TypeOK
<1>2. toBeDestroyed = Nil /\ \A u \in Threads : pc[u] # "zombie"
  BY NothingToDestroy DEF SwitchedOut, Idling
<1>3. CarcassBuried'
  BY <1>2 DEF CarcassBuried
<1>4. PcMatchesStatus'
  BY <1>2 DEF IInv, TypeOK, PcMatchesStatus, MakeReady, InKernel, RunningPcs, Idling
<1> QED BY <1>1, <1>3, <1>4 DEF IInv

\* Steps that leave the lists, the statuses and the CPU alone, and move the
\* current thread between labels that go with the same statuses.
LEMMA LabelChangeKeeps ==
  ASSUME IInv, NEW label \in PCs,
         UNCHANGED <<status, queue, currentThread, toBeDestroyed>>,
         pc' = [pc EXCEPT ![currentThread] = label],
         \/ pc[currentThread] \in RunningPcs /\ label \in RunningPcs
         \/ pc[currentThread] \in {"sleep", "idle"} /\ label \in {"sleep", "idle"}
         \/ pc[currentThread] \in {"finish", "finIdle"} /\ label \in {"finish", "finIdle"}
  PROVE  ReadyListsExact' /\ CarcassBuried' /\ PcMatchesStatus' /\ pc' \in [Threads -> PCs]
<1>1. toBeDestroyed = Nil /\ \A u \in Threads : pc[u] # "zombie"
  BY NothingToDestroy DEF SwitchedOut, RunningPcs
<1>2. pc \in [Threads -> PCs] /\ currentThread \in Threads
  BY DEF IInv, TypeOK
<1>3. ReadyListsExact'
  BY DEF IInv, ReadyListsExact, OnceInLists, Queued, InList
<1>4. CarcassBuried'
  BY <1>1 DEF CarcassBuried
<1>5. PcMatchesStatus'
  BY <1>1, <1>2 DEF IInv, PcMatchesStatus, InKernel, RunningPcs
<1> QED BY <1>2, <1>3, <1>4, <1>5

\* Aging computes natural numbers.
LEMMA AgingTyped ==
  ASSUME IInv, Aging
  PROVE  /\ priority' \in [Threads -> Nat] /\ accu' \in [Threads -> Nat]
         /\ waited' \in [Threads -> Nat]
<1>1. \A t \in Threads : priority[t] \in Nat /\ accu[t] \in Nat /\ waited[t] \in Nat
  BY DEF IInv, TypeOK
<1>2. \A t \in Threads : AgedPriority(t) \in Nat
  BY <1>1, PrioritiesAssumption DEF AgedPriority
<1>3. \A t \in Threads : accu[t] + waited[t] - (IF Aged(t) THEN AgeTicks ELSE 0) \in Nat
  BY <1>1, PrioritiesAssumption DEF Aged
<1> QED BY <1>1, <1>2, <1>3 DEF Aging

LEMMA TickKeeps ==
  ASSUME IInv, Tick
  PROVE  IInv'
<1>1. TypeOK'
  BY DEF Tick, IInv, TypeOK
<1> QED BY <1>1 DEF Tick, IInv, ReadyListsExact, OnceInLists, Queued, InList,
                    CarcassBuried, PcMatchesStatus

\* Where an iterator starts.
LEMMA FirstElementTyped ==
  ASSUME IInv, NEW level \in Levels
  PROVE  FirstElement(queue, level) \in Threads \cup {Nil, Freed}
<1>1. queue[level] \in Seq(Threads)
  BY DEF IInv, TypeOK
<1> QED BY <1>1, HeadTailProperties DEF FirstElement

LEMMA YieldKeeps ==
  ASSUME IInv, Yield
  PROVE  IInv'
<1> USE DEF Yield, At
<1>1. ReadyListsExact' /\ CarcassBuried' /\ PcMatchesStatus' /\ pc' \in [Threads -> PCs]
  BY LabelChangeKeeps DEF RunningPcs, PCs
<1>2. FirstElement(queue, 3) \in Threads \cup {Nil, Freed}
  BY FirstElementTyped DEF Levels
<1>3. TypeOK'
  BY <1>1, <1>2, AgingTyped DEF IInv, TypeOK
<1> QED BY <1>1, <1>3 DEF IInv

\* Steps that move the current thread on and maybe its iterator.
LEMMA LoopStepsKeep ==
  ASSUME IInv, Loop3Done \/ Loop2Skip \/ Loop2Done \/ YieldReturns \/ Idle \/ IdleReturns
  PROVE  IInv'
<1>1. CASE Loop3Done
  <2> USE <1>1 DEF Loop3Done, At
  <2>1. ReadyListsExact' /\ CarcassBuried' /\ PcMatchesStatus' /\ pc' \in [Threads -> PCs]
    BY LabelChangeKeeps DEF RunningPcs, PCs
  <2>2. FirstElement(queue, 2) \in Threads \cup {Nil, Freed}
    BY FirstElementTyped DEF Levels
  <2> QED BY <2>1, <2>2 DEF IInv, TypeOK
<1>2. CASE Loop2Skip
  <2> USE <1>2 DEF Loop2Skip
  <2>1. NextElements(queue, iter[currentThread]) \subseteq Threads \cup {Nil}
    BY ReadyThreads, AdvanceTyped
  <2>2. iter' \in [Threads -> Threads \cup {Nil, Freed}]
    BY <2>1 DEF Advance, IInv, TypeOK
  <2> QED BY <2>2 DEF IInv, TypeOK, ReadyListsExact, OnceInLists, Queued, InList,
                      CarcassBuried, PcMatchesStatus
<1>3. CASE Loop2Done
  <2> USE <1>3 DEF Loop2Done, At
  <2>1. ReadyListsExact' /\ CarcassBuried' /\ PcMatchesStatus' /\ pc' \in [Threads -> PCs]
    BY LabelChangeKeeps DEF RunningPcs, PCs
  <2> QED BY <2>1 DEF IInv, TypeOK
<1>4. CASE YieldReturns
  <2> USE <1>4 DEF YieldReturns, At
  <2>1. ReadyListsExact' /\ CarcassBuried' /\ PcMatchesStatus' /\ pc' \in [Threads -> PCs]
    BY LabelChangeKeeps DEF RunningPcs, PCs
  <2> QED BY <2>1 DEF IInv, TypeOK
<1>5. CASE Idle
  <2> USE <1>5 DEF Idle, At
  <2> DEFINE label == IF pc[currentThread] = "sleep" THEN "idle" ELSE "finIdle"
  <2>1. pc' = [pc EXCEPT ![currentThread] = label] /\ label \in PCs
    BY DEF IInv, TypeOK, PCs, Idling
  <2>2. ReadyListsExact' /\ CarcassBuried' /\ PcMatchesStatus' /\ pc' \in [Threads -> PCs]
    BY <2>1, LabelChangeKeeps
  <2> QED BY <2>2 DEF IInv, TypeOK
<1>6. CASE IdleReturns
  <2> USE <1>6 DEF IdleReturns, At
  <2> DEFINE label == IF pc[currentThread] = "idle" THEN "sleep" ELSE "finish"
  <2>1. pc' = [pc EXCEPT ![currentThread] = label] /\ label \in PCs
    BY DEF IInv, TypeOK, PCs
  <2>2. ReadyListsExact' /\ CarcassBuried' /\ PcMatchesStatus' /\ pc' \in [Threads -> PCs]
    BY <2>1, LabelChangeKeeps
  <2> QED BY <2>2 DEF IInv, TypeOK
<1> QED BY <1>1, <1>2, <1>3, <1>4, <1>5, <1>6

\* The running thread stops but keeps the CPU for now.
LEMMA StopKeeps ==
  ASSUME IInv, Sleep \/ Finish
  PROVE  IInv'
<1> USE DEF Sleep, Finish, At
<1> DEFINE me == currentThread
<1>1. /\ pc[me] = "user" /\ me \in Threads /\ pc \in [Threads -> PCs]
      /\ status \in [Threads -> Statuses] /\ status[me] = "RUNNING"
      /\ status' = [status EXCEPT ![me] = "BLOCKED"]
      /\ \E label \in {"sleep", "finish"} : pc' = [pc EXCEPT ![me] = label]
      /\ UNCHANGED <<queue, currentThread, toBeDestroyed>>
  BY DEF IInv, TypeOK, PcMatchesStatus, RunningPcs
<1>2. toBeDestroyed = Nil /\ \A u \in Threads : pc[u] # "zombie"
  BY <1>1, NothingToDestroy DEF SwitchedOut
<1>3. approx' \in [Threads -> Bursts]
  BY DEF IInv, TypeOK
<1>4. TypeOK'
  BY <1>1, <1>3 DEF IInv, TypeOK, Statuses, PCs
<1>5. ReadyListsExact'
  BY <1>1 DEF IInv, ReadyListsExact, OnceInLists, Queued, InList
<1>6. CarcassBuried'
  BY <1>1, <1>2 DEF CarcassBuried
<1>7. PcMatchesStatus'
  BY <1>1, <1>2 DEF IInv, PcMatchesStatus, InKernel, RunningPcs
<1> QED BY <1>4, <1>5, <1>6, <1>7 DEF IInv

\* A switch away from a running thread, from any lists that hold the ready ones.
LEMMA SwitchToKeeps ==
  ASSUME IInv, pc[currentThread] \in RunningPcs,
         NEW Q, ListsOK(Q), Queued(Q) = Queued(queue), ~NoneReady(Q),
         NEW label \in {"cut", "cut2", "cut3"}, SwitchTo(Q, label),
         UNCHANGED <<priority, approx, accu, toBeDestroyed, aborted>>
  PROVE  IInv'
<1> DEFINE me == currentThread
           next == Picked(Q)
<1>1. /\ next \in Threads /\ status[next] = "READY"
      /\ me \in Threads /\ status[me] = "RUNNING"
  BY SchedulingRemoves, ReadyThreads DEF IInv, TypeOK, PcMatchesStatus, RunningPcs
<1>2. toBeDestroyed = Nil /\ \A u \in Threads : pc[u] # "zombie"
  BY NothingToDestroy DEF SwitchedOut, RunningPcs
<1>3. pc[next] \in SwitchedOut
  BY <1>1, ReadyIsSwitchedOut
<1>4. ListsOK(Scheduling(Q)) /\ Queued(Scheduling(Q)) = Queued(queue) \ {next}
  BY SchedulingRemoves
<1>5. me \notin Queued(Scheduling(Q))
  BY <1>1, <1>4, ReadyThreads
<1>6. /\ ListsOK(queue')
      /\ Queued(queue') = (Queued(queue) \ {next}) \cup {me}
  BY <1>1, <1>4, <1>5, EnqueueAdds, LevelOfThread DEF SwitchTo, AddToQueue
<1> HIDE DEF next
<1>7. /\ status' = [status EXCEPT ![me] = "READY", ![next] = "RUNNING"]
      /\ waited' = [waited EXCEPT ![me] = 0]
      /\ pc' = [pc EXCEPT ![me] = label]
      /\ iter' = Recycle(next, me)
      /\ currentThread' = next
  BY DEF SwitchTo, next
<1>8. TypeOK'
  <2>1. iter' \in [Threads -> Threads \cup {Nil, Freed}]
    BY <1>1, <1>7 DEF Recycle, IInv, TypeOK
  <2>2. status' \in [Threads -> Statuses] /\ pc' \in [Threads -> PCs]
    BY <1>7 DEF IInv, TypeOK, Statuses, PCs, SwitchedOut
  <2>3. waited' \in [Threads -> Nat]
    BY <1>7 DEF IInv, TypeOK
  <2> QED BY <1>1, <1>6, <1>7, <2>1, <2>2, <2>3 DEF IInv, TypeOK, ListsOK
<1>9. ReadyListsExact'
  <2>1. status \in [Threads -> Statuses]
    BY DEF IInv, TypeOK
  <2>2. Queued(queue') = {t \in Threads : status'[t] = "READY"}
    BY <1>1, <1>6, <1>7, <2>1, ReadyThreads
  <2>3. \A t \in Threads : status'[t] = "RUNNING" => t = next
    BY <1>1, <1>7, <2>1 DEF IInv, ReadyListsExact
  <2> QED BY <1>6, <1>7, <2>2, <2>3 DEF ReadyListsExact, ListsOK, OnceInLists, Queued, InList
<1>10. CarcassBuried'
  BY <1>2 DEF CarcassBuried
<1>11. PcMatchesStatus'
  <2>1. status \in [Threads -> Statuses] /\ pc \in [Threads -> PCs]
    BY DEF IInv, TypeOK
  <2>2. \A t \in Threads : pc[t] \notin InKernel
    BY DEF IInv, PcMatchesStatus, InKernel, RunningPcs
  <2> QED BY <1>1, <1>2, <1>3, <1>7, <2>1, <2>2
          DEF IInv, PcMatchesStatus, InKernel, RunningPcs, SwitchedOut
<1> QED BY <1>8, <1>9, <1>10, <1>11 DEF IInv

\* An iteration that migrates a thread, with or without a switch in it.
LEMMA MigrateKeeps ==
  ASSUME IInv, pc[currentThread] \in RunningPcs,
         NEW from \in Levels, NEW to \in Levels, queue[from] # <<>>,
         NEW label \in {"cut2", "cut3"}, Migrate(from, to, label),
         UNCHANGED <<priority, approx, accu, toBeDestroyed, aborted>>
  PROVE  IInv'
<1> DEFINE thread == Head(queue[from])
           Q == Enqueue(RemoveFront(queue, from), thread, to)
<1>1. ListsOK(Q) /\ Queued(Q) = Queued(queue) /\ ~NoneReady(Q)
  BY ReadyThreads, MigrationKeeps
<1>2. \/ queue' = Q /\ Advance(Q) /\ UNCHANGED <<status, waited, pc, currentThread>>
      \/ SwitchTo(Q, label)
  BY DEF Migrate
<1> HIDE DEF Q
<1>3. CASE queue' = Q /\ Advance(Q) /\ UNCHANGED <<status, waited, pc, currentThread>>
  <2> USE <1>3
  <2>1. NextElements(Q, iter[currentThread]) \subseteq Threads \cup {Nil}
    BY <1>1, AdvanceTyped
  <2>2. iter' \in [Threads -> Threads \cup {Nil, Freed}]
    BY <2>1 DEF Advance, IInv, TypeOK
  <2>3. TypeOK'
    BY <1>1, <2>2 DEF IInv, TypeOK, ListsOK
  <2>4. Queued(queue') = Queued(queue) /\ OnceInLists(queue')
    BY <1>1 DEF ListsOK
  <2>5. ReadyListsExact'
    BY <2>4 DEF IInv, ReadyListsExact, OnceInLists, Queued, InList
  <2>6. CarcassBuried'
    BY NothingToDestroy DEF SwitchedOut, RunningPcs, CarcassBuried
  <2>7. PcMatchesStatus'
    BY DEF IInv, PcMatchesStatus
  <2> QED BY <2>3, <2>5, <2>6, <2>7 DEF IInv
<1>4. CASE SwitchTo(Q, label)
  BY <1>1, <1>4, SwitchToKeeps
<1> QED BY <1>2, <1>3, <1>4

LEMMA LoopMovesKeep ==
  ASSUME IInv, Loop3 \/ Loop2Move \/ YieldSwitches
  PROVE  IInv'
<1>1. CASE Loop3
  <2>1. Head(queue[3]) \in Threads
    BY <1>1, ReadyThreads, RemoveFrontRemoves DEF Loop3, Levels
  <2> DEFINE to == InWhichQueue(Head(queue[3]))
  <2>2. to \in Levels
    BY <2>1, LevelOfThread
  <2>3. /\ pc[currentThread] \in RunningPcs /\ queue[3] # <<>> /\ Migrate(3, to, "cut3")
        /\ UNCHANGED <<priority, approx, accu, toBeDestroyed, aborted>>
    BY <1>1 DEF Loop3, At, RunningPcs
  <2> HIDE DEF to
  <2>4. 3 \in Levels
    BY DEF Levels
  <2> QED BY <2>2, <2>3, <2>4, MigrateKeeps
<1>2. CASE Loop2Move
  BY <1>2, MigrateKeeps DEF Loop2Move, At, RunningPcs, Levels
<1>3. CASE YieldSwitches
  BY <1>3, ReadyThreads, SwitchToKeeps DEF YieldSwitches, At, RunningPcs
<1> QED BY <1>1, <1>2, <1>3

LEMMA AbortKeeps ==
  ASSUME IInv, RemoveFrontAborts
  PROVE  IInv'
<1>1. TypeOK'
  BY DEF RemoveFrontAborts, IInv, TypeOK
<1>2. ReadyListsExact' /\ CarcassBuried'
  BY DEF RemoveFrontAborts, IInv, ReadyListsExact, OnceInLists, Queued, InList, CarcassBuried
<1>3. PcMatchesStatus'
  BY DEF RemoveFrontAborts, IInv, PcMatchesStatus
<1> QED BY <1>1, <1>2, <1>3 DEF IInv

\* A thread that sleeps or finishes gives the CPU away.
LEMMA SleepSwitchesKeeps ==
  ASSUME IInv, SleepSwitches
  PROVE  IInv'
<1> DEFINE me == currentThread
           next == Picked(queue)
           label == IF pc[me] = "sleep" THEN "cut" ELSE "zombie"
<1>1. pc[me] \in {"sleep", "finish"} /\ me \in Threads /\ pc \in [Threads -> PCs]
  BY DEF SleepSwitches, At, IInv, TypeOK
<1>2. /\ next \in Threads /\ status[next] = "READY"
      /\ ListsOK(Scheduling(queue)) /\ Queued(Scheduling(queue)) = Queued(queue) \ {next}
  BY SchedulingRemoves, ReadyThreads DEF SleepSwitches
<1>3. toBeDestroyed = Nil /\ \A u \in Threads : pc[u] # "zombie"
  BY <1>1, NothingToDestroy DEF SwitchedOut
<1>4. next # me => pc[next] \in SwitchedOut
  BY <1>2, ReadyIsSwitchedOut
<1>5. pc[me] = "finish" => next # me /\ status[me] = "BLOCKED"
  BY <1>1, <1>2 DEF IInv, PcMatchesStatus
<1> HIDE DEF next
<1>6. /\ queue' = Scheduling(queue)
      /\ status' = [status EXCEPT ![next] = "RUNNING"]
      /\ pc' = [pc EXCEPT ![me] = label]
      /\ toBeDestroyed' = IF pc[me] = "finish" THEN me ELSE toBeDestroyed
      /\ iter' = Recycle(next, Freed)
      /\ currentThread' = next
  BY DEF SleepSwitches, next
<1>7. TypeOK'
  <2>1. iter' \in [Threads -> Threads \cup {Nil, Freed}]
    BY <1>6 DEF Recycle, IInv, TypeOK
  <2>2. status' \in [Threads -> Statuses] /\ pc' \in [Threads -> PCs]
    BY <1>6 DEF IInv, TypeOK, Statuses, PCs, SwitchedOut
  <2>3. toBeDestroyed' \in Threads \cup {Nil}
    BY <1>1, <1>3, <1>6
  <2> QED BY <1>2, <1>6, <2>1, <2>2, <2>3 DEF SleepSwitches, IInv, TypeOK, ListsOK
<1>8. ReadyListsExact'
  <2>1. status \in [Threads -> Statuses]
    BY DEF IInv, TypeOK
  <2>2. Queued(queue') = {t \in Threads : status'[t] = "READY"}
    BY <1>2, <1>6, <2>1, ReadyThreads
  <2>3. \A t \in Threads : status[t] # "RUNNING"
    BY <1>1 DEF IInv, ReadyListsExact, PcMatchesStatus
  <2>4. \A t \in Threads : status'[t] = "RUNNING" => t = next
    BY <1>6, <2>1, <2>3
  <2> QED BY <1>2, <1>6, <2>2, <2>4 DEF ReadyListsExact, ListsOK, OnceInLists, Queued, InList
<1>9. CarcassBuried'
  <2>1. CASE pc[me] = "sleep"
    BY <1>3, <1>6, <2>1 DEF CarcassBuried
  <2>2. CASE pc[me] = "finish"
    <3>1. me \notin Queued(queue')
      BY <1>2, <1>5, <1>6, <2>2, ReadyThreads
    <3> QED BY <1>1, <1>2, <1>4, <1>5, <1>6, <2>2, <3>1 DEF CarcassBuried, Queued, InList
  <2> QED BY <1>1, <2>1, <2>2
<1>10. PcMatchesStatus'
  <2>1. status \in [Threads -> Statuses]
    BY DEF IInv, TypeOK
  <2>2. \A t \in Threads : t # me => pc[t] \notin InKernel
    BY DEF IInv, PcMatchesStatus
  <2>3. \A t \in Threads : pc'[t] \notin InKernel
    BY <1>1, <1>6, <2>2 DEF InKernel
  <2> QED BY <1>1, <1>2, <1>3, <1>4, <1>5, <1>6, <2>1, <2>3
          DEF IInv, PcMatchesStatus, InKernel, RunningPcs, SwitchedOut
<1> QED BY <1>7, <1>8, <1>9, <1>10 DEF IInv

\* A thread comes back from a switch and buries the carcass, if there is one.
LEMMA ResumeKeeps ==
  ASSUME IInv, Resume \/ ResumeLoop
  PROVE  IInv'
<1> DEFINE me == currentThread
<1>1. DestroyFinished /\ pc[me] \in SwitchedOut
  BY DEF Resume, ResumeLoop, At, SwitchedOut
<1>2. /\ me \in Threads /\ pc \in [Threads -> PCs] /\ status \in [Threads -> Statuses]
      /\ status[me] = "RUNNING" /\ toBeDestroyed # me
  <2>1. me \in Threads /\ pc \in [Threads -> PCs] /\ status \in [Threads -> Statuses]
    BY DEF IInv, TypeOK
  <2>2. status[me] = "RUNNING"
    BY <1>1 DEF IInv, PcMatchesStatus, InKernel, SwitchedOut
  <2>3. toBeDestroyed # me
    BY <2>1, NilAssumption DEF IInv, CarcassBuried
  <2> QED BY <2>1, <2>2, <2>3
<1>3. iter' \in [Threads -> Threads \cup {Nil, Freed}]
  <2>1. NextElements(queue, iter[me]) \subseteq Threads \cup {Nil}
    BY ReadyThreads, AdvanceTyped
  <2> QED BY <2>1 DEF Resume, ResumeLoop, Advance, IInv, TypeOK
<1>4. /\ pc' \in [Threads -> PCs]
      /\ pc'[me] \in {"loop3", "loop2", "user"}
      /\ \A t \in Threads : t # me /\ t # toBeDestroyed => pc'[t] = pc[t]
      /\ \A t \in Threads : t = toBeDestroyed => pc'[t] = "deleted"
  BY <1>1, <1>2 DEF DestroyFinished, PCs
<1>5. TypeOK'
  <2>1. /\ priority' \in [Threads -> Nat] /\ approx' \in [Threads -> Bursts]
        /\ accu' \in [Threads -> Nat] /\ waited' \in [Threads -> Nat]
    BY <1>1, PrioritiesAssumption DEF DestroyFinished, Forget, IInv, TypeOK
  <2> QED BY <1>1, <1>3, <1>4, <2>1 DEF DestroyFinished, IInv, TypeOK
<1>6. ReadyListsExact'
  BY <1>1 DEF DestroyFinished, IInv, ReadyListsExact, OnceInLists, Queued, InList
<1>7. CarcassBuried'
  BY <1>1 DEF DestroyFinished, CarcassBuried
<1>8. PcMatchesStatus'
  <2>1. \A t \in Threads : t = toBeDestroyed => status[t] = "BLOCKED"
    BY NilAssumption DEF IInv, CarcassBuried, PcMatchesStatus
  <2>2. status' = status /\ currentThread' = me
    BY <1>1 DEF DestroyFinished
  <2>3. \A t \in Threads : pc'[t] # "zombie" /\ pc'[t] \notin InKernel
    BY <1>1, <1>4 DEF IInv, PcMatchesStatus, InKernel, SwitchedOut
  <2> QED BY <1>2, <1>4, <2>1, <2>2, <2>3 DEF IInv, PcMatchesStatus, InKernel, RunningPcs
<1> QED BY <1>5, <1>6, <1>7, <1>8 DEF IInv

-----------------------------------------------------------------------------
(* The theorems.                                                           *)

LEMMA NextKeeps == IInv /\ [Next]_vars => IInv'
<1> SUFFICES ASSUME IInv, [Next]_vars PROVE IInv'
  OBVIOUS
<1>1. CASE UNCHANGED vars
  <2>1. TypeOK'
    BY <1>1 DEF vars, IInv, TypeOK
  <2>2. ReadyListsExact' /\ CarcassBuried'
    BY <1>1 DEF vars, IInv, ReadyListsExact, OnceInLists, Queued, InList, CarcassBuried
  <2>3. PcMatchesStatus'
    BY <1>1 DEF vars, IInv, PcMatchesStatus
  <2> QED BY <2>1, <2>2, <2>3 DEF IInv
<1>2. ASSUME NEW t \in Threads, Fork(t) \/ WakeUp(t) PROVE IInv'
  BY <1>2, ForkKeeps, WakeUpKeeps
<1>3. CASE Tick \/ Yield \/ Sleep \/ Finish
  BY <1>3, TickKeeps, YieldKeeps, StopKeeps
<1>4. CASE Loop3 \/ Loop3Done \/ Loop2Skip \/ Loop2Move \/ Loop2Done \/ RemoveFrontAborts
  BY <1>4, LoopMovesKeep, LoopStepsKeep, AbortKeeps
<1>5. CASE YieldSwitches \/ YieldReturns \/ SleepSwitches \/ Idle \/ IdleReturns
  BY <1>5, LoopMovesKeep, LoopStepsKeep, SleepSwitchesKeeps
<1>6. CASE Resume \/ ResumeLoop
  BY <1>6, ResumeKeeps
<1> QED BY <1>1, <1>2, <1>3, <1>4, <1>5, <1>6 DEF Next

\* The inductive invariant holds in every state of every run of the scheduler.
THEOREM Invariance == Spec => []IInv
<1>1. Init => IInv
  BY InitIInv
<1>2. IInv /\ [Next]_vars => IInv'
  BY NextKeeps
<1> QED BY <1>1, <1>2, PTL DEF Spec

\* Type correctness.
THEOREM TypeCorrect == Spec => []TypeOK
<1>1. IInv => TypeOK
  BY DEF IInv
<1> QED BY <1>1, Invariance, PTL

\* At every step, also in the middle of a migration, the three lists of
\* scheduler.cc hold exactly the READY threads, each once.
THEOREM ListsAreExact == Spec => []ReadyListsExact
<1>1. IInv => ReadyListsExact
  BY DEF IInv
<1> QED BY <1>1, Invariance, PTL

\* The ASSERTs of Scheduler::Run and Thread::~Thread about toBeDestroyed hold.
THEOREM CarcassesAreBuried == Spec => []CarcassBuried
<1>1. IInv => CarcassBuried
  BY DEF IInv
<1> QED BY <1>1, Invariance, PTL

(* Where a thread is in its code and its status agree: only the thread on  *)
(* the CPU is RUNNING, and a thread that was switched out is READY or      *)
(* BLOCKED as the call it is in the middle of left it.                     *)
THEOREM CodeMatchesStatus == Spec => []PcMatchesStatus
<1>1. IInv => PcMatchesStatus
  BY DEF IInv
<1> QED BY <1>1, Invariance, PTL

-----------------------------------------------------------------------------
(* L1 stays sorted.  IInv /\ L1Sorted is inductive: Insert finds a sorted   *)
(* list, and approx_bursttime changes only for a thread in no list.         *)

Sorted(Q) == SortedBy(Q[1], approx)

LEMMA ApproxTyped == IInv => \A t \in Threads : approx[t] \in Nat
BY PrioritiesAssumption DEF IInv, TypeOK

LEMMA EnqueueSorts ==
  ASSUME IInv, NEW Q, ListsOK(Q), Sorted(Q), NEW t \in Threads, NEW level \in Levels
  PROVE  Sorted(Enqueue(Q, t, level))
<1>1. Q \in [Levels -> Seq(Threads)] /\ Q[1] \in Seq(Threads)
  BY DEF ListsOK, Levels
<1>2. SortedBy(SortedInsert(Q[1], t, approx), approx)
  BY <1>1, ApproxTyped, SortedInsertSorts DEF Sorted
<1>3. Enqueue(Q, t, level)[1] = IF level = 1 THEN SortedInsert(Q[1], t, approx) ELSE Q[1]
  BY <1>1 DEF Enqueue, Key, Levels
<1> QED BY <1>2, <1>3 DEF Sorted

LEMMA RemoveFrontSorts ==
  ASSUME NEW Q, ListsOK(Q), Sorted(Q), NEW level \in Levels, Q[level] # <<>>
  PROVE  Sorted(RemoveFront(Q, level))
<1>1. Q \in [Levels -> Seq(Threads)] /\ Q[1] \in Seq(Threads)
  BY DEF ListsOK, Levels
<1>2. Q[1] # <<>> => SortedBy(Tail(Q[1]), approx)
  BY <1>1, TailSorted DEF Sorted
<1>3. RemoveFront(Q, level)[1] = IF level = 1 THEN Tail(Q[1]) ELSE Q[1]
  BY <1>1 DEF RemoveFront, Levels
<1> QED BY <1>2, <1>3 DEF Sorted

LEMMA SchedulingSorts ==
  ASSUME NEW Q, ListsOK(Q), Sorted(Q), ~NoneReady(Q)
  PROVE  Sorted(Scheduling(Q))
<1>1. TopLevel(Q) \in Levels /\ Q[TopLevel(Q)] # <<>>
  BY DEF NoneReady, TopLevel, Levels
<1> QED BY <1>1, RemoveFrontSorts DEF Scheduling

LEMMA MigrationSorts ==
  ASSUME IInv, NEW Q, ListsOK(Q), Sorted(Q), NEW from \in Levels, NEW to \in Levels,
         Q[from] # <<>>
  PROVE  Sorted(Enqueue(RemoveFront(Q, from), Head(Q[from]), to))
BY RemoveFrontRemoves, RemoveFrontSorts, EnqueueSorts

\* A switch puts the thread that had the CPU back into sorted lists.
LEMMA SwitchToSorts ==
  ASSUME IInv, NEW Q, ListsOK(Q), Sorted(Q), ~NoneReady(Q), NEW label, SwitchTo(Q, label)
  PROVE  Sorted(queue')
<1>1. ListsOK(Scheduling(Q)) /\ Sorted(Scheduling(Q))
  BY SchedulingRemoves, SchedulingSorts
<1>2. currentThread \in Threads /\ InWhichQueue(currentThread) \in Levels
  BY LevelOfThread DEF IInv, TypeOK
<1> QED BY <1>1, <1>2, EnqueueSorts DEF SwitchTo, AddToQueue

\* Only the order of the threads in the list matters.
LEMMA SortedElsewhere ==
  ASSUME ListsOK(queue'), Sorted(queue'), \A t \in Queued(queue') : approx'[t] = approx[t]
  PROVE  L1Sorted'
<1>1. \A i \in DOMAIN queue'[1] : queue'[1][i] \in Queued(queue')
  BY DEF ListsOK, Levels, Queued, InList, Range
<1> QED BY <1>1 DEF L1Sorted, Sorted, SortedBy

LEMMA SortedKeeps ==
  ASSUME IInv, L1Sorted, [Next]_vars
  PROVE  L1Sorted'
<1>1. ListsOK(queue) /\ Sorted(queue)
  BY ReadyThreads DEF L1Sorted, Sorted
<1>2. ASSUME UNCHANGED <<queue, approx>>
      PROVE  L1Sorted'
  BY <1>2 DEF L1Sorted, SortedBy
<1>3. CASE UNCHANGED vars
  BY <1>2, <1>3 DEF vars
<1>4. ASSUME NEW t \in Threads, Fork(t) \/ WakeUp(t)
      PROVE  L1Sorted'
  <2>1. queue' = Enqueue(queue, t, InWhichQueue(t)) /\ UNCHANGED approx
    BY <1>4 DEF Fork, WakeUp, MakeReady, AddToQueue
  <2> QED BY <1>1, <2>1, LevelOfThread, EnqueueSorts DEF L1Sorted, Sorted
<1>5. ASSUME NEW Q, ListsOK(Q), Sorted(Q), ~NoneReady(Q), NEW label, SwitchTo(Q, label),
             UNCHANGED approx
      PROVE  L1Sorted'
  BY <1>5, SwitchToSorts DEF L1Sorted, Sorted
<1>6. ASSUME NEW from \in Levels, NEW to \in Levels, queue[from] # <<>>,
             NEW label, Migrate(from, to, label), UNCHANGED approx
      PROVE  L1Sorted'
  <2> DEFINE Q == Enqueue(RemoveFront(queue, from), Head(queue[from]), to)
  <2>1. ListsOK(Q) /\ Sorted(Q) /\ ~NoneReady(Q)
    BY <1>1, <1>6, MigrationKeeps, MigrationSorts
  <2>2. queue' = Q \/ SwitchTo(Q, label)
    BY <1>6 DEF Migrate
  <2> HIDE DEF Q
  <2> QED BY <1>5, <1>6, <2>1, <2>2 DEF L1Sorted, Sorted
<1>7. CASE Tick \/ Yield \/ Finish
  BY <1>2, <1>7 DEF Tick, Yield, Finish
<1>8. CASE Sleep
  <2>1. currentThread \notin Queued(queue)
    BY <1>8, ReadyThreads DEF Sleep, At, IInv, TypeOK, PcMatchesStatus, RunningPcs
  <2>2. queue' = queue /\ \A t \in Queued(queue) : approx'[t] = approx[t]
    BY <1>8, <2>1, ReadyThreads DEF Sleep, IInv, TypeOK
  <2> QED BY <1>1, <2>2, SortedElsewhere
<1>9. CASE Loop3
  <2>1. Head(queue[3]) \in Threads
    BY <1>9, ReadyThreads, RemoveFrontRemoves DEF Loop3, Levels
  <2> DEFINE to == InWhichQueue(Head(queue[3]))
  <2>2. to \in Levels /\ 3 \in Levels
    BY <2>1, LevelOfThread DEF Levels
  <2>3. queue[3] # <<>> /\ Migrate(3, to, "cut3") /\ UNCHANGED approx
    BY <1>9 DEF Loop3
  <2> HIDE DEF to
  <2> QED BY <1>6, <2>2, <2>3
<1>10. CASE Loop2Move
  BY <1>6, <1>10 DEF Loop2Move, Levels
<1>11. CASE YieldSwitches
  BY <1>1, <1>5, <1>11 DEF YieldSwitches
<1>12. CASE SleepSwitches
  BY <1>1, <1>12, SchedulingSorts DEF SleepSwitches, L1Sorted, Sorted
<1>13. CASE \/ Loop3Done \/ Loop2Skip \/ Loop2Done \/ RemoveFrontAborts \/ YieldReturns
            \/ Idle \/ IdleReturns
  BY <1>2, <1>13 DEF Loop3Done, Loop2Skip, Loop2Done, RemoveFrontAborts, YieldReturns, Idle,
                     IdleReturns
<1>14. CASE Resume \/ ResumeLoop
  <2>1. /\ queue' = queue
        /\ approx' = [t \in Threads |-> IF t = toBeDestroyed THEN 0 ELSE approx[t]]
    BY <1>14 DEF Resume, ResumeLoop, DestroyFinished, Forget
  <2>2. \A t \in Queued(queue) : t # toBeDestroyed /\ t \in Threads
    BY ReadyThreads, NilAssumption DEF IInv, CarcassBuried
  <2> QED BY <1>1, <2>1, <2>2, SortedElsewhere
<1> QED BY <1>3, <1>4, <1>7, <1>8, <1>9, <1>10, <1>11, <1>12, <1>13, <1>14 DEF Next

\* L1SchedulingCompare's order holds in L1 at every step, although threads come
\* into the list by migration and age in it: Scheduling takes the shortest job.
THEOREM ShortestJobFirst == Spec => []L1Sorted
<1>1. Init => L1Sorted
  BY DEF Init, L1Sorted, SortedBy, Levels
<1>2. L1Sorted /\ IInv /\ [Next]_vars => L1Sorted'
  BY SortedKeeps
<1> QED BY <1>1, <1>2, Invariance, PTL DEF Spec

-----------------------------------------------------------------------------
(* Preemption has a reason.                                                 *)

\* What a switch picks from lists with a shorter job in L1, or with a thread of
\* L1's band in any list.
PreemptionFor(next) ==
  LET mine == InWhichQueue(currentThread)
  IN  /\ mine = 1 => approx[next] < approx[currentThread]
      /\ mine = 2 => \E t \in Queued(queue) : InWhichQueue(t) = 1

\* The front of L1 is picked while L1 has a thread, and nothing there is shorter.
LEMMA PickedIsShortest ==
  ASSUME NEW Q, ListsOK(Q), Sorted(Q), NEW t \in Range(Q[1])
  PROVE  approx[Picked(Q)] <= approx[t]
<1>1. Q[1] \in Seq(Threads) /\ Q[1] # <<>>
  BY DEF ListsOK, Levels, Range
<1> QED BY <1>1, TailSorted DEF Sorted, Picked, TopLevel

LEMMA MigrationPreempts ==
  ASSUME IInv, L1Sorted, NEW from \in Levels, NEW to \in Levels, queue[from] # <<>>,
         to = 1 \/ InWhichQueue(Head(queue[from])) # 1,
         NEW label, Migrate(from, to, label), currentThread' # currentThread
  PROVE  PreemptionFor(currentThread')
<1> DEFINE thread == Head(queue[from])
           P == RemoveFront(queue, from)
           Q == Enqueue(P, thread, to)
<1>1. ListsOK(queue) /\ Sorted(queue)
  BY ReadyThreads DEF L1Sorted, Sorted
<1>2. Preempts(thread) /\ currentThread' = Picked(Q)
  BY DEF Migrate, SwitchTo
<1>3. /\ ListsOK(Q) /\ Sorted(Q) /\ ListsOK(P)
      /\ thread \in Queued(queue) /\ thread \in Threads /\ thread \notin Queued(P)
  BY <1>1, MigrationKeeps, MigrationSorts, RemoveFrontRemoves
<1>4. InWhichQueue(currentThread) = 1 => thread \in Range(Q[1])
  <2> SUFFICES ASSUME InWhichQueue(currentThread) = 1 PROVE thread \in Range(Q[1])
    OBVIOUS
  <2>1. to = 1
    BY <1>2 DEF Preempts
  <2>2. P[1] \in Seq(Threads) /\ NoRepeats(P[1]) /\ thread \notin Range(P[1])
    BY <1>3 DEF ListsOK, OnceInLists, Queued, InList, Levels
  <2>3. Q[1] = SortedInsert(P[1], thread, approx)
    BY <1>3, <2>1 DEF Enqueue, Key, ListsOK, Levels
  <2> HIDE DEF thread, P
  <2> QED BY <1>3, <2>2, <2>3, SortedInsertAdds
<1>5. InWhichQueue(currentThread) = 1 => approx[thread] < approx[currentThread]
  BY <1>2 DEF Preempts
<1>6. InWhichQueue(currentThread) = 2 => InWhichQueue(thread) = 1
  BY <1>2 DEF Preempts
<1> HIDE DEF thread, P, Q
<1>7. Picked(Q) \in Threads
  <2>1. ~NoneReady(Q)
    BY <1>1, MigrationKeeps DEF Q, P, thread
  <2> QED BY <1>3, <2>1, SchedulingRemoves
<1>8. InWhichQueue(currentThread) = 1 => approx[Picked(Q)] < approx[currentThread]
  <2> SUFFICES ASSUME InWhichQueue(currentThread) = 1
               PROVE  approx[Picked(Q)] < approx[currentThread]
    OBVIOUS
  <2>1. approx[Picked(Q)] <= approx[thread]
    BY <1>3, <1>4, PickedIsShortest
  <2>2. approx[Picked(Q)] \in Nat /\ approx[thread] \in Nat /\ approx[currentThread] \in Nat
    BY <1>3, <1>7, ApproxTyped DEF IInv, TypeOK
  <2> QED BY <1>5, <2>1, <2>2
<1> QED BY <1>2, <1>3, <1>6, <1>8 DEF PreemptionFor

LEMMA PreemptionStep ==
  ASSUME IInv, L1Sorted, [Next]_vars, currentThread' # currentThread,
         status'[currentThread] = "READY", pc[currentThread] \notin Idling \cup {"sleep"}
  PROVE  PreemptionFor(currentThread')
<1>1. CASE Loop3
  <2>1. Head(queue[3]) \in Threads
    BY <1>1, ReadyThreads, RemoveFrontRemoves DEF Loop3, Levels
  <2> DEFINE to == InWhichQueue(Head(queue[3]))
  <2>2. to \in Levels /\ 3 \in Levels /\ (to = 1 \/ InWhichQueue(Head(queue[3])) # 1)
    BY <2>1, LevelOfThread DEF Levels
  <2>3. queue[3] # <<>> /\ Migrate(3, to, "cut3")
    BY <1>1 DEF Loop3
  <2> HIDE DEF to
  <2> QED BY <2>2, <2>3, MigrationPreempts
<1>2. CASE Loop2Move
  BY <1>2, MigrationPreempts DEF Loop2Move, Levels
<1>3. CASE YieldSwitches
  BY <1>3 DEF YieldSwitches, PreemptionFor
<1>4. CASE SleepSwitches
  <2>1. pc[currentThread] = "finish"
    BY <1>4 DEF SleepSwitches, At
  <2>2. /\ Picked(queue) # currentThread /\ status[currentThread] = "BLOCKED"
    BY <1>4, <2>1, ReadyThreads, SchedulingRemoves
       DEF SleepSwitches, IInv, TypeOK, PcMatchesStatus
  <2>3. status'[currentThread] = "BLOCKED"
    BY <1>4, <2>2 DEF SleepSwitches, IInv, TypeOK
  <2> QED BY <2>3
<1>5. ASSUME ~Loop3, ~Loop2Move, ~YieldSwitches, ~SleepSwitches
      PROVE  currentThread' = currentThread
  BY <1>5 DEF Next, vars, Fork, WakeUp, Tick, Yield, Sleep, Finish, Loop3Done, Loop2Skip,
              Loop2Done, RemoveFrontAborts, YieldReturns, Idle, IdleReturns, Resume, ResumeLoop,
              DestroyFinished
<1> QED BY <1>1, <1>2, <1>3, <1>4, <1>5

\* Check_Preempt takes the CPU from a running L1 thread only for a shorter job,
\* and from an L2 thread only when one of L1's band is ready, whichever thread the
\* loop has migrated and whichever Scheduling then picks.
THEOREM PreemptsWithReason == Spec => PreemptionJustified
<1> DEFINE Reason ==
      currentThread' # currentThread /\ status'[currentThread] = "READY"
      /\ pc[currentThread] \notin Idling \cup {"sleep"}
      => LET mine == InWhichQueue(currentThread)
         IN  /\ mine = 1 => approx[currentThread'] < approx[currentThread]
             /\ mine = 2 => \E t \in Queued(queue) : InWhichQueue(t) = 1
<1>1. IInv /\ L1Sorted /\ [Next]_vars => [Reason]_vars
  BY PreemptionStep DEF PreemptionFor
<1>2. Spec => [][Reason]_vars
  BY <1>1, Invariance, ShortestJobFirst, PTL DEF Spec
<1> QED BY <1>2 DEF PreemptionJustified

-----------------------------------------------------------------------------
(* A finished thread stays finished.                                       *)

FinishedPcs == {"finish", "finIdle", "zombie", "deleted"}
StaysFinished(t) == status'[t] = "BLOCKED" /\ pc'[t] \in FinishedPcs

LEMMA FinishedStays ==
  ASSUME IInv, Next, NEW t \in Threads, pc[t] \in FinishedPcs
  PROVE  StaysFinished(t)
<1> USE DEF FinishedPcs, StaysFinished
<1>1. /\ status[t] = "BLOCKED" /\ t \notin Queued(queue)
      /\ pc \in [Threads -> PCs] /\ status \in [Threads -> Statuses]
  BY ReadyThreads DEF IInv, TypeOK, PcMatchesStatus
<1>2. ASSUME NEW u \in Threads, Fork(u) \/ WakeUp(u) PROVE StaysFinished(t)
  <2>1. t # u
    BY <1>2, <1>1 DEF Fork, WakeUp
  <2> QED BY <1>1, <1>2, <2>1 DEF Fork, WakeUp, MakeReady
<1>3. CASE Tick \/ Yield \/ Sleep \/ Finish
  <2>1. pc[currentThread] = "user"
    BY <1>3 DEF Tick, Yield, Sleep, Finish, At
  <2> QED BY <1>1, <1>3, <2>1 DEF Tick, Yield, Sleep, Finish
<1>4. ASSUME NEW Q, ListsOK(Q), Queued(Q) = Queued(queue), ~NoneReady(Q),
             NEW label, SwitchTo(Q, label), pc[currentThread] \in RunningPcs
      PROVE  StaysFinished(t)
  <2>1. t # Picked(Q) /\ t # currentThread
    BY <1>1, <1>4, SchedulingRemoves DEF RunningPcs
  <2> QED BY <1>1, <1>4, <2>1 DEF SwitchTo
<1>5. ASSUME NEW from \in Levels, NEW to \in Levels, queue[from] # <<>>,
             NEW label, Migrate(from, to, label), pc[currentThread] \in RunningPcs
      PROVE  StaysFinished(t)
  <2> DEFINE Q == Enqueue(RemoveFront(queue, from), Head(queue[from]), to)
  <2>1. ListsOK(Q) /\ Queued(Q) = Queued(queue) /\ ~NoneReady(Q)
    BY <1>5, ReadyThreads, MigrationKeeps
  <2>2. SwitchTo(Q, label) \/ UNCHANGED <<status, pc>>
    BY <1>5 DEF Migrate
  <2> HIDE DEF Q
  <2> QED BY <1>1, <1>4, <1>5, <2>1, <2>2
<1>6. CASE Loop3
  <2>1. Head(queue[3]) \in Threads
    BY <1>6, ReadyThreads, RemoveFrontRemoves DEF Loop3, Levels
  <2>2. InWhichQueue(Head(queue[3])) \in Levels /\ 3 \in Levels
    BY <2>1, LevelOfThread DEF Levels
  <2>3. pc[currentThread] \in RunningPcs /\ queue[3] # <<>>
        /\ Migrate(3, InWhichQueue(Head(queue[3])), "cut3")
    BY <1>6 DEF Loop3, At, RunningPcs
  <2> QED BY <1>5, <2>2, <2>3
<1>7. CASE Loop2Move
  BY <1>5, <1>7 DEF Loop2Move, At, RunningPcs, Levels
<1>8. CASE YieldSwitches
  BY <1>4, <1>8, ReadyThreads DEF YieldSwitches, At, RunningPcs
<1>9. CASE Loop3Done \/ Loop2Skip \/ Loop2Done \/ RemoveFrontAborts \/ YieldReturns
  BY <1>1, <1>9 DEF Loop3Done, Loop2Skip, Loop2Done, RemoveFrontAborts, YieldReturns, At
<1>10. CASE SleepSwitches
  <2>1. t # Picked(queue)
    BY <1>1, <1>10, ReadyThreads, SchedulingRemoves DEF SleepSwitches
  <2> QED BY <1>1, <1>10, <2>1 DEF SleepSwitches, At
<1>11. CASE Idle \/ IdleReturns
  BY <1>1, <1>11 DEF Idle, IdleReturns, At
<1>12. CASE Resume \/ ResumeLoop
  BY <1>1, <1>12 DEF Resume, ResumeLoop, At, DestroyFinished
<1> QED BY <1>2, <1>3, <1>6, <1>7, <1>8, <1>9, <1>10, <1>11, <1>12 DEF Next

\* A thread that called Finish is never made ready and never runs again.
THEOREM FinishedNeverReturns == Spec => FinishedIsFinal
<1>1. IInv /\ [Next]_vars =>
        [\A t \in Threads :
           pc[t] \in {"finish", "finIdle", "zombie", "deleted"}
             => status'[t] = "BLOCKED" /\ pc'[t] \in {"finish", "finIdle", "zombie", "deleted"}
        ]_vars
  BY FinishedStays DEF FinishedPcs, StaysFinished
<1> QED BY <1>1, Invariance, PTL DEF Spec, FinishedIsFinal

-----------------------------------------------------------------------------
(* The scheduler implements the dispatcher.                                *)

Lifes == [t \in Threads |-> Life(t)]

\* What Life is, by status and by pc.
LEMMA LifeOf ==
  ASSUME IInv, NEW t \in Threads
  PROVE  /\ status[t] = "JUST_CREATED" => Lifes[t] = "created"
         /\ status[t] = "READY" => Lifes[t] = "ready"
         /\ status[t] = "RUNNING" => Lifes[t] = "running"
         /\ pc[t] \in {"sleep", "idle", "cut"} /\ status[t] = "BLOCKED" => Lifes[t] = "blocked"
         /\ pc[t] \in {"finish", "finIdle", "zombie"} => Lifes[t] = "finished"
BY DEF IInv, PcMatchesStatus, Lifes, Life

\* A switch from a running thread is the dispatcher's Take.
LEMMA SwitchTakes ==
  ASSUME IInv, pc[currentThread] \in RunningPcs,
         NEW Q, ListsOK(Q), Queued(Q) = Queued(queue), ~NoneReady(Q),
         NEW label \in {"cut", "cut2", "cut3"}, SwitchTo(Q, label)
  PROVE  \E t \in Threads : D!Take(t)
<1> DEFINE me == currentThread
           next == Picked(Q)
<1>1. /\ next \in Threads /\ status[next] = "READY" /\ me \in Threads
      /\ status[me] = "RUNNING" /\ pc \in [Threads -> PCs] /\ status \in [Threads -> Statuses]
  BY SchedulingRemoves, ReadyThreads DEF IInv, TypeOK, PcMatchesStatus, RunningPcs
<1>2. pc[next] \in SwitchedOut
  BY <1>1, ReadyIsSwitchedOut
<1> HIDE DEF next
<1>3. /\ status' = [status EXCEPT ![me] = "READY", ![next] = "RUNNING"]
      /\ pc' = [pc EXCEPT ![me] = label]
      /\ currentThread' = next
  BY DEF SwitchTo, next
<1>4. Lifes' = [Lifes EXCEPT ![me] = "ready", ![next] = "running"]
  <2>1. Lifes'[me] = "ready"
    BY <1>1, <1>3 DEF Lifes, Life
  <2>2. Lifes'[next] = "running"
    BY <1>1, <1>2, <1>3 DEF Lifes, Life, SwitchedOut
  <2>3. \A t \in Threads \ {me, next} : Lifes'[t] = Lifes[t]
    BY <1>1, <1>3 DEF Lifes, Life
  <2> QED BY <1>1, <2>1, <2>2, <2>3 DEF Lifes
<1>5. Lifes[me] = "running" /\ Lifes[next] = "ready"
  BY <1>1, LifeOf
<1> QED BY <1>1, <1>3, <1>4, <1>5 DEF D!Take, Lifes

\* A thread that stopped gives the CPU away: the dispatcher's Give.
LEMMA SleepGives ==
  ASSUME IInv, SleepSwitches
  PROVE  \E t \in Threads : D!Give(t)
<1> DEFINE me == currentThread
           next == Picked(queue)
           label == IF pc[me] = "sleep" THEN "cut" ELSE "zombie"
<1>1. /\ next \in Threads /\ status[next] = "READY" /\ me \in Threads
      /\ pc[me] \in {"sleep", "finish"}
      /\ pc \in [Threads -> PCs] /\ status \in [Threads -> Statuses]
  BY SchedulingRemoves, ReadyThreads DEF IInv, TypeOK, SleepSwitches, At
<1>2. next # me => pc[next] \in SwitchedOut
  BY <1>1, ReadyIsSwitchedOut
<1>3. pc[me] = "finish" => next # me /\ status[me] = "BLOCKED"
  BY <1>1 DEF IInv, PcMatchesStatus
<1>4. pc[me] = "sleep" => status[me] \in {"BLOCKED", "READY"}
  BY <1>1 DEF IInv, PcMatchesStatus
<1> HIDE DEF next
<1>5. /\ status' = [status EXCEPT ![next] = "RUNNING"]
      /\ pc' = [pc EXCEPT ![me] = label]
      /\ currentThread' = next
  BY DEF SleepSwitches, next
<1>6. Lifes' = [Lifes EXCEPT ![next] = "running"]
  <2>1. Lifes'[next] = "running"
    <3>1. pc'[next] \in SwitchedOut /\ status'[next] = "RUNNING"
      BY <1>1, <1>2, <1>3, <1>5 DEF SwitchedOut
    <3> QED BY <1>1, <3>1 DEF Lifes, Life, SwitchedOut
  <2>2. next # me => Lifes'[me] = Lifes[me]
    <3>1. CASE pc[me] = "sleep"
      BY <1>1, <1>4, <1>5, <3>1 DEF Lifes, Life
    <3>2. CASE pc[me] = "finish"
      BY <1>1, <1>5, <3>2 DEF Lifes, Life
    <3> QED BY <1>1, <3>1, <3>2
  <2>3. \A t \in Threads \ {me, next} : Lifes'[t] = Lifes[t]
    BY <1>1, <1>5 DEF Lifes, Life
  <2> QED BY <1>1, <2>1, <2>2, <2>3 DEF Lifes
<1>7. Lifes[me] # "running" /\ Lifes[next] = "ready"
  BY <1>1, <1>3, <1>4, LifeOf
<1> QED BY <1>1, <1>5, <1>6, <1>7 DEF D!Give, Lifes

\* A resumed thread buries the carcass, if any.
LEMMA ResumeBuries ==
  ASSUME IInv, Resume \/ ResumeLoop
  PROVE  \/ \E t \in Threads : D!Bury(t)
         \/ UNCHANGED <<Lifes, currentThread>>
<1> DEFINE me == currentThread
<1>1. DestroyFinished /\ pc[me] \in SwitchedOut
  BY DEF Resume, ResumeLoop, At, SwitchedOut
<1>2. /\ me \in Threads /\ pc \in [Threads -> PCs] /\ status[me] = "RUNNING"
  BY <1>1 DEF IInv, TypeOK, PcMatchesStatus, InKernel, SwitchedOut
<1>3. UNCHANGED <<status, currentThread>>
  BY <1>1 DEF DestroyFinished
<1>4. \A t \in Threads : t # toBeDestroyed => Lifes'[t] = Lifes[t]
  <2> SUFFICES ASSUME NEW t \in Threads, t # toBeDestroyed
               PROVE  Lifes'[t] = Lifes[t]
    OBVIOUS
  <2>1. CASE t = me
    BY <1>1, <1>2, <1>3, <2>1 DEF DestroyFinished, Lifes, Life, SwitchedOut
  <2>2. CASE t # me
    BY <1>1, <1>3, <2>2 DEF DestroyFinished, Lifes, Life
  <2> QED BY <2>1, <2>2
<1>5. CASE toBeDestroyed = Nil
  BY <1>3, <1>4, <1>5, NilAssumption DEF Lifes
<1>6. CASE toBeDestroyed # Nil
  <2>1. /\ toBeDestroyed \in Threads /\ toBeDestroyed # me /\ pc[toBeDestroyed] = "zombie"
    BY <1>6 DEF IInv, TypeOK, CarcassBuried
  <2>2. Lifes'[toBeDestroyed] = "deleted"
    <3>1. pc'[toBeDestroyed] = "deleted"
      BY <1>1, <2>1 DEF DestroyFinished
    <3>2. status'[toBeDestroyed] = "BLOCKED"
      BY <1>3, <2>1 DEF IInv, PcMatchesStatus
    <3>3. \A t \in Threads : pc'[t] = "deleted" /\ status'[t] = "BLOCKED" => Lifes'[t] = "deleted"
      BY DEF Lifes, Life
    <3> QED BY <2>1, <3>1, <3>2, <3>3
  <2>3. Lifes[toBeDestroyed] = "finished" /\ Lifes[me] = "running"
    BY <1>2, <2>1, LifeOf
  <2>4. Lifes' = [Lifes EXCEPT ![toBeDestroyed] = "deleted"]
    BY <1>4, <2>1, <2>2 DEF Lifes
  <2>5. D!Bury(toBeDestroyed)
    BY <1>3, <2>1, <2>3, <2>4 DEF D!Bury, Lifes
  <2> QED BY <2>1, <2>5
<1> QED BY <1>5, <1>6

LEMMA StepsDispatch ==
  ASSUME IInv, [Next]_vars
  PROVE  [D!DNext]_<<Lifes, currentThread>>
<1>1. /\ pc \in [Threads -> PCs] /\ status \in [Threads -> Statuses]
      /\ currentThread \in Threads /\ Lifes = [t \in Threads |-> Life(t)]
  BY DEF IInv, TypeOK, Lifes
<1>2. CASE UNCHANGED vars
  BY <1>2 DEF vars, Lifes, Life
<1>3. ASSUME NEW t \in Threads, Fork(t) PROVE D!Start(t)
  <2>1. /\ status' = [status EXCEPT ![t] = "READY"] /\ status[t] = "JUST_CREATED"
        /\ pc' = [pc EXCEPT ![t] = "begin"] /\ status[currentThread] = "RUNNING"
        /\ UNCHANGED currentThread
    BY <1>1, <1>3 DEF Fork, MakeReady, At, IInv, PcMatchesStatus, RunningPcs
  <2>2. Lifes' = [Lifes EXCEPT ![t] = "ready"]
    <3>1. \A u \in Threads : u # t => Lifes'[u] = Lifes[u]
      BY <1>1, <2>1 DEF Lifes, Life
    <3>2. Lifes'[t] = "ready"
      BY <1>1, <2>1 DEF Lifes, Life
    <3> QED BY <3>1, <3>2 DEF Lifes
  <2> QED BY <1>1, <2>1, <2>2, LifeOf DEF D!Start, Lifes
<1>4. ASSUME NEW t \in Threads, WakeUp(t) PROVE D!Wake(t)
  <2>1. /\ status' = [status EXCEPT ![t] = "READY"] /\ status[t] = "BLOCKED"
        /\ pc[t] \in {"cut", "idle"} /\ UNCHANGED <<pc, currentThread>>
    BY <1>4 DEF WakeUp, MakeReady
  <2>2. Lifes' = [Lifes EXCEPT ![t] = "ready"]
    <3>1. \A u \in Threads : u # t => Lifes'[u] = Lifes[u]
      BY <1>1, <2>1 DEF Lifes, Life
    <3>2. Lifes'[t] = "ready"
      BY <1>1, <2>1 DEF Lifes, Life
    <3> QED BY <3>1, <3>2 DEF Lifes
  <2> QED BY <1>1, <2>1, <2>2, LifeOf DEF D!Wake, Lifes
<1>5. ASSUME NEW how \in {"blocked", "finished"}, NEW label \in {"sleep", "finish"},
             label = "sleep" <=> how = "blocked", At("user"),
             status' = [status EXCEPT ![currentThread] = "BLOCKED"],
             pc' = [pc EXCEPT ![currentThread] = label], UNCHANGED currentThread
      PROVE  D!Stop(how)
  <2>1. status[currentThread] = "RUNNING"
    BY <1>1, <1>5 DEF At, IInv, PcMatchesStatus, RunningPcs
  <2>2. Lifes' = [Lifes EXCEPT ![currentThread] = how]
    <3>1. \A u \in Threads : u # currentThread => Lifes'[u] = Lifes[u]
      BY <1>1, <1>5 DEF Lifes, Life
    <3>2. pc'[currentThread] = label /\ status'[currentThread] = "BLOCKED"
      BY <1>1, <1>5
    <3>3. \A u \in Threads : pc'[u] = label /\ status'[u] = "BLOCKED" => Lifes'[u] = how
      BY <1>5 DEF Lifes, Life
    <3> QED BY <1>1, <3>1, <3>2, <3>3 DEF Lifes
  <2> QED BY <1>1, <1>5, <2>1, <2>2, LifeOf DEF D!Stop, Lifes
<1>6. CASE Sleep
  <2>1. D!Stop("blocked")
    BY <1>5, <1>6 DEF Sleep
  <2> QED BY <2>1 DEF D!DNext
<1>7. CASE Finish
  <2>1. D!Stop("finished")
    BY <1>5, <1>7 DEF Finish
  <2> QED BY <2>1 DEF D!DNext
<1>8. ASSUME NEW label, UNCHANGED <<status, currentThread>>,
             pc' = [pc EXCEPT ![currentThread] = label],
             \/ pc[currentThread] \in RunningPcs /\ label \in RunningPcs
             \/ pc[currentThread] \in {"sleep", "idle"} /\ label \in {"sleep", "idle"}
             \/ pc[currentThread] \in {"finish", "finIdle"} /\ label \in {"finish", "finIdle"}
      PROVE  UNCHANGED <<Lifes, currentThread>>
  BY <1>1, <1>8 DEF Lifes, Life, RunningPcs
<1>9. CASE Tick \/ Loop2Skip \/ RemoveFrontAborts
  BY <1>9 DEF Tick, Loop2Skip, RemoveFrontAborts, Lifes, Life
<1>10. CASE Yield \/ Loop3Done \/ Loop2Done \/ YieldReturns
  BY <1>8, <1>10 DEF Yield, Loop3Done, Loop2Done, YieldReturns, At, RunningPcs
<1>11. CASE Idle \/ IdleReturns
  BY <1>8, <1>11 DEF Idle, IdleReturns, At
<1>12. ASSUME NEW from \in Levels, NEW to \in Levels, queue[from] # <<>>,
              NEW label \in {"cut2", "cut3"}, Migrate(from, to, label),
              pc[currentThread] \in RunningPcs
       PROVE  (\E t \in Threads : D!Take(t)) \/ UNCHANGED <<Lifes, currentThread>>
  <2> DEFINE Q == Enqueue(RemoveFront(queue, from), Head(queue[from]), to)
  <2>1. ListsOK(Q) /\ Queued(Q) = Queued(queue) /\ ~NoneReady(Q)
    BY <1>12, ReadyThreads, MigrationKeeps
  <2>2. SwitchTo(Q, label) \/ UNCHANGED <<status, pc, currentThread>>
    BY <1>12 DEF Migrate
  <2> HIDE DEF Q
  <2>3. CASE SwitchTo(Q, label)
    BY <1>12, <2>1, <2>3, SwitchTakes
  <2>4. CASE UNCHANGED <<status, pc, currentThread>>
    BY <2>4 DEF Lifes, Life
  <2> QED BY <2>2, <2>3, <2>4
<1>13. CASE Loop3
  <2>1. Head(queue[3]) \in Threads
    BY <1>13, ReadyThreads, RemoveFrontRemoves DEF Loop3, Levels
  <2>2. InWhichQueue(Head(queue[3])) \in Levels /\ 3 \in Levels
    BY <2>1, LevelOfThread DEF Levels
  <2>3. pc[currentThread] \in RunningPcs /\ queue[3] # <<>>
        /\ Migrate(3, InWhichQueue(Head(queue[3])), "cut3")
    BY <1>13 DEF Loop3, At, RunningPcs
  <2> QED BY <1>12, <2>2, <2>3 DEF D!DNext
<1>14. CASE Loop2Move
  <2>1. pc[currentThread] \in RunningPcs /\ queue[2] # <<>> /\ Migrate(2, 1, "cut2")
    BY <1>14 DEF Loop2Move, At, RunningPcs
  <2>2. 1 \in Levels /\ 2 \in Levels
    BY DEF Levels
  <2> QED BY <1>12, <2>1, <2>2 DEF D!DNext
<1>15. CASE YieldSwitches
  <2>1. \E t \in Threads : D!Take(t)
    BY <1>15, ReadyThreads, SwitchTakes DEF YieldSwitches, At, RunningPcs
  <2> QED BY <2>1 DEF D!DNext
<1>16. CASE SleepSwitches
  BY <1>16, SleepGives DEF D!DNext
<1>17. CASE Resume \/ ResumeLoop
  BY <1>17, ResumeBuries DEF D!DNext
<1>18. CASE \E t \in Threads : Fork(t) \/ WakeUp(t)
  BY <1>3, <1>4, <1>18 DEF D!DNext
<1> QED BY <1>2, <1>6, <1>7, <1>9, <1>10, <1>11, <1>13, <1>14, <1>15, <1>16, <1>17, <1>18
        DEF Next

\* The scheduler implements the dispatcher: whatever the policy does to the
\* lists, threads live as Dispatcher.tla says.
THEOREM SchedulerDispatches == Spec => Dispatches
<1>1. Init => D!DInit
  BY DEF Init, D!DInit, Life
<1>2. IInv /\ [Next]_vars => [D!DNext]_<<Lifes, currentThread>>
  BY StepsDispatch
<1> QED BY <1>1, <1>2, Invariance, PTL DEF Spec, Dispatches, D!DSpec, Lifes
===============================================================================
