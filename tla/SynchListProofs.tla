---------------------------- MODULE SynchListProofs ----------------------------
(***************************************************************************)
(* Proofs about SynchList for any number of threads, items and calls.  The *)
(* inductive invariant is IInv of SynchList.  The parts are proved in      *)
(* order: type correctness; who is inside the lock; who waits for a        *)
(* signal; which call a thread is in.                                      *)
(***************************************************************************)
EXTENDS SynchList, NachosListProofs, FiniteSetTheorems, SequenceTheorems, TLAPS

-----------------------------------------------------------------------------
(* What P and V do to the type of the semaphores.                          *)

LEMMA SleepTyped ==
  ASSUME SemTypeOK, NEW t \in Threads, NEW s \in Sems, PSleeps(t, s)
  PROVE  SemTypeOK'
BY DEF SemTypeOK, PSleeps

LEMMA TakeTyped ==
  ASSUME SemTypeOK, NEW s \in Sems, PTakes(s)
  PROVE  SemTypeOK'
BY DEF SemTypeOK, PTakes

LEMMA VTyped ==
  ASSUME SemTypeOK, NEW s \in Sems, V(s)
  PROVE  SemTypeOK'
<1>1. value' \in [Sems -> Nat]
  BY DEF SemTypeOK, V
<1>2. queue[s] # <<>> => Tail(queue[s]) \in Seq(Threads)
  BY HeadTailProperties DEF SemTypeOK
<1>3. queue' \in [Sems -> Seq(Threads)]
  BY <1>2 DEF SemTypeOK, V
<1> QED BY <1>1, <1>3 DEF SemTypeOK

-----------------------------------------------------------------------------
LEMMA NoSemIsBoth == \A t \in Threads : t \in Sems /\ Mutex \in Sems /\ t # Mutex
BY NamesAssumption, SemsAssumption

-----------------------------------------------------------------------------
LEMMA InitHolds == Init => IInv
<1> SUFFICES ASSUME Init PROVE IInv
  OBVIOUS
<1> USE NamesAssumption, SemsAssumption, MaxCallsAssumption
<1>1. value = [s \in Sems |-> IF s = Mutex THEN 1 ELSE 0]
      /\ \A t \in Threads : pc[t] = "idle" /\ value[t] = 0 /\ signalled[t] = Nil
  BY NoSemIsBoth DEF Init
<1>2. TypeOK
  <2>1. SemTypeOK
    BY DEF Init, SemTypeOK
  <2>2. waitQueue \in Seq(Threads) /\ list \in Seq(Items)
    BY DEF Init
  <2>3. pc \in [Threads -> PCs] /\ op \in [Threads -> {"none", "append", "remove"}]
    BY DEF Init, PCs
  <2>4. calls \in [Threads -> 0..MaxCalls]
    BY DEF Init
  <2> QED BY <2>1, <2>2, <2>3, <2>4 DEF Init, TypeOK
<1>3. MutualExclusion /\ NeverRemovesFromEmpty
  BY <1>1, NoSemIsBoth DEF MutualExclusion, NeverRemovesFromEmpty, Inside, InsidePcs
<1>4. Range(waitQueue) = {} /\ IsInjective(waitQueue)
  BY DEF Init, Range, IsInjective
<1>5. SignalsAccounted /\ WaitersAlive
  BY <1>1, <1>4 DEF SignalsAccounted, WaitersAlive, InWait, InQueue, BeingSignalled
<1>6. CallMatchesPc
  BY <1>1, NoSemIsBoth DEF Init, CallMatchesPc, InWait
<1> QED BY <1>2, <1>3, <1>5, <1>6 DEF IInv

-----------------------------------------------------------------------------
(* Each step keeps the types.                                              *)

\* The threads in the condition's queue, or about to be signalled, exist.
LEMMA SignalledTyped ==
  ASSUME IInv, NEW t \in Threads, pc[t] = "wake"
  PROVE  signalled[t] \in Threads
BY DEF IInv, TypeOK, CallMatchesPc

LEMMA TypeKeeps ==
  ASSUME IInv, Next
  PROVE  TypeOK'
<1> USE DEF IInv, At, Go
<1>1. ASSUME NEW t \in Threads, NEW which \in {"append", "remove"},
             NEW x \in Items \cup {Nil}, Call(t, which, x)
      PROVE  TypeOK'
  <2>1. calls[t] \in Nat /\ MaxCalls \in Nat /\ calls[t] < MaxCalls
    BY <1>1, MaxCallsAssumption DEF Call, TypeOK
  <2>2. calls' \in [Threads -> 0..MaxCalls]
    BY <1>1, <2>1 DEF Call, TypeOK
  <2> QED BY <1>1, <2>2 DEF Call, TypeOK, SemTypeOK, PCs
<1>2. ASSUME NEW t \in Threads, CallAppend(t) \/ CallRemoveFront(t)
      PROVE  TypeOK'
  BY <1>1, <1>2 DEF CallAppend, CallRemoveFront
<1>3. ASSUME NEW t \in Threads, AcquireSleeps(t) \/ WaitSleeps(t)
      PROVE  TypeOK'
  <2>1. SemTypeOK'
    BY <1>3, SleepTyped, NoSemIsBoth DEF AcquireSleeps, WaitSleeps, TypeOK
  <2> QED BY <1>3, <2>1 DEF AcquireSleeps, WaitSleeps, TypeOK
<1>4. ASSUME NEW t \in Threads, AcquireTakes(t) \/ WaitWakes(t)
      PROVE  TypeOK'
  <2>1. SemTypeOK'
    BY <1>4, TakeTyped, NoSemIsBoth DEF AcquireTakes, WaitWakes, TypeOK
  <2> QED BY <1>4, <2>1 DEF AcquireTakes, WaitWakes, TypeOK, PCs
<1>5. ASSUME NEW t \in Threads, ReleaseV(t) \/ WaitV(t) \/ Wake(t)
      PROVE  TypeOK'
  <2>1. SemTypeOK'
    BY <1>5, VTyped, NoSemIsBoth, SignalledTyped DEF ReleaseV, WaitV, Wake, TypeOK
  <2> QED BY <1>5, <2>1 DEF ReleaseV, WaitV, Wake, TypeOK, PCs
<1>6. ASSUME NEW t \in Threads,
             Own(t) \/ Release(t) \/ SignalNobody(t) \/ TestFull(t) \/ WaitReleases(t)
      PROVE  TypeOK'
  BY <1>6 DEF Own, Release, SignalNobody, TestFull, WaitReleases, TypeOK, SemTypeOK, PCs
<1>7. ASSUME NEW t \in Threads, Put(t)
      PROVE  TypeOK'
  <2>1. item[t] \in Items
    BY <1>7 DEF Put, CallMatchesPc
  <2>2. list' \in Seq(Items)
    BY <1>7, <2>1 DEF Put, TypeOK
  <2> QED BY <1>7, <2>2 DEF Put, TypeOK, SemTypeOK, PCs
<1>8. ASSUME NEW t \in Threads, Signal(t)
      PROVE  TypeOK'
  <2>1. Head(waitQueue) \in Threads /\ Tail(waitQueue) \in Seq(Threads)
    BY <1>8, HeadTailProperties DEF Signal, TypeOK
  <2> QED BY <1>8, <2>1 DEF Signal, TypeOK, SemTypeOK, PCs
<1>9. ASSUME NEW t \in Threads, TestEmpty(t)
      PROVE  TypeOK'
  <2>1. value' \in [Sems -> Nat]
    BY <1>9 DEF TestEmpty, TypeOK, SemTypeOK
  <2>2. waitQueue' \in Seq(Threads)
    BY <1>9 DEF TestEmpty, TypeOK
  <2> QED BY <1>9, <2>1, <2>2 DEF TestEmpty, TypeOK, SemTypeOK, PCs
<1>10. ASSUME NEW t \in Threads, Take(t)
       PROVE  TypeOK'
  <2>1. list # <<>>
    BY <1>10 DEF Take, NeverRemovesFromEmpty
  <2>2. Head(list) \in Items /\ Tail(list) \in Seq(Items)
    BY <2>1, HeadTailProperties DEF TypeOK
  <2> QED BY <1>10, <2>2 DEF Take, TypeOK, SemTypeOK, PCs
<1> QED BY <1>2, <1>3, <1>4, <1>5, <1>6, <1>7, <1>8, <1>9, <1>10 DEF Next, Step

-----------------------------------------------------------------------------
(* Each step keeps the lock.                                               *)

\* What a V or a P of another semaphore, and a step with no P or V, leave alone.
LEMMA MutexKeeps ==
  ASSUME IInv, Next
  PROVE  MutualExclusion' /\ value'[Mutex] \in {0, 1}
<1> USE DEF IInv, At, Go
<1>1. /\ value[Mutex] \in {0, 1} /\ value \in [Sems -> Nat] /\ pc \in [Threads -> PCs]
      /\ \A t, u \in Threads : Inside(t) /\ Inside(u) => t = u
      /\ value[Mutex] = 1 <=> \A t \in Threads : ~Inside(t)
  BY DEF CallMatchesPc, MutualExclusion, TypeOK, SemTypeOK
\* Steps that move between labels on the same side of the lock.
<1>2. ASSUME NEW t \in Threads, NEW label, pc' = [pc EXCEPT ![t] = label],
             Inside(t) <=> label \in InsidePcs, value'[Mutex] = value[Mutex],
             \/ UNCHANGED lockHolder /\ (label \in {"signal", "test", "wait", "release"} => lockHolder = t)
             \/ Inside(t) /\ lockHolder' = t
             \/ Inside(t) /\ label \notin {"signal", "test", "wait", "release"}
      PROVE  MutualExclusion' /\ value'[Mutex] \in {0, 1}
  BY <1>1, <1>2 DEF MutualExclusion, Inside, InsidePcs
<1>3. ASSUME NEW t \in Threads, CallAppend(t) \/ CallRemoveFront(t)
      PROVE  MutualExclusion' /\ value'[Mutex] \in {0, 1}
  BY <1>2, <1>3 DEF CallAppend, CallRemoveFront, Call, Inside, InsidePcs
<1>4. ASSUME NEW t \in Threads, AcquireSleeps(t) \/ WaitSleeps(t)
      PROVE  MutualExclusion' /\ value'[Mutex] \in {0, 1}
  BY <1>1, <1>4 DEF AcquireSleeps, WaitSleeps, PSleeps, MutualExclusion, Inside
<1>5. ASSUME NEW t \in Threads, AcquireTakes(t)
      PROVE  MutualExclusion' /\ value'[Mutex] \in {0, 1}
  <2>1. /\ value[Mutex] = 1 /\ value'[Mutex] = 0
        /\ pc' = [pc EXCEPT ![t] = "own"] /\ UNCHANGED lockHolder
    BY <1>1, <1>5, NoSemIsBoth DEF AcquireTakes, PTakes
  <2> QED BY <1>1, <2>1 DEF MutualExclusion, Inside, InsidePcs
<1>6. ASSUME NEW t \in Threads, ReleaseV(t) \/ WaitV(t)
      PROVE  MutualExclusion' /\ value'[Mutex] \in {0, 1}
  <2>1. /\ Inside(t) /\ value[Mutex] = 0 /\ value'[Mutex] = 1 /\ UNCHANGED lockHolder
        /\ pc' = [pc EXCEPT ![t] = "idle"] \/ pc' = [pc EXCEPT ![t] = "sleep"]
    BY <1>1, <1>6, NoSemIsBoth DEF ReleaseV, WaitV, V, Inside, InsidePcs
  <2> QED BY <1>1, <2>1 DEF MutualExclusion, Inside, InsidePcs
<1>7. ASSUME NEW t \in Threads, WaitWakes(t)
      PROVE  MutualExclusion' /\ value'[Mutex] \in {0, 1}
  <2>1. value'[Mutex] = value[Mutex]
    BY <1>1, <1>7, NoSemIsBoth DEF WaitWakes, PTakes
  <2> QED BY <1>2, <1>7, <2>1 DEF WaitWakes, Inside, InsidePcs
<1>8. ASSUME NEW t \in Threads, Wake(t)
      PROVE  MutualExclusion' /\ value'[Mutex] \in {0, 1}
  <2>1. value'[Mutex] = value[Mutex]
    BY <1>1, <1>8, NoSemIsBoth, SignalledTyped DEF Wake, V
  <2>2. lockHolder = t
    BY <1>8 DEF Wake, CallMatchesPc
  <2> QED BY <1>2, <1>8, <2>1, <2>2 DEF Wake, Inside, InsidePcs
<1>9. ASSUME NEW t \in Threads, TestEmpty(t)
      PROVE  MutualExclusion' /\ value'[Mutex] \in {0, 1}
  <2>1. value'[Mutex] = value[Mutex]
    BY <1>1, <1>9, NoSemIsBoth DEF TestEmpty
  <2> QED BY <1>2, <1>9, <2>1 DEF TestEmpty, Inside, InsidePcs
<1>10. ASSUME NEW t \in Threads, Own(t)
       PROVE  MutualExclusion' /\ value'[Mutex] \in {0, 1}
  <2> DEFINE label == IF op[t] = "append" THEN "put" ELSE "test"
  <2>1. /\ pc' = [pc EXCEPT ![t] = label] /\ Inside(t) /\ label \in InsidePcs
        /\ lockHolder' = t /\ value' = value
    BY <1>10 DEF Own, Inside, InsidePcs
  <2> QED BY <1>2, <2>1
<1>11. ASSUME NEW t \in Threads, Put(t) \/ Take(t)
       PROVE  MutualExclusion' /\ value'[Mutex] \in {0, 1}
  <2>1. lockHolder = t
    BY <1>11 DEF Put, Take, CallMatchesPc
  <2> QED BY <1>2, <1>11, <2>1 DEF Put, Take, Inside, InsidePcs
<1>12. ASSUME NEW t \in Threads, SignalNobody(t) \/ Signal(t) \/ TestFull(t)
       PROVE  MutualExclusion' /\ value'[Mutex] \in {0, 1}
  BY <1>2, <1>12 DEF SignalNobody, Signal, TestFull, Inside, InsidePcs
<1>13. ASSUME NEW t \in Threads, Release(t) \/ WaitReleases(t)
       PROVE  MutualExclusion' /\ value'[Mutex] \in {0, 1}
  BY <1>2, <1>13 DEF Release, WaitReleases, Inside, InsidePcs
<1> QED BY <1>3, <1>4, <1>5, <1>6, <1>7, <1>8, <1>9, <1>10, <1>11, <1>12, <1>13
        DEF Next, Step

\* Only the thread inside changes the list.
LEMMA ListKeeps ==
  ASSUME IInv, Next
  PROVE  NeverRemovesFromEmpty'
<1> USE DEF IInv, At, Go
<1>1. \A t, u \in Threads : Inside(t) /\ Inside(u) => t = u
  BY DEF MutualExclusion
<1>2. pc \in [Threads -> PCs]
  BY DEF TypeOK
<1>3. ASSUME NEW t \in Threads, NEW label \in PCs \ {"take"},
             pc' = [pc EXCEPT ![t] = label], UNCHANGED list
      PROVE  NeverRemovesFromEmpty'
  BY <1>2, <1>3 DEF NeverRemovesFromEmpty
<1>4. ASSUME NEW t \in Threads, CallAppend(t) \/ CallRemoveFront(t)
      PROVE  NeverRemovesFromEmpty'
  BY <1>3, <1>4 DEF CallAppend, CallRemoveFront, Call, PCs
<1>5. ASSUME NEW t \in Threads, Own(t)
      PROVE  NeverRemovesFromEmpty'
  BY <1>3, <1>5 DEF Own, PCs
<1>6. ASSUME NEW t \in Threads,
             \/ AcquireTakes(t) \/ Release(t) \/ ReleaseV(t) \/ SignalNobody(t) \/ Signal(t)
             \/ Wake(t) \/ TestEmpty(t) \/ WaitReleases(t) \/ WaitV(t) \/ WaitWakes(t)
      PROVE  NeverRemovesFromEmpty'
  BY <1>3, <1>6 DEF AcquireTakes, Release, ReleaseV, SignalNobody, Signal, Wake, TestEmpty,
                    WaitReleases, WaitV, WaitWakes, PCs
<1>7. ASSUME NEW t \in Threads, AcquireSleeps(t) \/ WaitSleeps(t) \/ TestFull(t)
      PROVE  NeverRemovesFromEmpty'
  BY <1>2, <1>7 DEF AcquireSleeps, WaitSleeps, TestFull, NeverRemovesFromEmpty
<1>8. ASSUME NEW t \in Threads, Put(t) \/ Take(t)
      PROVE  NeverRemovesFromEmpty'
  <2>1. Inside(t)
    BY <1>8 DEF Put, Take, Inside, InsidePcs
  <2>2. \A u \in Threads : u # t => pc'[u] # "take"
    BY <1>1, <1>2, <1>8, <2>1 DEF Put, Take, Inside, InsidePcs
  <2>3. pc'[t] # "take"
    BY <1>2, <1>8 DEF Put, Take
  <2> QED BY <2>2, <2>3 DEF NeverRemovesFromEmpty
<1> QED BY <1>4, <1>5, <1>6, <1>7, <1>8 DEF Next, Step

-----------------------------------------------------------------------------
(* Each step keeps the account of signals.                                 *)

LEMMA SignalsKeep ==
  ASSUME IInv, Next, TypeOK'
  PROVE  SignalsAccounted'
<1> USE DEF IInv, At, Go
<1>1. /\ pc \in [Threads -> PCs] /\ value \in [Sems -> Nat]
      /\ signalled \in [Threads -> Threads \cup {Nil}] /\ waitQueue \in Seq(Threads)
  BY DEF TypeOK, SemTypeOK
<1>2. ASSUME UNCHANGED <<waitQueue, signalled>>,
             \A t \in Threads : value'[t] = value[t] /\ (InWait(t)' <=> InWait(t))
      PROVE  SignalsAccounted'
  BY <1>2 DEF SignalsAccounted, InQueue, BeingSignalled
<1>3. ASSUME NEW t \in Threads, CallAppend(t) \/ CallRemoveFront(t)
      PROVE  SignalsAccounted'
  BY <1>1, <1>2, <1>3 DEF CallAppend, CallRemoveFront, Call, InWait
<1>4. ASSUME NEW t \in Threads, AcquireSleeps(t) \/ WaitSleeps(t)
      PROVE  SignalsAccounted'
  BY <1>1, <1>2, <1>4 DEF AcquireSleeps, WaitSleeps, PSleeps, InWait
<1>5. ASSUME NEW t \in Threads, AcquireTakes(t)
      PROVE  SignalsAccounted'
  BY <1>1, <1>2, <1>5, NoSemIsBoth DEF AcquireTakes, PTakes, InWait
<1>6. ASSUME NEW t \in Threads, ReleaseV(t) \/ WaitV(t)
      PROVE  SignalsAccounted'
  BY <1>1, <1>2, <1>6, NoSemIsBoth DEF ReleaseV, WaitV, V, InWait
<1>7. ASSUME NEW t \in Threads,
             \/ Own(t) \/ Release(t) \/ Put(t) \/ SignalNobody(t) \/ TestFull(t)
             \/ WaitReleases(t) \/ Take(t)
      PROVE  SignalsAccounted'
  BY <1>1, <1>2, <1>7 DEF Own, Release, Put, SignalNobody, TestFull, WaitReleases, Take, InWait
<1>8. ASSUME NEW t \in Threads, TestEmpty(t)
      PROVE  SignalsAccounted'
  <2>1. ~InWait(t) /\ ~InQueue(t) /\ ~BeingSignalled(t)
    BY <1>8 DEF TestEmpty, InWait, SignalsAccounted
  <2>2. /\ waitQueue' = Append(waitQueue, t) /\ UNCHANGED signalled
        /\ pc' = [pc EXCEPT ![t] = "wait"] /\ value' = [value EXCEPT ![t] = 0]
    BY <1>8 DEF TestEmpty
  <2>3. IsInjective(waitQueue') /\ Range(waitQueue') = Range(waitQueue) \cup {t}
    BY <1>1, <2>1, <2>2, AppendAdds DEF SignalsAccounted, NoRepeats, InQueue
  <2>4. /\ \A u \in Threads : InQueue(u)' <=> InQueue(u) \/ u = t
        /\ \A u \in Threads : BeingSignalled(u)' <=> BeingSignalled(u)
        /\ \A u \in Threads : InWait(u)' <=> InWait(u) \/ u = t
        /\ \A u \in Threads : value'[u] = IF u = t THEN 0 ELSE value[u]
    BY <1>1, <2>2, <2>3, NoSemIsBoth DEF InQueue, BeingSignalled, InWait
  <2> QED BY <2>1, <2>2, <2>3, <2>4 DEF SignalsAccounted
<1>9. ASSUME NEW t \in Threads, Signal(t)
      PROVE  SignalsAccounted'
  <2> DEFINE x == Head(waitQueue)
  <2>1. /\ waitQueue # <<>> /\ waitQueue' = Tail(waitQueue) /\ pc[t] = "signal"
        /\ signalled' = [signalled EXCEPT ![t] = x] /\ pc' = [pc EXCEPT ![t] = "wake"]
        /\ value' = value
    BY <1>9 DEF Signal
  <2>2. /\ IsInjective(waitQueue') /\ Range(waitQueue') = Range(waitQueue) \ {x}
        /\ x \in Range(waitQueue) /\ x \in Threads
    BY <1>1, <2>1, TailRemoves, HeadTailProperties DEF SignalsAccounted, NoRepeats
  <2> HIDE DEF x
  <2>3. signalled[t] = Nil
    BY <2>1 DEF CallMatchesPc
  <2>4. InQueue(x) /\ ~BeingSignalled(x) /\ value[x] = 0 /\ x # Nil
    BY <2>2, NamesAssumption DEF SignalsAccounted, InQueue
  <2>5. /\ \A u \in Threads : InQueue(u)' <=> InQueue(u) /\ u # x
        /\ \A u \in Threads : BeingSignalled(u)' <=> BeingSignalled(u) \/ u = x
        /\ \A u \in Threads : InWait(u)' <=> InWait(u)
        /\ \A u \in Threads : value'[u] = value[u]
    BY <1>1, <2>1, <2>2, <2>3, NamesAssumption DEF InQueue, BeingSignalled, InWait
  <2>6. \A u, v \in Threads : signalled'[u] = signalled'[v] /\ u # v => signalled'[u] = Nil
    BY <1>1, <2>1, <2>4 DEF SignalsAccounted, BeingSignalled
  <2> QED BY <2>2, <2>4, <2>5, <2>6 DEF SignalsAccounted
<1>10. ASSUME NEW t \in Threads, Wake(t)
       PROVE  SignalsAccounted'
  <2> DEFINE x == signalled[t]
  <2>1. /\ x \in Threads /\ x # Nil
        /\ value' = [value EXCEPT ![x] = @ + 1] /\ UNCHANGED waitQueue
        /\ signalled' = [signalled EXCEPT ![t] = Nil]
        /\ pc[t] = "wake" /\ pc' = [pc EXCEPT ![t] = "release"]
    BY <1>10, SignalledTyped, NamesAssumption DEF Wake, V
  <2>2. BeingSignalled(x) /\ value[x] = 0 /\ ~InQueue(x)
    BY <2>1 DEF BeingSignalled, SignalsAccounted
  <2>3. \A u \in Threads : u # t => signalled[u] # x
    BY <2>1 DEF SignalsAccounted
  <2> HIDE DEF x
  <2>4. /\ \A u \in Threads : InQueue(u)' <=> InQueue(u)
        /\ \A u \in Threads : BeingSignalled(u)' <=> BeingSignalled(u) /\ u # x
        /\ \A u \in Threads : InWait(u)' <=> InWait(u)
        /\ \A u \in Threads : value'[u] = IF u = x THEN 1 ELSE value[u]
    <3>1. \A u \in Threads : BeingSignalled(u)' <=> BeingSignalled(u) /\ u # x
      <4>1. signalled[t] = x
        BY DEF x
      <4> QED BY <1>1, <2>1, <2>3, <4>1, NamesAssumption DEF BeingSignalled
    <3>2. \A u \in Threads : value'[u] = IF u = x THEN 1 ELSE value[u]
      BY <1>1, <2>1, <2>2, NoSemIsBoth
    <3>3. \A u \in Threads : (InQueue(u)' <=> InQueue(u)) /\ (InWait(u)' <=> InWait(u))
      BY <1>1, <2>1 DEF InQueue, InWait
    <3> QED BY <3>1, <3>2, <3>3
  <2>5. \A u, v \in Threads : signalled'[u] = signalled'[v] /\ u # v => signalled'[u] = Nil
    BY <1>1, <2>1 DEF SignalsAccounted
  <2>6. IsInjective(waitQueue')
    BY <2>1 DEF SignalsAccounted
  <2> QED BY <2>2, <2>4, <2>5, <2>6 DEF SignalsAccounted
<1>11. ASSUME NEW t \in Threads, WaitWakes(t)
       PROVE  SignalsAccounted'
  <2>1. /\ value[t] > 0 /\ value' = [value EXCEPT ![t] = @ - 1]
        /\ UNCHANGED <<waitQueue, signalled>>
        /\ pc' = [pc EXCEPT ![t] = "acquire"]
    BY <1>11 DEF WaitWakes, PTakes
  <2>2. value[t] = 1 /\ ~InQueue(t) /\ ~BeingSignalled(t)
    BY <2>1 DEF SignalsAccounted
  <2>3. /\ \A u \in Threads : InQueue(u)' <=> InQueue(u)
        /\ \A u \in Threads : BeingSignalled(u)' <=> BeingSignalled(u)
        /\ \A u \in Threads : InWait(u)' <=> InWait(u) /\ u # t
        /\ \A u \in Threads : value'[u] = IF u = t THEN 0 ELSE value[u]
    BY <1>1, <2>1, <2>2, NoSemIsBoth DEF InQueue, BeingSignalled, InWait
  <2> QED BY <2>1, <2>2, <2>3 DEF SignalsAccounted
<1> QED BY <1>3, <1>4, <1>5, <1>6, <1>7, <1>8, <1>9, <1>10, <1>11 DEF Next, Step

-----------------------------------------------------------------------------
(* Each step keeps the waiters and the calls.                              *)

LEMMA CallsKeep ==
  ASSUME IInv, Next, value'[Mutex] \in {0, 1}
  PROVE  CallMatchesPc'
<1> USE NamesAssumption DEF IInv, At, Go
<1>1. /\ pc \in [Threads -> PCs] /\ op \in [Threads -> {"none", "append", "remove"}]
      /\ item \in [Threads -> Items \cup {Nil}] /\ waiter \in [Threads -> BOOLEAN]
      /\ signalled \in [Threads -> Threads \cup {Nil}]
      /\ \A t, u \in Threads : Inside(t) /\ Inside(u) => t = u
  BY DEF TypeOK, MutualExclusion
<1> DEFINE Matches(t) ==
      /\ pc[t] = "idle" <=> op[t] = "none"
      /\ op[t] = "none" => item[t] = Nil
      /\ op[t] = "append" => item[t] \in Items
      /\ pc[t] \in {"put", "signal", "wake"} => op[t] = "append"
      /\ pc[t] \in {"test", "take"} \/ InWait(t) => op[t] = "remove"
      /\ InWait(t) => waiter[t]
      /\ pc[t] = "wake" <=> signalled[t] # Nil
      /\ pc[t] \in {"put", "wake", "take"} => lockHolder = t
<1>2. CallMatchesPc' <=> value'[Mutex] \in {0, 1} /\ \A t \in Threads : Matches(t)'
  BY DEF CallMatchesPc
<1>3. \A t \in Threads : Matches(t)
  BY DEF CallMatchesPc
\* The other threads: only the holder of the lock is at a label that names it.
<1>4. ASSUME NEW t \in Threads, Matches(t)',
             \A u \in Threads : u # t =>
               /\ pc'[u] = pc[u] /\ op'[u] = op[u] /\ item'[u] = item[u]
               /\ waiter'[u] = waiter[u] /\ signalled'[u] = signalled[u],
             UNCHANGED lockHolder \/ Inside(t)
      PROVE  CallMatchesPc'
  <2>1. \A u \in Threads : u # t /\ Inside(t) => pc[u] \notin {"put", "wake", "take"}
    BY <1>1 DEF Inside, InsidePcs
  <2>2. \A u \in Threads : u # t => Matches(u)'
    BY <1>3, <1>4, <2>1 DEF InWait
  <2> QED BY <1>2, <1>4, <2>2
<1>5. ASSUME NEW t \in Threads, CallAppend(t) \/ CallRemoveFront(t)
      PROVE  CallMatchesPc'
  <2>1. Matches(t)'
    BY <1>1, <1>3, <1>5 DEF CallAppend, CallRemoveFront, Call, InWait
  <2> QED BY <1>1, <1>4, <1>5, <2>1 DEF CallAppend, CallRemoveFront, Call
<1>6. ASSUME NEW t \in Threads, AcquireSleeps(t) \/ WaitSleeps(t)
      PROVE  CallMatchesPc'
  BY <1>3, <1>4, <1>6 DEF AcquireSleeps, WaitSleeps, InWait
<1>7. ASSUME NEW t \in Threads, AcquireTakes(t) \/ WaitWakes(t) \/ WaitV(t)
      PROVE  CallMatchesPc'
  <2>1. Matches(t)'
    BY <1>1, <1>3, <1>7 DEF AcquireTakes, WaitWakes, WaitV, InWait
  <2> QED BY <1>1, <1>4, <1>7, <2>1 DEF AcquireTakes, WaitWakes, WaitV
<1>8. ASSUME NEW t \in Threads, Own(t)
      PROVE  CallMatchesPc'
  <2>1. Matches(t)'
    BY <1>1, <1>3, <1>8 DEF Own, InWait
  <2>2. Inside(t)
    BY <1>8 DEF Own, Inside, InsidePcs
  <2> QED BY <1>1, <1>4, <1>8, <2>1, <2>2 DEF Own
<1>9. ASSUME NEW t \in Threads, Release(t) \/ WaitReleases(t)
      PROVE  CallMatchesPc'
  <2>1. Matches(t)'
    BY <1>1, <1>3, <1>9 DEF Release, WaitReleases, InWait
  <2>2. Inside(t)
    BY <1>9 DEF Release, WaitReleases, Inside, InsidePcs
  <2> QED BY <1>1, <1>4, <1>9, <2>1, <2>2 DEF Release, WaitReleases
<1>10. ASSUME NEW t \in Threads, ReleaseV(t) \/ Put(t) \/ SignalNobody(t)
       PROVE  CallMatchesPc'
  <2>1. Matches(t)'
    BY <1>1, <1>3, <1>10 DEF ReleaseV, Put, SignalNobody, InWait
  <2> QED BY <1>1, <1>4, <1>10, <2>1 DEF ReleaseV, Put, SignalNobody
<1>11. ASSUME NEW t \in Threads, Signal(t)
       PROVE  CallMatchesPc'
  <2>1. Head(waitQueue) \in Threads
    BY <1>11, HeadTailProperties DEF Signal, TypeOK
  <2>2. Matches(t)'
    BY <1>1, <1>3, <1>11, <2>1 DEF Signal, InWait
  <2> QED BY <1>1, <1>4, <1>11, <2>2 DEF Signal
<1>12. ASSUME NEW t \in Threads, Wake(t)
       PROVE  CallMatchesPc'
  <2>1. Matches(t)'
    BY <1>1, <1>3, <1>12 DEF Wake, InWait
  <2> QED BY <1>1, <1>4, <1>12, <2>1 DEF Wake
<1>13. ASSUME NEW t \in Threads, TestFull(t) \/ TestEmpty(t) \/ Take(t)
       PROVE  CallMatchesPc'
  <2>1. lockHolder = t
    BY <1>13 DEF TestFull, TestEmpty, Take, MutualExclusion, CallMatchesPc
  <2>2. Matches(t)'
    BY <1>1, <1>3, <1>13, <2>1 DEF TestFull, TestEmpty, Take, InWait
  <2> QED BY <1>1, <1>4, <1>13, <2>2 DEF TestFull, TestEmpty, Take
<1> QED BY <1>5, <1>6, <1>7, <1>8, <1>9, <1>10, <1>11, <1>12, <1>13 DEF Next, Step

-----------------------------------------------------------------------------
(* The theorems.                                                           *)

LEMMA NextKeeps == IInv /\ [Next]_vars => IInv'
<1> SUFFICES ASSUME IInv, [Next]_vars PROVE IInv'
  OBVIOUS
<1>1. CASE UNCHANGED vars
  <2>1. TypeOK' /\ MutualExclusion' /\ NeverRemovesFromEmpty'
    BY <1>1 DEF vars, IInv, TypeOK, SemTypeOK, MutualExclusion, NeverRemovesFromEmpty, Inside
  <2>2. SignalsAccounted' /\ WaitersAlive' /\ CallMatchesPc'
    BY <1>1 DEF vars, IInv, SignalsAccounted, WaitersAlive, CallMatchesPc, InWait, InQueue,
                BeingSignalled
  <2> QED BY <2>1, <2>2 DEF IInv
<1>2. CASE Next
  <2>1. TypeOK' /\ MutualExclusion' /\ value'[Mutex] \in {0, 1} /\ NeverRemovesFromEmpty'
    BY <1>2, TypeKeeps, MutexKeeps, ListKeeps
  <2>2. SignalsAccounted' /\ CallMatchesPc'
    BY <1>2, <2>1, SignalsKeep, CallsKeep
  <2>3. WaitersAlive'
    BY <2>2 DEF SignalsAccounted, CallMatchesPc, WaitersAlive
  <2> QED BY <2>1, <2>2, <2>3 DEF IInv
<1> QED BY <1>1, <1>2

THEOREM Invariance == Spec => []IInv
<1>1. Init => IInv
  BY InitHolds
<1>2. IInv /\ [Next]_vars => IInv'
  BY NextKeeps
<1> QED BY <1>1, <1>2, PTL DEF Spec

\* Type correctness.
THEOREM TypeCorrect == Spec => []TypeOK
<1>1. IInv => TypeOK
  BY DEF IInv
<1> QED BY <1>1, Invariance, PTL

\* Lock::Acquire and Lock::Release exclude each other's callers, for any number
\* of threads, and the ASSERTs on lockHolder hold.
THEOREM LockExcludes == Spec => []MutualExclusion
<1>1. IInv => MutualExclusion
  BY DEF IInv
<1> QED BY <1>1, Invariance, PTL

\* The ASSERT of List::RemoveFront holds in SynchList::RemoveFront.
THEOREM RemovesAreSafe == Spec => []NeverRemovesFromEmpty
<1>1. IInv => NeverRemovesFromEmpty
  BY DEF IInv
<1> QED BY <1>1, Invariance, PTL

\* "There is no chance the waiter will miss the signal."
THEOREM NoSignalIsLost == Spec => []SignalsAccounted
<1>1. IInv => SignalsAccounted
  BY DEF IInv
<1> QED BY <1>1, Invariance, PTL

\* No pointer to a deleted waiter is left.
THEOREM WaitersAreAlive == Spec => []WaitersAlive
<1>1. IInv => WaitersAlive
  BY DEF IInv
<1> QED BY <1>1, Invariance, PTL

(* Each thread is where its call can be, and holds the lock exactly there.  *)
THEOREM CallsMatchTheirPlace == Spec => []CallMatchesPc
<1>1. IInv => CallMatchesPc
  BY DEF IInv
<1> QED BY <1>1, Invariance, PTL

-----------------------------------------------------------------------------
(* No wakeup is lost in P.  Inductive with IInv: a thread is in the queue   *)
(* of the semaphore whose loop it is in, once, and if a queue is not empty  *)
(* although the value is not 0, some thread is about to test it.            *)

LoopOf(s) == IF s = Mutex THEN "acquire" ELSE "sleep"

SleepersPlaced ==
  \A s \in Sems : /\ NoRepeats(queue[s])
                  /\ \A t \in Range(queue[s]) : pc[t] = LoopOf(s) /\ (s = Mutex \/ s = t)
SomeoneTests == \A s \in Sems : queue[s] # <<>> /\ value[s] # 0 => Testing(s) # {}

LEMMA SemaphoresTyped ==
  IInv => /\ \A s \in Sems : value[s] \in {0, 1} /\ queue[s] \in Seq(Threads)
          /\ value \in [Sems -> Nat] /\ queue \in [Sems -> Seq(Threads)]
          /\ pc \in [Threads -> PCs]
BY SemsAssumption DEF IInv, TypeOK, SemTypeOK, CallMatchesPc, SignalsAccounted

\* A step of a thread awake, which changes no queue and raises no value.
LEMMA AwakeStepMatches ==
  ASSUME IInv, SleepersPlaced, SomeoneTests, NEW t \in Threads, ~Asleep(t),
         NEW label, pc' = [pc EXCEPT ![t] = label], UNCHANGED queue,
         \A s \in Sems : \/ value'[s] = 0
                         \/ value'[s] = value[s] /\ ~(pc[t] = LoopOf(s) /\ (s = Mutex \/ s = t))
  PROVE  SleepersPlaced' /\ SomeoneTests'
<1>1. pc \in [Threads -> PCs] /\ \A s \in Sems : queue[s] \in Seq(Threads)
  BY SemaphoresTyped
<1>2. \A s \in Sems : t \notin Range(queue[s]) /\ Range(queue[s]) \subseteq Threads
  BY <1>1 DEF Asleep, Range
<1>3. SleepersPlaced'
  BY <1>1, <1>2 DEF SleepersPlaced, LoopOf
<1>4. ASSUME NEW s \in Sems, queue'[s] # <<>>, value'[s] # 0
      PROVE  Testing(s)' # {}
  <2>1. value'[s] = value[s] /\ ~(pc[t] = LoopOf(s) /\ (s = Mutex \/ s = t))
    BY <1>4
  <2>2. PICK u \in Threads : pc[u] = LoopOf(s) /\ (s = Mutex \/ s = u) /\ ~Asleep(u)
    BY <1>4, <2>1 DEF SomeoneTests, Testing, LoopOf
  <2>3. u # t /\ pc'[u] = pc[u] /\ ~Asleep(u)'
    BY <1>1, <2>1, <2>2 DEF Asleep
  <2> QED BY <2>2, <2>3 DEF Testing, LoopOf
<1> QED BY <1>3, <1>4 DEF SomeoneTests

\* P finds 0 and the thread goes to sleep.
LEMMA SleepMatches ==
  ASSUME IInv, SleepersPlaced, SomeoneTests, NEW t \in Threads, ~Asleep(t),
         NEW s \in Sems, pc[t] = LoopOf(s), s = Mutex \/ s = t, PSleeps(t, s), UNCHANGED pc
  PROVE  SleepersPlaced' /\ SomeoneTests'
<1>1. /\ \A r \in Sems : queue[r] \in Seq(Threads)
      /\ queue \in [Sems -> Seq(Threads)]
  BY SemaphoresTyped
<1>2. /\ queue'[s] = Append(queue[s], t) /\ \A r \in Sems : r # s => queue'[r] = queue[r]
      /\ value' = value /\ value[s] = 0
  BY <1>1 DEF PSleeps
<1>3. t \notin Range(queue[s]) /\ NoRepeats(queue[s])
  BY DEF Asleep, SleepersPlaced
<1>4. NoRepeats(queue'[s]) /\ Range(queue'[s]) = Range(queue[s]) \cup {t}
  BY <1>1, <1>2, <1>3, AppendAdds
<1>5. SleepersPlaced'
  <2>1. \A u \in Range(queue'[s]) : pc'[u] = LoopOf(s) /\ (s = Mutex \/ s = u)
    BY <1>4 DEF SleepersPlaced
  <2>2. \A r \in Sems : r # s => NoRepeats(queue'[r])
          /\ \A u \in Range(queue'[r]) : pc'[u] = LoopOf(r) /\ (r = Mutex \/ r = u)
    BY <1>2 DEF SleepersPlaced
  <2> QED BY <1>4, <2>1, <2>2 DEF SleepersPlaced, LoopOf
<1>6. ASSUME NEW r \in Sems, queue'[r] # <<>>, value'[r] # 0
      PROVE  Testing(r)' # {}
  <2>1. r # s /\ queue[r] # <<>> /\ value[r] # 0
    BY <1>2, <1>6
  <2>2. PICK u \in Threads : pc[u] = LoopOf(r) /\ (r = Mutex \/ r = u) /\ ~Asleep(u)
    BY <2>1 DEF SomeoneTests, Testing, LoopOf
  <2>3. u # t
    BY <2>1, <2>2, NoSemIsBoth DEF LoopOf
  <2>4. ~Asleep(u)'
    BY <1>2, <1>4, <2>2, <2>3 DEF Asleep
  <2> QED BY <2>2, <2>4 DEF Testing, LoopOf
<1> QED BY <1>5, <1>6 DEF SomeoneTests

\* V wakes the first sleeper, who then tests the value.
LEMMA WakeMatches ==
  ASSUME IInv, SleepersPlaced, SomeoneTests, NEW t \in Threads, ~Asleep(t),
         pc[t] \notin {"acquire", "sleep"},
         NEW s \in Sems, V(s), NEW label, pc' = [pc EXCEPT ![t] = label]
  PROVE  SleepersPlaced' /\ SomeoneTests'
<1>1. /\ \A r \in Sems : queue[r] \in Seq(Threads) /\ Range(queue[r]) \subseteq Threads
      /\ queue \in [Sems -> Seq(Threads)] /\ value \in [Sems -> Nat] /\ pc \in [Threads -> PCs]
  BY SemaphoresTyped DEF Range
<1>2. /\ queue'[s] = IF queue[s] = <<>> THEN <<>> ELSE Tail(queue[s])
      /\ \A r \in Sems : r # s => queue'[r] = queue[r] /\ value'[r] = value[r]
  BY <1>1 DEF V
<1>3. \A r \in Sems : t \notin Range(queue[r])
  BY DEF Asleep
<1>4. queue[s] # <<>> =>
        /\ NoRepeats(queue'[s]) /\ Range(queue'[s]) = Range(queue[s]) \ {Head(queue[s])}
        /\ Head(queue[s]) \in Range(queue[s])
  BY <1>1, <1>2, TailRemoves DEF SleepersPlaced
<1>5. queue[s] = <<>> => queue'[s] = queue[s]
  BY <1>2
<1>6. \A r \in Sems : NoRepeats(queue'[r]) /\ Range(queue'[r]) \subseteq Range(queue[r])
  BY <1>2, <1>4, <1>5 DEF SleepersPlaced
<1>7. SleepersPlaced'
  BY <1>1, <1>3, <1>6 DEF SleepersPlaced, LoopOf
<1>8. ASSUME NEW r \in Sems, NEW u \in Threads, u # t, pc[u] = LoopOf(r), r = Mutex \/ r = u,
             ~Asleep(u)'
      PROVE  Testing(r)' # {}
  BY <1>1, <1>8 DEF Testing, LoopOf
<1>9. ASSUME NEW r \in Sems, queue'[r] # <<>>, value'[r] # 0
      PROVE  Testing(r)' # {}
  <2>1. CASE r = s
    <3>1. PICK h \in Threads : h \in Range(queue[s]) /\ h \notin Range(queue'[s])
      BY <1>1, <1>2, <1>4, <1>9, <2>1
    <3>2. h # t /\ pc[h] = LoopOf(s) /\ (s = Mutex \/ s = h)
      BY <1>3, <3>1 DEF SleepersPlaced
    <3>3. \A q \in Sems : q # s => h \notin Range(queue[q])
      BY <3>2, NoSemIsBoth DEF SleepersPlaced, LoopOf
    <3>4. ~Asleep(h)'
      BY <1>2, <3>1, <3>3 DEF Asleep
    <3> QED BY <1>8, <2>1, <3>2, <3>4
  <2>2. CASE r # s
    <3>1. PICK u \in Threads : pc[u] = LoopOf(r) /\ (r = Mutex \/ r = u) /\ ~Asleep(u)
      BY <1>2, <1>9, <2>2 DEF SomeoneTests, Testing, LoopOf
    <3>2. ~Asleep(u)' /\ u # t
      BY <1>6, <3>1 DEF Asleep, LoopOf
    <3> QED BY <1>8, <3>1, <3>2
  <2> QED BY <2>1, <2>2
<1> QED BY <1>7, <1>9 DEF SomeoneTests

LEMMA WakeupsKeep ==
  ASSUME IInv, SleepersPlaced, SomeoneTests, [Next]_vars
  PROVE  SleepersPlaced' /\ SomeoneTests'
<1> USE DEF At, Go
<1>1. CASE UNCHANGED vars
  BY <1>1 DEF vars, SleepersPlaced, SomeoneTests, Testing, Asleep
<1>2. ASSUME NEW t \in Threads, CallAppend(t) \/ CallRemoveFront(t)
      PROVE  SleepersPlaced' /\ SomeoneTests'
  BY <1>2, AwakeStepMatches DEF CallAppend, CallRemoveFront, Call, LoopOf
<1>3. ASSUME NEW t \in Threads, AcquireSleeps(t)
      PROVE  SleepersPlaced' /\ SomeoneTests'
  BY <1>3, SleepMatches, NoSemIsBoth DEF AcquireSleeps, LoopOf
<1>4. ASSUME NEW t \in Threads, WaitSleeps(t)
      PROVE  SleepersPlaced' /\ SomeoneTests'
  BY <1>4, SleepMatches, NoSemIsBoth DEF WaitSleeps, LoopOf
<1>5. ASSUME NEW t \in Threads, AcquireTakes(t)
      PROVE  SleepersPlaced' /\ SomeoneTests'
  <2>1. \A s \in Sems : IF s = Mutex THEN value'[s] = 0 ELSE value'[s] = value[s]
    BY <1>5, SemaphoresTyped, NoSemIsBoth DEF AcquireTakes, PTakes
  <2> QED BY <1>5, <2>1, AwakeStepMatches DEF AcquireTakes, PTakes, LoopOf
<1>6. ASSUME NEW t \in Threads, WaitWakes(t)
      PROVE  SleepersPlaced' /\ SomeoneTests'
  <2>1. \A s \in Sems : IF s = t THEN value'[s] = 0 ELSE value'[s] = value[s]
    BY <1>6, SemaphoresTyped, NoSemIsBoth DEF WaitWakes, PTakes
  <2> QED BY <1>6, <2>1, AwakeStepMatches DEF WaitWakes, PTakes, LoopOf
<1>7. ASSUME NEW t \in Threads, TestEmpty(t)
      PROVE  SleepersPlaced' /\ SomeoneTests'
  <2>1. \A s \in Sems : IF s = t THEN value'[s] = 0 ELSE value'[s] = value[s]
    BY <1>7, SemaphoresTyped, NoSemIsBoth DEF TestEmpty
  <2> QED BY <1>7, <2>1, AwakeStepMatches DEF TestEmpty, LoopOf
<1>8. ASSUME NEW t \in Threads, ReleaseV(t) \/ WaitV(t)
      PROVE  SleepersPlaced' /\ SomeoneTests'
  BY <1>8, WakeMatches, SemsAssumption DEF ReleaseV, WaitV
<1>9. ASSUME NEW t \in Threads, Wake(t)
      PROVE  SleepersPlaced' /\ SomeoneTests'
  BY <1>9, WakeMatches, SignalledTyped, NoSemIsBoth DEF Wake
<1>10. ASSUME NEW t \in Threads,
              \/ Own(t) \/ Release(t) \/ Put(t) \/ SignalNobody(t) \/ Signal(t) \/ TestFull(t)
              \/ WaitReleases(t) \/ Take(t)
       PROVE  SleepersPlaced' /\ SomeoneTests'
  <2>1. /\ pc[t] \notin {"acquire", "sleep"} /\ ~Asleep(t) /\ UNCHANGED <<value, queue>>
        /\ \E label : pc' = [pc EXCEPT ![t] = label]
    BY <1>10 DEF Own, Release, Put, SignalNobody, Signal, TestFull, WaitReleases, Take
  <2> QED BY <2>1, AwakeStepMatches DEF LoopOf
<1> QED BY <1>1, <1>2, <1>3, <1>4, <1>5, <1>6, <1>7, <1>8, <1>9, <1>10 DEF Next, Step

\* P and V lose no wakeup, whichever thread is faster: a thread that sleeps while
\* the value is not 0 has a thread before it that will take the value.
THEOREM NoWakeupIsLost == Spec => []WakeupsMatched
<1>1. Init => SleepersPlaced /\ SomeoneTests
  <2> SUFFICES ASSUME Init PROVE SleepersPlaced /\ SomeoneTests
    OBVIOUS
  <2>1. \A s \in Sems : queue[s] = <<>>
    BY DEF Init
  <2> QED BY <2>1 DEF SleepersPlaced, SomeoneTests, NoRepeats, IsInjective, Range
<1>2. IInv /\ SleepersPlaced /\ SomeoneTests /\ [Next]_vars => SleepersPlaced' /\ SomeoneTests'
  BY WakeupsKeep
<1>3. IInv /\ SomeoneTests => WakeupsMatched
  <2> SUFFICES ASSUME IInv, SomeoneTests, NEW s \in Sems, queue[s] # <<>>
               PROVE  value[s] <= Cardinality(Testing(s))
    BY DEF WakeupsMatched
  <2>1. value[s] \in {0, 1} /\ (value[s] # 0 => Testing(s) # {})
    BY SemaphoresTyped DEF SomeoneTests
  <2>2. IsFiniteSet(Testing(s))
    BY ThreadsAssumption, FS_Subset DEF Testing
  <2>3. /\ Cardinality(Testing(s)) \in Nat
        /\ Cardinality(Testing(s)) = 0 <=> Testing(s) = {}
    BY <2>2, FS_CardinalityType, FS_EmptySet
  <2> QED BY <2>1, <2>3
<1> QED BY <1>1, <1>2, <1>3, Invariance, PTL DEF Spec

-----------------------------------------------------------------------------
(* SynchList implements the blocking queue.                                *)

\* A step of t that keeps its call and whether it has taken effect is a stutter.
LEMMA Stutters ==
  ASSUME IInv, NEW t \in Threads, NEW l, pc' = [pc EXCEPT ![t] = l], op' = op, item' = item,
         \/ pc[t] \notin {"signal", "wake", "release", "releaseV"}
            /\ l \notin {"signal", "wake", "release", "releaseV"}
         \/ pc[t] \in {"release", "releaseV"} /\ l \in {"release", "releaseV"}
         \/ /\ op[t] = "append"
            /\ pc[t] \in {"signal", "wake", "release", "releaseV"}
            /\ l \in {"signal", "wake", "release", "releaseV"}
  PROVE  Invocations' = Invocations
<1>1. \A u \in Threads : Done(u)' = Done(u)
  BY DEF IInv, TypeOK, Done
<1> QED BY <1>1 DEF Invocations

LEMMA StepsImplement == IInv /\ [Next]_vars => [B!BNext]_<<list, Invocations>>
<1> SUFFICES ASSUME IInv, [Next]_vars PROVE [B!BNext]_<<list, Invocations>>
  OBVIOUS
<1> USE DEF At, Go
<1>1. CASE UNCHANGED vars
  BY <1>1 DEF vars, Invocations, Done
<1>2. ASSUME NEW t \in Threads, NEW which \in {"append", "remove"},
             NEW x \in Items \cup {Nil}, Call(t, which, x),
             which = "append" => x \in Items, which = "remove" => x = Nil
      PROVE  B!BNext
  <2>1. op[t] = "none" /\ item[t] = Nil /\ Done(t) = FALSE
    BY <1>2 DEF IInv, CallMatchesPc, Call, Done
  <2>2. Done(t)' = FALSE /\ \A u \in Threads \ {t} : Done(u)' = Done(u)
    BY <1>2 DEF IInv, TypeOK, Call, Done
  <2>3. Invocations[t] = B!Idle /\ list' = list
    BY <1>2, <2>1 DEF Call, Invocations, B!Idle
  <2>4. Invocations' = [Invocations EXCEPT ![t] = [op |-> which, item |-> x, done |-> FALSE]]
    BY <1>2, <2>2 DEF IInv, TypeOK, Call, Invocations
  <2>5. B!Invoke(t, which, x)
    BY <2>3, <2>4 DEF B!Invoke
  <2> QED BY <1>2, <2>5 DEF B!BNext
<1>3. ASSUME NEW t \in Threads, AcquireSleeps(t) \/ WaitSleeps(t)
      PROVE  UNCHANGED <<list, Invocations>>
  BY <1>3 DEF AcquireSleeps, WaitSleeps, Invocations, Done
<1>4. ASSUME NEW t \in Threads,
             AcquireTakes(t) \/ Own(t) \/ TestFull(t) \/ TestEmpty(t) \/ WaitReleases(t)
             \/ WaitV(t) \/ WaitWakes(t)
      PROVE  UNCHANGED <<list, Invocations>>
  <2>1. PICK l \in {"own", "put", "take", "test", "wait", "waitV", "sleep", "acquire"} :
          pc' = [pc EXCEPT ![t] = l]
    BY <1>4 DEF AcquireTakes, Own, TestFull, TestEmpty, WaitReleases, WaitV, WaitWakes
  <2>2. op' = op /\ item' = item /\ list' = list
    BY <1>4 DEF AcquireTakes, Own, TestFull, TestEmpty, WaitReleases, WaitV, WaitWakes
  <2>3. pc[t] \notin {"signal", "wake", "release", "releaseV"}
    BY <1>4 DEF AcquireTakes, Own, TestFull, TestEmpty, WaitReleases, WaitV, WaitWakes
  <2> QED BY <2>1, <2>2, <2>3, Stutters
<1>5. ASSUME NEW t \in Threads, SignalNobody(t) \/ Signal(t) \/ Wake(t) \/ Release(t)
      PROVE  UNCHANGED <<list, Invocations>>
  <2>1. PICK l \in {"wake", "release", "releaseV"} : pc' = [pc EXCEPT ![t] = l]
    BY <1>5 DEF SignalNobody, Signal, Wake, Release
  <2>2. op' = op /\ item' = item /\ list' = list
    BY <1>5 DEF SignalNobody, Signal, Wake, Release
  <2>3. pc[t] \in {"signal", "wake", "release"}
    BY <1>5 DEF SignalNobody, Signal, Wake, Release
  <2>4. CASE op[t] = "append"
    BY <2>1, <2>2, <2>3, <2>4, Stutters
  <2>5. CASE op[t] # "append"
    <3>1. Release(t)
      BY <1>5, <2>5 DEF SignalNobody, Signal, Wake, IInv, CallMatchesPc
    <3>2. pc[t] = "release" /\ pc' = [pc EXCEPT ![t] = "releaseV"]
      BY <3>1 DEF Release
    <3> QED BY <2>2, <3>2, Stutters
  <2> QED BY <2>4, <2>5
<1>6. ASSUME NEW t \in Threads, ReleaseV(t)
      PROVE  B!BNext
  <2>1. Done(t) = TRUE /\ Done(t)' = FALSE /\ \A u \in Threads \ {t} : Done(u)' = Done(u)
    BY <1>6 DEF IInv, TypeOK, ReleaseV, Done
  <2>2. Invocations' = [Invocations EXCEPT ![t] = B!Idle]
    BY <1>6, <2>1 DEF IInv, TypeOK, ReleaseV, Invocations, B!Idle
  <2>3. B!Return(t)
    BY <1>6, <2>1, <2>2 DEF ReleaseV, Invocations, B!Return
  <2> QED BY <2>3 DEF B!BNext
<1>7. ASSUME NEW t \in Threads, Put(t)
      PROVE  B!BNext
  <2>1. op[t] = "append"
    BY <1>7 DEF IInv, CallMatchesPc, Put
  <2>2. Done(t) = FALSE /\ Done(t)' = TRUE /\ \A u \in Threads \ {t} : Done(u)' = Done(u)
    BY <1>7, <2>1 DEF IInv, TypeOK, Put, Done
  <2>3. Invocations' =
          [Invocations EXCEPT ![t] = [op |-> "append", item |-> item[t], done |-> TRUE]]
    BY <1>7, <2>1, <2>2 DEF Put, Invocations
  <2>4. B!Put(t)
    BY <1>7, <2>1, <2>2, <2>3 DEF Put, Invocations, B!Put
  <2> QED BY <2>4 DEF B!BNext
<1>8. ASSUME NEW t \in Threads, Take(t)
      PROVE  B!BNext
  <2>1. op[t] = "remove" /\ list # <<>>
    BY <1>8 DEF IInv, CallMatchesPc, NeverRemovesFromEmpty, Take
  <2>2. Done(t) = FALSE /\ Done(t)' = TRUE /\ \A u \in Threads \ {t} : Done(u)' = Done(u)
    BY <1>8, <2>1 DEF IInv, TypeOK, Take, Done
  <2>3. Invocations' =
          [Invocations EXCEPT ![t] = [op |-> "remove", item |-> Head(list), done |-> TRUE]]
    BY <1>8, <2>1, <2>2 DEF IInv, TypeOK, Take, Invocations
  <2>4. B!Take(t)
    BY <1>8, <2>1, <2>2, <2>3 DEF Take, Invocations, B!Take
  <2> QED BY <2>4 DEF B!BNext
<1> QED BY <1>1, <1>2, <1>3, <1>4, <1>5, <1>6, <1>7, <1>8
        DEF Next, Step, CallAppend, CallRemoveFront

\* Append and RemoveFront each take effect once, between call and return, on a
\* queue that is shared by any number of threads.
THEOREM SynchListImplements == Spec => Implements
<1>1. Init => B!BInit
  <2> SUFFICES ASSUME Init PROVE B!BInit
    OBVIOUS
  <2>1. \A t \in Threads : op[t] = "none" /\ item[t] = Nil /\ Done(t) = FALSE
    BY DEF Init, Done
  <2>2. Invocations = [t \in Threads |-> B!Idle]
    BY <2>1 DEF Invocations, B!Idle
  <2> QED BY <2>2 DEF Init, B!BInit
<1>2. IInv /\ [Next]_vars => [B!BNext]_<<list, Invocations>>
  BY StepsImplement
<1> QED BY <1>1, <1>2, Invariance, PTL DEF Spec, Implements, B!BSpec
===============================================================================
