--------------------------- MODULE LockTestProofs ---------------------------
(***************************************************************************)
(* LockTest for any threads, iterations and lengths of rounds: with either *)
(* lock it is well typed, it excludes, and it implements AtomicCounter.    *)
(* The invariant adds to the exclusion that what a thread read of the      *)
(* counter under the lock has not changed since, and that a thread that    *)
(* has begun an iteration has it to count. From it follow the sum the      *)
(* tests expect and, between two threads, that the mutex loses no wakeup.  *)
(***************************************************************************)
EXTENDS LockTest, FiniteSetTheorems, TLAPS

\* An iteration that has begun is one still to count, and what a thread read
\* under the lock is still the counter.
Begun == {"observe", "mark", "wait", "asleep", "retry", "spin", "load", "store"}
ThreadInv(t) ==
    /\ pc[t] \in Begun => left[t] > 0
    /\ pc[t] = "store" => seen[t] = counter

\* The inductive invariant.
IInv ==
    /\ TypeOK
    /\ MutualExclusion
    /\ \A t \in Threads : ThreadInv(t)

LEMMA InitHolds == Init => IInv
  <1> SUFFICES ASSUME Init PROVE IInv
    OBVIOUS
  <1>1. TypeOK
    <2>1. FirstSpins \in FirstSpins .. 2 * MaxSpins
      BY SpinAssumption
    <2>2. QED
      BY <2>1, CounterAssumption, SpinAssumption DEF Init, TypeOK, Points
  <1>2. MutualExclusion
    BY DEF Init, MutualExclusion, Holds, Inside
  <1>3. QED
    BY <1>1, <1>2 DEF Init, IInv, ThreadInv, Begun

----------------------------------------------------------------------------
(* What both locks have in common                                          *)

\* A step that changes the points of threads outside the lock only, and lets
\* nobody in.
LEMMA OutsideStep ==
  ASSUME IInv, NEW q \in [Threads -> Points],
         pc' = q, UNCHANGED <<lock, state, spins, tries, left, seen, counter>>,
         \A u \in Threads : q[u] \in Inside \/ Holds(u) => q[u] = pc[u],
         \A u \in Threads : q[u] \in Begun => left[u] > 0
  PROVE  IInv'
  <1> USE DEF IInv, ThreadInv, TypeOK
  <1>1. TypeOK'
    OBVIOUS
  <1>2. \A u \in Threads : Holds(u)' <=> Holds(u)
    BY DEF Holds
  <1>3. MutualExclusion'
    BY <1>2 DEF MutualExclusion
  <1>4. \A u \in Threads : ThreadInv(u)'
    BY DEF Inside
  <1>5. QED
    BY <1>1, <1>3, <1>4

\* The lock is taken only when free, by a thread with an iteration left.
LEMMA AcquireStep ==
  ASSUME IInv, NEW t \in Threads, left[t] > 0,
         Acquire(t) \/ SpinAcquire(t), UNCHANGED <<lock, spins, tries>>
  PROVE  IInv'
  <1> USE DEF IInv, ThreadInv, TypeOK, Acquire, SpinAcquire, Move
  <1>1. TypeOK'
    BY DEF Points, Inside
  <1>2. \A u \in Threads : ~Holds(u)
    BY DEF MutualExclusion
  <1>3. \A u \in Threads : Holds(u)' <=> u = t
    BY <1>2 DEF Holds, Inside
  <1>4. MutualExclusion'
    BY <1>3 DEF MutualExclusion
  <1>5. \A u \in Threads : ThreadInv(u)'
    BY <1>2 DEF Holds, Inside
  <1>6. QED
    BY <1>1, <1>4, <1>5

\* Nobody else is inside during the two halves of counter++.
LEMMA CountStep ==
  ASSUME IInv, NEW t \in Threads, Load(t) \/ Store(t),
         UNCHANGED <<lock, spins, tries>>
  PROVE  IInv'
  <1> USE DEF IInv, ThreadInv, TypeOK, Load, Store, Move
  <1>1. left[t] > 0 /\ Holds(t) /\ \A u \in Threads : Holds(u) => u = t
    BY DEF Holds, Inside, Begun, MutualExclusion
  <1>2. TypeOK'
    <2>1. pc' \in [Threads -> Points] /\ seen' \in [Threads -> Nat]
      BY DEF Points, Inside
    <2>2. left[t] \in 0 .. Iterations /\ left[t] - 1 \in 0 .. Iterations
      BY <1>1, CounterAssumption
    <2>3. left' \in [Threads -> 0 .. Iterations] /\ counter' \in Nat
      BY <2>2
    <2>4. QED
      BY <2>1, <2>3
  <1>3. \A u \in Threads : Holds(u)' <=> Holds(u)
    BY DEF Holds, Inside
  <1>4. MutualExclusion'
    BY <1>3 DEF MutualExclusion
  <1>5. \A u \in Threads : ThreadInv(u)'
    BY <1>1 DEF Begun, Holds, Inside
  <1>6. QED
    BY <1>2, <1>4, <1>5

\* The only thread inside leaves, and the word is 0.
LEMMA UnlockStep ==
  ASSUME IInv, NEW t \in Threads, MutexUnlock(t) \/ SpinUnlock(t),
         UNCHANGED <<lock, spins, tries>>
  PROVE  IInv'
  <1> USE DEF IInv, ThreadInv, TypeOK, MutexUnlock, SpinUnlock, Move
  <1>1. \A u \in Threads : Holds(u) => u = t
    BY DEF Holds, Inside, MutualExclusion
  <1>2. TypeOK'
    BY DEF Points, MutexPoints
  <1>3. \A u \in Threads : ~Holds(u)'
    BY <1>1 DEF Holds, Inside
  <1>4. MutualExclusion'
    BY <1>3 DEF MutualExclusion
  <1>5. \A u \in Threads : ThreadInv(u)'
    BY DEF Begun
  <1>6. QED
    BY <1>2, <1>4, <1>5

LEMMA ReturnStep ==
  ASSUME IInv, NEW t \in Threads, Return(t), UNCHANGED <<lock, spins, tries>>
  PROVE  IInv'
  <1> USE DEF IInv, ThreadInv, TypeOK, Return, Move
  <1>1. TypeOK'
    BY DEF Points
  <1>2. \A u \in Threads : Holds(u)' <=> Holds(u)
    BY DEF Holds, Inside
  <1>3. MutualExclusion'
    BY <1>2 DEF MutualExclusion
  <1>4. \A u \in Threads : ThreadInv(u)'
    BY DEF Begun
  <1>5. QED
    BY <1>1, <1>3, <1>4

----------------------------------------------------------------------------
(* The mutex                                                               *)

\* The loop of mutex_lock and the system calls move threads that are outside.
LEMMA MutexOutsideSteps ==
  ASSUME IInv, NEW t \in Threads, UNCHANGED <<lock, spins, tries>>,
         \/ FirstTry(t) /\ NotAcquired(t)
         \/ Retry(t) /\ NotAcquired(t)
         \/ Observe(t) \/ MarkFails(t) \/ FutexWait(t) \/ SpuriousWakeup(t)
         \/ FutexWake(t)
  PROVE  IInv'
  <1> USE DEF IInv, ThreadInv, TypeOK, Move
  <1>1. /\ UNCHANGED <<lock, state, spins, tries, left, seen, counter>>
        /\ pc' \in [Threads -> Points]
    BY DEF NotAcquired, Observe, MarkFails, FutexWait, SpuriousWakeup, FutexWake,
       Points, MutexPoints, Asleep
  <1>2. \A u \in Threads : pc'[u] \in Inside \/ Holds(u) => pc'[u] = pc[u]
    BY DEF FirstTry, Retry, NotAcquired, Observe, MarkFails, FutexWait,
       SpuriousWakeup, FutexWake, Holds, Inside, Asleep
  <1>3. \A u \in Threads : pc'[u] \in Begun => left[u] > 0
    BY DEF FirstTry, Retry, NotAcquired, Observe, MarkFails, FutexWait,
       SpuriousWakeup, FutexWake, Begun, Asleep, More
  <1> HIDE DEF IInv, ThreadInv, TypeOK
  <1>4. QED
    BY <1>1, <1>2, <1>3, OutsideStep

\* Marking the word leaves it held.
LEMMA MarkStep ==
  ASSUME IInv, NEW t \in Threads, Mark(t), lock = "mutex",
         UNCHANGED <<lock, spins, tries>>
  PROVE  IInv'
  <1> USE DEF IInv, ThreadInv, TypeOK, Mark, Move
  <1>1. TypeOK'
    BY DEF Points, MutexPoints
  <1>2. \A u \in Threads : Holds(u)' <=> Holds(u)
    BY DEF Holds, Inside
  <1>3. MutualExclusion'
    BY <1>2 DEF MutualExclusion
  <1>4. \A u \in Threads : ThreadInv(u)'
    BY DEF Begun
  <1>5. QED
    BY <1>1, <1>3, <1>4

LEMMA MutexStepHolds ==
  ASSUME IInv, NEW t \in Threads, MutexStep(t), lock = "mutex",
         UNCHANGED <<lock, spins, tries>>
  PROVE  IInv'
  <1>1. CASE FirstTry(t)
    BY <1>1, AcquireStep, MutexOutsideSteps DEF FirstTry, More
  <1>2. CASE Retry(t)
    <2>1. left[t] > 0
      BY <1>2 DEF Retry, IInv, ThreadInv, Begun
    <2>2. QED
      BY <1>2, <2>1, AcquireStep, MutexOutsideSteps DEF Retry
  <1>3. QED
    BY <1>1, <1>2, MutexOutsideSteps, MarkStep, UnlockStep DEF MutexStep

----------------------------------------------------------------------------
(* The spinlock                                                            *)

\* A failed attempt changes the rounds of one thread that is outside.
LEMMA SpinFailedStep ==
  ASSUME IInv, NEW t \in Threads, SpinFirstTryFails(t) \/ SpinTryFails(t),
         UNCHANGED lock
  PROVE  IInv'
  <1> USE DEF IInv, ThreadInv, TypeOK, Move
  <1>1. spins' \in [Threads -> FirstSpins .. 2 * MaxSpins]
    <2>1. spins[t] \in FirstSpins .. 2 * MaxSpins
      OBVIOUS
    <2>2. Doubled(spins[t]) \in FirstSpins .. 2 * MaxSpins
      BY <2>1, SpinAssumption DEF Doubled
    <2>3. FirstSpins \in FirstSpins .. 2 * MaxSpins
      BY SpinAssumption
    <2>4. QED
      BY <2>2, <2>3 DEF SpinFirstTryFails, SpinTryFails
  <1>2. tries' \in [Threads -> Nat]
    BY DEF SpinFirstTryFails, SpinTryFails
  <1>3. \A u \in Threads : tries'[u] < spins'[u]
    <2>1. CASE SpinFirstTryFails(t)
      BY <2>1, SpinAssumption DEF SpinFirstTryFails
    <2>2. CASE SpinTryFails(t) /\ tries[t] + 1 < spins[t]
      BY <2>2 DEF SpinTryFails
    <2>3. CASE SpinTryFails(t) /\ ~(tries[t] + 1 < spins[t])
      <3>1. spins[t] \in FirstSpins .. 2 * MaxSpins
        OBVIOUS
      <3>2. 0 < Doubled(spins[t])
        BY <3>1, SpinAssumption DEF Doubled
      <3>3. QED
        BY <2>3, <3>2 DEF SpinTryFails
    <2>4. QED
      BY <2>1, <2>2, <2>3
  <1>4. TypeOK'
    BY <1>1, <1>2, <1>3 DEF SpinFirstTryFails, SpinTryFails, Points
  <1>5. \A u \in Threads : Holds(u)' <=> Holds(u)
    BY DEF SpinFirstTryFails, SpinTryFails, Holds, Inside
  <1>6. MutualExclusion'
    BY <1>5 DEF MutualExclusion, SpinFirstTryFails, SpinTryFails
  <1>7. \A u \in Threads : ThreadInv(u)'
    BY DEF SpinFirstTryFails, SpinTryFails, Begun, More
  <1>8. QED
    BY <1>4, <1>6, <1>7

LEMMA SpinStepHolds ==
  ASSUME IInv, NEW t \in Threads, SpinStep(t), UNCHANGED lock
  PROVE  IInv'
  <1>1. CASE SpinFirstTry(t)
    BY <1>1, AcquireStep DEF SpinFirstTry, SpinAcquire, More
  <1>2. CASE SpinTry(t)
    <2>1. left[t] > 0
      BY <1>2 DEF SpinTry, IInv, ThreadInv, Begun
    <2>2. QED
      BY <1>2, <2>1, AcquireStep DEF SpinTry, SpinAcquire
  <1>3. CASE SpinUnlock(t)
    BY <1>3, UnlockStep DEF SpinUnlock
  <1>4. QED
    BY <1>1, <1>2, <1>3, SpinFailedStep DEF SpinStep

----------------------------------------------------------------------------
LEMMA NextHolds == IInv /\ [Next]_vars => IInv'
  <1> SUFFICES ASSUME IInv, [Next]_vars PROVE IInv'
    OBVIOUS
  <1>1. CASE UNCHANGED vars
    BY <1>1 DEF vars, IInv, ThreadInv, TypeOK, MutualExclusion, Holds
  <1>2. ASSUME NEW t \in Threads, Step(t) PROVE IInv'
    BY <1>2, MutexStepHolds, SpinStepHolds, CountStep, ReturnStep DEF Step
  <1>3. ASSUME NEW t \in Threads,
               SpuriousWakeup(t) /\ UNCHANGED <<lock, spins, tries>>
        PROVE  IInv'
    BY <1>3, MutexOutsideSteps
  <1>4. QED
    BY <1>1, <1>2, <1>3 DEF Next, Joined

\* The invariant holds of every behaviour.
THEOREM Invariance == Spec => []IInv
  BY InitHolds, NextHolds, PTL DEF Spec

\* The word keeps to the values of its lock, nobody counts further than
\* N_ITERS, and the rounds of a spinlock stay between the first length and
\* twice the last (spinlock.c:19-31).
THEOREM TypeCorrect == Spec => []TypeOK
  BY Invariance, PTL DEF IInv

\* Both locks exclude (mutex.c:17-33, spinlock.c:15-38).
THEOREM Exclusion == Spec => []MutualExclusion
  BY Invariance, PTL DEF IInv

\* A step of the test is an increment of AtomicCounter or does not touch it.
LEMMA IncrementOrStutter == IInv /\ [Next]_vars => [Counter!Next]_(Counter!vars)
  <1> SUFFICES ASSUME IInv, [Next]_vars, ~UNCHANGED <<counter, left>>
               PROVE  Counter!Next
    BY DEF Counter!vars
  <1>1. \A t \in Threads :
          MutexStep(t) \/ SpinStep(t) \/ Load(t) \/ Return(t) \/ SpuriousWakeup(t)
            => UNCHANGED <<counter, left>>
    BY DEF MutexStep, FirstTry, Observe, Mark, MarkFails, FutexWait, Retry,
       MutexUnlock, FutexWake, SpuriousWakeup, Acquire, NotAcquired,
       SpinStep, SpinFirstTry, SpinFirstTryFails, SpinTry, SpinTryFails,
       SpinUnlock, SpinAcquire, Load, Return
  <1>2. PICK t \in Threads : Store(t)
    BY <1>1 DEF Next, Step, Joined, vars
  <1>3. Counter!Increment(t)
    BY <1>2 DEF Store, IInv, ThreadInv, TypeOK, Begun, Counter!Increment
  <1>4. QED
    BY <1>3 DEF Counter!Next

\* Each half of counter++ happens under the lock, so that the counter goes up
\* by one with each iteration (main_mutex.c:27-37, main_spinlock.c:27-37).
THEOREM CountingIsAtomic == Spec => CountsAtomically
<1>1. Init => Counter!Init
  BY DEF Init, Counter!Init
<1>2. QED
  BY <1>1, IncrementOrStutter, Invariance, PTL DEF Spec, CountsAtomically, Counter!Spec

----------------------------------------------------------------------------
(* The sum                                                                 *)

\* The increments still to come, and what they and the counter amount to.
Todo == {x \in Threads \X (1 .. Iterations) : x[2] <= left[x[1]]}
Expected == Cardinality(Threads) * Iterations
SumInv ==
    /\ counter + Cardinality(Todo) = Expected
    /\ \A t \in Threads : pc[t] = "done" => left[t] = 0

LEMMA AllIncrements ==
  ASSUME IsFiniteSet(Threads)
  PROVE  /\ IsFiniteSet(Threads \X (1 .. Iterations))
         /\ Cardinality(Threads \X (1 .. Iterations)) = Expected
  <1>1. IsFiniteSet(1 .. Iterations) /\ Cardinality(1 .. Iterations) = Iterations
    BY CounterAssumption, FS_Interval
  <1>2. QED
    BY <1>1, FS_Product DEF Expected

LEMMA TodoFinite ==
  ASSUME IsFiniteSet(Threads)
  PROVE  IsFiniteSet(Todo) /\ Cardinality(Todo) \in Nat
  <1>1. Todo \in SUBSET (Threads \X (1 .. Iterations))
    BY DEF Todo
  <1>2. QED
    BY <1>1, AllIncrements, FS_Subset, FS_CardinalityType

LEMMA SumInit == ASSUME IsFiniteSet(Threads), Init PROVE SumInv
  <1>1. Todo = Threads \X (1 .. Iterations)
    BY CounterAssumption DEF Todo, Init
  <1>2. counter = 0 /\ Cardinality(Todo) = Expected /\ Cardinality(Todo) \in Nat
    BY <1>1, AllIncrements, TodoFinite DEF Init
  <1>3. QED
    BY <1>2 DEF SumInv, Init

\* An increment takes one thing to do and adds one to the counter.
LEMMA SumStep ==
  ASSUME IsFiniteSet(Threads), IInv, SumInv, NEW t \in Threads, Counter!Increment(t)
  PROVE  (counter + Cardinality(Todo) = Expected)'
  <1> DEFINE x == <<t, left[t]>>
  <1>1. left \in [Threads -> 0 .. Iterations] /\ counter \in Nat /\ left[t] \in 1 .. Iterations
    BY CounterAssumption DEF IInv, TypeOK, Counter!Increment
  <1>2. counter' = counter + 1 /\ left' = [left EXCEPT ![t] = left[t] - 1]
    BY DEF Counter!Increment
  <1>3. x \in Todo
    BY <1>1 DEF Todo
  <1>4. Todo' = Todo \ {x}
    <2>1. \A u \in Threads, i \in 1 .. Iterations :
            i <= left'[u] <=> i <= left[u] /\ <<u, i>> # x
      <3> TAKE u \in Threads, i \in 1 .. Iterations
      <3>1. CASE u = t
        BY <1>1, <1>2, <3>1
      <3>2. CASE u # t
        BY <1>1, <1>2, <3>2
      <3>3. QED
        BY <3>1, <3>2
    <2>2. QED
      BY <2>1 DEF Todo
  <1>5. Cardinality(Todo') = Cardinality(Todo) - 1 /\ Cardinality(Todo) \in Nat
    BY <1>3, <1>4, TodoFinite, FS_RemoveElement
  <1>6. counter + Cardinality(Todo) = Expected
    BY DEF SumInv
  <1>7. QED
    BY <1>1, <1>2, <1>5, <1>6 DEF Expected

\* Nobody is done who has not done all.
LEMMA DoneHasDone ==
  ASSUME IInv, [Next]_vars, NEW t \in Threads, pc[t] = "done" => left[t] = 0,
         pc'[t] = "done"
  PROVE  left'[t] = 0
  <1> USE DEF IInv, TypeOK, Move
  <1>1. CASE UNCHANGED vars
    BY <1>1 DEF vars
  <1>2. ASSUME NEW u \in Threads, MutexStep(u) \/ SpinStep(u) \/ SpuriousWakeup(u)
        PROVE  left'[t] = 0
    BY <1>2 DEF MutexStep, FirstTry, Observe, Mark, MarkFails, FutexWait, Retry,
       MutexUnlock, FutexWake, SpuriousWakeup, Acquire, NotAcquired,
       SpinStep, SpinFirstTry, SpinFirstTryFails, SpinTry, SpinTryFails,
       SpinUnlock, SpinAcquire, Asleep
  <1>3. ASSUME NEW u \in Threads, Load(u) \/ Store(u) \/ Return(u)
        PROVE  left'[t] = 0
    BY <1>3 DEF Load, Store, Return, More
  <1>4. QED
    BY <1>1, <1>2, <1>3 DEF Next, Step, Joined

\* When all threads are joined the counter is what the tests print as expected,
\* N_THREADS * N_ITERS (main_mutex.c:61-66, main_spinlock.c:61-66).
THEOREM SumExpected ==
  ASSUME IsFiniteSet(Threads)
  PROVE  Spec => [](AllDone => counter = Cardinality(Threads) * Iterations)
<1>1. Init => SumInv
  BY SumInit
<1>2. IInv /\ SumInv /\ [Next]_vars => SumInv'
  <2> SUFFICES ASSUME IInv, SumInv, [Next]_vars PROVE SumInv'
    OBVIOUS
  <2>1. (\A t \in Threads : pc[t] = "done" => left[t] = 0)'
    BY DoneHasDone DEF SumInv
  <2>2. (counter + Cardinality(Todo) = Expected)'
    <3>1. CASE UNCHANGED <<counter, left>>
      BY <3>1 DEF SumInv, Todo, Expected
    <3>2. CASE Counter!Next
      BY <3>2, SumStep DEF Counter!Next
    <3>3. QED
      BY <3>1, <3>2, IncrementOrStutter DEF Counter!vars
  <2>3. QED
    BY <2>1, <2>2 DEF SumInv
<1>3. IInv /\ SumInv => (AllDone => counter = Cardinality(Threads) * Iterations)
  <2> SUFFICES ASSUME IInv, SumInv, AllDone PROVE counter = Expected
    BY DEF Expected
  <2>1. Todo = {}
    BY DEF Todo, SumInv, AllDone
  <2>2. Cardinality(Todo) = 0
    BY <2>1, FS_EmptySet
  <2>3. QED
    BY <2>2 DEF SumInv, IInv, TypeOK
<1>4. QED
  BY <1>1, <1>2, <1>3, Invariance, PTL DEF Spec

----------------------------------------------------------------------------
(* Wakeups of the mutex                                                    *)

\* Whoever sleeps on the mutex is still to be woken: by a thread on its way to
\* FUTEX_WAKE, or by the owner, whose unlock will find a 2.
SleepersWoken ==
    \A t \in Asleep : \E u \in Threads : pc[u] = "wake" \/ (Holds(u) /\ state = 2)

\* A thread with a spinlock never sleeps or wakes.
MutexOnly == lock = "spinlock" => \A t \in Threads : pc[t] \notin MutexPoints

LEMMA MutexOnlyStep == IInv /\ MutexOnly /\ [Next]_vars => MutexOnly'
  <1> SUFFICES ASSUME IInv, MutexOnly, [Next]_vars, lock' = "spinlock"
               PROVE  \A t \in Threads : pc'[t] \notin MutexPoints
    BY DEF MutexOnly
  <1> USE DEF IInv, TypeOK, MutexOnly, MutexPoints, Move
  <1>1. CASE UNCHANGED vars
    BY <1>1 DEF vars
  <1>2. ASSUME NEW u \in Threads, SpinStep(u), lock = "spinlock"
        PROVE  \A t \in Threads : pc'[t] \notin MutexPoints
    BY <1>2 DEF SpinStep, SpinFirstTry, SpinFirstTryFails, SpinTry, SpinTryFails,
       SpinUnlock, SpinAcquire
  <1>3. ASSUME NEW u \in Threads, Load(u) \/ Store(u) \/ Return(u), lock = "spinlock"
        PROVE  \A t \in Threads : pc'[t] \notin MutexPoints
    BY <1>3 DEF Load, Store, Return
  <1>4. ASSUME NEW u \in Threads, SpuriousWakeup(u), lock = "spinlock"
        PROVE  FALSE
    BY <1>4 DEF SpuriousWakeup
  <1>5. QED
    BY <1>1, <1>2, <1>3, <1>4 DEF Next, Step, Joined

\* What a mutex step of one of two threads does to the other's sleep.
LEMMA SleepersStep ==
  ASSUME NEW a, NEW b, Threads = {a, b}, IInv, SleepersWoken, MutexOnly, [Next]_vars
  PROVE  SleepersWoken'
  <1> SUFFICES ASSUME NEW t \in Threads, pc'[t] = "asleep"
               PROVE  (\E u \in Threads : pc[u] = "wake" \/ (Holds(u) /\ state = 2))'
    BY DEF SleepersWoken, Asleep
  <1> USE DEF IInv, TypeOK, Move
  <1>1. CASE UNCHANGED vars
    BY <1>1 DEF vars, SleepersWoken, Asleep, Holds
  <1>2. ASSUME NEW u \in Threads, MutexStep(u)
        PROVE  (\E v \in Threads : pc[v] = "wake" \/ (Holds(v) /\ state = 2))'
    <2>1. CASE FutexWait(u)
      <3>1. CASE state = 2
        <4>1. PICK v \in Threads : Holds(v)
          BY <3>1 DEF MutualExclusion
        <4>2. Holds(v)' /\ state' = 2
          BY <2>1, <3>1, <4>1 DEF FutexWait, Holds, Inside
        <4>3. QED
          BY <4>2
      <3>2. CASE state # 2
        BY <2>1, <3>2 DEF FutexWait, SleepersWoken, Asleep, Holds, Inside
      <3>3. QED
        BY <3>1, <3>2
    <2>2. CASE FirstTry(u) \/ Retry(u)
      BY <2>2 DEF FirstTry, Retry, Acquire, NotAcquired, SleepersWoken, Asleep, Holds, Inside,
         MutualExclusion
    <2>3. CASE Observe(u) \/ MarkFails(u)
      BY <2>3 DEF Observe, MarkFails, SleepersWoken, Asleep, Holds, Inside
    <2>4. CASE Mark(u)
      BY <2>4 DEF Mark, SleepersWoken, Asleep, Holds, Inside
    <2>5. CASE MutexUnlock(u)
      BY <2>5 DEF MutexUnlock, SleepersWoken, Asleep, Holds, Inside, MutualExclusion
    <2>6. CASE FutexWake(u)
      BY <2>6 DEF FutexWake, SleepersWoken, Asleep, Holds, Inside
    <2>7. QED
      BY <1>2, <2>1, <2>2, <2>3, <2>4, <2>5, <2>6 DEF MutexStep
  <1>3. ASSUME NEW u \in Threads, SpinStep(u), lock = "spinlock", UNCHANGED lock
        PROVE  FALSE
    BY <1>3, MutexOnlyStep DEF MutexOnly, MutexPoints
  <1>4. ASSUME NEW u \in Threads, Load(u) \/ Store(u) \/ Return(u)
        PROVE  (\E v \in Threads : pc[v] = "wake" \/ (Holds(v) /\ state = 2))'
    BY <1>4 DEF Load, Store, Return, SleepersWoken, Asleep, Holds, Inside
  <1>5. ASSUME NEW u \in Threads, SpuriousWakeup(u)
        PROVE  (\E v \in Threads : pc[v] = "wake" \/ (Holds(v) /\ state = 2))'
    BY <1>5 DEF SpuriousWakeup, SleepersWoken, Asleep, Holds, Inside
  <1>6. QED
    BY <1>1, <1>2, <1>3, <1>4, <1>5 DEF Next, Step, Joined

\* Between two threads the mutex loses no wakeup: the owner that marked nothing
\* (mutex.c:23-32) matters only to a third.
THEOREM TwoThreadsAreWoken ==
  ASSUME NEW a, NEW b, Threads = {a, b}
  PROVE  Spec => []SleepersWoken
<1>1. Init => SleepersWoken /\ MutexOnly
  BY DEF Init, SleepersWoken, Asleep, MutexOnly, MutexPoints
<1>2. IInv /\ SleepersWoken /\ MutexOnly /\ [Next]_vars => SleepersWoken' /\ MutexOnly'
  BY SleepersStep, MutexOnlyStep
<1>3. QED
  BY <1>1, <1>2, Invariance, PTL DEF Spec
=============================================================================
