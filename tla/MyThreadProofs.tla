--------------------------- MODULE MyThreadProofs ---------------------------
(***************************************************************************)
(* MyThread for every number of threads, joined or detached: whose stack   *)
(* is unmapped by whom, that a join sleeps only on a wakeup to come and    *)
(* gets the result, and when a thread can be left without its stack.       *)
(***************************************************************************)
EXTENDS MyThread, TLAPS

USE ThreadAssumption

\* The parts of the inductive invariant, and the points in the code.
Parts == /\ StartsClean /\ FieldsTellPoint /\ MainKnows /\ JoinedByMain
         /\ LeftToThread /\ JoinGetsResult /\ RunningKeepsStack

----------------------------------------------------------------------------
(* Type correctness.                                                       *)

LEMMA TypePreserved == IInv /\ [Next]_vars => TypeOK'
<1> SUFFICES ASSUME TypeOK, MainKnows, [Next]_vars
             PROVE  TypeOK'
    BY DEF IInv
<1> USE DEF TypeOK, MainKnows, Threads, MainPoints, ThreadPoints, Ended, flags, Move, NextThread
<1>1. Create => TypeOK'
    BY DEF Create
<1>2. CreateFails \/ AllCreated => TypeOK'
    BY DEF CreateFails, AllCreated
<1>3. BeginJoin \/ LoadCompleted \/ FutexWait \/ SpuriousWakeup => TypeOK'
    BY DEF BeginJoin, LoadCompleted, FutexWait, SpuriousWakeup
<1>4. ReadResult => TypeOK'
    BY DEF ReadResult
<1>5. Detach => TypeOK'
    BY DEF Detach
<1>6. TestCompleted => TypeOK'
    BY DEF TestCompleted
<1>7. Claim => TypeOK'
    BY DEF Claim
<1>8. Unmap => TypeOK'
    BY DEF Unmap
<1>9. MainReturns => TypeOK'
    BY DEF MainReturns
<1>10. ASSUME NEW t \in Threads, ThreadStep(t)
      PROVE  TypeOK'
    <2>1. RunRoutine(t) \/ Complete(t) \/ Wake(t) => TypeOK'
        BY DEF RunRoutine, Complete, Wake
    <2>2. TestDetached(t) \/ TestJoined(t) \/ UnmapSelf(t) => TypeOK'
        BY DEF TestDetached, TestJoined, UnmapSelf
    <2>3. Return(t) \/ Crash(t) => TypeOK'
        BY DEF Return, Crash
    <2> QED
        BY <1>10, <2>1, <2>2, <2>3 DEF ThreadStep
<1>11. UNCHANGED vars => TypeOK'
    BY DEF vars
<1> QED
    BY <1>1, <1>2, <1>3, <1>4, <1>5, <1>6, <1>7, <1>8, <1>9, <1>10, <1>11
    DEF Next, MainStep, Terminated

----------------------------------------------------------------------------
(* The steps of main.                                                      *)

LEMMA MainPreserves ==
    ASSUME IInv, MainStep \/ SpuriousWakeup
    PROVE  Parts'
<1> USE DEF IInv, Parts, TypeOK, StartsClean, FieldsTellPoint, MainKnows, JoinedByMain,
        LeftToThread, JoinGetsResult, RunningKeepsStack, Handled, Starting,
        Threads, MainPoints, ThreadPoints, Ended, flags, Move, NextThread
<1>1. Create => Parts'
    BY DEF Create
<1>2. CreateFails \/ AllCreated => Parts'
    BY DEF CreateFails, AllCreated
<1>3. BeginJoin \/ LoadCompleted \/ FutexWait \/ SpuriousWakeup => Parts'
    BY DEF BeginJoin, LoadCompleted, FutexWait, SpuriousWakeup
<1>4. ReadResult => Parts'
    BY DEF ReadResult
<1>5. Detach => Parts'
    BY DEF Detach
<1>6. TestCompleted => Parts'
    BY DEF TestCompleted
<1>7. Claim => Parts'
    BY DEF Claim
<1>8. Unmap => Parts'
    BY DEF Unmap
<1>9. MainReturns => Parts'
    BY DEF MainReturns
<1> QED
    BY <1>1, <1>2, <1>3, <1>4, <1>5, <1>6, <1>7, <1>8, <1>9 DEF MainStep

----------------------------------------------------------------------------
(* The steps of a thread.                                                  *)

LEMMA ThreadPreserves ==
    ASSUME IInv, NEW t \in Threads, ThreadStep(t)
    PROVE  Parts'
<1> USE DEF IInv, Parts, TypeOK, StartsClean, FieldsTellPoint, MainKnows, JoinedByMain,
        LeftToThread, JoinGetsResult, RunningKeepsStack, Handled, Starting,
        Threads, MainPoints, ThreadPoints, Ended, flags, Move, OnStack
<1> main \notin Ended
    BY DEF ThreadStep
<1>1. RunRoutine(t) => Parts'
    BY DEF RunRoutine
<1>2. Complete(t) => Parts'
    BY DEF Complete
<1>3. Wake(t) => Parts'
    BY DEF Wake
<1>4. TestDetached(t) => Parts'
    BY DEF TestDetached
<1>5. TestJoined(t) => Parts'
    BY DEF TestJoined
<1>6. UnmapSelf(t) => Parts'
    BY DEF UnmapSelf
<1>7. Return(t) => Parts'
    BY DEF Return
<1>8. Crash(t) => Parts'
    BY DEF Crash
<1> QED
    BY <1>1, <1>2, <1>3, <1>4, <1>5, <1>6, <1>7, <1>8 DEF ThreadStep

----------------------------------------------------------------------------
\* The inductive invariant holds.
THEOREM Invariance == Spec => []IInv
<1>1. Init => IInv
    BY DEF Init, IInv, TypeOK, StartsClean, FieldsTellPoint, MainKnows, JoinedByMain,
       LeftToThread, JoinGetsResult, RunningKeepsStack, Handled, Starting, Threads,
       MainPoints, ThreadPoints, Ended
<1>2. IInv /\ [Next]_vars => IInv'
    <2> SUFFICES ASSUME IInv, [Next]_vars
                 PROVE  IInv'
        OBVIOUS
    <2>1. TypeOK'
        BY TypePreserved
    <2>2. CASE UNCHANGED vars
        BY <2>2 DEF vars, IInv, TypeOK, StartsClean, FieldsTellPoint, MainKnows,
           JoinedByMain, LeftToThread, JoinGetsResult, RunningKeepsStack, Handled, Starting
    <2>3. CASE MainStep \/ SpuriousWakeup
        BY <2>1, <2>3, MainPreserves DEF IInv, Parts
    <2>4. ASSUME NEW t \in Threads, ThreadStep(t)
          PROVE  IInv'
        BY <2>1, <2>4, ThreadPreserves DEF IInv, Parts
    <2> QED
        BY <2>2, <2>3, <2>4 DEF Next, Terminated
<1> QED
    BY <1>1, <1>2, PTL DEF Spec

\* No field and no point outside those of the code is ever reached.
THEOREM TypeCorrect == Spec => []TypeOK
BY Invariance, PTL DEF IInv

\* mythread_join gives back the result of the start routine.
THEOREM JoinCorrect == Spec => []JoinGetsResult
BY Invariance, PTL DEF IInv

\* No stack is unmapped before its thread has stored its result.
THEOREM StackKept == Spec => []RunningKeepsStack
BY Invariance, PTL DEF IInv

\* No stack is left behind by both sides.
THEOREM NothingLeaks == Spec => []NoStackLeak
<1>1. IInv => NoStackLeak
    BY DEF IInv, LeftToThread, NoStackLeak
<1> QED
    BY <1>1, Invariance, PTL

----------------------------------------------------------------------------
(* What a join waits for, and what it leaves.                              *)

\* The stack of a thread the main thread has not come to is mapped, since only
\* a detached thread unmaps its own, and those to be joined are not detached.
WaitedForKept ==
    /\ \A t \in Threads : detached[t] => FirstDetached <= t
    /\ \A t \in Threads :
        /\ pc[t] # "none"
        /\ t < FirstDetached
        /\ Starting \/ i <= t
        => stack[t] = "mapped"
    /\ \A t \in Threads : pc[t] \in {"testjoined", "unmap"} => detached[t]
    /\ main \in {"load", "wait", "asleep", "read"} => i < FirstDetached

\* A sleeping main thread has its wakeup before it.
WakeupToCome == main = "asleep" => pc[i] \in {"run", "complete", "wake"}

\* What is behind the main thread has been delivered.
Delivered ==
    \A t \in Threads :
        /\ t < FirstDetached
        /\ Handled(t) \/ (t = i /\ main \in {"claim", "unmap"})
        => got[t] = "result"

JoinInv == WaitedForKept /\ WakeupToCome /\ Delivered

LEMMA JoinInit == Init => JoinInv
BY DEF Init, JoinInv, WaitedForKept, WakeupToCome, Delivered, Handled, Starting

LEMMA JoinMainStep ==
    ASSUME IInv, JoinInv, MainStep \/ SpuriousWakeup
    PROVE  JoinInv'
<1> USE DEF JoinInv, WaitedForKept, WakeupToCome, Delivered, IInv, TypeOK, StartsClean,
        FieldsTellPoint, MainKnows, JoinGetsResult, Handled, Starting, Threads, MainPoints,
        ThreadPoints, Ended, flags, Move, NextThread
<1>1. Create => JoinInv'
    BY DEF Create
<1>2. CreateFails \/ AllCreated => JoinInv'
    BY DEF CreateFails, AllCreated
<1>3. BeginJoin \/ LoadCompleted \/ FutexWait \/ SpuriousWakeup => JoinInv'
    BY DEF BeginJoin, LoadCompleted, FutexWait, SpuriousWakeup
<1>4. ASSUME ReadResult PROVE JoinInv'
    <2>1. retval[i] = "result" /\ i \in Threads /\ i < FirstDetached
        BY <1>4 DEF ReadResult
    <2>2. got' = [got EXCEPT ![i] = "result"]
        BY <1>4, <2>1 DEF ReadResult
    <2>3. Delivered'
        <3> SUFFICES ASSUME NEW t \in Threads, t < FirstDetached,
                            Handled(t)' \/ (t = i' /\ main' \in {"claim", "unmap"})
                     PROVE  got'[t] = "result"
            OBVIOUS
        <3>1. t # i => Handled(t)
            BY <1>4 DEF ReadResult
        <3>2. t # i => got[t] = "result"
            BY <3>1
        <3> QED
            BY <2>1, <2>2, <3>2
    <2> QED
        BY <1>4, <2>3 DEF ReadResult
<1>5. Detach => JoinInv'
    BY DEF Detach
<1>6. ASSUME TestCompleted PROVE JoinInv'
    <2>1. i \in Threads /\ FirstDetached <= i
        BY <1>6 DEF TestCompleted
    <2>2. WaitedForKept' /\ WakeupToCome'
        BY <1>6 DEF TestCompleted
    <2>3. Delivered'
        <3> SUFFICES ASSUME NEW t \in Threads, t < FirstDetached,
                            Handled(t)' \/ (t = i' /\ main' \in {"claim", "unmap"})
                     PROVE  got'[t] = "result"
            OBVIOUS
        <3>1. t # i
            BY <2>1
        <3>2. Handled(t) /\ UNCHANGED got
            BY <1>6, <2>1, <3>1 DEF TestCompleted
        <3> QED
            BY <3>2
    <2> QED
        BY <2>2, <2>3
<1>7. Claim => JoinInv'
    BY DEF Claim
<1>8. Unmap => JoinInv'
    BY DEF Unmap
<1>9. MainReturns => JoinInv'
    BY DEF MainReturns
<1> QED
    BY <1>1, <1>2, <1>3, <1>4, <1>5, <1>6, <1>7, <1>8, <1>9 DEF MainStep

LEMMA JoinThreadStep ==
    ASSUME IInv, JoinInv, NEW t \in Threads, ThreadStep(t)
    PROVE  JoinInv'
<1> USE DEF JoinInv, WaitedForKept, WakeupToCome, Delivered, IInv, TypeOK, StartsClean,
        FieldsTellPoint, MainKnows, Handled, Starting, Threads, MainPoints,
        ThreadPoints, Ended, flags, Move, OnStack
<1> main \notin Ended
    BY DEF ThreadStep
<1>1. RunRoutine(t) => JoinInv'
    BY DEF RunRoutine
<1>2. Complete(t) => JoinInv'
    BY DEF Complete
<1>3. Wake(t) => JoinInv'
    BY DEF Wake
<1>4. TestDetached(t) => JoinInv'
    BY DEF TestDetached
<1>5. TestJoined(t) => JoinInv'
    BY DEF TestJoined
<1>6. UnmapSelf(t) => JoinInv'
    BY DEF UnmapSelf
<1>7. Return(t) => JoinInv'
    BY DEF Return
<1>8. Crash(t) => JoinInv'
    BY DEF Crash
<1> QED
    BY <1>1, <1>2, <1>3, <1>4, <1>5, <1>6, <1>7, <1>8 DEF ThreadStep

\* JoinInv holds while the main thread joins and detaches what it made, in that
\* order (main.c:28-45, mythread.c:69-98).
THEOREM JoinInvariance == Spec => []JoinInv
<1>1. IInv /\ JoinInv /\ [Next]_vars => JoinInv'
    <2> SUFFICES ASSUME IInv, JoinInv, [Next]_vars
                 PROVE  JoinInv'
        OBVIOUS
    <2>1. CASE UNCHANGED vars
        BY <2>1 DEF vars, JoinInv, WaitedForKept, WakeupToCome, Delivered, Handled, Starting
    <2> QED
        BY <2>1, JoinMainStep, JoinThreadStep DEF Next, Terminated
<1> QED
    BY <1>1, JoinInit, Invariance, PTL DEF Spec

\* A join sleeps only while the thread it waits for has still to end or to wake
\* it, and that thread has the stack to get there: no wakeup is missed between
\* the load of completed and FUTEX_WAIT, nor lost with a stack.
THEOREM JoinersAreWoken ==
    Spec => [](main = "asleep" => /\ pc[i] \in {"run", "complete", "wake"}
                                  /\ stack[i] = "mapped")
<1>1. IInv /\ JoinInv => (main = "asleep" => /\ pc[i] \in {"run", "complete", "wake"}
                                            /\ stack[i] = "mapped")
    BY DEF IInv, TypeOK, MainKnows, JoinInv, WaitedForKept, WakeupToCome, Threads
<1> QED
    BY <1>1, Invariance, JoinInvariance, PTL

\* When main returns, each of its joins has been given the result.
THEOREM JoinsDeliver ==
    Spec => [](main = "returned" =>
                \A t \in Threads : t < FirstDetached => got[t] = "result")
<1> DEFINE AllBehind == main = "returned" => i = N
<1>1. Init => AllBehind
    BY DEF Init
<1>2. AllBehind /\ [Next]_vars => AllBehind'
    BY DEF Next, MainStep, Create, CreateFails, AllCreated, BeginJoin, LoadCompleted,
       FutexWait, ReadResult, Detach, TestCompleted, Claim, Unmap, MainReturns, NextThread,
       SpuriousWakeup, ThreadStep, RunRoutine, Complete, Wake, TestDetached, TestJoined,
       UnmapSelf, Return, Crash, Ended, Terminated, vars
<1>3. AllBehind /\ JoinInv =>
        (main = "returned" => \A t \in Threads : t < FirstDetached => got[t] = "result")
    BY DEF JoinInv, Delivered, Handled, Threads
<1> QED
    BY <1>1, <1>2, <1>3, JoinInvariance, PTL DEF Spec

\* What finding its stack gone can cost the program, it costs after the thread
\* has completed: a crash has a victim between its store of completed and its
\* return, and every result stored was stored safely.
THEOREM CrashesAfterCompletion ==
    Spec => [](main = "crashed" =>
                \E t \in Threads : /\ completed[t] /\ retval[t] = "result"
                                  /\ pc[t] # "gone" /\ stack[t] = "unmapped")
<1> DEFINE Victim(t) == completed[t] /\ retval[t] = "result" /\ pc[t] # "gone"
                        /\ stack[t] = "unmapped"
           HasVictim == main = "crashed" => \E t \in Threads : Victim(t)
<1>1. Init => HasVictim
    BY DEF Init
<1>2. IInv /\ HasVictim /\ [Next]_vars => HasVictim'
    <2> SUFFICES ASSUME IInv, HasVictim, [Next]_vars, main' = "crashed"
                 PROVE  \E t \in Threads : Victim(t)'
        OBVIOUS
    <2>1. CASE UNCHANGED vars
        BY <2>1 DEF vars
    <2>2. ASSUME NEW t \in Threads, Crash(t)
          PROVE  Victim(t)'
        BY <2>2 DEF Crash, flags, IInv, TypeOK, FieldsTellPoint, RunningKeepsStack, ThreadPoints
    <2>3. ASSUME NEW t \in Threads, main # "crashed", main \notin Ended,
                 \/ RunRoutine(t) \/ Complete(t) \/ Wake(t)
                 \/ TestDetached(t) \/ TestJoined(t) \/ UnmapSelf(t) \/ Return(t)
          PROVE  FALSE
        BY <2>3 DEF RunRoutine, Complete, Wake, TestDetached, TestJoined, UnmapSelf, Return
    <2>4. ~(MainStep \/ SpuriousWakeup)
        BY DEF MainStep, Create, CreateFails, AllCreated, BeginJoin, LoadCompleted,
           FutexWait, ReadResult, Detach, TestCompleted, Claim, Unmap, MainReturns,
           NextThread, SpuriousWakeup
    <2> QED
        BY <2>1, <2>2, <2>3, <2>4 DEF Next, ThreadStep, Terminated, Ended
<1>3. HasVictim =>
        (main = "crashed" =>
            \E t \in Threads : /\ completed[t] /\ retval[t] = "result"
                              /\ pc[t] # "gone" /\ stack[t] = "unmapped")
    OBVIOUS
<1> HIDE DEF HasVictim
<1> QED
    BY <1>1, <1>2, <1>3, Invariance, PTL DEF Spec
=============================================================================
