------------------------------ MODULE MyThread ------------------------------
(***************************************************************************)
(* 1.6: threads made with clone (mythread.c) and the program that joins or *)
(* detaches each of them (main.c).  A thread and the main thread agree     *)
(* through the atomics completed, detached and joined of a mythread_t on   *)
(* who unmaps the stack of the thread; nothing but them says whether the   *)
(* thread is still on it.                                                  *)
(*                                                                         *)
(* An action is one access of an atomic, or one system call, and memory is *)
(* that of x86.  There no load passes the store of completed (line 24),    *)
(* which the system call FUTEX_WAKE follows, nor the store of detached     *)
(* (line 92), a locked instruction, so that the interleavings of these     *)
(* actions are all there is.  The load of completed in mythread_detach     *)
(* (line 94) is an acquire load only: where such a load may pass a         *)
(* sequentially consistent store the model does not tell what happens.     *)
(***************************************************************************)
EXTENDS Integers

CONSTANTS
    N,             \* the threads main starts (100)
    FirstDetached  \* those below it are joined, the others detached (50)

ASSUME ThreadAssumption ==
    /\ N \in Nat
    /\ FirstDetached \in Nat

VARIABLES
    main,       \* the point the main thread has reached
    i,          \* the thread its loop has reached
    pc,         \* pc[t]: the point thread t has reached in mythread_entry
    completed,  \* completed[t], detached[t], joined[t]: the fields of
    detached,   \*     the mythread_t of thread t
    joined,
    retval,     \* retval[t]: its field retval
    got,        \* got[t]: what mythread_join gave back for thread t
    stack       \* stack[t]: whether the stack of thread t is mapped

vars == <<main, i, pc, completed, detached, joined, retval, got, stack>>
flags == <<completed, detached, joined>>

Threads == 0 .. N - 1

ThreadPoints == {"none", "run", "complete", "wake", "testdetached", "testjoined",
                 "unmap", "return", "gone"}
Ended == {"failed", "returned", "crashed"}
MainPoints == {"create", "next", "load", "wait", "asleep", "read",
               "test", "claim", "unmap"} \cup Ended

TypeOK ==
    /\ main \in MainPoints
    /\ i \in 0 .. N
    /\ pc \in [Threads -> ThreadPoints]
    /\ completed \in [Threads -> BOOLEAN]
    /\ detached \in [Threads -> BOOLEAN]
    /\ joined \in [Threads -> BOOLEAN]
    /\ retval \in [Threads -> {"null", "result"}]
    /\ got \in [Threads -> {"nothing", "null", "result"}]
    /\ stack \in [Threads -> {"none", "mapped", "unmapped"}]

Init ==
    /\ main = "create"
    /\ i = 0
    /\ pc = [t \in Threads |-> "none"]
    /\ completed = [t \in Threads |-> FALSE]
    /\ detached = [t \in Threads |-> FALSE]
    /\ joined = [t \in Threads |-> FALSE]
    /\ retval = [t \in Threads |-> "null"]
    /\ got = [t \in Threads |-> "nothing"]
    /\ stack = [t \in Threads |-> "none"]

Move(t, p) == pc' = [pc EXCEPT ![t] = p]
NextThread == main' = "next" /\ i' = i + 1

----------------------------------------------------------------------------
(* mythread_create, called for each thread in the first loop of main       *)

\* mmap and clone.  The thread runs at once, on the whole of its stack.
Create ==
    /\ main = "create"
    /\ i < N
    /\ stack' = [stack EXCEPT ![i] = "mapped"]
    /\ Move(i, "run")
    /\ i' = i + 1
    /\ UNCHANGED <<main, flags, retval, got>>

\* mmap or clone fails: main returns 1, which ends the threads as well.
CreateFails ==
    /\ main = "create"
    /\ i < N
    /\ main' = "failed"
    /\ UNCHANGED <<i, pc, flags, retval, got, stack>>

AllCreated ==
    /\ main = "create"
    /\ i = N
    /\ main' = "next"
    /\ i' = 0
    /\ UNCHANGED <<pc, flags, retval, got, stack>>

----------------------------------------------------------------------------
(* mythread_join.  A thread to be joined is never detached in this program. *)

BeginJoin ==
    /\ main = "next"
    /\ i < N /\ i < FirstDetached
    /\ main' = "load"
    /\ UNCHANGED <<i, pc, flags, retval, got, stack>>

LoadCompleted ==
    /\ main = "load"
    /\ main' = IF completed[i] THEN "read" ELSE "wait"
    /\ UNCHANGED <<i, pc, flags, retval, got, stack>>

\* FUTEX_WAIT sleeps only if completed still is 0.
FutexWait ==
    /\ main = "wait"
    /\ main' = IF completed[i] THEN "load" ELSE "asleep"
    /\ UNCHANGED <<i, pc, flags, retval, got, stack>>

\* FUTEX_WAIT may return for no reason.  (TrustWakeup: it is taken for the
\* end of the thread.)
TrustWakeup ==
    /\ main = "asleep"
    /\ main' = "read"
    /\ UNCHANGED <<i, pc, flags, retval, got, stack>>
SpuriousWakeup ==
    /\ main = "asleep"
    /\ main' = "load"
    /\ UNCHANGED <<i, pc, flags, retval, got, stack>>

ReadResult ==
    /\ main = "read"
    /\ got' = [got EXCEPT ![i] = retval[i]]
    /\ main' = "claim"
    /\ UNCHANGED <<i, pc, flags, retval, stack>>

----------------------------------------------------------------------------
(* mythread_detach                                                         *)

Detach ==
    /\ main = "next"
    /\ FirstDetached <= i /\ i < N
    /\ detached' = [detached EXCEPT ![i] = TRUE]
    /\ main' = "test"
    /\ UNCHANGED <<i, pc, completed, joined, retval, got, stack>>

\* Who has completed will not look at detached again.  (ClaimRunning: the
\* stack is taken away from a running thread too.  LeaveCompleted: it is left
\* to the thread in any case.)
ClaimRunning ==
    /\ main = "test"
    /\ main' = "claim"
    /\ UNCHANGED <<i, pc, flags, retval, got, stack>>
LeaveCompleted ==
    /\ main = "test"
    /\ NextThread
    /\ UNCHANGED <<pc, flags, retval, got, stack>>
TestCompleted ==
    /\ main = "test"
    /\ IF completed[i] THEN main' = "claim" /\ UNCHANGED i ELSE NextThread
    /\ UNCHANGED <<pc, flags, retval, got, stack>>

----------------------------------------------------------------------------
(* The end of both, and of main                                            *)

\* The exchange of joined by 1.
Claim ==
    /\ main = "claim"
    /\ joined' = [joined EXCEPT ![i] = TRUE]
    /\ IF joined[i] THEN NextThread ELSE main' = "unmap" /\ UNCHANGED i
    /\ UNCHANGED <<pc, completed, detached, retval, got, stack>>

Unmap ==
    /\ main = "unmap"
    /\ stack' = [stack EXCEPT ![i] = "unmapped"]
    /\ NextThread
    /\ UNCHANGED <<pc, flags, retval, got>>

\* main returns 0, which ends the threads that are left.
MainReturns ==
    /\ main = "next"
    /\ i = N
    /\ main' = "returned"
    /\ UNCHANGED <<i, pc, flags, retval, got, stack>>

----------------------------------------------------------------------------
(* mythread_entry.  Calls and returns need the stack; the tests between    *)
(* them may be compiled to use registers only.                             *)

OnStack(t) == stack[t] = "mapped"

\* start_routine returns its result.
RunRoutine(t) ==
    /\ pc[t] = "run"
    /\ OnStack(t)
    /\ retval' = [retval EXCEPT ![t] = "result"]
    /\ Move(t, "complete")
    /\ UNCHANGED <<main, i, flags, got, stack>>

Complete(t) ==
    /\ pc[t] = "complete"
    /\ OnStack(t)
    /\ completed' = [completed EXCEPT ![t] = TRUE]
    /\ Move(t, "wake")
    /\ UNCHANGED <<main, i, detached, joined, retval, got, stack>>

\* FUTEX_WAKE of 1: the main thread, if it sleeps on this thread.  (WakeNobody:
\* it is left asleep.)
WakeNobody(t) ==
    /\ pc[t] = "wake"
    /\ OnStack(t)
    /\ Move(t, "testdetached")
    /\ UNCHANGED <<main, i, flags, retval, got, stack>>
Wake(t) ==
    /\ pc[t] = "wake"
    /\ OnStack(t)
    /\ main' = IF main = "asleep" /\ i = t THEN "load" ELSE main
    /\ Move(t, "testdetached")
    /\ UNCHANGED <<i, flags, retval, got, stack>>

TestDetached(t) ==
    /\ pc[t] = "testdetached"
    /\ Move(t, IF detached[t] THEN "testjoined" ELSE "return")
    /\ UNCHANGED <<main, i, flags, retval, got, stack>>

TestJoined(t) ==
    /\ pc[t] = "testjoined"
    /\ Move(t, IF joined[t] THEN "return" ELSE "unmap")
    /\ UNCHANGED <<main, i, flags, retval, got, stack>>

UnmapSelf(t) ==
    /\ pc[t] = "unmap"
    /\ OnStack(t)
    /\ stack' = [stack EXCEPT ![t] = "unmapped"]
    /\ Move(t, "return")
    /\ UNCHANGED <<main, i, flags, retval, got>>

Return(t) ==
    /\ pc[t] = "return"
    /\ OnStack(t)
    /\ Move(t, "gone")
    /\ UNCHANGED <<main, i, flags, retval, got, stack>>

\* A thread touches its stack after it was unmapped: SIGSEGV ends the process.
Crash(t) ==
    /\ pc[t] # "gone"
    /\ stack[t] = "unmapped"
    /\ main' = "crashed"
    /\ UNCHANGED <<i, pc, flags, retval, got, stack>>

----------------------------------------------------------------------------
MainStep ==
    \/ Create \/ CreateFails \/ AllCreated
    \/ BeginJoin \/ LoadCompleted \/ FutexWait \/ ReadResult
    \/ Detach \/ TestCompleted
    \/ Claim \/ Unmap \/ MainReturns

ThreadStep(t) ==
    /\ main \notin Ended
    /\ \/ RunRoutine(t) \/ Complete(t) \/ Wake(t)
       \/ TestDetached(t) \/ TestJoined(t) \/ UnmapSelf(t) \/ Return(t)
       \/ Crash(t)

\* The process no longer exists.
Terminated == main \in Ended /\ UNCHANGED vars

Next ==
    \/ MainStep
    \/ SpuriousWakeup
    \/ \E t \in Threads : ThreadStep(t)
    \/ Terminated

Spec == Init /\ [][Next]_vars

\* The kernel runs every thread that is not asleep; start routines return.
FairSpec ==
    /\ Spec
    /\ WF_vars(MainStep)
    /\ \A t \in Threads : WF_vars(ThreadStep(t))

----------------------------------------------------------------------------
(* Properties                                                              *)

\* mythread_join gives back what the start routine returned, and not the NULL
\* that was there before it ended (mythread.c:73-80 against 25-27).
JoinGetsResult == \A t \in Threads : got[t] # "nothing" => got[t] = "result"

\* Nobody unmaps the stack of a thread that has not stored its result, whoever
\* of join, detach and the thread itself gets there first.
RunningKeepsStack ==
    \A t \in Threads : pc[t] \in {"run", "complete"} => stack[t] = "mapped"

\* When a thread is gone and the main thread has joined or detached it, its
\* stack is not mapped any more: the two do not both leave it to the other.
Handled(t) == main \notin {"create", "failed"} /\ t < i
NoStackLeak ==
    \A t \in Threads : pc[t] = "gone" /\ Handled(t) => stack[t] = "unmapped"

\* The program comes to an end: no join sleeps for good beside a thread that
\* has completed.
MainEnds == <>(main \in Ended)

\* main.c takes a failed create, join or detach for the only errors there are
\* and otherwise returns 0: it does not expect the process to be killed.
NeverCrashes == main # "crashed"

----------------------------------------------------------------------------
(* The inductive invariant the safety properties follow from.              *)

Starting == main \in {"create", "failed"}

\* Nobody has joined or detached anything while threads are still created.
StartsClean ==
    IF Starting
    THEN \A t \in Threads : /\ pc[t] = "none" <=> i <= t
                            /\ pc[t] \notin {"testjoined", "unmap"}
                            /\ ~detached[t] /\ ~joined[t]
                            /\ got[t] = "nothing"
                            /\ stack[t] # "unmapped"
    ELSE \A t \in Threads : pc[t] # "none"

\* What the fields of a thread say of the point it has reached.
FieldsTellPoint ==
    \A t \in Threads :
        /\ stack[t] = "none" <=> pc[t] = "none"
        /\ completed[t] <=> pc[t] \notin {"none", "run", "complete"}
        /\ retval[t] = "result" <=> pc[t] \notin {"none", "run"}

\* main takes nothing from a thread it has not seen complete.
MainKnows ==
    /\ main \in {"load", "wait", "asleep", "read", "test", "claim", "unmap"} => i < N
    /\ main \in {"read", "claim", "unmap"} => completed[i]
    /\ main = "test" => detached[i]

\* joined is set by main alone, right before it unmaps the stack.
JoinedByMain ==
    \A t \in Threads :
        joined[t] => t < i \/ (t = i /\ main \in {"unmap", "crashed"})

\* What main has left behind is unmapped, or will be by its thread, which has
\* not looked at detached yet or is past it.
LeftToThread ==
    \A t \in Threads : Handled(t) =>
        \/ stack[t] = "unmapped"
        \/ /\ detached[t] /\ ~joined[t]
           /\ pc[t] \notin {"return", "gone"}

IInv ==
    /\ TypeOK
    /\ StartsClean
    /\ FieldsTellPoint
    /\ MainKnows
    /\ JoinedByMain
    /\ LeftToThread
    /\ JoinGetsResult
    /\ RunningKeepsStack
=============================================================================
