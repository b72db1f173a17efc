----------------------------- MODULE CounterTest -----------------------------
(***************************************************************************)
(* The test both locks of 2.4 are put to by main_mutex.c and               *)
(* main_spinlock.c: threads that each take the lock N_ITERS times to add 1 *)
(* to a counter, and a main thread that joins them all.  This module has   *)
(* the variables they work on and what is done between lock and unlock;    *)
(* FutexMutex and SpinLock have the operations of the locks, and LockTest  *)
(* puts them together.                                                     *)
(***************************************************************************)
EXTENDS Integers

CONSTANTS
    Threads,    \* the threads started by run_test
    Iterations  \* N_ITERS

ASSUME CounterAssumption == Iterations \in Nat

VARIABLES
    state,    \* the word of the lock
    pc,       \* pc[t]: the point thread t has reached
    left,     \* left[t]: N_ITERS less the increments thread t has done
    seen,     \* seen[t]: the counter as thread t last read it
    counter   \* the shared counter

\* counter++ between lock and unlock.
Inside == {"load", "store", "unlock"}
Holds(t) == pc[t] \in Inside

\* The test of the loop of the worker.
More(t) == left[t] > 0

Move(t, p) == pc' = [pc EXCEPT ![t] = p]

\* counter++ on a volatile long long is a load ...
Load(t) ==
    /\ pc[t] = "load"
    /\ seen' = [seen EXCEPT ![t] = counter]
    /\ Move(t, "store")
    /\ UNCHANGED <<state, left, counter>>

\* ... and a store.
Store(t) ==
    /\ pc[t] = "store"
    /\ counter' = seen[t] + 1
    /\ left' = [left EXCEPT ![t] = @ - 1]
    /\ Move(t, "unlock")
    /\ UNCHANGED <<state, seen>>

\* The thread returns, and is joined.
Return(t) ==
    /\ pc[t] = "idle"
    /\ ~More(t)
    /\ Move(t, "done")
    /\ UNCHANGED <<state, left, seen, counter>>
=============================================================================
