------------------------------ MODULE LockTest ------------------------------
(***************************************************************************)
(* run_test of main_mutex.c and main_spinlock.c with the lock of its       *)
(* directory: the threads of CounterTest on the futex mutex of FutexMutex  *)
(* or on the spinlock of SpinLock.  A behaviour is about one of the two    *)
(* programs, and the variable lock says which.                             *)
(***************************************************************************)
EXTENDS FutexMutex, SpinLock

CONSTANT Locks  \* the programs looked at

ASSUME LocksAssumption == Locks \subseteq {"mutex", "spinlock"}

VARIABLE lock  \* the lock under test

vars == <<lock, state, pc, spins, tries, left, seen, counter>>

Points == {"idle", "spin", "done"} \cup MutexPoints \cup Inside

TypeOK ==
    /\ lock \in Locks
    /\ state \in IF lock = "mutex" THEN {0, 1, 2} ELSE {0, 1}
    /\ pc \in [Threads -> Points]
    /\ spins \in [Threads -> FirstSpins .. 2 * MaxSpins]
    /\ tries \in [Threads -> Nat]
    /\ \A t \in Threads : tries[t] < spins[t]
    /\ left \in [Threads -> 0 .. Iterations]
    /\ seen \in [Threads -> Nat]
    /\ counter \in Nat

Init ==
    /\ lock \in Locks
    /\ state = 0
    /\ pc = [t \in Threads |-> "idle"]
    /\ spins = [t \in Threads |-> FirstSpins]
    /\ tries = [t \in Threads |-> 0]
    /\ left = [t \in Threads |-> Iterations]
    /\ seen = [t \in Threads |-> 0]
    /\ counter = 0

Step(t) ==
    /\ \/ lock = "mutex" /\ MutexStep(t) /\ UNCHANGED <<spins, tries>>
       \/ lock = "spinlock" /\ SpinStep(t)
       \/ (Load(t) \/ Store(t) \/ Return(t)) /\ UNCHANGED <<spins, tries>>
    /\ UNCHANGED lock

\* All threads are joined and run_test prints its line.
Joined == (\A t \in Threads : pc[t] = "done") /\ UNCHANGED vars

Next ==
    \/ \E t \in Threads : Step(t)
    \/ \E t \in Threads : SpuriousWakeup(t) /\ UNCHANGED <<lock, spins, tries>>
    \/ Joined

Spec == Init /\ [][Next]_vars

\* The scheduler runs every thread that is not asleep in the kernel, which
\* owes nobody a spurious wakeup, nor a spinning thread a good moment to look.
FairSpec == Spec /\ \A t \in Threads : WF_vars(Step(t))

----------------------------------------------------------------------------
(* Properties                                                              *)

\* Each lock lets one thread at a time through to counter++, and its word is 0
\* exactly when nobody is there (mutex.c:17-33, spinlock.c:15-38).
MutualExclusion ==
    /\ \A t, u \in Threads : Holds(t) /\ Holds(u) => t = u
    /\ state = 0 <=> \A t \in Threads : ~Holds(t)

\* Under either lock counter++ is atomic: no increment is lost, and the tests
\* (main_mutex.c:61-66, main_spinlock.c:61-66) get the sum they expect.
Counter == INSTANCE AtomicCounter
CountsAtomically == Counter!Spec

AllDone == \A t \in Threads : pc[t] = "done"

\* Every thread with a spinlock does its iterations and returns, so that the
\* joins of main_spinlock.c:58 end: the others run out of iterations in the end.
SpinThreadsReturn == lock = "spinlock" => <>AllDone

\* The same of the mutex, so that the joins of main_mutex.c:58 end and its line
\* of lines 61-66 is printed.
MutexThreadsReturn == lock = "mutex" => <>AllDone
=============================================================================
