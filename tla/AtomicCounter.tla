---------------------------- MODULE AtomicCounter ----------------------------
(***************************************************************************)
(* What the locks of 2.4 are for: run_test starts threads that each add 1  *)
(* to one counter N_ITERS times, and expects the sum.  It gets it exactly  *)
(* if every counter++ is one step, as it is here.                          *)
(***************************************************************************)
EXTENDS Naturals

CONSTANTS
    Threads,    \* the N_THREADS threads of run_test
    Iterations  \* N_ITERS

VARIABLES
    counter,  \* the shared counter
    left      \* left[t]: the increments thread t has still to do

vars == <<counter, left>>

Init ==
    /\ counter = 0
    /\ left = [t \in Threads |-> Iterations]

Increment(t) ==
    /\ left[t] > 0
    /\ counter' = counter + 1
    /\ left' = [left EXCEPT ![t] = @ - 1]

Next == \E t \in Threads : Increment(t)

Spec == Init /\ [][Next]_vars
=============================================================================
