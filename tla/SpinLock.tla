------------------------------ MODULE SpinLock ------------------------------
(***************************************************************************)
(* 2.4/spinlock: a test-and-set lock whose rounds of attempts double.  The *)
(* word is 0 free, 1 held.  cpu_relax and sched_yield only take time, so   *)
(* they are not modelled.                                                  *)
(***************************************************************************)
EXTENDS CounterTest

CONSTANTS
    FirstSpins,  \* the attempts of the first round (16)
    MaxSpins     \* the attempts of a round after which none is longer (1 << 12)

ASSUME SpinAssumption ==
    /\ FirstSpins \in Nat \ {0}
    /\ MaxSpins \in Nat
    /\ FirstSpins <= MaxSpins

VARIABLES
    spins,  \* spins[t]: the attempts of the round of thread t
    tries   \* tries[t]: those it has made (i)

\* No round is longer than MaxSpins doubled once.
Doubled(n) == IF n < MaxSpins THEN 2 * n ELSE n

----------------------------------------------------------------------------
(* spinlock_trylock and spinlock_lock                                      *)

\* A strong compare-exchange of 0 by 1.  (SpinAcquireHeld: a plain store of 1.)
SpinAcquireHeld(t) ==
    /\ state' = 1
    /\ Move(t, "load")
    /\ UNCHANGED <<spins, tries, left, seen, counter>>
SpinAcquire(t) ==
    /\ state = 0
    /\ state' = 1
    /\ Move(t, "load")
    /\ UNCHANGED <<spins, tries, left, seen, counter>>

SpinFirstTry(t) ==
    /\ pc[t] = "idle"
    /\ More(t)
    /\ SpinAcquire(t)

SpinFirstTryFails(t) ==
    /\ pc[t] = "idle"
    /\ More(t)
    /\ state # 0
    /\ Move(t, "spin")
    /\ spins' = [spins EXCEPT ![t] = FirstSpins]
    /\ tries' = [tries EXCEPT ![t] = 0]
    /\ UNCHANGED <<state, left, seen, counter>>

SpinTry(t) ==
    /\ pc[t] = "spin"
    /\ SpinAcquire(t)

\* A failed attempt; the last of a round begins a longer one.
SpinTryFails(t) ==
    /\ pc[t] = "spin"
    /\ state # 0
    /\ IF tries[t] + 1 < spins[t]
       THEN tries' = [tries EXCEPT ![t] = @ + 1] /\ UNCHANGED spins
       ELSE /\ tries' = [tries EXCEPT ![t] = 0]
            /\ spins' = [spins EXCEPT ![t] = Doubled(@)]
    /\ UNCHANGED <<state, pc, left, seen, counter>>

----------------------------------------------------------------------------
(* spinlock_unlock                                                         *)

\* (SpinUnlockKept: the word is not reset.)
SpinUnlockKept(t) ==
    /\ pc[t] = "unlock"
    /\ Move(t, "idle")
    /\ UNCHANGED <<state, spins, tries, left, seen, counter>>
SpinUnlock(t) ==
    /\ pc[t] = "unlock"
    /\ state' = 0
    /\ Move(t, "idle")
    /\ UNCHANGED <<spins, tries, left, seen, counter>>

SpinStep(t) ==
    \/ SpinFirstTry(t) \/ SpinFirstTryFails(t) \/ SpinTry(t) \/ SpinTryFails(t)
    \/ SpinUnlock(t)
=============================================================================
