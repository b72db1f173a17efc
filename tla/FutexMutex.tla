----------------------------- MODULE FutexMutex -----------------------------
(***************************************************************************)
(* 2.4/mutex: a lock made of one word and a futex.  The word is 0 free,    *)
(* 1 held, 2 held and someone means to sleep.                              *)
(*                                                                         *)
(* An action is one atomic access of the word, or one system call.  The    *)
(* releasing exchange of mutex_unlock and the acquiring trylock order the  *)
(* accesses of the counter, and the relaxed accesses of mutex_lock are to  *)
(* the same word, so that the interleavings of these actions are all there *)
(* is.                                                                     *)
(***************************************************************************)
EXTENDS CounterTest

MutexPoints == {"observe", "mark", "wait", "asleep", "retry", "wake"}

Asleep == {t \in Threads : pc[t] = "asleep"}

----------------------------------------------------------------------------
(* mutex_trylock: a strong compare-exchange of 0 by 1                      *)

\* (AcquireMarked: a lock somebody means to sleep on counts as free.)
AcquireMarked(t) ==
    /\ state # 1
    /\ state' = 1
    /\ Move(t, "load")
    /\ UNCHANGED <<left, seen, counter>>
Acquire(t) ==
    /\ state = 0
    /\ state' = 1
    /\ Move(t, "load")
    /\ UNCHANGED <<left, seen, counter>>

NotAcquired(t) ==
    /\ state # 0
    /\ Move(t, "observe")
    /\ UNCHANGED <<state, left, seen, counter>>

----------------------------------------------------------------------------
(* mutex_lock                                                              *)

FirstTry(t) ==
    /\ pc[t] = "idle"
    /\ More(t)
    /\ Acquire(t) \/ NotAcquired(t)

\* The load that opens the loop; with any value but 1 it goes on to line 25.
Observe(t) ==
    /\ pc[t] = "observe"
    /\ Move(t, IF state = 1 THEN "mark" ELSE "retry")
    /\ UNCHANGED <<state, left, seen, counter>>

\* The compare-exchange of 1 by 2.  (MarkBlindly: an exchange.)
MarkBlindly(t) ==
    /\ pc[t] = "mark"
    /\ state' = 2
    /\ Move(t, "wait")
    /\ UNCHANGED <<left, seen, counter>>
Mark(t) ==
    /\ pc[t] = "mark"
    /\ state = 1
    /\ state' = 2
    /\ Move(t, "wait")
    /\ UNCHANGED <<left, seen, counter>>

MarkFails(t) ==
    /\ pc[t] = "mark"
    /\ state # 1
    /\ Move(t, "retry")
    /\ UNCHANGED <<state, left, seen, counter>>

\* FUTEX_WAIT sleeps only if the word still is 2.
FutexWait(t) ==
    /\ pc[t] = "wait"
    /\ Move(t, IF state = 2 THEN "asleep" ELSE "retry")
    /\ UNCHANGED <<state, left, seen, counter>>

\* FUTEX_WAIT may return for no reason; its result is not looked at.
SpuriousWakeup(t) ==
    /\ pc[t] = "asleep"
    /\ Move(t, "retry")
    /\ UNCHANGED <<state, left, seen, counter>>

Retry(t) ==
    /\ pc[t] = "retry"
    /\ Acquire(t) \/ NotAcquired(t)

----------------------------------------------------------------------------
(* mutex_unlock                                                            *)

\* The exchange by 0; what was there decides whether to wake.
MutexUnlock(t) ==
    /\ pc[t] = "unlock"
    /\ state' = 0
    /\ Move(t, IF state = 2 THEN "wake" ELSE "idle")
    /\ UNCHANGED <<left, seen, counter>>

\* FUTEX_WAKE of 1: it wakes one sleeper, if there is one.
FutexWake(t) ==
    /\ pc[t] = "wake"
    /\ \/ Asleep = {} /\ Move(t, "idle")
       \/ \E u \in Asleep : pc' = [pc EXCEPT ![t] = "idle", ![u] = "retry"]
    /\ UNCHANGED <<state, left, seen, counter>>

MutexStep(t) ==
    \/ FirstTry(t) \/ Observe(t) \/ Mark(t) \/ MarkFails(t)
    \/ FutexWait(t) \/ Retry(t)
    \/ MutexUnlock(t) \/ FutexWake(t)
=============================================================================
