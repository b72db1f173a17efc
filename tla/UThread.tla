------------------------------ MODULE UThread ------------------------------
(***************************************************************************)
(* 1.7: threads of one process that hand the processor to each other with  *)
(* swapcontext (uthread.c), and the main that makes them and runs them all *)
(* (main.c).  Nothing preempts anything: whoever has the processor keeps   *)
(* it up to its next uthread_yield, or to the yield that uthread_entry     *)
(* makes for it at its end.                                                *)
(*                                                                         *)
(* An action is what happens between two switches of context.  uthread_run *)
(* is called by nobody and left out.                                       *)
(***************************************************************************)
EXTENDS Naturals, Sequences, SequencesExt

CONSTANTS
    N,          \* the threads main makes (3)
    MaxYields,  \* bound: a start routine yields up to so often (3)
    Main,       \* the context of main
    NoThread    \* the NULL thread pointer

Threads == 1 .. N

ASSUME UThreadAssumption ==
    /\ N \in Nat
    /\ MaxYields \in Nat
    /\ {Main, NoThread} \cap Threads = {}

VARIABLES
    main,     \* the point main has reached
    made,     \* the threads made so far
    state,    \* state[t]: the field state of thread t
    readyq,   \* the list readyq, first element first
    current,  \* the global current
    cpu,      \* whose context executes
    t0,       \* the local t of uthread_run_all
    stack,    \* stack[t]: none, held or freed
    yields    \* yields[t]: the times thread t has called uthread_yield

vars == <<main, made, state, readyq, current, cpu, t0, stack, yields>>

TypeOK ==
    /\ main \in {"create", "loop", "switched", "failed", "returned"}
    /\ made \in 0 .. N
    /\ state \in [Threads -> {"none", "ready", "running", "finished"}]
    /\ readyq \in Seq(Threads)
    /\ current \in Threads \cup {NoThread}
    /\ cpu \in Threads \cup {Main}
    /\ t0 \in Threads \cup {NoThread}
    /\ stack \in [Threads -> {"none", "held", "freed"}]
    /\ yields \in [Threads -> 0 .. MaxYields]

Init ==
    /\ main = "create"
    /\ made = 0
    /\ state = [t \in Threads |-> "none"]
    /\ readyq = <<>>
    /\ current = NoThread
    /\ cpu = Main
    /\ t0 = NoThread
    /\ stack = [t \in Threads |-> "none"]
    /\ yields = [t \in Threads |-> 0]

----------------------------------------------------------------------------
(* The ready list                                                          *)

\* q_push puts a thread at the front.  (PushBack: at the end.)
PushBack(t, q) == Append(q, t)
Push(t, q) == <<t>> \o q

\* q_pop_ready looks from the front for a thread that is ready in st ...
Ready(q, st) == {k \in DOMAIN q : st[q[k]] = "ready"}
FirstReady(q, st) == CHOOSE k \in Ready(q, st) : \A j \in Ready(q, st) : k <= j

\* ... and takes it out.
Pop(q, st) == RemoveAt(q, FirstReady(q, st))

\* The processor goes to the first ready thread of q, in the states st.
\* (SwitchUnrecorded: current is not set.)
SwitchUnrecorded(q, st) ==
    LET next == q[FirstReady(q, st)]
    IN  /\ readyq' = Pop(q, st)
        /\ state' = [st EXCEPT ![next] = "running"]
        /\ cpu' = next
        /\ UNCHANGED current
SwitchTo(q, st) ==
    LET next == q[FirstReady(q, st)]
    IN  /\ readyq' = Pop(q, st)
        /\ state' = [st EXCEPT ![next] = "running"]
        /\ current' = next
        /\ cpu' = next

----------------------------------------------------------------------------
(* main and uthread_create                                                 *)

Create ==
    /\ main = "create"
    /\ made < N
    /\ made' = made + 1
    /\ state' = [state EXCEPT ![made'] = "ready"]
    /\ stack' = [stack EXCEPT ![made'] = "held"]
    /\ readyq' = Push(made', readyq)
    /\ UNCHANGED <<main, current, cpu, t0, yields>>

\* malloc or getcontext fails, and main returns 1.
CreateFails ==
    /\ main = "create"
    /\ made < N
    /\ main' = "failed"
    /\ UNCHANGED <<made, state, readyq, current, cpu, t0, stack, yields>>

AllMade ==
    /\ main = "create"
    /\ made = N
    /\ main' = "loop"
    /\ UNCHANGED <<made, state, readyq, current, cpu, t0, stack, yields>>

----------------------------------------------------------------------------
(* uthread_run_all                                                         *)

RunNext ==
    /\ main = "loop" /\ cpu = Main
    /\ Ready(readyq, state) # {}
    /\ SwitchTo(readyq, state)
    /\ t0' = current'
    /\ main' = "switched"
    /\ UNCHANGED <<made, stack, yields>>

\* Somebody has switched back.
Resume ==
    /\ main = "switched" /\ cpu = Main
    /\ main' = "loop"
    /\ stack' = IF state[t0] = "finished" THEN [stack EXCEPT ![t0] = "freed"] ELSE stack
    /\ readyq' = IF state[t0] = "ready" THEN Push(t0, readyq) ELSE readyq
    /\ UNCHANGED <<made, state, current, cpu, t0, yields>>

\* Nobody is ready: uthread_run_all returns, and main with it.
AllDone ==
    /\ main = "loop" /\ cpu = Main
    /\ Ready(readyq, state) = {}
    /\ main' = "returned"
    /\ UNCHANGED <<made, state, readyq, current, cpu, t0, stack, yields>>

----------------------------------------------------------------------------
(* uthread_yield and uthread_entry                                         *)

\* The rest of uthread_yield once the caller is on the list q or not.
Reschedule(q, st) ==
    IF Ready(q, st) # {} THEN SwitchTo(q, st)
    ELSE /\ cpu' = Main
         /\ readyq' = q
         /\ state' = st
         /\ UNCHANGED current

\* The running thread yields.  (YieldUnlisted: without going on the list.)
YieldUnlisted(t) ==
    /\ cpu = t
    /\ state[t] = "running"
    /\ yields[t] < MaxYields
    /\ yields' = [yields EXCEPT ![t] = @ + 1]
    /\ Reschedule(readyq, [state EXCEPT ![current] = "ready"])
    /\ UNCHANGED <<main, made, t0, stack>>
Yield(t) ==
    /\ cpu = t
    /\ state[t] = "running"
    /\ yields[t] < MaxYields
    /\ yields' = [yields EXCEPT ![t] = @ + 1]
    /\ Reschedule(Push(current, readyq), [state EXCEPT ![current] = "ready"])
    /\ UNCHANGED <<main, made, t0, stack>>

\* The start routine returns; uthread_entry yields for good.  (FinishListed:
\* the thread goes on the list again.)
FinishListed(t) ==
    /\ cpu = t
    /\ Reschedule(Push(current, readyq), [state EXCEPT ![current] = "finished"])
    /\ UNCHANGED <<main, made, t0, stack, yields>>
Finish(t) ==
    /\ cpu = t
    /\ Reschedule(readyq, [state EXCEPT ![current] = "finished"])
    /\ UNCHANGED <<main, made, t0, stack, yields>>

----------------------------------------------------------------------------
Step ==
    \/ Create \/ CreateFails \/ AllMade
    \/ RunNext \/ Resume \/ AllDone
    \/ \E t \in Threads : Yield(t) \/ Finish(t)

Terminated == main \in {"failed", "returned"} /\ UNCHANGED vars

Next == Step \/ Terminated

Spec == Init /\ [][Next]_vars

\* The process is scheduled; start routines return, having yielded a bounded
\* number of times.
FairSpec == Spec /\ WF_vars(Step)

----------------------------------------------------------------------------
(* Properties                                                              *)

\* The ready list holds the ready threads, each once: a thread on it twice
\* would be resumed after its end, one missing never.
ReadyListExact ==
    /\ {readyq[k] : k \in DOMAIN readyq} = {t \in Threads : state[t] = "ready"}
    /\ \A j, k \in DOMAIN readyq : readyq[j] = readyq[k] => j = k

\* Whoever has the processor is the thread current points to, is the only one
\* marked running and still has its stack; main has it only when nobody runs.
CpuIsCurrent ==
    /\ {t \in Threads : state[t] = "running"} = {cpu} \ {Main}
    /\ cpu # Main => cpu = current /\ stack[cpu] = "held"

\* The list is pushed and popped at its front, so that uthread_yield finds the
\* caller itself: a thread loses the processor only by finishing
\* (uthread.c:10-19, 64-86).
RunsToCompletion ==
    [][\A t \in Threads : cpu = t /\ cpu' # t => state'[t] = "finished"]_vars

\* Every thread that was made runs to its end and main returns, even though the
\* last one switches to a main that has waited since the first.
EveryThreadFinishes ==
    <>\/ main = "failed"
      \/ main = "returned" /\ \A t \in Threads : state[t] = "finished"

----------------------------------------------------------------------------
(* The inductive invariant the safety properties follow from.              *)

\* Main runs whenever it is not waiting in uthread_run_all, and when it gets
\* the processor back there nobody is ready, so that t0 is not listed twice.
MainWaits ==
    /\ main # "switched" => cpu = Main
    /\ main = "switched" => t0 \in Threads /\ (cpu = Main => readyq = <<>>)

StacksHeld == \A t \in Threads : state[t] \in {"ready", "running"} => stack[t] = "held"

NotYetMade == \A t \in Threads : t > made => state[t] = "none"

IInv == /\ TypeOK /\ ReadyListExact /\ CpuIsCurrent
        /\ MainWaits /\ StacksHeld /\ NotYetMade
=============================================================================
