----------------------------- MODULE ThreadPool -----------------------------
(***************************************************************************)
(* threadpool/threadpool.c: a linked list of tasks under pool->lock, with  *)
(* pool->has_work to sleep on, worker threads in workerLoop, and the main  *)
(* thread of the proxy, the only one that creates the pool, submits to it  *)
(* and stops it.  The module Proxy says when it does and what the tasks    *)
(* are; most of what the pool promises is checked there.                   *)
(*                                                                         *)
(* A critical section is one action where nobody can interfere with it.    *)
(* That of workerLoop is cut in two, between the test that nothing is to   *)
(* be done and the call of pthread_cond_wait, because the error path of    *)
(* threadPoolCreate writes pool->stop and broadcasts without the lock.     *)
(***************************************************************************)
EXTENDS Naturals, Sequences, FiniteSets

CONSTANTS
    Workers,  \* the num_threads threads of the pool
    Tasks,    \* the tasks the main thread submits, each once
    NoTask,   \* the NULL task pointer
    NoThread  \* pool->lock is free

ASSUME ThreadPoolAssumption ==
    /\ IsFiniteSet(Workers)
    /\ Workers # {}
    /\ NoTask \notin Tasks
    /\ NoThread \notin Workers

VARIABLES
    main,      \* the point the main thread has reached
    pc,        \* pc[w]: the point worker w has reached in workerLoop
    owner,     \* the worker that holds pool->lock between two actions
    stop,      \* pool->stop
    head,      \* pool->head
    tail,      \* pool->tail
    next,      \* next[t]: the field next of task t
    task,      \* task[w]: the task worker w took
    accepted,  \* the tasks threadPoolSubmit returned 0 for
    done,      \* the tasks that were executed and freed
    pending    \* auxiliary: the queue the pointers stand for

vars == <<main, pc, owner, stop, head, tail, next, task, accepted, done, pending>>
list == <<head, tail, next, pending>>
work == <<task, accepted, done>>

WorkerPoints == {"unborn", "lock", "test", "towait", "sleep", "run", "exited"}
MainPoints == {"create", "failcast", "failjoin", "failed",
               "serve", "join", "gone"}

TypeOK ==
    /\ main \in MainPoints
    /\ pc \in [Workers -> WorkerPoints]
    /\ owner \in Workers \cup {NoThread}
    /\ stop \in BOOLEAN
    /\ head \in Tasks \cup {NoTask}
    /\ tail \in Tasks \cup {NoTask}
    /\ next \in [Tasks -> Tasks \cup {NoTask}]
    /\ task \in [Workers -> Tasks \cup {NoTask}]
    /\ accepted \in SUBSET Tasks
    /\ done \in SUBSET Tasks
    /\ pending \in Seq(Tasks)

Asleep == {w \in Workers : pc[w] = "sleep"}
\* Workers that will look at the list again before they sleep or run.
Looking == {w \in Workers : pc[w] \in {"lock", "test"}}

Move(w, p) == pc' = [pc EXCEPT ![w] = p]

Init ==
    /\ main = "create"
    /\ pc = [w \in Workers |-> "unborn"]
    /\ owner = NoThread
    /\ stop = FALSE
    /\ head = NoTask
    /\ tail = NoTask
    /\ next = [t \in Tasks |-> NoTask]
    /\ task = [w \in Workers |-> NoTask]
    /\ accepted = {}
    /\ done = {}
    /\ pending = <<>>

----------------------------------------------------------------------------
(* pool->has_work                                                          *)

\* pthread_cond_signal wakes a sleeper if there is one.
Signal ==
    IF Asleep = {} THEN UNCHANGED pc
    ELSE \E w \in Asleep : Move(w, "lock")

Broadcast == pc' = [w \in Workers |-> IF pc[w] = "sleep" THEN "lock" ELSE pc[w]]

----------------------------------------------------------------------------
(* threadPoolCreate                                                        *)

CreateWorker(w) ==
    /\ main = "create"
    /\ pc[w] = "unborn"
    /\ Move(w, "lock")
    /\ UNCHANGED <<main, owner, stop, list, work>>

CreateDone ==
    /\ main = "create"
    /\ \A w \in Workers : pc[w] # "unborn"
    /\ main' = "serve"
    /\ UNCHANGED <<pc, owner, stop, list, work>>

\* pthread_create fails: stop is set and the workers are woken, without lock.
CreateFails ==
    /\ main = "create"
    /\ \E w \in Workers : pc[w] = "unborn"
    /\ stop' = TRUE
    /\ main' = "failcast"
    /\ UNCHANGED <<pc, owner, list, work>>

FailBroadcast ==
    /\ main = "failcast"
    /\ Broadcast
    /\ main' = "failjoin"
    /\ UNCHANGED <<owner, stop, list, work>>

\* The threads made so far are joined and the pool is freed.
FailJoined ==
    /\ main = "failjoin"
    /\ \A w \in Workers : pc[w] \in {"unborn", "exited"}
    /\ main' = "failed"
    /\ UNCHANGED <<pc, owner, stop, list, work>>

----------------------------------------------------------------------------
(* threadPoolSubmit                                                        *)

\* A new task at the end of the list.  (EnqueueFirst: at its start.)
EnqueueFirst(t) ==
    /\ main = "serve"
    /\ owner = NoThread
    /\ t \notin accepted
    /\ next' = [next EXCEPT ![t] = head]
    /\ head' = t
    /\ tail' = IF tail = NoTask THEN t ELSE tail
    /\ pending' = <<t>> \o pending
    /\ accepted' = accepted \cup {t}
    /\ UNCHANGED <<main, owner, stop, task, done>>
Enqueue(t) ==
    /\ main = "serve"
    /\ owner = NoThread
    /\ t \notin accepted
    /\ next' = IF tail = NoTask THEN [next EXCEPT ![t] = NoTask]
               ELSE [next EXCEPT ![t] = NoTask, ![tail] = t]
    /\ head' = IF tail = NoTask THEN t ELSE head
    /\ tail' = t
    /\ pending' = Append(pending, t)
    /\ accepted' = accepted \cup {t}
    /\ UNCHANGED <<main, owner, stop, task, done>>

\* One sleeper is woken for every task.  (SubmitOnEmpty: only for the first in
\* the list.  SubmitSilently: for none.)
SubmitOnEmpty(t) == Enqueue(t) /\ IF head = NoTask THEN Signal ELSE UNCHANGED pc
SubmitSilently(t) == Enqueue(t) /\ UNCHANGED pc
Submit(t) == Enqueue(t) /\ Signal

----------------------------------------------------------------------------
(* threadPoolStop                                                          *)

\* All sleepers are told.  (StopSignalled: only one of them.)
StopSignalled ==
    /\ main = "serve"
    /\ owner = NoThread
    /\ stop' = TRUE
    /\ Signal
    /\ main' = "join"
    /\ UNCHANGED <<owner, list, work>>
Stop ==
    /\ main = "serve"
    /\ owner = NoThread
    /\ stop' = TRUE
    /\ Broadcast
    /\ main' = "join"
    /\ UNCHANGED <<owner, list, work>>

\* All workers have been joined; what is left in the list is freed unrun.
Stopped ==
    /\ main = "join"
    /\ \A w \in Workers : pc[w] = "exited"
    /\ head' = NoTask
    /\ pending' = <<>>
    /\ main' = "gone"
    /\ UNCHANGED <<pc, owner, stop, tail, next, work>>

----------------------------------------------------------------------------
(* workerLoop                                                              *)

Lock(w) ==
    /\ pc[w] = "lock"
    /\ owner = NoThread
    /\ owner' = w
    /\ Move(w, "test")
    /\ UNCHANGED <<main, stop, list, work>>

\* Nothing to do: the worker is about to call pthread_cond_wait.
FindNothing(w) ==
    /\ pc[w] = "test"
    /\ ~stop /\ head = NoTask
    /\ Move(w, "towait")
    /\ UNCHANGED <<main, owner, stop, list, work>>

\* pthread_cond_wait drops the lock and puts the worker to sleep at once.
Sleep(w) ==
    /\ pc[w] = "towait"
    /\ owner' = NoThread
    /\ Move(w, "sleep")
    /\ UNCHANGED <<main, stop, list, work>>

\* POSIX lets it return without a signal.
SpuriousWakeup(w) ==
    /\ pc[w] = "sleep"
    /\ Move(w, "lock")
    /\ UNCHANGED <<main, owner, stop, list, work>>

\* Stopped, and the list is drained.
Exit(w) ==
    /\ pc[w] = "test"
    /\ stop /\ head = NoTask
    /\ owner' = NoThread
    /\ Move(w, "exited")
    /\ UNCHANGED <<main, stop, list, work>>

\* The tail pointer is reset when the list becomes empty.  (TailKept: it is not.)
TailKept(h) == tail
TailAfter(h) == IF h = NoTask THEN NoTask ELSE tail

\* The first task leaves the list, and the worker the lock.
Take(w) ==
    /\ pc[w] = "test"
    /\ head # NoTask
    /\ task' = [task EXCEPT ![w] = head]
    /\ head' = next[head]
    /\ tail' = TailAfter(next[head])
    /\ pending' = Tail(pending)
    /\ owner' = NoThread
    /\ Move(w, "run")
    /\ UNCHANGED <<main, stop, next, accepted, done>>

\* task->fn returns and the task is freed.
Finish(w) ==
    /\ pc[w] = "run"
    /\ done' = done \cup {task[w]}
    /\ task' = [task EXCEPT ![w] = NoTask]
    /\ Move(w, "lock")
    /\ UNCHANGED <<main, owner, stop, list, accepted>>

----------------------------------------------------------------------------
WorkerStep(w) ==
    Lock(w) \/ FindNothing(w) \/ Sleep(w) \/ Exit(w) \/ Take(w) \/ Finish(w)

MainStep ==
    \/ \E w \in Workers : CreateWorker(w)
    \/ CreateDone
    \/ CreateFails
    \/ FailBroadcast
    \/ FailJoined
    \/ \E t \in Tasks : Submit(t)
    \/ Stop
    \/ Stopped

\* The pool no longer exists.
Terminated == main \in {"failed", "gone"} /\ UNCHANGED vars

Next == MainStep \/ Terminated \/ \E w \in Workers : WorkerStep(w) \/ SpuriousWakeup(w)

Spec == Init /\ [][Next]_vars

\* Workers are scheduled and handlers return.  The main thread need not submit
\* or stop, but completes the calls it has begun.
FairSpec ==
    /\ Spec
    /\ \A w \in Workers : WF_vars(WorkerStep(w))
    /\ WF_vars(FailBroadcast \/ FailJoined \/ Stopped)

----------------------------------------------------------------------------
(* Properties                                                              *)

\* head, tail and the next fields are the list of the tasks not yet taken,
\* through every interleaving of appends at one end and removals at the other;
\* an empty list has no tail, or the next submission would be linked behind a
\* freed task.
ListIsQueue ==
    main # "gone" =>
        /\ head = IF pending = <<>> THEN NoTask ELSE pending[1]
        /\ tail = IF pending = <<>> THEN NoTask ELSE pending[Len(pending)]
        /\ \A i \in 1..Len(pending) :
            next[pending[i]] = IF i = Len(pending) THEN NoTask ELSE pending[i + 1]

Pending == {pending[i] : i \in 1..Len(pending)}
Running == {w \in Workers : task[w] # NoTask}

\* Tasks do not queue up behind sleeping workers: as long as somebody sleeps,
\* every task in the list has a worker on its way to it.
EnoughAwake ==
    Asleep # {} => Len(pending) <= Cardinality(Looking)

\* The pool is a first-in first-out work queue.
Abstract == INSTANCE WorkQueue WITH queue <- pending, running <- task
FifoWorkQueue == Abstract!Spec

\* proxy_run reports "failed to create thread pool" when threadPoolCreate has
\* failed; for that its error path has to return.
FailedCreateReturns == main = "failjoin" ~> main = "failed"

=============================================================================
