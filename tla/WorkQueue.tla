----------------------------- MODULE WorkQueue -----------------------------
(***************************************************************************)
(* What the thread pool promises to its user: tasks are started in the     *)
(* order they were submitted, each by one worker and once, and none is     *)
(* dropped.                                                                *)
(***************************************************************************)
EXTENDS Naturals, Sequences

CONSTANTS Workers, Tasks, NoTask

VARIABLES
    queue,    \* the tasks submitted and not yet started, oldest first
    running,  \* running[w]: the task worker w executes
    done      \* the tasks that were executed

vars == <<queue, running, done>>

Known == {queue[i] : i \in DOMAIN queue} \cup {running[w] : w \in Workers} \cup done

Init ==
    /\ queue = <<>>
    /\ running = [w \in Workers |-> NoTask]
    /\ done = {}

Submit(t) ==
    /\ t \notin Known
    /\ queue' = Append(queue, t)
    /\ UNCHANGED <<running, done>>

Start(w) ==
    /\ running[w] = NoTask
    /\ queue # <<>>
    /\ running' = [running EXCEPT ![w] = Head(queue)]
    /\ queue' = Tail(queue)
    /\ UNCHANGED done

Finish(w) ==
    /\ running[w] # NoTask
    /\ done' = done \cup {running[w]}
    /\ running' = [running EXCEPT ![w] = NoTask]
    /\ UNCHANGED queue

Next ==
    \/ \E t \in Tasks : Submit(t)
    \/ \E w \in Workers : Start(w) \/ Finish(w)

Spec == Init /\ [][Next]_vars
=============================================================================
