---------------------------- MODULE ProxyProofs ----------------------------
(* Theorems about Proxy and the pool it runs on, for any workers and any   *)
(* connections.                                                            *)
EXTENDS Proxy, FiniteSetTheorems, TLAPS

USE ThreadPoolAssumption

----------------------------------------------------------------------------
(* The steps, by what they do to the list of the pool.                     *)

\* The pool is not touched.
Apart ==
    \/ InitTable \/ InitTableFails \/ Listen
    \/ (\E c \in Tasks : Accept(c)) \/ Refuse \/ AcceptFails
    \/ DestroyTable \/ UNCHANGED allVars

\* Workers move, but the list and the tasks stay.
Quiet ==
    \/ /\ point = "create"
       /\ (\E w \in Workers : CreateWorker(w)) \/ CreateFails \/ FailBroadcast
       /\ UNCHANGED proxyVars
    \/ /\ point = "create"
       /\ \/ CreateDone /\ point' = "listen"
          \/ FailJoined /\ point' = "destroy"
       /\ UNCHANGED <<table, lfd, conn, fd>>
    \/ StopPool
    \/ \E w \in Workers : /\ Lock(w) \/ FindNothing(w) \/ Sleep(w) \/ Exit(w)
                             \/ SpuriousWakeup(w)
                          /\ UNCHANGED proxyVars

TakeStep(w) == Take(w) /\ UNCHANGED proxyVars

LEMMA StepCases ==
    ASSUME [ProxyNext]_allVars
    PROVE  \/ Apart \/ Quiet \/ SubmitClient \/ PoolStopped
           \/ \E w \in Workers : TakeStep(w) \/ HandlerReturns(w)
<1>1. CreatePool => Quiet
    BY DEF CreatePool, Quiet, proxyVars
<1>2. ASSUME NEW w \in Workers, ProxyWorker(w) \/ (SpuriousWakeup(w) /\ UNCHANGED proxyVars)
      PROVE  Quiet \/ TakeStep(w) \/ HandlerReturns(w)
    BY <1>2 DEF ProxyWorker, Quiet, TakeStep
<1>3. StopPool => Quiet
    BY DEF Quiet
<1> QED
    BY <1>1, <1>2, <1>3 DEF ProxyNext, ProxyMain, ProxyReturned, Apart

----------------------------------------------------------------------------
(* Type correctness.                                                       *)

LEMMA SocketTypes ==
    ASSUME NEW s \in Sockets
    PROVE  Closed(s) \in Sockets
BY DEF Closed, Sockets

\* Signal and Broadcast keep workers at points of workerLoop.
LEMMA WakeTypes ==
    ASSUME TypeOK, Signal \/ Broadcast
    PROVE  pc' \in [Workers -> WorkerPoints]
BY DEF TypeOK, Signal, Broadcast, Asleep, Move, WorkerPoints

LEMMA TypePreserved ==
    ASSUME IInv, [ProxyNext]_allVars
    PROVE  ProxyTypeOK'
<1> ProxyTypeOK
    BY DEF IInv
<1> USE DEF ProxyTypeOK, TypeOK
<1>1. CASE Apart
    <2>1. TypeOK' /\ (InitTable \/ InitTableFails \/ Listen \/ AcceptFails \/ DestroyTable
                      \/ UNCHANGED allVars)
          => ProxyTypeOK'
        BY DEF InitTable, InitTableFails, Listen, AcceptFails, DestroyTable, Sockets, Closed,
           allVars, proxyVars
    <2>2. ASSUME NEW c \in Tasks, Accept(c)
          PROVE  ProxyTypeOK'
        BY <2>2 DEF Accept, Sockets, vars
    <2>3. Refuse => ProxyTypeOK'
        BY DEF Refuse, Sockets, Closed, vars
    <2>4. UNCHANGED vars => TypeOK'
        BY DEF vars
    <2> QED
        BY <1>1, <2>1, <2>2, <2>3, <2>4 DEF Apart, InitTable, InitTableFails, Listen, AcceptFails,
           DestroyTable, allVars
<1>2. CASE Quiet
    <2>1. ASSUME NEW w \in Workers, CreateWorker(w)
          PROVE  TypeOK'
        BY <2>1 DEF CreateWorker, Move, WorkerPoints, list, work
    <2>2. CreateFails \/ CreateDone \/ FailJoined => TypeOK'
        BY DEF CreateFails, CreateDone, FailJoined, MainPoints, list, work
    <2>3. FailBroadcast \/ Stop => TypeOK'
        BY WakeTypes DEF FailBroadcast, Stop, MainPoints, list, work
    <2>4. ASSUME NEW w \in Workers,
                 Lock(w) \/ FindNothing(w) \/ Sleep(w) \/ Exit(w) \/ SpuriousWakeup(w)
          PROVE  TypeOK'
        BY <2>4 DEF Lock, FindNothing, Sleep, Exit, SpuriousWakeup, Move, WorkerPoints,
           list, work
    <2>5. UNCHANGED <<table, lfd, conn, fd>> /\ (UNCHANGED point \/ point' \in {"listen", "destroy", "join"})
        BY <1>2 DEF Quiet, proxyVars, StopPool
    <2>6. TypeOK'
        BY <1>2, <2>1, <2>2, <2>3, <2>4 DEF Quiet, StopPool
    <2> HIDE DEF TypeOK
    <2> QED
        BY <2>5, <2>6
<1>3. CASE SubmitClient
    <2>1. conn \in Tasks
        BY <1>3 DEF IInv, PointsAgree, SubmitClient
    <2>2. pc' \in [Workers -> WorkerPoints]
        BY <1>3, WakeTypes DEF SubmitClient, Submit
    <2>3. next' \in [Tasks -> Tasks \cup {NoTask}]
        BY <1>3, <2>1 DEF SubmitClient, Submit, Enqueue
    <2>4. pending' \in Seq(Tasks)
        BY <1>3, <2>1 DEF SubmitClient, Submit, Enqueue
    <2> QED
        BY <1>3, <2>1, <2>2, <2>3, <2>4 DEF SubmitClient, Submit, Enqueue
<1>4. CASE PoolStopped
    BY <1>4 DEF PoolStopped, Stopped, MainPoints, work
<1>5. ASSUME NEW w \in Workers, TakeStep(w)
      PROVE  ProxyTypeOK'
    <2>1. head \in Tasks /\ pending # <<>>
        BY <1>5 DEF TakeStep, Take, IInv, ListIsQueue, PointsTell, PointsAgree
    <2> QED
        BY <1>5, <2>1 DEF TakeStep, Take, TailAfter, Move, WorkerPoints, proxyVars
<1>6. ASSUME NEW w \in Workers, HandlerReturns(w)
      PROVE  ProxyTypeOK'
    <2>1. task[w] \in Tasks
        BY <1>6 DEF HandlerReturns, Finish, IInv, PointsTell
    <2> QED
        BY <1>6, <2>1 DEF HandlerReturns, Finish, Move, WorkerPoints, Closed, Sockets, list
<1> QED
    BY <1>1, <1>2, <1>3, <1>4, <1>5, <1>6, StepCases

----------------------------------------------------------------------------
(* Points of the workers, the lock and proxy_run.                          *)

LEMMA ApartKeeps ==
    ASSUME Apart
    PROVE  UNCHANGED vars
BY DEF Apart, InitTable, InitTableFails, Listen, Accept, Refuse, AcceptFails, DestroyTable,
   allVars

LEMMA QuietKeeps ==
    ASSUME Quiet
    PROVE  UNCHANGED list /\ UNCHANGED work /\ UNCHANGED <<conn, fd>>
BY DEF Quiet, StopPool, Stop, CreateWorker, CreateFails, FailBroadcast, CreateDone, FailJoined,
   Lock, FindNothing, Sleep, Exit, SpuriousWakeup, proxyVars

LEMMA PointsTellPreserved ==
    ASSUME IInv, [ProxyNext]_allVars
    PROVE  PointsTell'
<1> TypeOK /\ PointsTell
    BY DEF IInv, ProxyTypeOK
<1> USE DEF TypeOK, PointsTell
<1>1. CASE Apart
    BY <1>1, ApartKeeps DEF vars
<1>2. CASE Quiet
    <2>1. task' = task
        BY <1>2, QuietKeeps DEF work
    <2>2. ASSUME NEW w \in Workers, CreateWorker(w)
          PROVE  PointsTell'
        BY <2>1, <2>2 DEF CreateWorker, Move
    <2>3. CreateFails \/ CreateDone \/ FailJoined => PointsTell'
        BY <2>1 DEF CreateFails, CreateDone, FailJoined
    <2>4. FailBroadcast \/ Stop => PointsTell'
        BY <2>1 DEF FailBroadcast, Stop, Broadcast
    <2>5. ASSUME NEW w \in Workers, Lock(w)
          PROVE  PointsTell'
        BY <2>1, <2>5 DEF Lock, Move
    <2>6. ASSUME NEW w \in Workers, FindNothing(w) \/ Sleep(w)
          PROVE  PointsTell'
        BY <2>1, <2>6 DEF FindNothing, Sleep, Move
    <2>7. ASSUME NEW w \in Workers, Exit(w) \/ SpuriousWakeup(w)
          PROVE  PointsTell'
        BY <2>1, <2>7 DEF Exit, SpuriousWakeup, Move
    <2> HIDE DEF TypeOK, PointsTell
    <2> QED
        BY <1>2, <2>2, <2>3, <2>4, <2>5, <2>6, <2>7 DEF Quiet, StopPool
<1>3. CASE SubmitClient
    BY <1>3 DEF SubmitClient, Submit, Enqueue, Signal, Asleep, Move
<1>4. CASE PoolStopped
    BY <1>4 DEF PoolStopped, Stopped, work
<1>5. ASSUME NEW w \in Workers, TakeStep(w)
      PROVE  PointsTell'
    BY <1>5 DEF TakeStep, Take, Move
<1>6. ASSUME NEW w \in Workers, HandlerReturns(w)
      PROVE  PointsTell'
    BY <1>6 DEF HandlerReturns, Finish, Move, list
<1> HIDE DEF TypeOK, PointsTell
<1> QED
    BY <1>1, <1>2, <1>3, <1>4, <1>5, <1>6, StepCases

\* The head is NULL exactly when nothing is pending.
LEMMA HeadTells ==
    ASSUME IInv, main # "gone"
    PROVE  /\ head = NoTask <=> pending = <<>>
           /\ pending # <<>> => head = pending[1]
<1>1. pending # <<>> => pending[1] \in Tasks
    BY DEF IInv, ProxyTypeOK, TypeOK
<1> QED
    BY <1>1 DEF IInv, ListIsQueue

LEMMA FoundEmptyPreserved ==
    ASSUME IInv, [ProxyNext]_allVars
    PROVE  FoundEmpty'
<1> TypeOK /\ FoundEmpty /\ PointsTell
    BY DEF IInv, ProxyTypeOK
<1> USE DEF TypeOK, FoundEmpty
<1>1. CASE Apart
    BY <1>1, ApartKeeps DEF vars
<1>2. CASE Quiet
    <2>1. pending' = pending /\ (stop => stop')
        BY <1>2, QuietKeeps DEF list, Quiet, StopPool, Stop, CreateWorker, CreateFails,
           FailBroadcast, CreateDone, FailJoined, Lock, FindNothing, Sleep, Exit,
           SpuriousWakeup
    <2>2. ASSUME NEW w \in Workers, CreateWorker(w)
          PROVE  FoundEmpty'
        BY <2>1, <2>2 DEF CreateWorker, Move
    <2>3. CreateFails \/ CreateDone \/ FailJoined => FoundEmpty'
        BY <2>1 DEF CreateFails, CreateDone, FailJoined
    <2>4. FailBroadcast \/ Stop => FoundEmpty'
        BY <2>1 DEF FailBroadcast, Stop, Broadcast
    <2>5. ASSUME NEW w \in Workers, Lock(w) \/ Sleep(w) \/ SpuriousWakeup(w)
          PROVE  FoundEmpty'
        BY <2>1, <2>5 DEF Lock, Sleep, SpuriousWakeup, Move
    <2>6. ASSUME NEW w \in Workers, FindNothing(w) \/ Exit(w)
          PROVE  FoundEmpty'
        <3>1. main # "gone"
            BY <2>6 DEF FindNothing, Exit, IInv, PointsAgree, ProxyTypeOK
        <3> QED
            BY <2>1, <2>6, <3>1, HeadTells DEF FindNothing, Exit, Move
    <2> HIDE DEF TypeOK, FoundEmpty
    <2> QED
        BY <1>2, <2>2, <2>3, <2>4, <2>5, <2>6 DEF Quiet, StopPool
<1>3. CASE SubmitClient
    <2>1. owner = NoThread /\ ~stop
        BY <1>3 DEF SubmitClient, Submit, Enqueue, IInv, PointsAgree
    <2>2. \A w \in Workers : pc[w] \notin {"towait", "exited"}
        BY <2>1 DEF PointsTell
    <2> QED
        BY <1>3, <2>2 DEF SubmitClient, Submit, Signal, Asleep, Move
<1>4. CASE PoolStopped
    BY <1>4 DEF PoolStopped, Stopped
<1>5. ASSUME NEW w \in Workers, TakeStep(w)
      PROVE  FoundEmpty'
    <2>1. pending # <<>>
        BY <1>5, HeadTells DEF TakeStep, Take, IInv, PointsAgree, ProxyTypeOK
    <2>2. \A v \in Workers : pc[v] \notin {"towait", "exited"}
        BY <2>1
    <2> QED
        BY <1>5, <2>2 DEF TakeStep, Take, Move
<1>6. ASSUME NEW w \in Workers, HandlerReturns(w)
      PROVE  FoundEmpty'
    BY <1>6 DEF HandlerReturns, Finish, Move, list
<1> HIDE DEF TypeOK, FoundEmpty
<1> QED
    BY <1>1, <1>2, <1>3, <1>4, <1>5, <1>6, StepCases

----------------------------------------------------------------------------
(* How a task moves from the main thread to the list, a worker and its end. *)

LEMMA QuietPlaces ==
    ASSUME UNCHANGED <<pending, task>>
    PROVE  Pending' = Pending /\ Running' = Running /\ Served' = Served
BY DEF Pending, Running, Served

LEMMA SubmitMoves ==
    ASSUME IInv, SubmitClient
    PROVE  /\ conn \in Tasks /\ conn \notin accepted
           /\ pending' = Append(pending, conn)
           /\ Len(pending') = Len(pending) + 1
           /\ \A i \in 1..Len(pending) : pending'[i] = pending[i]
           /\ pending'[Len(pending) + 1] = conn
           /\ Pending' = Pending \cup {conn}
           /\ Running' = Running /\ Served' = Served
<1>1. conn \in Tasks /\ conn \notin accepted /\ pending \in Seq(Tasks)
    BY DEF IInv, PointsAgree, SubmitClient, ProxyTypeOK, TypeOK, Submit, Enqueue
<1>2. pending' = Append(pending, conn) /\ task' = task
    BY DEF SubmitClient, Submit, Enqueue
<1>3. /\ Len(pending') = Len(pending) + 1
      /\ \A i \in 1..Len(pending) : pending'[i] = pending[i]
      /\ pending'[Len(pending) + 1] = conn
      /\ Len(pending) \in Nat
    BY <1>1, <1>2
<1>4. Pending' = Pending \cup {conn}
    BY <1>3 DEF Pending
<1> QED
    BY <1>1, <1>2, <1>3, <1>4 DEF Running, Served

LEMMA TakeMoves ==
    ASSUME IInv, NEW w \in Workers, TakeStep(w)
    PROVE  /\ main # "gone"
           /\ task[w] = NoTask
           /\ head \in Pending /\ head \in Tasks /\ head = pending[1]
           /\ Len(pending) \in Nat \ {0}
           /\ Len(pending') = Len(pending) - 1
           /\ \A i \in 1..Len(pending') : pending'[i] = pending[i + 1]
           /\ Pending' = Pending \ {head}
           /\ Running' = Running \cup {w}
           /\ \A v \in Workers : task'[v] = IF v = w THEN head ELSE task[v]
           /\ Served' = Served \cup {head}
<1>1. main # "gone" /\ task[w] = NoTask
    BY DEF TakeStep, Take, IInv, PointsAgree, ProxyTypeOK, PointsTell
<1>2. pending \in Seq(Tasks) /\ pending # <<>> /\ head = pending[1] /\ head # NoTask
    BY <1>1, HeadTells DEF TakeStep, Take, IInv, ProxyTypeOK, TypeOK
<1>3. /\ Len(pending) \in Nat \ {0}
      /\ Len(pending') = Len(pending) - 1
      /\ \A i \in 1..Len(pending') : pending'[i] = pending[i + 1]
    BY <1>2 DEF TakeStep, Take
<1>4. \A j, k \in 1..Len(pending) : pending[j] = pending[k] => j = k
    BY DEF IInv, PlacesDisjoint
<1>5. head \in Pending /\ head \in Tasks
    BY <1>2, <1>3 DEF Pending
<1>6. Pending' \subseteq Pending \ {head}
    <2> SUFFICES ASSUME NEW i \in 1..Len(pending')
                 PROVE  pending'[i] \in Pending /\ pending'[i] # pending[1]
        BY <1>2 DEF Pending
    <2>1. i + 1 \in 1..Len(pending) /\ 1 \in 1..Len(pending) /\ i + 1 # 1
        BY <1>3
    <2>2. pending[i + 1] # pending[1]
        BY <1>4, <2>1
    <2> QED
        BY <1>3, <2>1, <2>2 DEF Pending
<1>7. Pending \ {head} \subseteq Pending'
    <2> SUFFICES ASSUME NEW i \in 1..Len(pending), pending[i] # head
                 PROVE  pending[i] \in Pending'
        BY DEF Pending
    <2>1. i - 1 \in 1..Len(pending') /\ (i - 1) + 1 = i
        BY <1>2, <1>3
    <2>2. pending'[i - 1] = pending[i]
        BY <1>3, <2>1
    <2> QED
        BY <2>1, <2>2 DEF Pending
<1>8. \A v \in Workers : task'[v] = IF v = w THEN head ELSE task[v]
    BY DEF TakeStep, Take, IInv, ProxyTypeOK, TypeOK
<1>9. Running' = Running \cup {w}
    BY <1>2, <1>8 DEF Running
<1>10. Served' = Served \cup {head}
    BY <1>1, <1>8, <1>9 DEF Served, Running
<1> QED
    BY <1>1, <1>2, <1>3, <1>5, <1>6, <1>7, <1>8, <1>9, <1>10

LEMMA FinishMoves ==
    ASSUME IInv, NEW w \in Workers, HandlerReturns(w)
    PROVE  /\ task[w] \in Tasks /\ task[w] \in Served /\ w \in Running
           /\ done' = done \cup {task[w]}
           /\ pending' = pending /\ accepted' = accepted
           /\ Pending' = Pending
           /\ Running' = Running \ {w}
           /\ \A v \in Workers : task'[v] = IF v = w THEN NoTask ELSE task[v]
           /\ Served' = Served \ {task[w]}
<1>1. task[w] \in Tasks /\ task[w] # NoTask
    BY DEF IInv, PointsTell, HandlerReturns, Finish, ProxyTypeOK, TypeOK
<1>2. /\ done' = done \cup {task[w]}
      /\ pending' = pending /\ accepted' = accepted
      /\ \A v \in Workers : task'[v] = IF v = w THEN NoTask ELSE task[v]
    BY DEF HandlerReturns, Finish, IInv, ProxyTypeOK, TypeOK, list
<1>3. w \in Running /\ task[w] \in Served
    BY <1>1 DEF Running, Served
<1>4. Running' = Running \ {w}
    BY <1>2 DEF Running
<1>5. \A u, v \in Running : task[u] = task[v] => u = v
    BY DEF IInv, PlacesDisjoint
<1>6. Served' = Served \ {task[w]}
    BY <1>2, <1>3, <1>4, <1>5 DEF Served, Running
<1> QED
    BY <1>1, <1>2, <1>3, <1>4, <1>6 DEF Pending

LEMMA StopMoves ==
    ASSUME IInv, PoolStopped
    PROVE  pending = <<>> /\ pending' = <<>> /\ UNCHANGED work
BY DEF IInv, FoundEmpty, PoolStopped, Stopped

LEMMA ListPreserved ==
    ASSUME IInv, [ProxyNext]_allVars
    PROVE  ListIsQueue'
<1> DEFINE n == Len(pending)
<1>0. /\ TypeOK /\ pending \in Seq(Tasks) /\ n \in Nat
      /\ \A i \in 1..n : pending[i] \in Tasks
    BY DEF IInv, ProxyTypeOK, TypeOK
<1>1. CASE Apart
    BY <1>1, ApartKeeps DEF vars, IInv, ListIsQueue
<1>2. CASE Quiet
    <2>1. main' # "gone" => main # "gone"
        BY <1>2 DEF Quiet, StopPool, Stop, CreateWorker, CreateFails, FailBroadcast, CreateDone,
           FailJoined, Lock, FindNothing, Sleep, Exit, SpuriousWakeup
    <2> QED
        BY <1>2, <2>1, QuietKeeps DEF list, IInv, ListIsQueue
<1>3. CASE SubmitClient
    <2>1. main # "gone"
        BY <1>3 DEF SubmitClient, Submit, Enqueue
    <2>2. /\ tail = IF n = 0 THEN NoTask ELSE pending[n]
          /\ head = IF n = 0 THEN NoTask ELSE pending[1]
          /\ \A i \in 1..n : next[pending[i]] = IF i = n THEN NoTask ELSE pending[i + 1]
        BY <1>0, <2>1 DEF IInv, ListIsQueue
    <2>3. \A i \in 1..n : pending[i] # conn
        BY <1>3, SubmitMoves DEF IInv, PlacesDisjoint, Pending
    <2>4. \A j, k \in 1..n : pending[j] = pending[k] => j = k
        BY DEF IInv, PlacesDisjoint
    <2>5. /\ next' = IF n = 0 THEN [next EXCEPT ![conn] = NoTask]
                     ELSE [next EXCEPT ![conn] = NoTask, ![pending[n]] = conn]
          /\ head' = IF n = 0 THEN conn ELSE pending[1]
          /\ tail' = conn
          /\ next \in [Tasks -> Tasks \cup {NoTask}]
        <3>1. tail = NoTask <=> n = 0
            BY <1>0, <2>2
        <3>2. n # 0 => tail = pending[n] /\ head = pending[1]
            BY <2>2
        <3> HIDE DEF n
        <3> QED
            BY <1>0, <1>3, <3>1, <3>2 DEF SubmitClient, Submit, Enqueue, TypeOK
    <2>6. head' = pending'[1] /\ tail' = pending'[Len(pending')] /\ pending' # <<>>
        BY <1>0, <1>3, <2>5, SubmitMoves
    <2>7. ASSUME NEW i \in 1..Len(pending')
          PROVE  next'[pending'[i]] = IF i = Len(pending') THEN NoTask ELSE pending'[i + 1]
        <3>1. CASE i = n + 1
            BY <1>0, <1>3, <2>3, <2>5, <3>1, SubmitMoves
        <3>2. CASE i = n /\ n # 0
            BY <1>0, <1>3, <2>3, <2>5, <3>2, SubmitMoves
        <3>3. CASE i < n
            <4>1. i \in 1..n /\ n \in 1..n /\ i # n /\ i + 1 \in 1..n
                BY <1>0, <3>3
            <4>2. pending[i] # pending[n] /\ pending[i] # conn /\ pending[i] \in Tasks
                BY <1>0, <2>3, <2>4, <4>1
            <4>3. next'[pending[i]] = next[pending[i]]
                BY <2>5, <4>2
            <4> QED
                BY <1>3, <2>2, <4>1, <4>3, SubmitMoves, <1>0
        <3> QED
            BY <1>0, <1>3, <3>1, <3>2, <3>3, SubmitMoves
    <2> QED
        BY <2>6, <2>7 DEF ListIsQueue
<1>4. CASE PoolStopped
    BY <1>4 DEF PoolStopped, Stopped, ListIsQueue
<1>5. ASSUME NEW w \in Workers, TakeStep(w)
      PROVE  ListIsQueue'
    <2>1. /\ main # "gone" /\ n \in Nat \ {0} /\ head = pending[1]
          /\ Len(pending') = n - 1
          /\ \A i \in 1..Len(pending') : pending'[i] = pending[i + 1]
        BY <1>5, TakeMoves
    <2>2. /\ tail = pending[n]
          /\ \A i \in 1..n : next[pending[i]] = IF i = n THEN NoTask ELSE pending[i + 1]
        BY <1>0, <2>1 DEF IInv, ListIsQueue
    <2>3. /\ head' = IF n = 1 THEN NoTask ELSE pending[2]
          /\ tail' = IF n = 1 THEN NoTask ELSE pending[n]
          /\ next' = next
        <3>1. next[head] = IF n = 1 THEN NoTask ELSE pending[2]
            BY <2>1, <2>2
        <3>2. n # 1 => pending[2] \in Tasks
            BY <1>0, <2>1
        <3> HIDE DEF n
        <3> QED
            BY <1>5, <2>2, <3>1, <3>2 DEF TakeStep, Take, TailAfter
    <2>4. pending' = <<>> <=> n = 1
        <3>1. pending' \in Seq(Tasks)
            BY <1>5, TypePreserved, StepCases DEF ProxyTypeOK, TypeOK, ProxyNext, ProxyWorker,
               TakeStep
        <3> QED
            BY <2>1, <3>1
    <2>5. ASSUME NEW i \in 1..Len(pending')
          PROVE  next'[pending'[i]] = IF i = Len(pending') THEN NoTask ELSE pending'[i + 1]
        BY <2>1, <2>2, <2>3
    <2>6. n # 1 => pending'[1] = pending[2] /\ pending'[Len(pending')] = pending[n]
        BY <2>1
    <2> QED
        BY <2>3, <2>4, <2>5, <2>6 DEF ListIsQueue
<1>6. ASSUME NEW w \in Workers, HandlerReturns(w)
      PROVE  ListIsQueue'
    BY <1>6 DEF HandlerReturns, Finish, list, IInv, ListIsQueue
<1> QED
    BY <1>1, <1>2, <1>3, <1>4, <1>5, <1>6, StepCases

LEMMA PlacesPreserved ==
    ASSUME IInv, [ProxyNext]_allVars
    PROVE  PlacesDisjoint'
<1>0. PlacesDisjoint /\ pending \in Seq(Tasks)
    BY DEF IInv, ProxyTypeOK, TypeOK
<1>1. CASE Apart
    BY <1>0, <1>1, ApartKeeps, QuietPlaces DEF vars, PlacesDisjoint
<1>2. CASE Quiet
    BY <1>0, <1>2, QuietKeeps, QuietPlaces DEF list, work, PlacesDisjoint
<1>3. CASE SubmitClient
    <2>1. accepted' = accepted \cup {conn} /\ done' = done /\ task' = task
        BY <1>3 DEF SubmitClient, Submit, Enqueue
    <2>2. conn \notin Pending /\ conn \notin Served /\ conn \notin done
        BY <1>0, <1>3, SubmitMoves DEF PlacesDisjoint
    <2>3. \A i \in 1..Len(pending) : pending[i] # conn
        BY <2>2 DEF Pending
    <2>4. \A j, k \in 1..Len(pending') : pending'[j] = pending'[k] => j = k
        BY <1>0, <1>3, <2>3, SubmitMoves DEF PlacesDisjoint
    <2> QED
        BY <1>0, <1>3, <2>1, <2>2, <2>4, SubmitMoves DEF PlacesDisjoint
<1>4. CASE PoolStopped
    BY <1>0, <1>4, StopMoves, QuietPlaces DEF work, PlacesDisjoint
<1>5. ASSUME NEW w \in Workers, TakeStep(w)
      PROVE  PlacesDisjoint'
    <2>1. accepted' = accepted /\ done' = done
        BY <1>5 DEF TakeStep, Take
    <2>2. \A j, k \in 1..Len(pending') : pending'[j] = pending'[k] => j = k
        <3> SUFFICES ASSUME NEW j \in 1..Len(pending'), NEW k \in 1..Len(pending'),
                            pending'[j] = pending'[k]
                     PROVE  j = k
            OBVIOUS
        <3>1. j + 1 \in 1..Len(pending) /\ k + 1 \in 1..Len(pending)
            BY <1>5, TakeMoves
        <3>2. j + 1 = k + 1
            BY <1>0, <1>5, <3>1, TakeMoves DEF PlacesDisjoint
        <3> QED
            BY <3>2
    <2>3. \A u, v \in Running' : task'[u] = task'[v] => u = v
        <3>1. \A v \in Running : v # w /\ v \in Workers /\ task[v] # head
            BY <1>0, <1>5, TakeMoves DEF PlacesDisjoint, Running, Served
        <3> QED
            BY <1>0, <1>5, <3>1, TakeMoves DEF PlacesDisjoint
    <2> QED
        BY <1>0, <1>5, <2>1, <2>2, <2>3, TakeMoves DEF PlacesDisjoint
<1>6. ASSUME NEW w \in Workers, HandlerReturns(w)
      PROVE  PlacesDisjoint'
    <2>1. \A u, v \in Running' : task'[u] = task'[v] => u = v
        BY <1>0, <1>6, FinishMoves DEF PlacesDisjoint, Running
    <2>2. \A j, k \in 1..Len(pending') : pending'[j] = pending'[k] => j = k
        BY <1>0, <1>6, FinishMoves DEF PlacesDisjoint
    <2> QED
        BY <1>0, <1>6, <2>1, <2>2, FinishMoves DEF PlacesDisjoint
<1> QED
    BY <1>1, <1>2, <1>3, <1>4, <1>5, <1>6, StepCases

LEMMA PointsAgreePreserved ==
    ASSUME IInv, [ProxyNext]_allVars
    PROVE  PointsAgree'
<1> TypeOK /\ ProxyTypeOK /\ PointsAgree
    BY DEF IInv, ProxyTypeOK
<1> USE DEF TypeOK, PointsAgree
<1>1. CASE Apart
    <2>0. UNCHANGED vars
        BY <1>1, ApartKeeps
    <2>1. InitTable \/ InitTableFails \/ Listen \/ AcceptFails \/ DestroyTable
          => PointsAgree'
        BY <2>0 DEF vars, InitTable, InitTableFails, Listen, AcceptFails, DestroyTable
    <2>2. ASSUME NEW c \in Tasks, Accept(c)
          PROVE  PointsAgree'
        BY <2>0, <2>2 DEF vars, Accept
    <2>3. Refuse => PointsAgree'
        BY <2>0 DEF vars, Refuse
    <2>4. UNCHANGED allVars => PointsAgree'
        BY DEF vars, allVars, proxyVars
    <2> QED
        BY <1>1, <2>1, <2>2, <2>3, <2>4 DEF Apart
<1>2. CASE Quiet
    <2>1. ASSUME NEW w \in Workers, CreateWorker(w), point = "create", UNCHANGED proxyVars
          PROVE  PointsAgree'
        BY <2>1 DEF CreateWorker, Move, proxyVars
    <2>2. ASSUME point = "create", CreateFails \/ FailBroadcast, UNCHANGED proxyVars
          PROVE  PointsAgree'
        BY <2>2 DEF CreateFails, FailBroadcast, Broadcast, proxyVars
    <2>3. ASSUME point = "create", CreateDone, point' = "listen",
                 UNCHANGED <<table, lfd, conn, fd>>
          PROVE  PointsAgree'
        BY <2>3 DEF CreateDone
    <2>4. ASSUME point = "create", FailJoined, point' = "destroy",
                 UNCHANGED <<table, lfd, conn, fd>>
          PROVE  PointsAgree'
        BY <2>4 DEF FailJoined
    <2>5. StopPool => PointsAgree'
        BY DEF StopPool, Stop, Broadcast
    <2>6. ASSUME NEW w \in Workers,
                 Lock(w) \/ FindNothing(w) \/ Sleep(w) \/ Exit(w) \/ SpuriousWakeup(w),
                 UNCHANGED proxyVars
          PROVE  PointsAgree'
        <3>1. UNCHANGED <<main, stop>> /\ pc[w] \notin {"unborn", "exited"}
            BY <2>6 DEF Lock, FindNothing, Sleep, Exit, SpuriousWakeup
        <3>2. \A v \in Workers : v # w => pc'[v] = pc[v]
            BY <2>6 DEF Lock, FindNothing, Sleep, Exit, SpuriousWakeup, Move
        <3>3. pc'[w] # "unborn"
            BY <2>6 DEF Lock, FindNothing, Sleep, Exit, SpuriousWakeup, Move
        <3> QED
            BY <2>6, <3>1, <3>2, <3>3 DEF proxyVars
    <2> HIDE DEF TypeOK, PointsAgree
    <2> QED
        BY <1>2, <2>1, <2>2, <2>3, <2>4, <2>5, <2>6 DEF Quiet
<1>3. CASE SubmitClient
    BY <1>3 DEF SubmitClient, Submit, Enqueue, Signal, Asleep, Move
<1>4. CASE PoolStopped
    BY <1>4 DEF PoolStopped, Stopped
<1>5. ASSUME NEW w \in Workers, TakeStep(w)
      PROVE  PointsAgree'
    BY <1>5 DEF TakeStep, Take, Move, proxyVars
<1>6. ASSUME NEW w \in Workers, HandlerReturns(w)
      PROVE  PointsAgree'
    BY <1>6 DEF HandlerReturns, Finish, Move
<1> HIDE DEF TypeOK, PointsAgree
<1> QED
    BY <1>1, <1>2, <1>3, <1>4, <1>5, <1>6, StepCases

LEMMA SocketsFollowPreserved ==
    ASSUME IInv, [ProxyNext]_allVars
    PROVE  SocketsFollow'
<1>0. /\ ProxyTypeOK /\ SocketsFollow /\ PlacesDisjoint
      /\ conn # NoTask <=> point = "submit"
    BY DEF IInv, PointsAgree
<1> USE DEF SocketsFollow
<1>1. CASE Apart
    <2>0. UNCHANGED <<accepted, done>> /\ Pending' = Pending /\ Served' = Served
        BY <1>1, ApartKeeps, QuietPlaces DEF vars
    <2>1. ASSUME NEW c \in Tasks, Accept(c)
          PROVE  SocketsFollow'
        <3>1. /\ fd' = [fd EXCEPT ![c] = "open"] /\ conn' = c /\ fd[c] = "none"
              /\ conn = NoTask
            BY <1>0, <2>1 DEF Accept
        <3>2. c \notin Pending \cup Served \cup done
            BY <1>0, <3>1
        <3> QED
            BY <1>0, <2>0, <3>1, <3>2 DEF ProxyTypeOK, PlacesDisjoint
    <2>2. ASSUME Refuse
          PROVE  SocketsFollow'
        <3>1. conn \in Tasks /\ conn' = NoTask /\ conn \notin accepted /\ fd[conn] = "open"
            BY <1>0, <2>2 DEF Refuse, ProxyTypeOK
        <3>2. fd' = [fd EXCEPT ![conn] = "closed"]
            BY <2>2, <3>1 DEF Refuse, Closed
        <3>3. NoTask \notin accepted
            BY <1>0 DEF ProxyTypeOK, TypeOK
        <3> QED
            BY <1>0, <2>0, <3>1, <3>2, <3>3 DEF ProxyTypeOK, PlacesDisjoint
    <2>3. InitTable \/ InitTableFails \/ Listen \/ AcceptFails \/ DestroyTable
          \/ UNCHANGED allVars
          => UNCHANGED <<conn, fd>>
        BY DEF InitTable, InitTableFails, Listen, AcceptFails, DestroyTable, allVars, proxyVars
    <2>4. UNCHANGED <<conn, fd>> => SocketsFollow'
        BY <1>0, <2>0
    <2> QED
        BY <1>1, <2>1, <2>2, <2>3, <2>4 DEF Apart
<1>2. CASE Quiet
    BY <1>0, <1>2, QuietKeeps, QuietPlaces DEF list, work
<1>3. CASE SubmitClient
    <2>1. /\ conn' = NoTask /\ fd' = fd /\ done' = done
          /\ accepted' = accepted \cup {conn}
        BY <1>3 DEF SubmitClient, Submit, Enqueue
    <2>2. NoTask \notin accepted
        BY <1>0 DEF ProxyTypeOK, TypeOK
    <2> QED
        BY <1>0, <1>3, <2>1, <2>2, SubmitMoves DEF PlacesDisjoint
<1>4. CASE PoolStopped
    BY <1>0, <1>4, StopMoves, QuietPlaces DEF PoolStopped, work
<1>5. ASSUME NEW w \in Workers, TakeStep(w)
      PROVE  SocketsFollow'
    <2>1. (Pending \cup Served)' = Pending \cup Served
        BY <1>5, TakeMoves
    <2>2. UNCHANGED <<conn, fd, accepted, done>>
        BY <1>5 DEF TakeStep, Take, proxyVars
    <2> QED
        BY <1>0, <2>1, <2>2
<1>6. ASSUME NEW w \in Workers, HandlerReturns(w)
      PROVE  SocketsFollow'
    <2>0. /\ task[w] \in Tasks /\ task[w] \in Served
          /\ accepted' = accepted /\ done' = done \cup {task[w]}
          /\ Pending' = Pending /\ Served' = Served \ {task[w]}
        BY <1>6, FinishMoves
    <2>1. fd[task[w]] = "open" /\ task[w] # conn
        BY <1>0, <2>0 DEF PlacesDisjoint
    <2>2. fd' = [fd EXCEPT ![task[w]] = "closed"] /\ conn' = conn
        BY <1>6, <2>1 DEF HandlerReturns, Closed
    <2>3. task[w] \notin Pending
        BY <1>0, <2>0 DEF PlacesDisjoint
    <2> QED
        BY <1>0, <2>0, <2>1, <2>2, <2>3 DEF ProxyTypeOK
<1> QED
    BY <1>1, <1>2, <1>3, <1>4, <1>5, <1>6, StepCases

----------------------------------------------------------------------------
(* Enough workers are awake.                                               *)

LEMMA LookingFinite == IsFiniteSet(Looking) /\ Cardinality(Looking) \in Nat
<1>1. Looking \subseteq Workers
    BY DEF Looking
<1>2. IsFiniteSet(Looking)
    BY <1>1, FS_Subset
<1> QED
    BY <1>2, FS_CardinalityType

\* A worker that joins those on their way to the list.
LEMMA OneMoreLooks ==
    ASSUME TypeOK, NEW w \in Workers, w \notin Looking, Move(w, "lock")
    PROVE  Cardinality(Looking') = Cardinality(Looking) + 1
<1>1. Looking' = Looking \cup {w}
    BY DEF TypeOK, Looking, Move
<1> QED
    BY <1>1, LookingFinite, FS_AddElement

LEMMA AwakePreserved ==
    ASSUME IInv, [ProxyNext]_allVars
    PROVE  EnoughAwake'
<1>0. TypeOK /\ EnoughAwake /\ Len(pending) \in Nat
    BY DEF IInv, ProxyTypeOK, TypeOK
<1>1. ASSUME pending' = <<>>
      PROVE  EnoughAwake'
    <2>1. Cardinality(Looking)' \in Nat
        <3>1. Looking' \subseteq Workers
            BY DEF Looking
        <3>2. IsFiniteSet(Looking')
            BY <3>1, FS_Subset
        <3> QED
            BY <3>2, FS_CardinalityType
    <2> QED
        BY <1>1, <2>1 DEF EnoughAwake
<1>2. ASSUME NEW w \in Workers, pending' = pending, pc[w] \notin {"lock", "test"},
             Move(w, "lock")
      PROVE  EnoughAwake'
    <2>1. Cardinality(Looking') = Cardinality(Looking) + 1
        BY <1>0, <1>2, OneMoreLooks DEF Looking
    <2>2. Asleep' \subseteq Asleep
        BY <1>0, <1>2 DEF Asleep, Move, TypeOK
    <2> QED
        BY <1>0, <1>2, <2>1, <2>2, LookingFinite DEF EnoughAwake
<1>3. CASE Apart
    BY <1>0, <1>3, ApartKeeps DEF vars, EnoughAwake, Asleep, Looking
<1>4. CASE Quiet
    <2>1. pending' = pending
        BY <1>4, QuietKeeps DEF list
    <2>2. ASSUME NEW w \in Workers, CreateWorker(w) \/ SpuriousWakeup(w)
          PROVE  EnoughAwake'
        BY <1>2, <2>1, <2>2 DEF CreateWorker, SpuriousWakeup
    <2>3. CreateFails \/ CreateDone \/ FailJoined => EnoughAwake'
        BY <1>0, <2>1 DEF CreateFails, CreateDone, FailJoined, EnoughAwake, Asleep, Looking
    <2>4. FailBroadcast \/ Stop => EnoughAwake'
        BY DEF FailBroadcast, Stop, Broadcast, EnoughAwake, Asleep
    <2>5. ASSUME NEW w \in Workers, Lock(w)
          PROVE  EnoughAwake'
        <3>1. Looking' = Looking /\ Asleep' = Asleep
            BY <1>0, <2>5 DEF Lock, Move, Looking, Asleep, TypeOK
        <3> QED
            BY <1>0, <2>1, <3>1 DEF EnoughAwake
    <2>6. ASSUME NEW w \in Workers, FindNothing(w) \/ Exit(w)
          PROVE  EnoughAwake'
        <3>1. main # "gone"
            BY <2>6 DEF FindNothing, Exit, IInv, PointsAgree, ProxyTypeOK
        <3>2. pending = <<>>
            BY <2>6, <3>1, HeadTells DEF FindNothing, Exit
        <3> QED
            BY <1>1, <2>1, <3>2
    <2>7. ASSUME NEW w \in Workers, Sleep(w)
          PROVE  EnoughAwake'
        BY <1>1, <2>1, <2>7 DEF Sleep, IInv, FoundEmpty
    <2> QED
        BY <1>4, <2>2, <2>3, <2>4, <2>5, <2>6, <2>7 DEF Quiet, StopPool
<1>5. CASE SubmitClient
    <2>1. CASE Asleep = {}
        BY <1>5, <2>1 DEF SubmitClient, Submit, Signal, EnoughAwake, Asleep
    <2>2. CASE Asleep # {}
        <3>1. PICK w \in Asleep : Move(w, "lock")
            BY <1>5, <2>2 DEF SubmitClient, Submit, Signal
        <3>2. w \in Workers /\ w \notin Looking
            BY DEF Asleep, Looking
        <3>3. Cardinality(Looking') = Cardinality(Looking) + 1
            BY <1>0, <3>1, <3>2, OneMoreLooks
        <3> QED
            BY <1>0, <1>5, <2>2, <3>3, LookingFinite, SubmitMoves DEF EnoughAwake
    <2> QED
        BY <2>1, <2>2
<1>6. CASE PoolStopped
    BY <1>1, <1>6, StopMoves
<1>7. ASSUME NEW w \in Workers, TakeStep(w)
      PROVE  EnoughAwake'
    <2>1. w \in Looking /\ Looking' = Looking \ {w} /\ Asleep' = Asleep
        BY <1>0, <1>7 DEF TakeStep, Take, Move, Looking, Asleep, TypeOK
    <2>2. Cardinality(Looking') = Cardinality(Looking) - 1
        BY <2>1, LookingFinite, FS_RemoveElement
    <2> QED
        BY <1>0, <1>7, <2>1, <2>2, LookingFinite, TakeMoves DEF EnoughAwake
<1>8. ASSUME NEW w \in Workers, HandlerReturns(w)
      PROVE  EnoughAwake'
    BY <1>2, <1>8, FinishMoves DEF HandlerReturns, Finish
<1> QED
    BY <1>3, <1>4, <1>5, <1>6, <1>7, <1>8, StepCases

----------------------------------------------------------------------------
(* The theorems.                                                           *)

LEMMA InitInv ==
    ASSUME ProxyInit
    PROVE  IInv
<1> USE DEF ProxyInit, Init
<1>1. ProxyTypeOK
    <2>1. next \in [Tasks -> Tasks \cup {NoTask}] /\ task \in [Workers -> Tasks \cup {NoTask}]
        OBVIOUS
    <2>2. pc \in [Workers -> WorkerPoints] /\ fd \in [Tasks -> Sockets]
        BY DEF WorkerPoints, Sockets
    <2>3. pending \in Seq(Tasks) /\ accepted \in SUBSET Tasks /\ done \in SUBSET Tasks
        OBVIOUS
    <2> QED
        BY <2>1, <2>2, <2>3 DEF ProxyTypeOK, TypeOK, MainPoints, Sockets
<1>2. Pending = {} /\ Served = {} /\ Running = {} /\ Asleep = {} /\ Len(pending) = 0
    BY DEF Pending, Served, Running, Asleep
<1>3. PointsTell /\ FoundEmpty /\ PointsAgree
    BY DEF PointsTell, FoundEmpty, PointsAgree
<1>4. ListIsQueue
    <2>1. head = NoTask /\ tail = NoTask /\ pending = <<>>
        OBVIOUS
    <2> QED
        BY <1>2, <2>1 DEF ListIsQueue
<1>5. PlacesDisjoint /\ SocketsFollow
    BY <1>2 DEF PlacesDisjoint, SocketsFollow
<1>6. EnoughAwake
    BY <1>2 DEF EnoughAwake
<1> QED
    BY <1>1, <1>3, <1>4, <1>5, <1>6 DEF IInv

\* The inductive invariant: the points of the workers, the lock and the tasks
\* agree, a task accepted by the pool is in one place, proxy_run is where its
\* pool is, and a socket is open while somebody is to close it.
THEOREM Invariance == ProxySpec => []IInv
<1>1. ASSUME IInv, [ProxyNext]_allVars
      PROVE  IInv'
    <2>1. ProxyTypeOK' /\ PointsTell' /\ FoundEmpty' /\ ListIsQueue' /\ PlacesDisjoint'
          /\ PointsAgree' /\ SocketsFollow' /\ EnoughAwake'
        BY <1>1, TypePreserved, PointsTellPreserved, FoundEmptyPreserved, ListPreserved,
           PlacesPreserved, PointsAgreePreserved, SocketsFollowPreserved, AwakePreserved
    <2> QED
        BY <2>1 DEF IInv
<1> QED
    BY <1>1, InitInv, PTL DEF ProxySpec

\* The linked list of threadpool.c is the queue of the tasks submitted and not
\* yet taken, with its tail pointer and its last next field.
THEOREM PointersAreQueue == ProxySpec => []ListIsQueue
<1>1. IInv => ListIsQueue
    BY DEF IInv
<1> QED
    BY <1>1, Invariance, PTL

\* Whoever sleeps on has_work may do so: the tasks in the list have workers on
\* their way to them.
THEOREM NobodyOversleeps == ProxySpec => []EnoughAwake
<1>1. IInv => EnoughAwake
    BY DEF IInv
<1> QED
    BY <1>1, Invariance, PTL

\* The table on the stack of proxy_run is there as long as a worker runs.
THEOREM TableIsThere == ProxySpec => []TableOutlivesWorkers
<1>1. IInv => TableOutlivesWorkers
    BY DEF IInv, PointsAgree, TableOutlivesWorkers, ProxyTypeOK, TypeOK
<1> QED
    BY <1>1, Invariance, PTL

\* An open connection has one owner that will close it, and nobody closes a
\* socket twice.
THEOREM ConnectionsOwned == ProxySpec => []OneOwner
<1>1. ASSUME IInv
      PROVE  OneOwner
    <2>1. Pending \subseteq Tasks /\ Served \subseteq Tasks /\ conn \in Tasks \cup {NoTask}
        BY <1>1 DEF IInv, ProxyTypeOK, TypeOK, Pending, Served, Running
    <2>2. {c \in Tasks : fd[c] = "open"} = ({conn} \ {NoTask}) \cup Pending \cup Served
        BY <1>1, <2>1 DEF IInv, SocketsFollow
    <2> QED
        BY <1>1, <2>1, <2>2 DEF IInv, SocketsFollow, PlacesDisjoint, OneOwner
<1> QED
    BY <1>1, Invariance, PTL

\* The pool under proxy_run is a first-in first-out queue of work: every step
\* submits one new task, starts the oldest one waiting or finishes one.
THEOREM ImplementsQueue == ProxySpec => FifoWorkQueue
<1>1. ProxyInit => Abstract!Init
    BY DEF ProxyInit, Init, Abstract!Init
<1>2. ASSUME IInv, [ProxyNext]_allVars
      PROVE  [Abstract!Next]_(Abstract!vars)
    <2>0. pending \in Seq(Tasks) /\ task \in [Workers -> Tasks \cup {NoTask}]
        BY <1>2 DEF IInv, ProxyTypeOK, TypeOK
    <2>1. CASE Apart
        BY <2>1, ApartKeeps DEF vars, Abstract!vars
    <2>2. CASE Quiet
        BY <2>2, QuietKeeps DEF list, work, Abstract!vars
    <2>3. CASE SubmitClient
        <3>1. conn \in Tasks /\ conn \notin accepted /\ pending' = Append(pending, conn)
            BY <1>2, <2>3, SubmitMoves
        <3>2. accepted = Pending \cup Served \cup done
            BY <1>2 DEF IInv, PlacesDisjoint
        <3>3. \A w \in Workers : task[w] # conn
            BY <3>1, <3>2 DEF Served, Running
        <3>4. \A i \in DOMAIN pending : pending[i] # conn
            BY <2>0, <3>1, <3>2 DEF Pending
        <3>5. conn \notin Abstract!Known
            BY <3>1, <3>2, <3>3, <3>4 DEF Abstract!Known
        <3>6. UNCHANGED <<task, done>>
            BY <2>3 DEF SubmitClient, Submit, Enqueue
        <3> QED
            BY <3>1, <3>5, <3>6 DEF Abstract!Submit, Abstract!Next
    <2>4. CASE PoolStopped
        BY <1>2, <2>4, StopMoves DEF work, Abstract!vars
    <2>5. ASSUME NEW w \in Workers, TakeStep(w)
          PROVE  Abstract!Next
        <3>1. task[w] = NoTask /\ pending # <<>> /\ head = Head(pending)
            BY <1>2, <2>0, <2>5, TakeMoves
        <3>2. Abstract!Start(w)
            BY <2>5, <3>1 DEF TakeStep, Take, Abstract!Start
        <3> QED
            BY <3>2 DEF Abstract!Next
    <2>6. ASSUME NEW w \in Workers, HandlerReturns(w)
          PROVE  Abstract!Next
        <3>1. task[w] # NoTask
            BY <1>2, <2>6 DEF IInv, PointsTell, HandlerReturns, Finish
        <3>2. Abstract!Finish(w)
            BY <2>6, <3>1 DEF HandlerReturns, Finish, list, Abstract!Finish
        <3> QED
            BY <3>2 DEF Abstract!Next
    <2> QED
        BY <1>2, <2>1, <2>2, <2>3, <2>4, <2>5, <2>6, StepCases
<1> QED
    BY <1>1, <1>2, Invariance, PTL DEF ProxySpec, FifoWorkQueue, Abstract!Spec
=============================================================================
