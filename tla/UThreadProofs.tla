---------------------------- MODULE UThreadProofs ----------------------------
(* The safety properties of UThread, for any number of threads and yields.  *)
EXTENDS UThread, TLAPS

States == {"none", "ready", "running", "finished"}

\* q lists the threads that are ready in st, each once.
Exact(q, st) ==
    /\ {q[k] : k \in DOMAIN q} = {t \in Threads : st[t] = "ready"}
    /\ \A j, k \in DOMAIN q : q[j] = q[k] => j = k

----------------------------------------------------------------------------
(* The list                                                                *)

\* All that is listed is ready, so the first element is taken.
LEMMA PopIsTail ==
    ASSUME NEW q \in Seq(Threads), NEW st, Exact(q, st), q # <<>>
    PROVE  Ready(q, st) # {} /\ FirstReady(q, st) = 1 /\ Pop(q, st) = Tail(q)
<1>1. Ready(q, st) = 1 .. Len(q) /\ Len(q) \in Nat /\ Len(q) >= 1
    BY DEF Ready, Exact
<1>2. 1 \in Ready(q, st) /\ \A j \in Ready(q, st) : 1 <= j
    BY <1>1
<1>3. \A k \in Ready(q, st) : (\A j \in Ready(q, st) : k <= j) => k = 1
    BY <1>1, <1>2
<1>4. FirstReady(q, st) = 1
    BY <1>2, <1>3 DEF FirstReady
<1>5. RemoveAt(q, 1) = Tail(q)
    BY <1>1 DEF RemoveAt
<1> QED
    BY <1>2, <1>4, <1>5 DEF Pop

LEMMA NoneReady ==
    ASSUME NEW st, Exact(<<>>, st)
    PROVE  Ready(<<>>, st) = {} /\ \A t \in Threads : st[t] # "ready"
BY DEF Ready, Exact

LEMMA PushExact ==
    ASSUME NEW q \in Seq(Threads), NEW st \in [Threads -> States], Exact(q, st),
           NEW t \in Threads, st[t] # "ready"
    PROVE  /\ Push(t, q) \in Seq(Threads)
           /\ Push(t, q) # <<>>
           /\ Push(t, q)[1] = t
           /\ Tail(Push(t, q)) = q
           /\ Exact(Push(t, q), [st EXCEPT ![t] = "ready"])
<1> DEFINE p == Push(t, q)
<1>1. /\ p \in Seq(Threads) /\ Len(p) = Len(q) + 1 /\ p[1] = t /\ Len(q) \in Nat
      /\ \A k \in 1 .. Len(q) : p[k + 1] = q[k]
      /\ p # <<>> /\ Tail(p) = q
    BY DEF Push
<1>2. \A k \in 2 .. Len(p) : k - 1 \in 1 .. Len(q) /\ p[k] = q[k - 1]
    BY <1>1
<1>3. \A k \in 1 .. Len(q) : q[k] # t /\ q[k] \in Threads
    BY DEF Exact
<1>4. DOMAIN p = {1} \cup 2 .. Len(p) /\ DOMAIN q = 1 .. Len(q)
    BY <1>1
<1> HIDE DEF p
<1>5. {p[k] : k \in DOMAIN p} = {t} \cup {q[k] : k \in DOMAIN q}
    <2>1. \A k \in DOMAIN p : p[k] = t \/ p[k] \in {q[j] : j \in DOMAIN q}
        BY <1>1, <1>2, <1>4
    <2>2. \A k \in DOMAIN q : q[k] \in {p[j] : j \in DOMAIN p}
        <3> SUFFICES ASSUME NEW k \in 1 .. Len(q) PROVE q[k] \in {p[j] : j \in DOMAIN p}
            BY <1>4
        <3>1. k + 1 \in DOMAIN p /\ p[k + 1] = q[k]
            BY <1>1
        <3> QED
            BY <3>1
    <2>3. t \in {p[j] : j \in DOMAIN p}
        BY <1>1, <1>4
    <2> QED
        BY <2>1, <2>2, <2>3
<1>6. {x \in Threads : [st EXCEPT ![t] = "ready"][x] = "ready"}
        = {t} \cup {x \in Threads : st[x] = "ready"}
    OBVIOUS
<1>7. \A j, k \in DOMAIN p : p[j] = p[k] => j = k
    <2> SUFFICES ASSUME NEW j \in DOMAIN p, NEW k \in DOMAIN p, p[j] = p[k]
                 PROVE  j = k
        OBVIOUS
    <2>1. CASE j = 1 \/ k = 1
        BY <1>1, <1>2, <1>3, <1>4, <2>1
    <2>2. CASE j # 1 /\ k # 1
        <3>1. /\ j - 1 \in DOMAIN q /\ k - 1 \in DOMAIN q /\ q[j - 1] = q[k - 1]
              /\ j \in Int /\ k \in Int
            BY <1>2, <1>4, <2>2
        <3>2. j - 1 = k - 1
            BY <3>1 DEF Exact
        <3> QED
            BY <3>1, <3>2
    <2> QED
        BY <2>1, <2>2
<1> QED
    BY <1>1, <1>5, <1>6, <1>7 DEF Exact, p

LEMMA TailExact ==
    ASSUME NEW q \in Seq(Threads), NEW st \in [Threads -> States], Exact(q, st),
           q # <<>>
    PROVE  /\ q[1] \in Threads /\ st[q[1]] = "ready"
           /\ Tail(q) \in Seq(Threads)
           /\ Exact(Tail(q), [st EXCEPT ![q[1]] = "running"])
<1> DEFINE p == Tail(q)
<1>1. /\ p \in Seq(Threads) /\ Len(q) = Len(p) + 1 /\ Len(p) \in Nat
      /\ \A k \in 1 .. Len(p) : p[k] = q[k + 1]
      /\ DOMAIN p = 1 .. Len(p) /\ DOMAIN q = 1 .. Len(q)
    OBVIOUS
<1> HIDE DEF p
<1>2. q[1] \in Threads /\ st[q[1]] = "ready"
    BY <1>1 DEF Exact
<1>3. \A k \in 1 .. Len(p) : k + 1 \in DOMAIN q /\ k + 1 # 1
    BY <1>1
<1>4. {p[k] : k \in DOMAIN p} = {q[k] : k \in DOMAIN q} \ {q[1]}
    <2>1. \A k \in DOMAIN p : p[k] \in {q[j] : j \in DOMAIN q} /\ p[k] # q[1]
        BY <1>1, <1>3 DEF Exact
    <2>2. ASSUME NEW k \in DOMAIN q, q[k] # q[1]
          PROVE  q[k] \in {p[j] : j \in DOMAIN p}
        <3>1. k - 1 \in DOMAIN p /\ p[k - 1] = q[k]
            BY <1>1, <2>2
        <3> QED
            BY <3>1
    <2> QED
        BY <2>1, <2>2
<1>5. {x \in Threads : [st EXCEPT ![q[1]] = "running"][x] = "ready"}
        = {x \in Threads : st[x] = "ready"} \ {q[1]}
    BY <1>2
<1>6. \A j, k \in DOMAIN p : p[j] = p[k] => j = k
    <2> SUFFICES ASSUME NEW j \in DOMAIN p, NEW k \in DOMAIN p, p[j] = p[k]
                 PROVE  j = k
        OBVIOUS
    <2>1. q[j + 1] = q[k + 1] /\ j + 1 \in DOMAIN q /\ k + 1 \in DOMAIN q
          /\ j \in Nat /\ k \in Nat
        BY <1>1
    <2>2. j + 1 = k + 1
        BY <2>1 DEF Exact
    <2> QED
        BY <2>1, <2>2
<1> QED
    BY <1>1, <1>2, <1>4, <1>5, <1>6 DEF Exact, p

----------------------------------------------------------------------------
(* Steps                                                                   *)

LEMMA Switched ==
    ASSUME NEW q \in Seq(Threads), NEW st \in [Threads -> States], Exact(q, st),
           q # <<>>,
           \A t \in Threads : st[t] # "running",
           \A t \in Threads : st[t] = "ready" => stack[t] = "held",
           stack' = stack, SwitchTo(q, st)
    PROVE  /\ q[1] \in Threads
           /\ readyq' = Tail(q) /\ readyq' \in Seq(Threads)
           /\ state' = [st EXCEPT ![q[1]] = "running"]
           /\ state' \in [Threads -> States]
           /\ current' = q[1] /\ cpu' = q[1]
           /\ ReadyListExact' /\ CpuIsCurrent' /\ StacksHeld'
<1>1. /\ q[1] \in Threads /\ st[q[1]] = "ready"
      /\ Tail(q) \in Seq(Threads)
      /\ Exact(Tail(q), [st EXCEPT ![q[1]] = "running"])
    BY TailExact
<1>2. /\ readyq' = Tail(q) /\ state' = [st EXCEPT ![q[1]] = "running"]
      /\ current' = q[1] /\ cpu' = q[1]
    BY PopIsTail DEF SwitchTo
<1>3. state' \in [Threads -> States]
    BY <1>1, <1>2 DEF States
<1>4. ReadyListExact'
    BY <1>1, <1>2 DEF ReadyListExact, Exact
<1>5. CpuIsCurrent'
    BY <1>1, <1>2, UThreadAssumption DEF CpuIsCurrent
<1>6. StacksHeld'
    BY <1>1, <1>2 DEF StacksHeld
<1> QED
    BY <1>1, <1>2, <1>3, <1>4, <1>5, <1>6

\* uthread_yield finds the caller at the front: nothing changes.
LEMMA YieldReturns ==
    ASSUME IInv, NEW t \in Threads, Yield(t)
    PROVE  UNCHANGED <<state, readyq, current, cpu>>
<1>1. /\ readyq \in Seq(Threads) /\ state \in [Threads -> States]
      /\ current = t /\ cpu = t /\ state[t] = "running" /\ Exact(readyq, state)
    BY UThreadAssumption
    DEF IInv, TypeOK, ReadyListExact, CpuIsCurrent, Exact, States, Yield
<1>2. PICK q : q = Push(t, readyq)
    OBVIOUS
<1>3. PICK st : st = [state EXCEPT ![t] = "ready"]
    OBVIOUS
<1>4. /\ q \in Seq(Threads) /\ q # <<>> /\ q[1] = t /\ Tail(q) = readyq
      /\ Exact(q, st)
    BY <1>1, <1>2, <1>3, PushExact
<1>5. Ready(q, st) # {} /\ FirstReady(q, st) = 1 /\ Pop(q, st) = Tail(q)
    BY <1>4, PopIsTail
<1>6. SwitchTo(q, st)
    BY <1>1, <1>2, <1>3, <1>5 DEF Yield, Reschedule
<1>7. /\ readyq' = readyq /\ current' = t /\ cpu' = t
      /\ state' = [st EXCEPT ![t] = "running"]
    BY <1>4, <1>5, <1>6 DEF SwitchTo
<1>8. [st EXCEPT ![t] = "running"] = state
    BY <1>1, <1>3
<1> QED
    BY <1>1, <1>7, <1>8

LEMMA FinishStep ==
    ASSUME IInv, NEW t \in Threads, Finish(t)
    PROVE  IInv' /\ state'[t] = "finished"
<1>1. /\ readyq \in Seq(Threads) /\ state \in [Threads -> States]
      /\ current = t /\ cpu = t /\ state[t] = "running" /\ Exact(readyq, state)
      /\ \A u \in Threads : state[u] = "running" => u = t
      /\ t <= made
    <2>1. made \in Nat /\ t \in Nat /\ cpu = t /\ t # Main
        <3>1. made \in Nat /\ t \in Nat
            BY UThreadAssumption DEF IInv, TypeOK, Threads
        <3>2. cpu = t /\ t # Main
            BY UThreadAssumption DEF Finish
        <3> QED
            BY <3>1, <3>2
    <2>2. /\ readyq \in Seq(Threads) /\ state \in [Threads -> States]
          /\ current = t /\ Exact(readyq, state)
        BY <2>1 DEF IInv, TypeOK, ReadyListExact, CpuIsCurrent, Exact, States
    <2>3. {u \in Threads : state[u] = "running"} = {t}
        BY <2>1, UThreadAssumption DEF IInv, CpuIsCurrent
    <2>4. ~(t > made)
        BY <2>1, <2>3 DEF IInv, NotYetMade
    <2> QED
        BY <2>1, <2>2, <2>3, <2>4
<1>2. PICK st : st = [state EXCEPT ![t] = "finished"]
    OBVIOUS
<1>3. PICK q : q = readyq
    OBVIOUS
<1>4. /\ st \in [Threads -> States] /\ q \in Seq(Threads) /\ Exact(q, st)
      /\ st[t] = "finished"
      /\ \A u \in Threads : /\ st[u] # "running"
                            /\ st[u] = "ready" => stack[u] = "held"
                            /\ u > made => st[u] = "none"
    <2>1. {u \in Threads : st[u] = "ready"} = {u \in Threads : state[u] = "ready"}
        BY <1>1, <1>2
    <2>2. Exact(q, st)
        BY <1>1, <1>3, <2>1 DEF Exact
    <2>3. made \in Nat /\ \A u \in Threads : u \in Nat
        BY UThreadAssumption DEF IInv, TypeOK, Threads
    <2>4. ASSUME NEW u \in Threads
          PROVE  /\ st[u] # "running"
                 /\ st[u] = "ready" => stack[u] = "held"
                 /\ u > made => st[u] = "none"
        BY <1>1, <1>2, <2>3 DEF IInv, StacksHeld, NotYetMade
    <2>5. st \in [Threads -> States] /\ st[t] = "finished"
        BY <1>1, <1>2 DEF States
    <2> QED
        BY <1>1, <1>3, <2>2, <2>4, <2>5
<1>5. Reschedule(q, st) /\ UNCHANGED <<main, made, t0, stack, yields>>
    BY <1>1, <1>2, <1>3 DEF Finish
<1>6. main = "switched" /\ t0 \in Threads
    BY <1>1, UThreadAssumption DEF IInv, MainWaits
<1>7. CASE q = <<>>
    <2>1. Ready(q, st) = {} /\ \A u \in Threads : st[u] # "ready"
        BY <1>4, <1>7, NoneReady
    <2>2. cpu' = Main /\ readyq' = <<>> /\ state' = st /\ current' = current
        BY <1>5, <1>7, <2>1 DEF Reschedule
    <2>3. ReadyListExact' /\ CpuIsCurrent' /\ StacksHeld'
        BY <1>4, <2>1, <2>2 DEF ReadyListExact, CpuIsCurrent, StacksHeld
    <2>4. TypeOK'
        BY <1>4, <1>5, <2>2 DEF IInv, TypeOK, States
    <2>5. MainWaits' /\ NotYetMade'
        BY <1>4, <1>5, <1>6, <2>2 DEF MainWaits, NotYetMade
    <2> QED
        BY <1>4, <2>2, <2>3, <2>4, <2>5 DEF IInv
<1>8. CASE q # <<>>
    <2>1. Ready(q, st) # {}
        BY <1>4, <1>8, PopIsTail
    <2>2. SwitchTo(q, st)
        BY <1>5, <2>1 DEF Reschedule
    <2>3. /\ q[1] \in Threads
          /\ readyq' \in Seq(Threads)
          /\ state' = [st EXCEPT ![q[1]] = "running"]
          /\ state' \in [Threads -> States]
          /\ current' = q[1] /\ cpu' = q[1]
          /\ ReadyListExact' /\ CpuIsCurrent' /\ StacksHeld'
        BY <1>4, <1>5, <1>8, <2>2, Switched
    <2>4. st[q[1]] = "ready"
        BY <1>4, <1>8, TailExact
    <2>5. TypeOK'
        BY <1>5, <2>3 DEF IInv, TypeOK, States
    <2>6. MainWaits'
        BY <1>5, <1>6, <2>3, UThreadAssumption DEF MainWaits
    <2>7. NotYetMade' /\ state'[t] = "finished"
        BY <1>4, <1>5, <2>3, <2>4 DEF NotYetMade
    <2> QED
        BY <2>3, <2>5, <2>6, <2>7 DEF IInv
<1> QED
    BY <1>7, <1>8

LEMMA CreateStep ==
    ASSUME IInv, Create
    PROVE  IInv'
<1>1. PICK t : t = made + 1
    OBVIOUS
<1>2. /\ t \in Threads /\ state[t] = "none" /\ made \in Nat /\ N \in Nat
      /\ cpu = Main /\ main = "create"
    BY <1>1, UThreadAssumption DEF IInv, TypeOK, Create, Threads, NotYetMade, MainWaits
<1>3. /\ made' = t /\ state' = [state EXCEPT ![t] = "ready"]
      /\ stack' = [stack EXCEPT ![t] = "held"] /\ readyq' = Push(t, readyq)
      /\ UNCHANGED <<main, current, cpu, t0, yields>>
    BY <1>1 DEF Create
<1>4. PICK q : q = readyq
    OBVIOUS
<1>5. PICK st : st = state
    OBVIOUS
<1>6. q \in Seq(Threads) /\ st \in [Threads -> States] /\ Exact(q, st) /\ st[t] # "ready"
    BY <1>2, <1>4, <1>5 DEF IInv, TypeOK, ReadyListExact, Exact, States
<1>7. Push(t, q) \in Seq(Threads) /\ Exact(Push(t, q), [st EXCEPT ![t] = "ready"])
    BY <1>2, <1>6, PushExact
<1>8. TypeOK'
    BY <1>1, <1>2, <1>3, <1>4, <1>7 DEF IInv, TypeOK, Threads
<1>9. ReadyListExact'
    BY <1>3, <1>4, <1>5, <1>7 DEF ReadyListExact, Exact
<1>10. CpuIsCurrent'
    BY <1>2, <1>3 DEF IInv, TypeOK, CpuIsCurrent
<1>11. MainWaits' /\ StacksHeld'
    BY <1>2, <1>3 DEF IInv, TypeOK, MainWaits, StacksHeld
<1>12. NotYetMade'
    <2>1. \A u \in Threads : u \in Nat /\ (u > t => u > made /\ u # t)
        BY <1>1, <1>2 DEF Threads
    <2> QED
        BY <1>2, <1>3, <2>1 DEF IInv, TypeOK, NotYetMade
<1> QED
    BY <1>8, <1>9, <1>10, <1>11, <1>12 DEF IInv

LEMMA RunNextStep ==
    ASSUME IInv, RunNext
    PROVE  IInv'
<1>1. PICK q : q = readyq
    OBVIOUS
<1>2. PICK st : st = state
    OBVIOUS
<1>3. /\ q \in Seq(Threads) /\ st \in [Threads -> States] /\ Exact(q, st)
      /\ \A t \in Threads : st[t] # "running"
      /\ \A t \in Threads : st[t] = "ready" => stack[t] = "held"
    BY <1>1, <1>2
    DEF IInv, TypeOK, ReadyListExact, CpuIsCurrent, StacksHeld, Exact, States, RunNext
<1>4. q # <<>>
    BY <1>1, <1>2 DEF RunNext, Ready
<1>5. /\ SwitchTo(q, st) /\ t0' = current' /\ main' = "switched"
      /\ UNCHANGED <<made, stack, yields>>
    BY <1>1, <1>2 DEF RunNext
<1>6. /\ q[1] \in Threads /\ readyq' \in Seq(Threads)
      /\ state' = [st EXCEPT ![q[1]] = "running"] /\ state' \in [Threads -> States]
      /\ current' = q[1] /\ cpu' = q[1]
      /\ ReadyListExact' /\ CpuIsCurrent' /\ StacksHeld'
    BY <1>3, <1>4, <1>5, Switched
<1>7. st[q[1]] = "ready"
    BY <1>3, <1>4, TailExact
<1>8. TypeOK'
    BY <1>5, <1>6 DEF IInv, TypeOK, States
<1>9. MainWaits'
    BY <1>5, <1>6, UThreadAssumption DEF MainWaits
<1>10. NotYetMade'
    BY <1>2, <1>3, <1>5, <1>6, <1>7 DEF IInv, NotYetMade
<1> QED
    BY <1>6, <1>8, <1>9, <1>10 DEF IInv

\* Main finds nobody ready, so it never puts t0 back on the list.
LEMMA ResumeStep ==
    ASSUME IInv, Resume
    PROVE  IInv'
<1>1. readyq = <<>> /\ t0 \in Threads /\ cpu = Main
    BY DEF IInv, MainWaits, Resume
<1>2. state[t0] # "ready"
    BY <1>1 DEF IInv, ReadyListExact
<1>3. /\ readyq' = readyq /\ main' = "loop"
      /\ UNCHANGED <<made, state, current, cpu, t0, yields>>
    BY <1>2 DEF Resume
<1>4. \/ state[t0] = "finished" /\ stack' = [stack EXCEPT ![t0] = "freed"]
      \/ stack' = stack
    BY DEF Resume
<1>5. TypeOK'
    BY <1>1, <1>3, <1>4 DEF IInv, TypeOK
<1>6. StacksHeld' /\ CpuIsCurrent'
    BY <1>1, <1>3, <1>4 DEF IInv, TypeOK, StacksHeld, CpuIsCurrent
<1>7. ReadyListExact' /\ MainWaits' /\ NotYetMade'
    BY <1>1, <1>3 DEF IInv, ReadyListExact, MainWaits, NotYetMade
<1> QED
    BY <1>5, <1>6, <1>7 DEF IInv

----------------------------------------------------------------------------
(* Theorems                                                                *)

\* The inductive invariant holds in every state of the program.
THEOREM Invariance == Spec => []IInv
<1>1. Init => IInv
    BY UThreadAssumption
    DEF Init, IInv, TypeOK, ReadyListExact, CpuIsCurrent, MainWaits, StacksHeld, NotYetMade
<1>2. ASSUME IInv, [Next]_vars
      PROVE  IInv'
    <2> USE <1>2
    <2>1. CASE CreateFails \/ AllMade \/ AllDone
        BY <2>1 DEF CreateFails, AllMade, AllDone, IInv, TypeOK, ReadyListExact, CpuIsCurrent,
           MainWaits, StacksHeld, NotYetMade
    <2>2. ASSUME NEW t \in Threads, Yield(t)
          PROVE  IInv'
        <3>1. UNCHANGED <<state, readyq, current, cpu>>
            BY <2>2, YieldReturns
        <3>2. UNCHANGED <<main, made, t0, stack>> /\ yields' \in [Threads -> 0 .. MaxYields]
            BY <2>2, UThreadAssumption DEF Yield, IInv, TypeOK
        <3> QED
            BY <3>1, <3>2 DEF IInv, TypeOK, ReadyListExact, CpuIsCurrent, MainWaits, StacksHeld,
               NotYetMade
    <2>3. CASE UNCHANGED vars
        BY <2>3 DEF vars, IInv, TypeOK, ReadyListExact, CpuIsCurrent, MainWaits, StacksHeld,
           NotYetMade
    <2> QED
        BY <2>1, <2>2, <2>3, CreateStep, RunNextStep, ResumeStep, FinishStep
        DEF Next, Step, Terminated
<1> QED
    BY <1>1, <1>2, PTL DEF Spec

\* The ready list holds exactly the ready threads, each once.
THEOREM ListCorrect == Spec => []ReadyListExact
<1>1. IInv => ReadyListExact
    BY DEF IInv
<1> QED
    BY <1>1, Invariance, PTL

\* The one thread marked running is the one that runs, current points to it, and
\* its stack is there.
THEOREM ProcessorCorrect == Spec => []CpuIsCurrent
<1>1. IInv => CpuIsCurrent
    BY DEF IInv
<1> QED
    BY <1>1, Invariance, PTL

\* A thread loses the processor only by finishing: uthread_yield resumes its
\* caller.
THEOREM YieldIsNoSwitch == Spec => RunsToCompletion
<1> DEFINE Keeps == \A t \in Threads : cpu = t /\ cpu' # t => state'[t] = "finished"
<1>1. ASSUME IInv, [Next]_vars
      PROVE  [Keeps]_vars
    <2> SUFFICES ASSUME NEW t \in Threads, cpu = t, cpu' # t
                 PROVE  state'[t] = "finished"
        OBVIOUS
    <2>1. cpu # Main
        BY UThreadAssumption
    <2>2. ASSUME NEW u \in Threads, Yield(u)
          PROVE  FALSE
        BY <1>1, <2>2, YieldReturns
    <2>3. ASSUME NEW u \in Threads, Finish(u)
          PROVE  state'[t] = "finished"
        BY <1>1, <2>3, FinishStep DEF Finish
    <2>4. ~RunNext
        BY <2>1 DEF RunNext
    <2> QED
        BY <1>1, <2>2, <2>3, <2>4
        DEF Next, Step, Terminated, vars, Create, CreateFails, AllMade, Resume, AllDone
<1> QED
    BY <1>1, Invariance, PTL DEF Spec, RunsToCompletion
=============================================================================
