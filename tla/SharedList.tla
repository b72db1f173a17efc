----------------------------- MODULE SharedList -----------------------------
(***************************************************************************)
(* 2.3: a singly linked list of strings with a lock in every node.  Three  *)
(* threads traverse it and count pairs of neighbours, three others walk to *)
(* a random place and exchange two neighbours, all of them for ever, and   *)
(* all of them hand over hand.  The three programs 2.3/mutex, 2.3/spinlock *)
(* and 2.3/rw differ in the lock: with rw, traversals share the nodes.     *)
(*                                                                         *)
(* An action is the acquisition of one lock, one read of a next field, or  *)
(* one assignment to one.  A release belongs to the action before it: only *)
(* what others can do grows with it.  The counters are left out; they only *)
(* grow, each under counters_lock, the last lock to be taken.              *)
(***************************************************************************)
EXTENDS Naturals, Sequences, FiniteSets

CONSTANTS
    Items,       \* the nodes that hold a string
    First,       \* the node s->first, which holds none
    NoNode,      \* the NULL pointer
    Lengths,     \* the lengths of the strings
    Traversers,  \* among "asc", "desc", "equal": traverse_list
    Swappers,    \* among "swap_asc", "swap_desc", "swap_equal": do_random_swap
    Shared       \* whether traversals take read locks (2.3/rw)

Nodes == Items \cup {First}
Threads == Traversers \cup Swappers

ASSUME SharedListAssumption ==
    /\ IsFiniteSet(Items)
    /\ Items # {}
    /\ First \notin Items
    /\ NoNode \notin Nodes
    /\ Lengths \subseteq Nat \ {0}
    /\ Traversers \cap Swappers = {}
    /\ Shared \in BOOLEAN

Count == Cardinality(Items)

VARIABLES
    length,  \* length[n]: strlen of the value of item n
    next,    \* next[n]: the field next of node n
    held,    \* held[n]: the threads that hold the lock of node n
    pc,      \* pc[t]: the point thread t has reached
    prev,    \* prev[t], a[t], b[t]: the pointers of thread t
    a,
    b,
    todo,    \* todo[t]: the nodes swapper t still walks to reach its place
    passed,  \* auxiliary: the items traverser t has gone through in this pass
    order    \* auxiliary: the sequence of items the links stand for

vars == <<length, next, held, pc, prev, a, b, todo, passed, order>>
links == <<length, next, order>>

Points == {"start", "read", "lock", "link_prev", "link_a", "link_b", "release"}

TypeOK ==
    /\ length \in [Items -> Lengths]
    /\ next \in [Nodes -> Items \cup {NoNode}]
    /\ held \in [Nodes -> SUBSET Threads]
    /\ pc \in [Threads -> Points]
    /\ prev \in [Threads -> Nodes \cup {NoNode}]
    /\ a \in [Threads -> Nodes \cup {NoNode}]
    /\ b \in [Threads -> Nodes \cup {NoNode}]
    /\ todo \in [Threads -> 0 .. Count - 1]
    /\ passed \in [Threads -> Seq(Items)]
    /\ order \in [1 .. Count -> Items]

Move(t, p) == pc' = [pc EXCEPT ![t] = p]

\* First is before all items.
Position ==
    [n \in Nodes |-> IF n = First THEN 0 ELSE CHOOSE i \in 1 .. Count : order[i] = n]
Successor ==
    [n \in Nodes |-> IF Position[n] = Count THEN NoNode ELSE order[Position[n] + 1]]

\* storage_init: Count nodes behind First, of arbitrary lengths.
Init ==
    /\ length \in [Items -> Lengths]
    /\ order \in {s \in [1 .. Count -> Items] :
                     \A i, j \in 1 .. Count : s[i] = s[j] => i = j}
    /\ next = Successor
    /\ held = [n \in Nodes |-> {}]
    /\ pc = [t \in Threads |-> "start"]
    /\ prev = [t \in Threads |-> NoNode]
    /\ a = [t \in Threads |-> NoNode]
    /\ b = [t \in Threads |-> NoNode]
    /\ todo = [t \in Threads |-> 0]
    /\ passed = [t \in Threads |-> <<>>]

----------------------------------------------------------------------------
(* Locks                                                                   *)

\* A read lock waits for writers only; every other lock for everybody.
CanLock(t, n) ==
    IF Shared /\ t \in Traversers
    THEN held[n] \cap Swappers = {}
    ELSE held[n] = {}

\* Thread t comes to hold n and no longer holds the nodes of S.
LockAndRelease(t, n, S) ==
    held' = [m \in Nodes |->
                IF m = n THEN held[m] \cup {t}
                ELSE IF m \in S THEN held[m] \ {t} ELSE held[m]]

\* What a thread holds when its pass is over.  (KeepingPrev: not all of it.)
KeepingPrev(t) == IF t \in Traversers THEN {a[t]} ELSE {a[t], b[t]}
ToRelease(t) == IF t \in Traversers THEN {a[t]} ELSE {prev[t], a[t], b[t]}

----------------------------------------------------------------------------
(* What traverse_list and do_random_swap have in common                    *)

\* Both begin with the lock of First.  A swapper has drawn an index; it takes
\* the step to the first item and index more, and b is behind it.  There is no
\* index to draw from less than two items.  (OneTooFar: rand() % count.)
OneTooFar == 1 .. Count
Steps == 1 .. Count - 1

Start(t) ==
    /\ pc[t] = "start"
    /\ CanLock(t, First)
    /\ LockAndRelease(t, First, {})
    /\ prev' = [prev EXCEPT ![t] = NoNode]
    /\ a' = [a EXCEPT ![t] = First]
    /\ IF t \in Traversers
       THEN UNCHANGED todo
       ELSE \E k \in Steps : todo' = [todo EXCEPT ![t] = k]
    /\ passed' = [passed EXCEPT ![t] = <<>>]
    /\ Move(t, "read")
    /\ UNCHANGED <<links, b>>

\* The node behind a, whose lock t holds; at the end of the list it gives up.
\* (ReadLoosely: a traverser releases a before it has the lock of b.)
ReadLoosely(t) ==
    /\ pc[t] = "read"
    /\ b' = [b EXCEPT ![t] = next[a[t]]]
    /\ Move(t, IF next[a[t]] = NoNode THEN "release" ELSE "lock")
    /\ held' = IF t \in Traversers THEN [held EXCEPT ![a[t]] = @ \ {t}] ELSE held
    /\ UNCHANGED <<links, prev, a, todo, passed>>

Read(t) ==
    /\ pc[t] = "read"
    /\ b' = [b EXCEPT ![t] = next[a[t]]]
    /\ Move(t, IF next[a[t]] = NoNode THEN "release" ELSE "lock")
    /\ UNCHANGED <<links, held, prev, a, todo, passed>>

Release(t) ==
    /\ pc[t] = "release"
    /\ held' = [m \in Nodes |->
                   IF m \in ToRelease(t) THEN held[m] \ {t} ELSE held[m]]
    /\ Move(t, "start")
    /\ UNCHANGED <<links, prev, a, b, todo, passed>>

----------------------------------------------------------------------------
(* traverse_list                                                           *)

\* The lock of a is released once that of b is held.
Advance(t) ==
    /\ t \in Traversers
    /\ pc[t] = "lock"
    /\ CanLock(t, b[t])
    /\ LockAndRelease(t, b[t], {a[t]})
    /\ a' = [a EXCEPT ![t] = b[t]]
    /\ passed' = [passed EXCEPT ![t] = Append(@, b[t])]
    /\ Move(t, "read")
    /\ UNCHANGED <<links, prev, b, todo>>

----------------------------------------------------------------------------
(* do_random_swap                                                          *)

\* On the way two locks are held, and a third while they move on by a node.
\* (WalkLoosely: prev is released one node too early.)
WalkLoosely(t) ==
    /\ t \in Swappers
    /\ pc[t] = "lock"
    /\ todo[t] > 0
    /\ CanLock(t, b[t])
    /\ LockAndRelease(t, b[t], {prev[t], a[t]})
    /\ prev' = [prev EXCEPT ![t] = a[t]]
    /\ a' = [a EXCEPT ![t] = b[t]]
    /\ todo' = [todo EXCEPT ![t] = @ - 1]
    /\ Move(t, "read")
    /\ UNCHANGED <<links, b, passed>>

WalkOn(t) ==
    /\ t \in Swappers
    /\ pc[t] = "lock"
    /\ todo[t] > 0
    /\ CanLock(t, b[t])
    /\ LockAndRelease(t, b[t], {prev[t]})
    /\ prev' = [prev EXCEPT ![t] = a[t]]
    /\ a' = [a EXCEPT ![t] = b[t]]
    /\ todo' = [todo EXCEPT ![t] = @ - 1]
    /\ Move(t, "read")
    /\ UNCHANGED <<links, b, passed>>

NeedSwap(t, l1, l2) ==
    \/ t = "swap_asc" /\ l1 > l2
    \/ t = "swap_desc" /\ l1 < l2
    \/ t = "swap_equal" /\ l1 # l2

LockPair(t) ==
    /\ t \in Swappers
    /\ pc[t] = "lock"
    /\ todo[t] = 0
    /\ CanLock(t, b[t])
    /\ LockAndRelease(t, b[t], {})
    /\ Move(t, IF NeedSwap(t, length[a[t]], length[b[t]])
               THEN "link_prev" ELSE "release")
    /\ UNCHANGED <<links, prev, a, b, todo, passed>>

\* The three assignments of the exchange.
SetNext(n, m) == next' = [next EXCEPT ![n] = m]

LinkPrev(t) ==
    /\ pc[t] = "link_prev"
    /\ SetNext(prev[t], b[t])
    /\ Move(t, "link_a")
    /\ UNCHANGED <<length, order, held, prev, a, b, todo, passed>>

LinkA(t) ==
    /\ pc[t] = "link_a"
    /\ SetNext(a[t], next[b[t]])
    /\ Move(t, "link_b")
    /\ UNCHANGED <<length, order, held, prev, a, b, todo, passed>>

LinkB(t) ==
    /\ pc[t] = "link_b"
    /\ SetNext(b[t], a[t])
    /\ order' = [order EXCEPT ![Position[a[t]]] = b[t], ![Position[b[t]]] = a[t]]
    /\ Move(t, "release")
    /\ UNCHANGED <<length, held, prev, a, b, todo, passed>>

----------------------------------------------------------------------------
Step(t) ==
    \/ Start(t) \/ Read(t) \/ Release(t)
    \/ Advance(t)
    \/ WalkOn(t) \/ LockPair(t) \/ LinkPrev(t) \/ LinkA(t) \/ LinkB(t)

Next == \E t \in Threads : Step(t)

Spec == Init /\ [][Next]_vars

\* A thread that can take a step for ever takes one.  No lock promises more:
\* a thread whose lock is free again and again may never get it.
FairSpec == Spec /\ \A t \in Threads : WF_vars(Step(t))

----------------------------------------------------------------------------
(* Properties                                                              *)

\* The links are the list, but for the nodes whose links a swapper is changing
\* (threads.c:152-158).
Linking(n) ==
    \E t \in Swappers : /\ pc[t] \in {"link_prev", "link_a", "link_b"}
                        /\ n \in {prev[t], a[t], b[t]}
ListIsOrder == \A n \in Nodes : ~Linking(n) => next[n] = Successor[n]

\* An index below count - 1 always has two items behind it: do_random_swap
\* never comes back empty-handed at threads.c:120-125 or 141-146.
SwapFindsPair ==
    \A t \in Swappers : pc[t] \in {"read", "lock"} => Successor[a[t]] # NoNode

\* A pass of a traverser that reaches the end of the list has gone through
\* every item once, whatever the swappers did meanwhile (threads.c:52-91).
PassesSeeAll ==
    \A t \in Traversers :
        pc[t] = "release" =>
            /\ Len(passed[t]) = Count
            /\ {passed[t][i] : i \in DOMAIN passed[t]} = Items

\* A thread that waits for a node holds nodes before it only, though the list
\* is reordered meanwhile; so nobody waits in a circle (threads.c:52-163).
Wanted(t) == IF pc[t] = "start" THEN First ELSE b[t]
LocksInListOrder ==
    \A t \in Threads : pc[t] \in {"start", "lock"} =>
        \A n \in Nodes : t \in held[n] => Position[n] < Position[Wanted(t)]

\* The program never stands still: again and again some pass ends.
PassesKeepEnding == []<><<\E t \in Threads : Release(t)>>_vars

----------------------------------------------------------------------------
(* The inductive invariant the safety properties follow from.              *)

Links == {"link_prev", "link_a", "link_b"}

\* No item is listed twice.
Permutation == \A i, j \in 1 .. Count : order[i] = order[j] => i = j

\* The locks a thread holds, by the point it has reached.
Owned(t) ==
    IF pc[t] = "start" THEN {}
    ELSE IF t \in Traversers THEN {a[t]}
    ELSE IF pc[t] \in {"read", "lock"} THEN {prev[t], a[t]} \ {NoNode}
    ELSE {prev[t], a[t], b[t]} \ {NoNode}
HeldIsOwned == \A t \in Threads : \A n \in Nodes : t \in held[n] <=> n \in Owned(t)

\* A swapper shares its nodes with nobody.
SwappersAlone == \A s \in Swappers : \A n \in Nodes : s \in held[n] => held[n] = {s}

\* A thread knows its neighbours while it holds their locks ...
InPlace(t) ==
    /\ pc[t] # "start" => a[t] \in Nodes
    /\ pc[t] \in {"lock"} \cup Links => b[t] \in Items /\ Successor[a[t]] = b[t]

\* ... a traverser has gone through all up to a ...
PassSoFar(t) ==
    /\ pc[t] \notin Links
    /\ pc[t] # "start" =>
        /\ Len(passed[t]) = Position[a[t]]
        /\ {passed[t][i] : i \in DOMAIN passed[t]} = {order[i] : i \in 1 .. Position[a[t]]}
    /\ pc[t] = "release" => Position[a[t]] = Count

\* ... and a swapper has the rest of its way before it.
WalkSoFar(t) ==
    /\ pc[t] \in {"read", "lock"} =>
        /\ Position[a[t]] + todo[t] < Count
        /\ prev[t] = NoNode => todo[t] > 0
    /\ pc[t] \in {"read", "lock"} \cup Links /\ prev[t] # NoNode => Successor[prev[t]] = a[t]
    /\ pc[t] \in Links => prev[t] # NoNode

\* How far a swapper is with its three assignments.
HalfLinked(t) ==
    /\ pc[t] = "link_prev" => next[a[t]] = b[t]
    /\ pc[t] \in {"link_a", "link_b"} => next[prev[t]] = b[t]
    /\ pc[t] = "link_b" => next[a[t]] = Successor[b[t]]
    /\ pc[t] \in Links => next[b[t]] = Successor[b[t]]

IInv ==
    /\ TypeOK /\ Permutation /\ HeldIsOwned /\ SwappersAlone /\ ListIsOrder
    /\ \A t \in Threads : InPlace(t)
    /\ \A t \in Traversers : PassSoFar(t)
    /\ \A t \in Swappers : WalkSoFar(t) /\ HalfLinked(t)
=============================================================================
