-------------------------- MODULE SharedListProofs --------------------------
(***************************************************************************)
(* The safety properties of SharedList, for any items and threads, that    *)
(* its threads cannot deadlock, and what its exchanges do to the order.    *)
(***************************************************************************)
EXTENDS SharedList, FiniteSetTheorems, WellFoundedInduction, TLAPS

----------------------------------------------------------------------------
(* Positions and successors in an order of the items.                      *)

\* p numbers the nodes as they stand in o, and s gives the next one.
Listing(o) ==
    /\ o \in [1 .. Count -> Items]
    /\ \A i, j \in 1 .. Count : o[i] = o[j] => i = j
Numbering(o, p, s) ==
    /\ p = [n \in Nodes |-> IF n = First THEN 0 ELSE CHOOSE i \in 1 .. Count : o[i] = n]
    /\ s = [n \in Nodes |-> IF p[n] = Count THEN NoNode ELSE o[p[n] + 1]]
Numbers(o, p, s) == Listing(o) /\ Numbering(o, p, s)

LEMMA CountType == Count \in Nat \ {0} /\ Cardinality(Items) = Count
<1>1. IsFiniteSet(Items) /\ Items # {}
    BY SharedListAssumption
<1>2. Cardinality(Items) \in Nat /\ Cardinality(Items) # 0
    BY <1>1, FS_CardinalityType, FS_EmptySet
<1> QED
    BY <1>2 DEF Count

\* An order without repetitions has all the items.
LEMMA AllListed ==
    ASSUME NEW o, NEW p, NEW s, Numbers(o, p, s), NEW n \in Items
    PROVE  \E i \in 1 .. Count : o[i] = n
<1>1. o \in Injection(1 .. Count, Items)
    BY DEF Numbers, Listing, Injection, IsInjective
<1>2. IsFiniteSet(Items) /\ Cardinality(1 .. Count) = Cardinality(Items)
    BY SharedListAssumption, CountType, FS_Interval
<1>3. o \in Surjection(1 .. Count, Items)
    BY <1>1, <1>2, FS_Injection
<1> QED
    BY <1>3 DEF Surjection

\* Positions are one-to-one, and the successor is one further.
Numbered(o, p, s) ==
    /\ p[First] = 0
    /\ \A n \in Nodes : p[n] \in 0 .. Count
    /\ \A n \in Items : p[n] \in 1 .. Count /\ o[p[n]] = n
    /\ \A i \in 1 .. Count : o[i] \in Items /\ p[o[i]] = i
    /\ \A m, n \in Nodes : p[m] = p[n] => m = n
    /\ \A n \in Nodes : s[n] = IF p[n] = Count THEN NoNode ELSE o[p[n] + 1]
    /\ \A n \in Nodes : s[n] = NoNode <=> p[n] = Count
    /\ \A n \in Nodes : s[n] # NoNode => s[n] \in Items /\ p[s[n]] = p[n] + 1
    /\ \A m, n \in Nodes : s[m] = s[n] /\ s[m] # NoNode => m = n

LEMMA NumbersFacts ==
    ASSUME NEW o, NEW p, NEW s, Numbers(o, p, s)
    PROVE  Numbered(o, p, s)
<1>1. Count \in Nat \ {0} /\ Items \subseteq Nodes /\ First \in Nodes /\ First \notin Items
      /\ NoNode \notin Items /\ Nodes = Items \cup {First}
    BY CountType, SharedListAssumption DEF Nodes
<1>2. p[First] = 0
    BY <1>1 DEF Numbers, Numbering
<1>3. \A n \in Items : p[n] \in 1 .. Count /\ o[p[n]] = n
    <2> SUFFICES ASSUME NEW n \in Items PROVE p[n] \in 1 .. Count /\ o[p[n]] = n
        OBVIOUS
    <2>1. p[n] = CHOOSE i \in 1 .. Count : o[i] = n
        BY <1>1 DEF Numbers, Numbering
    <2>2. \E i \in 1 .. Count : o[i] = n
        BY AllListed
    <2> QED
        BY <2>1, <2>2
<1>4. \A i \in 1 .. Count : o[i] \in Items /\ p[o[i]] = i
    BY <1>3 DEF Numbers, Listing
<1>5. \A n \in Nodes : p[n] \in 0 .. Count
    BY <1>1, <1>2, <1>3
<1>6. \A m, n \in Nodes : p[m] = p[n] => m = n
    <2>1. \A n \in Items : p[n] # 0
        BY <1>3
    <2> QED
        BY <1>1, <1>2, <1>3, <2>1
<1>7. \A n \in Nodes : s[n] = IF p[n] = Count THEN NoNode ELSE o[p[n] + 1]
    BY DEF Numbers, Numbering
<1>8. \A n \in Nodes : p[n] # Count => p[n] + 1 \in 1 .. Count
    BY <1>1, <1>5
<1>9. \A n \in Nodes : /\ s[n] = NoNode <=> p[n] = Count
                       /\ s[n] # NoNode => s[n] \in Items /\ p[s[n]] = p[n] + 1
    BY <1>1, <1>4, <1>7, <1>8
<1>10. \A m, n \in Nodes : s[m] = s[n] /\ s[m] # NoNode => m = n
    <2> SUFFICES ASSUME NEW m \in Nodes, NEW n \in Nodes, s[m] = s[n], s[m] # NoNode
                 PROVE  m = n
        OBVIOUS
    <2>1. p[m] + 1 = p[n] + 1
        BY <1>9
    <2>2. p[m] = p[n]
        BY <1>1, <1>5, <2>1
    <2> QED
        BY <1>6, <2>2
<1> QED
    BY <1>2, <1>3, <1>4, <1>5, <1>6, <1>7, <1>9, <1>10 DEF Numbered

----------------------------------------------------------------------------
(* The exchange of two neighbours.                                         *)

\* What the exchange of x with y behind it does to positions and successors.
Exchanged(o, p, s, o2, p2, s2, x, y) ==
    /\ Numbers(o2, p2, s2)
    /\ \A n \in Nodes \ {x, y} : p2[n] = p[n]
    /\ \A n \in Nodes \ {x, y} : s[n] # x => s2[n] = s[n]
    /\ \A n \in Nodes \ {x, y} : s[n] = x => s2[n] = y
    /\ s2[y] = x /\ s2[x] = s[y]
    /\ \A k \in 0 .. Count : k # p[x] => {o2[i] : i \in 1 .. k} = {o[i] : i \in 1 .. k}

\* x and y change places in o.
Swaps(o, p, o2, x, y) == o2 = [o EXCEPT ![p[x]] = y, ![p[y]] = x]

LEMMA ExchangeFacts ==
    ASSUME NEW o, NEW p, NEW s, Numbers(o, p, s),
           NEW x \in Items, NEW y \in Items, s[x] = y,
           NEW o2, NEW p2, NEW s2, Swaps(o, p, o2, x, y), Numbering(o2, p2, s2)
    PROVE  Exchanged(o, p, s, o2, p2, s2, x, y)
<1>0. /\ Count \in Nat \ {0} /\ Items \subseteq Nodes /\ First \in Nodes /\ First \notin Items
      /\ NoNode \notin Items /\ Nodes = Items \cup {First}
    BY CountType, SharedListAssumption DEF Nodes
<1>1. /\ p[First] = 0
      /\ \A n \in Nodes : p[n] \in 0 .. Count
      /\ \A n \in Items : p[n] \in 1 .. Count /\ o[p[n]] = n
      /\ \A j \in 1 .. Count : o[j] \in Items /\ p[o[j]] = j
    BY NumbersFacts DEF Numbered
<1>2. /\ \A n \in Nodes : s[n] = IF p[n] = Count THEN NoNode ELSE o[p[n] + 1]
      /\ \A n \in Nodes : s[n] # NoNode => s[n] \in Items /\ p[s[n]] = p[n] + 1
    BY NumbersFacts DEF Numbered
<1>3. PICK i \in 1 .. Count : i = p[x]
    BY <1>1
<1>4. PICK k \in 1 .. Count : k = i + 1 /\ k = p[y] /\ k # i
    <2>1. p[y] \in 1 .. Count /\ p[y] = p[x] + 1
        BY <1>0, <1>1, <1>2
    <2>2. i + 1 # i
        OBVIOUS
    <2> QED
        BY <1>3, <2>1, <2>2
<1>5. o[i] = x /\ o[k] = y /\ x # y
    BY <1>1, <1>3, <1>4
<1>6. /\ Listing(o2) /\ o2[i] = y /\ o2[k] = x
      /\ \A j \in 1 .. Count : j # i /\ j # k => o2[j] = o[j]
    <2>1. o2 = [o EXCEPT ![i] = o[k], ![k] = o[i]]
        BY <1>3, <1>4, <1>5 DEF Swaps
    <2>2. Listing(o) /\ i # k
        BY <1>4 DEF Numbers
    <2>3. /\ Listing(o2) /\ o2[i] = o[k] /\ o2[k] = o[i]
          /\ \A j \in 1 .. Count : j # i /\ j # k => o2[j] = o[j]
        BY <2>1, <2>2 DEF Listing
    <2> QED
        BY <1>5, <2>3
<1>7. \A j \in 1 .. Count : j # i /\ j # k => o[j] # x /\ o[j] # y
    BY <1>1, <1>3, <1>4
<1>9. Numbers(o2, p2, s2)
    BY <1>6 DEF Numbers
<1>10. /\ p2[First] = 0
       /\ \A n \in Nodes : p2[n] \in 0 .. Count
       /\ \A j \in 1 .. Count : o2[j] \in Items /\ p2[o2[j]] = j
       /\ \A n \in Nodes : s2[n] = IF p2[n] = Count THEN NoNode ELSE o2[p2[n] + 1]
    BY <1>9, NumbersFacts DEF Numbered
<1>11. p2[y] = i /\ p2[x] = k
    BY <1>6, <1>10
<1>12. ASSUME NEW n \in Nodes \ {x, y}
       PROVE  p2[n] = p[n] /\ p[n] # i /\ p[n] # k
    <2>1. CASE n = First
        BY <1>1, <1>3, <1>4, <1>10, <2>1
    <2>2. CASE n \in Items
        <3>1. PICK j \in 1 .. Count : j = p[n] /\ o[j] = n
            BY <1>1, <2>2
        <3>2. j # i /\ j # k
            BY <1>5, <3>1
        <3>3. o2[j] = n
            BY <1>6, <3>1, <3>2
        <3> QED
            BY <1>10, <3>1, <3>2, <3>3
    <2> QED
        BY <1>0, <2>1, <2>2
<1>13. s2[y] = x
    <2>1. i # Count /\ k = i + 1
        BY <1>0, <1>3, <1>4
    <2> QED
        BY <1>0, <1>6, <1>10, <1>11, <2>1
<1>14. s2[x] = s[y]
    <2>1. CASE k = Count
        <3>1. s[y] = NoNode
            BY <1>0, <1>2, <1>4, <2>1
        <3>2. s2[x] = NoNode
            BY <1>0, <1>10, <1>11, <2>1
        <3> QED
            BY <3>1, <3>2
    <2>2. CASE k # Count
        <3>1. PICK j \in 1 .. Count : j = k + 1 /\ j # i /\ j # k
            <4>1. k + 1 \in 1 .. Count /\ k + 1 # i /\ k + 1 # k
                BY <1>0, <1>4, <2>2
            <4> QED
                BY <4>1
        <3>2. o2[j] = o[j]
            BY <1>6, <3>1
        <3>3. s[y] = o[j] /\ s2[x] = o2[j]
            BY <1>0, <1>2, <1>4, <1>10, <1>11, <2>2, <3>1
        <3> QED
            BY <3>2, <3>3
    <2> QED
        BY <2>1, <2>2
<1>15. ASSUME NEW n \in Nodes \ {x, y}
       PROVE  /\ s[n] # x => s2[n] = s[n]
              /\ s[n] = x => s2[n] = y
    <2>1. p2[n] = p[n] /\ p[n] # i /\ p[n] # k /\ p[n] \in 0 .. Count
        BY <1>1, <1>12
    <2>2. CASE p[n] = Count
        <3>1. s[n] = NoNode /\ s2[n] = NoNode
            BY <1>2, <1>10, <2>1, <2>2
        <3> QED
            BY <1>0, <3>1
    <2>3. CASE p[n] # Count
        <3>1. PICK j \in 1 .. Count : j = p[n] + 1
            BY <1>0, <2>1, <2>3
        <3>2. s[n] = o[j] /\ s2[n] = o2[j]
            BY <1>2, <1>10, <2>1, <2>3, <3>1
        <3>3. j # k
            BY <1>4, <2>1, <3>1
        <3> QED
            BY <1>5, <1>6, <1>7, <3>2, <3>3
    <2> QED
        BY <2>2, <2>3
<1>16. ASSUME NEW m \in 0 .. Count, m # i
       PROVE  {o2[j] : j \in 1 .. m} = {o[j] : j \in 1 .. m}
    <2>1. CASE m < i
        <3>1. \A j \in 1 .. m : j \in 1 .. Count /\ j # i /\ j # k
            BY <1>0, <1>4, <2>1
        <3>2. \A j \in 1 .. m : o2[j] = o[j]
            BY <1>6, <3>1
        <3> QED
            BY <3>2
    <2>2. CASE m > i
        <3>1. i \in 1 .. m /\ k \in 1 .. m /\ \A j \in 1 .. m : j \in 1 .. Count
            BY <1>0, <1>4, <2>2
        <3>2. \A j \in 1 .. m : o2[j] \in {o[l] : l \in 1 .. m}
            BY <1>5, <1>6, <3>1
        <3>3. \A j \in 1 .. m : o[j] \in {o2[l] : l \in 1 .. m}
            BY <1>5, <1>6, <3>1
        <3> QED
            BY <3>2, <3>3
    <2>3. m < i \/ m > i
        BY <1>0, <1>16
    <2> QED
        BY <2>1, <2>2, <2>3
<1> QED
    BY <1>3, <1>9, <1>12, <1>13, <1>14, <1>15, <1>16 DEF Exchanged

----------------------------------------------------------------------------
(* What a step of one thread leaves to the others.                         *)

LEMMA OrderNumbers ==
    ASSUME TypeOK, Permutation
    PROVE  Numbers(order, Position, Successor)
BY DEF TypeOK, Permutation, Numbers, Listing, Numbering, Position, Successor

LEMMA OrderStays ==
    ASSUME order' = order
    PROVE  Position' = Position /\ Successor' = Successor
BY DEF Position, Successor

\* The pointers and the point of thread t stay.
Locals(t) ==
    /\ pc'[t] = pc[t] /\ a'[t] = a[t] /\ b'[t] = b[t] /\ prev'[t] = prev[t]
    /\ todo'[t] = todo[t] /\ passed'[t] = passed[t]

\* And so does the list around the nodes it holds.
Spared(t) ==
    /\ Locals(t)
    /\ pc[t] # "start" =>
        /\ Position'[a[t]] = Position[a[t]] /\ Successor'[a[t]] = Successor[a[t]]
        /\ {order'[i] : i \in 1 .. Position[a[t]]} = {order[i] : i \in 1 .. Position[a[t]]}
    /\ t \in Swappers /\ pc[t] \in {"read", "lock"} \cup Links /\ prev[t] # NoNode
        => Successor'[prev[t]] = Successor[prev[t]]
    /\ pc[t] \in Links =>
        /\ Successor'[b[t]] = Successor[b[t]]
        /\ \A n \in {prev[t], a[t], b[t]} : next'[n] = next[n]

Place(t) ==
    /\ InPlace(t)
    /\ t \in Traversers => PassSoFar(t)
    /\ t \in Swappers => WalkSoFar(t) /\ HalfLinked(t)

LEMMA SparedKeeps ==
    ASSUME NEW t \in Threads, Place(t), Spared(t)
    PROVE  Place(t)'
<1>1. InPlace(t)'
    <2>1. /\ pc'[t] = pc[t] /\ a'[t] = a[t] /\ b'[t] = b[t]
          /\ pc[t] # "start" => Successor'[a[t]] = Successor[a[t]]
        BY DEF Spared, Locals
    <2>2. /\ pc[t] # "start" => a[t] \in Nodes
          /\ pc[t] \in {"lock"} \cup Links => b[t] \in Items /\ Successor[a[t]] = b[t]
        BY DEF Place, InPlace
    <2>3. pc[t] \in {"lock"} \cup Links => pc[t] # "start"
        BY DEF Links
    <2> QED
        BY <2>1, <2>2, <2>3 DEF InPlace
<1>2. ASSUME t \in Traversers
      PROVE  PassSoFar(t)'
    <2>1. /\ pc'[t] = pc[t] /\ a'[t] = a[t] /\ passed'[t] = passed[t]
          /\ pc[t] # "start" =>
                /\ Position'[a[t]] = Position[a[t]]
                /\ {order'[i] : i \in 1 .. Position[a[t]]} = {order[i] : i \in 1 .. Position[a[t]]}
        BY DEF Spared, Locals
    <2>2. /\ pc[t] \notin Links
          /\ pc[t] # "start" =>
                /\ Len(passed[t]) = Position[a[t]]
                /\ {passed[t][i] : i \in DOMAIN passed[t]} = {order[i] : i \in 1 .. Position[a[t]]}
          /\ pc[t] = "release" => Position[a[t]] = Count
        BY <1>2 DEF Place, PassSoFar
    <2>3. pc'[t] \notin Links
        BY <2>1, <2>2
    <2>4. ASSUME pc'[t] # "start"
          PROVE  /\ Len(passed'[t]) = Position'[a'[t]]
                 /\ {passed'[t][i] : i \in DOMAIN passed'[t]} = {order'[i] : i \in 1 .. Position'[a'[t]]}
        <3>1. Position'[a'[t]] = Position[a[t]] /\ passed'[t] = passed[t] /\ pc[t] # "start"
            BY <2>1, <2>4
        <3>2. {order'[i] : i \in 1 .. Position'[a'[t]]} = {order[i] : i \in 1 .. Position[a[t]]}
            BY <2>1, <3>1
        <3> QED
            BY <2>2, <3>1, <3>2
    <2>5. pc'[t] = "release" => Position'[a'[t]] = Count
        BY <2>1, <2>2
    <2> QED
        BY <2>3, <2>4, <2>5 DEF PassSoFar
<1>3. ASSUME t \in Swappers
      PROVE  WalkSoFar(t)' /\ HalfLinked(t)'
    <2>1. WalkSoFar(t)'
        BY <1>3 DEF Place, Spared, Locals, WalkSoFar, Links
    <2>2. HalfLinked(t)'
        BY <1>3 DEF Place, Spared, Locals, HalfLinked, Links
    <2> QED
        BY <2>1, <2>2
<1> QED
    BY <1>1, <1>2, <1>3 DEF Place

LEMMA CalmSpares ==
    ASSUME NEW t \in Threads, Locals(t), order' = order, next' = next
    PROVE  Spared(t)
BY OrderStays DEF Spared

LEMMA OwnedStays ==
    ASSUME NEW t, Locals(t)
    PROVE  Owned(t)' = Owned(t)
BY DEF Owned, Locals

LEMMA PlaceOf ==
    ASSUME IInv, NEW t \in Threads
    PROVE  Place(t)
BY DEF IInv, Place

\* What a swapper holds nobody else does.
LEMMA Disjoint ==
    ASSUME IInv, NEW s \in Swappers, NEW t \in Threads, t # s, NEW n \in Nodes, n \in Owned(s)
    PROVE  n \notin Owned(t)
<1>1. s \in held[n]
    BY DEF IInv, HeldIsOwned, Threads
<1>2. held[n] = {s}
    BY <1>1 DEF IInv, SwappersAlone
<1> QED
    BY <1>2 DEF IInv, HeldIsOwned

\* The nodes of an exchange: three neighbours, all locked.
LEMMA LinkNodes ==
    ASSUME IInv, NEW s \in Threads, pc[s] \in Links
    PROVE  /\ s \in Swappers /\ s \notin Traversers
           /\ prev[s] \in Nodes /\ a[s] \in Items /\ b[s] \in Items
           /\ prev[s] # a[s] /\ prev[s] # b[s] /\ a[s] # b[s]
           /\ Successor[prev[s]] = a[s] /\ Successor[a[s]] = b[s]
           /\ Owned(s) = {prev[s], a[s], b[s]}
<1>1. Place(s)
    BY PlaceOf
<1>2. s \in Swappers /\ s \notin Traversers
    BY <1>1, SharedListAssumption DEF Place, PassSoFar, Threads
<1>3. /\ prev[s] \in Nodes /\ prev[s] # NoNode
      /\ Successor[prev[s]] = a[s] /\ Successor[a[s]] = b[s]
      /\ a[s] \in Nodes /\ b[s] \in Items
    BY <1>1, <1>2 DEF Place, InPlace, WalkSoFar, Links, IInv, TypeOK
<1>4. Numbered(order, Position, Successor)
    BY OrderNumbers, NumbersFacts DEF IInv
<1>5. NoNode \notin Nodes /\ Items \subseteq Nodes
    BY SharedListAssumption DEF Nodes
<1>6. a[s] \in Items /\ Position[a[s]] = Position[prev[s]] + 1
    BY <1>3, <1>4, <1>5 DEF Numbered
<1>7. Position[b[s]] = Position[a[s]] + 1
    BY <1>3, <1>4, <1>5 DEF Numbered
<1>8. Position[prev[s]] \in Nat /\ Position[a[s]] \in Nat
    BY <1>3, <1>4, CountType DEF Numbered
<1>9. prev[s] # a[s] /\ prev[s] # b[s] /\ a[s] # b[s]
    BY <1>6, <1>7, <1>8
<1>10. Owned(s) = {prev[s], a[s], b[s]}
    BY <1>2, <1>3, <1>5 DEF Owned, Links
<1> QED
    BY <1>2, <1>3, <1>6, <1>9, <1>10

\* A node with changing links is locked by the swapper that changes them.
LEMMA LinkingOwned ==
    ASSUME IInv, NEW n \in Nodes
    PROVE  Linking(n) <=> \E t \in Threads : pc[t] \in Links /\ n \in Owned(t)
<1>1. ASSUME NEW t \in Threads, pc[t] \in Links
      PROVE  t \in Swappers /\ Owned(t) = {prev[t], a[t], b[t]}
    BY <1>1, LinkNodes
<1> QED
    BY <1>1 DEF Linking, Links, Threads

\* The next field of a node a thread holds and is not changing is the list's.
LEMMA NextIsSuccessor ==
    ASSUME IInv, NEW s \in Threads, pc[s] \notin Links, NEW n \in Nodes, n \in Owned(s)
    PROVE  next[n] = Successor[n]
<1>1. ~Linking(n)
    <2> SUFFICES ASSUME NEW t \in Threads, pc[t] \in Links, n \in Owned(t)
                 PROVE  FALSE
        BY LinkingOwned
    <2> QED
        BY LinkNodes, Disjoint
<1> QED
    BY <1>1 DEF IInv, ListIsOrder

----------------------------------------------------------------------------
(* Locks                                                                   *)

LEMMA LockTaken ==
    ASSUME TypeOK, SwappersAlone,
           NEW s \in Threads, NEW n \in Nodes, NEW S,
           CanLock(s, n), LockAndRelease(s, n, S)
    PROVE  /\ held' \in [Nodes -> SUBSET Threads]
           /\ SwappersAlone'
           /\ \A t \in Threads \ {s} : \A m \in Nodes : t \in held'[m] <=> t \in held[m]
           /\ \A m \in Nodes : s \in held'[m] <=> m = n \/ (m \notin S /\ s \in held[m])
           /\ held[n] \cap Swappers = {}
<1>1. \A m \in Nodes :
        held'[m] = IF m = n THEN held[m] \cup {s}
                   ELSE IF m \in S THEN held[m] \ {s} ELSE held[m]
    BY DEF LockAndRelease
<1>2. held' \in [Nodes -> SUBSET Threads]
    BY DEF LockAndRelease, TypeOK
<1>3. held[n] \cap Swappers = {} /\ (s \in Swappers => held[n] = {})
    BY SharedListAssumption DEF CanLock
<1>4. SwappersAlone'
    <2> SUFFICES ASSUME NEW t \in Swappers, NEW m \in Nodes, t \in held'[m]
                 PROVE  held'[m] = {t}
        BY DEF SwappersAlone
    <2>1. CASE m = n
        BY <1>1, <1>3, <2>1
    <2>2. CASE m # n
        BY <1>1, <2>2 DEF SwappersAlone
    <2> QED
        BY <2>1, <2>2
<1> QED
    BY <1>1, <1>2, <1>3, <1>4

----------------------------------------------------------------------------
(* Steps that change no link                                               *)

LEMMA CalmStep ==
    ASSUME IInv, NEW s \in Threads, pc[s] \notin Links,
           UNCHANGED links, \A t \in Threads \ {s} : Locals(t),
           TypeOK', SwappersAlone',
           \A t \in Threads \ {s} : \A m \in Nodes : t \in held'[m] <=> t \in held[m],
           \A m \in Nodes : s \in held'[m] <=> m \in Owned(s)',
           Place(s)'
    PROVE  IInv'
<1>1. order' = order /\ next' = next /\ Successor' = Successor
    BY OrderStays DEF links
<1>2. Permutation'
    BY <1>1 DEF IInv, Permutation
<1>3. HeldIsOwned'
    <2> SUFFICES ASSUME NEW t \in Threads, NEW m \in Nodes
                 PROVE  t \in held'[m] <=> m \in Owned(t)'
        BY DEF HeldIsOwned
    <2>1. CASE t = s
        BY <2>1
    <2>2. CASE t # s
        BY <2>2, OwnedStays DEF IInv, HeldIsOwned
    <2> QED
        BY <2>1, <2>2
<1>4. ListIsOrder'
    <2> SUFFICES ASSUME NEW n \in Nodes, ~Linking(n)'
                 PROVE  next'[n] = Successor'[n]
        BY DEF ListIsOrder
    <2>1. ~Linking(n)
        BY DEF Linking, Locals, Links, Threads
    <2> QED
        BY <1>1, <2>1 DEF IInv, ListIsOrder
<1>5. \A t \in Threads : Place(t)'
    <2> SUFFICES ASSUME NEW t \in Threads, t # s PROVE Place(t)'
        OBVIOUS
    <2> QED
        BY <1>1, PlaceOf, CalmSpares, SparedKeeps
<1> QED
    BY <1>2, <1>3, <1>4, <1>5 DEF IInv, Place, Threads

LEMMA Neighbours ==
    ASSUME IInv
    PROVE  /\ \A n \in Nodes : Position[n] \in Nat /\ Position[n] <= Count
           /\ Position[First] = 0
           /\ \A n \in Items : Position[n] \in 1 .. Count /\ order[Position[n]] = n
           /\ \A n \in Nodes : Successor[n] = NoNode <=> Position[n] = Count
           /\ \A n \in Nodes : Successor[n] # NoNode =>
                Successor[n] \in Items /\ Position[Successor[n]] = Position[n] + 1
           /\ Count \in Nat \ {0} /\ First \in Nodes /\ NoNode \notin Nodes /\ Items \subseteq Nodes
<1>1. Numbered(order, Position, Successor)
    BY OrderNumbers, NumbersFacts DEF IInv
<1>2. /\ Count \in Nat \ {0} /\ First \in Nodes /\ NoNode \notin Nodes /\ Items \subseteq Nodes
    BY CountType, SharedListAssumption DEF Nodes
<1>3. \A n \in Nodes : Position[n] \in Nat /\ Position[n] <= Count
    BY <1>1, <1>2 DEF Numbered
<1> QED
    BY <1>1, <1>2, <1>3 DEF Numbered

LEMMA StartStep ==
    ASSUME IInv, NEW s \in Threads, Start(s)
    PROVE  IInv'
<1>1. /\ pc[s] = "start" /\ CanLock(s, First) /\ LockAndRelease(s, First, {})
      /\ UNCHANGED links /\ TypeOK /\ SwappersAlone
    BY DEF Start, IInv
<1>2. /\ prev'[s] = NoNode /\ a'[s] = First /\ pc'[s] = "read" /\ passed'[s] = <<>>
      /\ \A t \in Threads \ {s} : Locals(t)
    BY <1>1 DEF Start, TypeOK, Move, Locals
<1>3. s \in Swappers => todo'[s] \in 1 .. Count - 1
    BY <1>1, SharedListAssumption DEF Start, TypeOK, Steps
<1>4. /\ held' \in [Nodes -> SUBSET Threads] /\ SwappersAlone'
      /\ \A t \in Threads \ {s} : \A m \in Nodes : t \in held'[m] <=> t \in held[m]
      /\ \A m \in Nodes : s \in held'[m] <=> m = First \/ s \in held[m]
    <2>1. First \in Nodes
        BY Neighbours
    <2> QED
        BY <1>1, <2>1, LockTaken
<1>5. \A m \in Nodes : s \in held'[m] <=> m \in Owned(s)'
    <2>1. Owned(s) = {} /\ \A m \in Nodes : s \notin held[m]
        BY <1>1 DEF Owned, IInv, HeldIsOwned
    <2>2. Owned(s)' = {First}
        BY <1>2, Neighbours DEF Owned
    <2> QED
        BY <1>4, <2>1, <2>2
<1>6. Position' = Position /\ Count \in Nat \ {0} /\ First \in Nodes
    BY <1>1, OrderStays, Neighbours DEF links
<1>7. Place(s)'
    <2>1. InPlace(s)'
        BY <1>2, <1>6 DEF InPlace, Links
    <2>2. PassSoFar(s)'
        <3>1. Len(passed'[s]) = 0 /\ {passed'[s][i] : i \in DOMAIN passed'[s]} = {}
            BY <1>2
        <3>2. Position'[a'[s]] = 0 /\ {order'[i] : i \in 1 .. 0} = {}
            BY <1>2, <1>6, Neighbours
        <3> QED
            BY <1>2, <3>1, <3>2 DEF PassSoFar, Links
    <2>3. s \in Swappers => WalkSoFar(s)' /\ HalfLinked(s)'
        <3>1. s \in Swappers => Position'[a'[s]] + todo'[s] < Count /\ todo'[s] > 0
            BY <1>2, <1>3, <1>6, Neighbours
        <3> QED
            BY <1>2, <3>1 DEF WalkSoFar, HalfLinked, Links
    <2> QED
        BY <2>1, <2>2, <2>3 DEF Place
<1>8. TypeOK'
    <2>1. passed' \in [Threads -> Seq(Items)]
        BY <1>1 DEF Start, TypeOK
    <2>2. todo' \in [Threads -> 0 .. Count - 1]
        BY <1>1, <1>3, <1>6 DEF Start, TypeOK, Steps
    <2>3. /\ prev' \in [Threads -> Nodes \cup {NoNode}]
          /\ a' \in [Threads -> Nodes \cup {NoNode}] /\ b' = b
          /\ pc' \in [Threads -> Points]
        BY <1>1, <1>6 DEF Start, TypeOK, Move, Points
    <2> QED
        BY <1>1, <1>4, <2>1, <2>2, <2>3 DEF TypeOK, links
<1>9. pc[s] \notin Links
    BY <1>1 DEF Links
<1> QED
    BY <1>1, <1>2, <1>4, <1>5, <1>7, <1>8, <1>9, CalmStep

LEMMA ReadStep ==
    ASSUME IInv, NEW s \in Threads, Read(s)
    PROVE  IInv'
<1>1. /\ pc[s] = "read" /\ UNCHANGED <<links, held, prev, a, todo, passed>>
      /\ TypeOK /\ SwappersAlone /\ Place(s)
    BY PlaceOf DEF Read, IInv
<1>2. /\ b'[s] = next[a[s]] /\ pc'[s] = IF next[a[s]] = NoNode THEN "release" ELSE "lock"
      /\ \A t \in Threads \ {s} : Locals(t)
    BY <1>1 DEF Read, TypeOK, Move, Locals
<1>3. a[s] \in Nodes /\ a[s] \in Owned(s) /\ pc[s] \notin Links
    BY <1>1, Neighbours DEF Place, InPlace, Owned, Links
<1>4. next[a[s]] = Successor[a[s]]
    BY <1>3, NextIsSuccessor
<1>5. Position' = Position /\ Successor' = Successor
    BY <1>1, OrderStays DEF links
<1>6. Owned(s)' = Owned(s)
    BY <1>1, <1>2 DEF Owned
<1>7. SwappersAlone' /\ \A m \in Nodes : s \in held'[m] <=> m \in Owned(s)'
    BY <1>1, <1>6 DEF IInv, HeldIsOwned, SwappersAlone
<1>8. TypeOK'
    <2>1. b' \in [Threads -> Nodes \cup {NoNode}]
        BY <1>1, <1>3 DEF Read, TypeOK, Nodes
    <2>2. pc' \in [Threads -> Points]
        BY <1>1 DEF Read, TypeOK, Move, Points
    <2> QED
        BY <1>1, <2>1, <2>2 DEF TypeOK, links
<1>9. Place(s)'
    <2>1. InPlace(s)'
        BY <1>1, <1>2, <1>3, <1>4, <1>5, Neighbours DEF InPlace, Links
    <2>2. ASSUME s \in Traversers PROVE PassSoFar(s)'
        <3>1. /\ Len(passed[s]) = Position[a[s]]
              /\ {passed[s][i] : i \in DOMAIN passed[s]} = {order[i] : i \in 1 .. Position[a[s]]}
            BY <1>1, <2>2 DEF Place, PassSoFar
        <3>2. passed' = passed /\ order' = order /\ a' = a
            BY <1>1 DEF links
        <3>3. /\ Len(passed'[s]) = Position'[a'[s]]
              /\ {passed'[s][i] : i \in DOMAIN passed'[s]} = {order'[i] : i \in 1 .. Position'[a'[s]]}
            BY <1>5, <3>1, <3>2
        <3>4. pc'[s] \notin Links
            BY <1>2 DEF Links
        <3>5. pc'[s] = "release" => Position'[a'[s]] = Count
            BY <1>2, <1>3, <1>4, <1>5, <3>2, Neighbours
        <3> QED
            BY <3>3, <3>4, <3>5 DEF PassSoFar
    <2>3. s \in Swappers => WalkSoFar(s)' /\ HalfLinked(s)'
        BY <1>1, <1>2, <1>5 DEF Place, WalkSoFar, HalfLinked, Links
    <2> QED
        BY <2>1, <2>2, <2>3 DEF Place
<1> QED
    BY <1>1, <1>2, <1>3, <1>7, <1>8, <1>9, CalmStep

LEMMA ReleaseStep ==
    ASSUME IInv, NEW s \in Threads, Release(s)
    PROVE  IInv'
<1>1. /\ pc[s] = "release" /\ UNCHANGED <<links, prev, a, b, todo, passed>>
      /\ TypeOK /\ SwappersAlone
    BY DEF Release, IInv
<1>2. /\ pc'[s] = "start" /\ \A t \in Threads \ {s} : Locals(t)
    BY <1>1 DEF Release, TypeOK, Move, Locals
<1>3. /\ \A m \in Nodes :
            held'[m] = IF m \in ToRelease(s) THEN held[m] \ {s} ELSE held[m]
      /\ held' \in [Nodes -> SUBSET Threads]
    BY <1>1 DEF Release, TypeOK
<1>4. \A m \in Nodes : s \in held[m] => m \in ToRelease(s)
    BY <1>1 DEF IInv, HeldIsOwned, Owned, ToRelease
<1>5. SwappersAlone'
    BY <1>1, <1>3 DEF SwappersAlone
<1>6. Owned(s)' = {}
    BY <1>2 DEF Owned
<1>7. /\ \A t \in Threads \ {s} : \A m \in Nodes : t \in held'[m] <=> t \in held[m]
      /\ \A m \in Nodes : s \in held'[m] <=> m \in Owned(s)'
    BY <1>3, <1>4, <1>6
<1>8. TypeOK'
    BY <1>1, <1>3 DEF Release, TypeOK, links, Move, Points
<1>9. Place(s)' /\ pc[s] \notin Links
    BY <1>1, <1>2 DEF Place, InPlace, PassSoFar, WalkSoFar, HalfLinked, Links
<1> QED
    BY <1>1, <1>2, <1>5, <1>7, <1>8, <1>9, CalmStep

LEMMA AdvanceStep ==
    ASSUME IInv, NEW s \in Threads, Advance(s)
    PROVE  IInv'
<1>1. /\ s \in Traversers /\ s \notin Swappers /\ pc[s] = "lock" /\ CanLock(s, b[s])
      /\ LockAndRelease(s, b[s], {a[s]}) /\ UNCHANGED <<links, prev, b, todo>>
      /\ TypeOK /\ SwappersAlone /\ Place(s)
    BY PlaceOf, SharedListAssumption DEF Advance, IInv
<1>2. /\ a'[s] = b[s] /\ passed'[s] = Append(passed[s], b[s]) /\ pc'[s] = "read"
      /\ \A t \in Threads \ {s} : Locals(t)
    BY <1>1 DEF Advance, TypeOK, Move, Locals
<1>3. /\ a[s] \in Nodes /\ b[s] \in Items /\ b[s] \in Nodes /\ Successor[a[s]] = b[s]
      /\ Position[b[s]] = Position[a[s]] + 1 /\ order[Position[b[s]]] = b[s]
      /\ Position[a[s]] \in Nat
    BY <1>1, Neighbours DEF Place, InPlace
<1>4. /\ held' \in [Nodes -> SUBSET Threads] /\ SwappersAlone'
      /\ \A t \in Threads \ {s} : \A m \in Nodes : t \in held'[m] <=> t \in held[m]
      /\ \A m \in Nodes : s \in held'[m] <=> m = b[s] \/ (m \notin {a[s]} /\ s \in held[m])
    BY <1>1, <1>3, LockTaken
<1>5. \A m \in Nodes : s \in held'[m] <=> m \in Owned(s)'
    <2>1. Owned(s) = {a[s]} /\ Owned(s)' = {b[s]}
        BY <1>1, <1>2 DEF Owned
    <2> QED
        BY <1>4, <2>1 DEF IInv, HeldIsOwned
<1>6. Position' = Position
    BY <1>1, OrderStays DEF links
<1>7. /\ Len(passed'[s]) = Position'[a'[s]]
      /\ {passed'[s][i] : i \in DOMAIN passed'[s]} = {order'[i] : i \in 1 .. Position'[a'[s]]}
    <2>1. PICK q \in Seq(Items) : q = passed[s]
        BY <1>1 DEF TypeOK
    <2>2. PICK k \in Nat : k = Position[a[s]]
        BY <1>3
    <2>3. Len(q) = k /\ {q[i] : i \in DOMAIN q} = {order[i] : i \in 1 .. k}
        BY <1>1, <2>1, <2>2 DEF Place, PassSoFar
    <2>4. PICK r : r = Append(q, b[s])
        OBVIOUS
    <2>5. /\ Len(r) = k + 1 /\ DOMAIN q = 1 .. k /\ DOMAIN r = 1 .. k + 1
          /\ r[k + 1] = b[s] /\ \A i \in 1 .. k : r[i] = q[i]
        BY <1>3, <2>1, <2>3, <2>4
    <2>6. 1 .. k + 1 = (1 .. k) \cup {k + 1}
        BY <2>2
    <2>7. order[k + 1] = b[s]
        BY <1>3, <2>2
    <2>8. {r[i] : i \in DOMAIN r} = {q[i] : i \in DOMAIN q} \cup {b[s]}
        BY <2>5, <2>6
    <2>9. {order[i] : i \in 1 .. k + 1} = {order[i] : i \in 1 .. k} \cup {b[s]}
        BY <2>6, <2>7
    <2>10. passed'[s] = r /\ Position'[a'[s]] = k + 1 /\ order' = order
        BY <1>1, <1>2, <1>3, <1>6, <2>1, <2>2, <2>4 DEF links
    <2>11. Len(passed'[s]) = Position'[a'[s]]
        BY <2>5, <2>10
    <2>12. {passed'[s][i] : i \in DOMAIN passed'[s]} = {order'[i] : i \in 1 .. Position'[a'[s]]}
        <3>1. {r[i] : i \in DOMAIN r} = {order[i] : i \in 1 .. k + 1}
            BY <2>3, <2>8, <2>9
        <3>2. {passed'[s][i] : i \in DOMAIN passed'[s]} = {r[i] : i \in DOMAIN r}
            BY <2>10
        <3>3. {order'[i] : i \in 1 .. Position'[a'[s]]} = {order[i] : i \in 1 .. k + 1}
            BY <2>10
        <3> QED
            BY <3>1, <3>2, <3>3
    <2> QED
        BY <2>11, <2>12
<1>8. Place(s)' /\ pc[s] \notin Links
    <2>1. pc'[s] \notin Links
        BY <1>2 DEF Links
    <2>2. pc'[s] = "release" => Position'[a'[s]] = Count
        BY <1>2
    <2>3. PassSoFar(s)'
        BY <1>7, <2>1, <2>2 DEF PassSoFar
    <2>4. pc[s] \notin Links
        BY <1>1 DEF Links
    <2> QED
        BY <1>1, <1>2, <1>3, <2>3, <2>4 DEF Place, InPlace, Links
<1>9. TypeOK'
    <2>1. passed' \in [Threads -> Seq(Items)]
        BY <1>1, <1>3 DEF Advance, TypeOK
    <2> QED
        BY <1>1, <1>3, <1>4, <2>1 DEF Advance, TypeOK, links, Move, Points
<1> QED
    BY <1>1, <1>2, <1>4, <1>5, <1>8, <1>9, CalmStep

LEMMA WalkOnStep ==
    ASSUME IInv, NEW s \in Threads, WalkOn(s)
    PROVE  IInv'
<1>1. /\ s \in Swappers /\ s \notin Traversers /\ pc[s] = "lock" /\ todo[s] > 0
      /\ CanLock(s, b[s]) /\ LockAndRelease(s, b[s], {prev[s]})
      /\ UNCHANGED <<links, b, passed>> /\ TypeOK /\ SwappersAlone /\ Place(s)
    BY PlaceOf, SharedListAssumption DEF WalkOn, IInv
<1>2. /\ prev'[s] = a[s] /\ a'[s] = b[s] /\ todo'[s] = todo[s] - 1 /\ pc'[s] = "read"
      /\ \A t \in Threads \ {s} : Locals(t)
    BY <1>1 DEF WalkOn, TypeOK, Move, Locals
<1>3. /\ a[s] \in Nodes /\ b[s] \in Items /\ b[s] \in Nodes /\ Successor[a[s]] = b[s]
      /\ Position[b[s]] = Position[a[s]] + 1 /\ Position[a[s]] \in Nat
      /\ a[s] # NoNode /\ b[s] # NoNode
    BY <1>1, Neighbours DEF Place, InPlace
<1>4. a[s] # prev[s]
    <2>1. prev[s] # NoNode => prev[s] \in Nodes /\ Successor[prev[s]] = a[s]
        BY <1>1 DEF Place, WalkSoFar, TypeOK
    <2>2. prev[s] # NoNode => Position[a[s]] = Position[prev[s]] + 1 /\ Position[prev[s]] \in Nat
        BY <1>3, <2>1, Neighbours
    <2> QED
        BY <1>3, <2>2
<1>5. /\ held' \in [Nodes -> SUBSET Threads] /\ SwappersAlone'
      /\ \A t \in Threads \ {s} : \A m \in Nodes : t \in held'[m] <=> t \in held[m]
      /\ \A m \in Nodes : s \in held'[m] <=> m = b[s] \/ (m \notin {prev[s]} /\ s \in held[m])
    BY <1>1, <1>3, LockTaken
<1>6. \A m \in Nodes : s \in held'[m] <=> m \in Owned(s)'
    <2>1. Owned(s) = {prev[s], a[s]} \ {NoNode} /\ Owned(s)' = {a[s], b[s]}
        BY <1>1, <1>2, <1>3 DEF Owned
    <2> QED
        BY <1>3, <1>4, <1>5, <2>1, Neighbours DEF IInv, HeldIsOwned
<1>7. Position' = Position /\ Successor' = Successor
    BY <1>1, OrderStays DEF links
<1>8. Place(s)' /\ pc[s] \notin Links
    <2>1. pc[s] \notin Links /\ pc'[s] \notin Links /\ InPlace(s)'
        BY <1>1, <1>2, <1>3 DEF InPlace, Links
    <2>2. Position[a[s]] + todo[s] < Count /\ todo[s] \in Nat /\ Count \in Nat
        BY <1>1, Neighbours DEF Place, WalkSoFar, TypeOK
    <2>3. Position'[a'[s]] + todo'[s] < Count
        BY <1>1, <1>2, <1>3, <1>7, <2>2
    <2>4. WalkSoFar(s)' /\ HalfLinked(s)'
        BY <1>2, <1>3, <1>7, <2>3 DEF WalkSoFar, HalfLinked, Links
    <2> QED
        BY <1>1, <2>1, <2>4 DEF Place
<1>9. TypeOK'
    <2>1. todo' \in [Threads -> 0 .. Count - 1]
        <3>1. todo[s] - 1 \in 0 .. Count - 1
            BY <1>1, Neighbours DEF TypeOK
        <3> QED
            BY <1>1, <3>1 DEF WalkOn, TypeOK
    <2>2. /\ prev' \in [Threads -> Nodes \cup {NoNode}]
          /\ a' \in [Threads -> Nodes \cup {NoNode}]
          /\ pc' \in [Threads -> Points]
        BY <1>1, <1>3 DEF WalkOn, TypeOK, Move, Points
    <2> QED
        BY <1>1, <1>5, <2>1, <2>2 DEF TypeOK, links
<1> QED
    BY <1>1, <1>2, <1>5, <1>6, <1>8, <1>9, CalmStep

LEMMA LockPairStep ==
    ASSUME IInv, NEW s \in Threads, LockPair(s)
    PROVE  IInv'
<1>1. /\ s \in Swappers /\ s \notin Traversers /\ pc[s] = "lock" /\ todo[s] = 0
      /\ CanLock(s, b[s]) /\ LockAndRelease(s, b[s], {})
      /\ UNCHANGED <<links, prev, a, b, todo, passed>>
      /\ TypeOK /\ SwappersAlone /\ Place(s)
    BY PlaceOf, SharedListAssumption DEF LockPair, IInv
<1>2. /\ pc'[s] \in {"link_prev", "release"} /\ \A t \in Threads \ {s} : Locals(t)
    BY <1>1 DEF LockPair, TypeOK, Move, Locals
<1>3. /\ a[s] \in Nodes /\ b[s] \in Items /\ b[s] \in Nodes /\ Successor[a[s]] = b[s]
      /\ prev[s] # NoNode /\ prev[s] \in Nodes /\ Successor[prev[s]] = a[s]
      /\ a[s] # NoNode /\ b[s] # NoNode
    BY <1>1, Neighbours DEF Place, InPlace, WalkSoFar, TypeOK
<1>4. /\ held' \in [Nodes -> SUBSET Threads] /\ SwappersAlone'
      /\ \A t \in Threads \ {s} : \A m \in Nodes : t \in held'[m] <=> t \in held[m]
      /\ \A m \in Nodes : s \in held'[m] <=> m = b[s] \/ (m \notin {} /\ s \in held[m])
    BY <1>1, <1>3, LockTaken
<1>5. Owned(s) = {prev[s], a[s]} /\ Owned(s)' = {prev[s], a[s], b[s]}
    BY <1>1, <1>2, <1>3 DEF Owned
<1>6. \A m \in Nodes : s \in held'[m] <=> m \in Owned(s)'
    BY <1>4, <1>5 DEF IInv, HeldIsOwned
<1>7. Position' = Position /\ Successor' = Successor
    BY <1>1, OrderStays DEF links
<1>8. next[a[s]] = b[s] /\ next[b[s]] = Successor[b[s]]
    <2>1. pc[s] \notin Links
        BY <1>1 DEF Links
    <2>2. next[a[s]] = Successor[a[s]]
        BY <1>3, <1>5, <2>1, NextIsSuccessor
    <2>3. held[b[s]] = {}
        BY <1>1 DEF CanLock
    <2>4. ~Linking(b[s])
        BY <1>3, <2>3, LinkingOwned DEF IInv, HeldIsOwned
    <2> QED
        BY <1>3, <2>2, <2>4 DEF IInv, ListIsOrder
<1>9. Place(s)' /\ pc[s] \notin Links
    <2>1. pc[s] \notin Links /\ InPlace(s)'
        BY <1>1, <1>3, <1>7 DEF InPlace, Links
    <2>2. WalkSoFar(s)'
        BY <1>1, <1>2, <1>3, <1>7 DEF WalkSoFar, Links
    <2>3. next' = next
        BY <1>1 DEF links
    <2>4. HalfLinked(s)'
        BY <1>1, <1>2, <1>7, <1>8, <2>3 DEF HalfLinked, Links
    <2> QED
        BY <1>1, <2>1, <2>2, <2>4 DEF Place
<1>10. TypeOK'
    <2>1. pc' \in [Threads -> Points]
        BY <1>1 DEF LockPair, TypeOK, Move, Points
    <2> QED
        BY <1>1, <1>4, <2>1 DEF TypeOK, links
<1> QED
    BY <1>1, <1>2, <1>4, <1>6, <1>9, <1>10, CalmStep

----------------------------------------------------------------------------
(* Steps of an exchange                                                    *)

\* Outside the nodes s holds the list stays as it is.
Outside(s) ==
    \A n \in Nodes \ Owned(s) :
        /\ next'[n] = next[n]
        /\ Position'[n] = Position[n] /\ Successor'[n] = Successor[n]
        /\ {order'[i] : i \in 1 .. Position[n]} = {order[i] : i \in 1 .. Position[n]}

LEMMA OutsideSpares ==
    ASSUME IInv, NEW s \in Swappers, NEW t \in Threads, t # s, Locals(t), Outside(s)
    PROVE  Spared(t)
<1>1. Place(t) /\ NoNode \notin Nodes
    BY PlaceOf, Neighbours
<1>2. \A n \in Nodes : n \in Owned(t) => n \notin Owned(s)
    BY Disjoint
<1>3. ASSUME NEW n \in Nodes, n \in Owned(t)
      PROVE  /\ next'[n] = next[n]
             /\ Position'[n] = Position[n] /\ Successor'[n] = Successor[n]
             /\ {order'[i] : i \in 1 .. Position[n]} = {order[i] : i \in 1 .. Position[n]}
    BY <1>2, <1>3 DEF Outside
<1>4. pc[t] # "start" => a[t] \in Nodes /\ a[t] \in Owned(t)
    BY <1>1 DEF Place, InPlace, Owned
<1>5. ASSUME t \in Swappers, pc[t] \in {"read", "lock"} \cup Links, prev[t] # NoNode
      PROVE  Successor'[prev[t]] = Successor[prev[t]]
    <2>1. prev[t] \in Nodes
        BY <1>5 DEF IInv, TypeOK
    <2>2. t \notin Traversers
        BY <1>5, SharedListAssumption
    <2>3. prev[t] \in Owned(t)
        BY <1>5, <2>2 DEF Owned, Links
    <2> QED
        BY <1>3, <2>1, <2>3
<1>6. ASSUME pc[t] \in Links
      PROVE  /\ Successor'[b[t]] = Successor[b[t]]
             /\ \A n \in {prev[t], a[t], b[t]} : next'[n] = next[n]
    <2>1. /\ prev[t] \in Nodes /\ a[t] \in Nodes /\ b[t] \in Nodes
          /\ Owned(t) = {prev[t], a[t], b[t]}
        BY <1>6, LinkNodes, Neighbours
    <2> QED
        BY <1>3, <2>1
<1> QED
    BY <1>3, <1>4, <1>5, <1>6 DEF Spared

LEMMA LinkStep ==
    ASSUME IInv, NEW s \in Threads, pc[s] \in Links,
           UNCHANGED <<held, prev, a, b>>, \A t \in Threads \ {s} : Locals(t),
           Outside(s), TypeOK', Permutation', Place(s)',
           pc'[s] \in Links \cup {"release"},
           pc'[s] = "release" => \A n \in Owned(s) : next'[n] = Successor'[n]
    PROVE  IInv'
<1>1. /\ s \in Swappers /\ s \notin Traversers
      /\ Owned(s) = {prev[s], a[s], b[s]} /\ prev[s] # NoNode /\ a[s] # NoNode /\ b[s] # NoNode
      /\ prev[s] \in Nodes /\ a[s] \in Nodes /\ b[s] \in Nodes
    BY LinkNodes, Neighbours
<1>2. Owned(s)' = Owned(s)
    BY <1>1 DEF Owned, Links
<1>3. HeldIsOwned'
    <2> SUFFICES ASSUME NEW t \in Threads, NEW m \in Nodes
                 PROVE  t \in held'[m] <=> m \in Owned(t)'
        BY DEF HeldIsOwned
    <2>1. Owned(t)' = Owned(t)
        BY <1>2, OwnedStays
    <2> QED
        BY <2>1 DEF IInv, HeldIsOwned
<1>4. SwappersAlone'
    BY DEF IInv, SwappersAlone
<1>5. ListIsOrder'
    <2> SUFFICES ASSUME NEW n \in Nodes, ~Linking(n)'
                 PROVE  next'[n] = Successor'[n]
        BY DEF ListIsOrder
    <2>1. CASE n \in Owned(s)
        <3>1. pc'[s] \notin Links
            BY <1>1, <2>1 DEF Linking, Links
        <3> QED
            BY <2>1, <3>1
    <2>2. CASE n \notin Owned(s)
        <3>1. ~Linking(n)
            <4> SUFFICES ASSUME NEW t \in Swappers, pc[t] \in Links,
                                n \in {prev[t], a[t], b[t]}
                         PROVE  FALSE
                BY DEF Linking, Links
            <4>1. t # s /\ t \in Threads
                BY <1>1, <2>2 DEF Threads
            <4>2. pc'[t] \in Links /\ n \in {prev'[t], a'[t], b'[t]}
                BY <4>1 DEF Locals
            <4> QED
                BY <4>2 DEF Linking, Links
        <3> QED
            BY <2>2, <3>1 DEF Outside, IInv, ListIsOrder
    <2> QED
        BY <2>1, <2>2
<1>6. \A t \in Threads : Place(t)'
    <2> SUFFICES ASSUME NEW t \in Threads, t # s PROVE Place(t)'
        OBVIOUS
    <2> QED
        BY <1>1, PlaceOf, OutsideSpares, SparedKeeps
<1> QED
    BY <1>3, <1>4, <1>5, <1>6 DEF IInv, Place, Threads

LEMMA LinkPrevStep ==
    ASSUME IInv, NEW s \in Threads, LinkPrev(s)
    PROVE  IInv'
<1>1. /\ pc[s] = "link_prev" /\ pc[s] \in Links /\ TypeOK /\ Permutation
      /\ SetNext(prev[s], b[s])
      /\ UNCHANGED <<length, order, held, prev, a, b, todo, passed>>
    BY DEF LinkPrev, IInv, Links
<1>2. pc'[s] = "link_a" /\ \A t \in Threads \ {s} : Locals(t)
    BY <1>1 DEF LinkPrev, TypeOK, Move, Locals
<1>3. /\ s \in Swappers /\ s \notin Traversers
      /\ prev[s] \in Nodes /\ a[s] \in Nodes /\ b[s] \in Items /\ b[s] \in Nodes
      /\ prev[s] # NoNode /\ prev[s] # b[s]
      /\ Successor[prev[s]] = a[s] /\ Successor[a[s]] = b[s]
      /\ Owned(s) = {prev[s], a[s], b[s]}
    BY <1>1, LinkNodes, Neighbours
<1>4. next'[prev[s]] = b[s] /\ \A n \in Nodes : n # prev[s] => next'[n] = next[n]
    BY <1>1, <1>3 DEF SetNext, TypeOK
<1>5. Position' = Position /\ Successor' = Successor
    BY <1>1, OrderStays
<1>6. Outside(s)
    BY <1>1, <1>3, <1>4, <1>5 DEF Outside
<1>7. TypeOK'
    <2>1. next' \in [Nodes -> Items \cup {NoNode}] /\ pc' \in [Threads -> Points]
        BY <1>1, <1>3 DEF LinkPrev, TypeOK, SetNext, Move, Points
    <2> QED
        BY <1>1, <2>1 DEF TypeOK
<1>8. Permutation'
    BY <1>1 DEF Permutation
<1>9. Place(s)'
    <2>1. InPlace(s)' /\ WalkSoFar(s)'
        BY <1>1, <1>2, <1>3, <1>5 DEF InPlace, WalkSoFar, Links
    <2>2. next[b[s]] = Successor[b[s]]
        BY <1>1, <1>3, PlaceOf DEF Place, HalfLinked
    <2>3. HalfLinked(s)'
        BY <1>1, <1>2, <1>3, <1>4, <1>5, <2>2 DEF HalfLinked, Links
    <2> QED
        BY <1>3, <2>1, <2>3 DEF Place
<1>10. pc'[s] \in Links /\ pc'[s] # "release"
    BY <1>2 DEF Links
<1> QED
    BY <1>1, <1>2, <1>6, <1>7, <1>8, <1>9, <1>10, LinkStep

LEMMA LinkAStep ==
    ASSUME IInv, NEW s \in Threads, LinkA(s)
    PROVE  IInv'
<1>1. /\ pc[s] = "link_a" /\ pc[s] \in Links /\ TypeOK /\ Permutation
      /\ SetNext(a[s], next[b[s]])
      /\ UNCHANGED <<length, order, held, prev, a, b, todo, passed>>
    BY DEF LinkA, IInv, Links
<1>2. pc'[s] = "link_b" /\ \A t \in Threads \ {s} : Locals(t)
    BY <1>1 DEF LinkA, TypeOK, Move, Locals
<1>3. /\ s \in Swappers /\ s \notin Traversers
      /\ prev[s] \in Nodes /\ a[s] \in Nodes /\ b[s] \in Items /\ b[s] \in Nodes
      /\ prev[s] # NoNode /\ prev[s] # a[s] /\ a[s] # b[s]
      /\ Successor[prev[s]] = a[s] /\ Successor[a[s]] = b[s]
      /\ Owned(s) = {prev[s], a[s], b[s]}
    BY <1>1, LinkNodes, Neighbours
<1>4. next'[a[s]] = next[b[s]] /\ \A n \in Nodes : n # a[s] => next'[n] = next[n]
    BY <1>1, <1>3 DEF SetNext, TypeOK
<1>5. Position' = Position /\ Successor' = Successor
    BY <1>1, OrderStays
<1>6. Outside(s)
    BY <1>1, <1>3, <1>4, <1>5 DEF Outside
<1>7. TypeOK'
    <2>1. next' \in [Nodes -> Items \cup {NoNode}] /\ pc' \in [Threads -> Points]
        BY <1>1, <1>3 DEF LinkA, TypeOK, SetNext, Move, Points
    <2> QED
        BY <1>1, <2>1 DEF TypeOK
<1>8. Permutation'
    BY <1>1 DEF Permutation
<1>9. Place(s)'
    <2>1. InPlace(s)' /\ WalkSoFar(s)'
        BY <1>1, <1>2, <1>3, <1>5 DEF InPlace, WalkSoFar, Links
    <2>2. next[b[s]] = Successor[b[s]] /\ next[prev[s]] = b[s]
        BY <1>1, <1>3, PlaceOf DEF Place, HalfLinked
    <2>3. HalfLinked(s)'
        BY <1>1, <1>2, <1>3, <1>4, <1>5, <2>2 DEF HalfLinked, Links
    <2> QED
        BY <1>3, <2>1, <2>3 DEF Place
<1>10. pc'[s] \in Links /\ pc'[s] # "release"
    BY <1>2 DEF Links
<1> QED
    BY <1>1, <1>2, <1>6, <1>7, <1>8, <1>9, <1>10, LinkStep

LEMMA LinkBStep ==
    ASSUME IInv, NEW s \in Threads, LinkB(s)
    PROVE  IInv'
<1>1. /\ pc[s] = "link_b" /\ pc[s] \in Links /\ TypeOK /\ Permutation
      /\ SetNext(b[s], a[s])
      /\ UNCHANGED <<length, held, prev, a, b, todo, passed>>
    BY DEF LinkB, IInv, Links
<1>2. pc'[s] = "release" /\ \A t \in Threads \ {s} : Locals(t)
    BY <1>1 DEF LinkB, TypeOK, Move, Locals
<1>3. /\ s \in Swappers /\ s \notin Traversers
      /\ prev[s] \in Nodes /\ a[s] \in Items /\ b[s] \in Items
      /\ a[s] \in Nodes /\ b[s] \in Nodes
      /\ prev[s] # a[s] /\ prev[s] # b[s] /\ a[s] # b[s]
      /\ Successor[prev[s]] = a[s] /\ Successor[a[s]] = b[s]
      /\ Owned(s) = {prev[s], a[s], b[s]}
    BY <1>1, LinkNodes, Neighbours
<1>4. next'[b[s]] = a[s] /\ \A n \in Nodes : n # b[s] => next'[n] = next[n]
    BY <1>1, <1>3 DEF SetNext, TypeOK
<1>5. Numbers(order, Position, Successor) /\ Numbered(order, Position, Successor)
    BY <1>1, OrderNumbers, NumbersFacts
<1>6. Exchanged(order, Position, Successor, order', Position', Successor', a[s], b[s])
    <2>1. Swaps(order, Position, order', a[s], b[s])
        BY DEF LinkB, Swaps
    <2>2. Numbering(order', Position', Successor')
        BY DEF Numbering, Position, Successor
    <2> QED
        BY <1>3, <1>5, <2>1, <2>2, ExchangeFacts
<1>7. ASSUME NEW n \in Nodes, n \notin {prev[s], a[s], b[s]}
      PROVE  /\ Position'[n] = Position[n] /\ Successor'[n] = Successor[n]
             /\ {order'[i] : i \in 1 .. Position[n]} = {order[i] : i \in 1 .. Position[n]}
    <2>1. Successor[n] # a[s]
        BY <1>3, <1>5, <1>7, Neighbours DEF Numbered
    <2>2. Position[n] \in 0 .. Count /\ Position[n] # Position[a[s]]
        BY <1>3, <1>5, <1>7 DEF Numbered
    <2>3. Position'[n] = Position[n] /\ Successor'[n] = Successor[n]
        BY <1>6, <1>7, <2>1 DEF Exchanged
    <2>4. {order'[i] : i \in 1 .. Position[n]} = {order[i] : i \in 1 .. Position[n]}
        BY <1>6, <2>2 DEF Exchanged
    <2> QED
        BY <2>3, <2>4
<1>8. Outside(s)
    BY <1>3, <1>4, <1>7 DEF Outside
<1>9. \A n \in Owned(s) : next'[n] = Successor'[n]
    <2>1. next[a[s]] = Successor[b[s]] /\ next[prev[s]] = b[s]
        BY <1>1, <1>3, PlaceOf DEF Place, HalfLinked
    <2>2. /\ Successor'[b[s]] = a[s] /\ Successor'[a[s]] = Successor[b[s]]
          /\ Successor'[prev[s]] = b[s]
        BY <1>3, <1>6 DEF Exchanged
    <2> QED
        BY <1>3, <1>4, <2>1, <2>2
<1>10. order' \in [1 .. Count -> Items] /\ Permutation'
    BY <1>6 DEF Exchanged, Numbers, Listing, Permutation
<1>11. TypeOK'
    <2>1. next' \in [Nodes -> Items \cup {NoNode}] /\ pc' \in [Threads -> Points]
        BY <1>1, <1>3 DEF LinkB, TypeOK, SetNext, Move, Points
    <2> QED
        BY <1>1, <1>10, <2>1 DEF TypeOK
<1>12. Place(s)'
    BY <1>1, <1>2, <1>3 DEF Place, InPlace, WalkSoFar, HalfLinked, Links
<1> QED
    BY <1>1, <1>2, <1>8, <1>9, <1>10, <1>11, <1>12, LinkStep

----------------------------------------------------------------------------
(* The invariant                                                           *)

LEMMA Starts == Init => IInv
<1> SUFFICES ASSUME Init PROVE IInv
    OBVIOUS
<1>1. order \in [1 .. Count -> Items] /\ Permutation
    BY DEF Init, Permutation
<1>2. Numbered(order, Position, Successor)
    <2>1. Numbers(order, Position, Successor)
        BY <1>1 DEF Permutation, Numbers, Listing, Numbering, Position, Successor
    <2> QED
        BY <2>1, NumbersFacts
<1>3. TypeOK
    <2>1. Successor \in [Nodes -> Items \cup {NoNode}]
        <3>1. \A n \in Nodes : Successor[n] \in Items \cup {NoNode}
            BY <1>2 DEF Numbered
        <3> QED
            BY <3>1 DEF Successor
    <2>2. 0 \in 0 .. Count - 1
        BY CountType
    <2>3. <<>> \in Seq(Items)
        OBVIOUS
    <2> QED
        BY <1>1, <2>1, <2>2, <2>3 DEF Init, TypeOK, Points
<1>4. HeldIsOwned /\ SwappersAlone
    BY DEF Init, HeldIsOwned, SwappersAlone, Owned, Threads
<1>5. ListIsOrder
    BY DEF Init, ListIsOrder
<1>6. \A t \in Threads : InPlace(t) /\ PassSoFar(t) /\ WalkSoFar(t) /\ HalfLinked(t)
    BY DEF Init, InPlace, PassSoFar, WalkSoFar, HalfLinked, Links
<1> QED
    BY <1>1, <1>3, <1>4, <1>5, <1>6 DEF IInv, Threads

LEMMA Stutters ==
    ASSUME IInv, UNCHANGED vars
    PROVE  IInv'
<1>1. order' = order /\ Position' = Position /\ Successor' = Successor
    BY OrderStays DEF vars
<1>2. TypeOK' /\ Permutation'
    BY DEF vars, IInv, TypeOK, Permutation
<1>3. \A t \in Threads : Owned(t)' = Owned(t) /\ Locals(t)
    BY OwnedStays DEF vars, Locals
<1>4. HeldIsOwned' /\ SwappersAlone'
    BY <1>3 DEF vars, IInv, HeldIsOwned, SwappersAlone
<1>5. ListIsOrder'
    BY <1>1 DEF vars, IInv, ListIsOrder, Linking
<1>6. \A t \in Threads : Place(t)'
    BY <1>1, <1>3, PlaceOf, CalmSpares, SparedKeeps DEF vars
<1> QED
    BY <1>2, <1>4, <1>5, <1>6 DEF IInv, Place, Threads

\* Every node stays where the list has it, whichever links are being changed.
THEOREM Invariance == Spec => []IInv
<1>1. Init => IInv
    BY Starts
<1>2. IInv /\ [Next]_vars => IInv'
    <2> SUFFICES ASSUME IInv, [Next]_vars PROVE IInv'
        OBVIOUS
    <2>1. CASE UNCHANGED vars
        BY <2>1, Stutters
    <2>2. ASSUME NEW t \in Threads, Step(t)
          PROVE  IInv'
        BY <2>2, StartStep, ReadStep, ReleaseStep, AdvanceStep, WalkOnStep, LockPairStep,
           LinkPrevStep, LinkAStep, LinkBStep DEF Step
    <2> QED
        BY <2>1, <2>2 DEF Next
<1> QED
    BY <1>1, <1>2, PTL DEF Spec

----------------------------------------------------------------------------
(* What follows from it                                                    *)

\* Outside a running exchange the next fields are the list (threads.c:152-158).
THEOREM LinksCorrect == Spec => []ListIsOrder
<1>1. IInv => ListIsOrder
    BY DEF IInv
<1> QED
    BY <1>1, Invariance, PTL

\* do_random_swap always finds the two items it is to exchange.
THEOREM PairFound == Spec => []SwapFindsPair
<1>1. IInv => SwapFindsPair
    <2> SUFFICES ASSUME IInv, NEW t \in Swappers, pc[t] \in {"read", "lock"}
                 PROVE  Successor[a[t]] # NoNode
        BY DEF SwapFindsPair
    <2>1. a[t] \in Nodes /\ Position[a[t]] + todo[t] < Count /\ todo[t] \in Nat
        BY DEF IInv, InPlace, WalkSoFar, TypeOK, Threads
    <2>2. Position[a[t]] # Count
        BY <2>1, Neighbours
    <2> QED
        BY <2>1, <2>2, Neighbours
<1> QED
    BY <1>1, Invariance, PTL

\* A traversal counts every item once, however often the swappers exchange
\* nodes before and behind it.
THEOREM PassesComplete == Spec => []PassesSeeAll
<1>1. IInv => PassesSeeAll
    <2> SUFFICES ASSUME IInv, NEW t \in Traversers, pc[t] = "release"
                 PROVE  /\ Len(passed[t]) = Count
                        /\ {passed[t][i] : i \in DOMAIN passed[t]} = Items
        BY DEF PassesSeeAll
    <2>1. /\ Len(passed[t]) = Position[a[t]] /\ Position[a[t]] = Count
          /\ {passed[t][i] : i \in DOMAIN passed[t]} = {order[i] : i \in 1 .. Position[a[t]]}
        BY DEF IInv, PassSoFar
    <2>2. {order[i] : i \in 1 .. Count} = Items
        BY Neighbours DEF IInv, TypeOK
    <2> QED
        BY <2>1, <2>2
<1> QED
    BY <1>1, Invariance, PTL

\* Locks are taken in the order of the list as it is at that moment, so no
\* circle of waiting threads can close.
THEOREM LocksOrdered == Spec => []LocksInListOrder
<1>1. IInv => LocksInListOrder
    <2> SUFFICES ASSUME IInv, NEW t \in Threads, pc[t] \in {"start", "lock"},
                        NEW n \in Nodes, t \in held[n]
                 PROVE  Position[n] < Position[Wanted(t)]
        BY DEF LocksInListOrder
    <2>1. n \in Owned(t)
        BY DEF IInv, HeldIsOwned
    <2>2. pc[t] = "lock" /\ Wanted(t) = b[t]
        BY <2>1 DEF Owned, Wanted
    <2>3. /\ a[t] \in Nodes /\ b[t] \in Items /\ Successor[a[t]] = b[t]
          /\ Position[b[t]] = Position[a[t]] + 1 /\ Position[a[t]] \in Nat
        BY <2>2, PlaceOf, Neighbours DEF Place, InPlace
    <2>4. CASE n = a[t]
        BY <2>2, <2>3, <2>4
    <2>5. CASE n # a[t]
        <3>1. t \in Swappers /\ n = prev[t] /\ prev[t] # NoNode
            BY <2>1, <2>2, <2>5 DEF Owned, Threads
        <3>2. Successor[n] = a[t]
            BY <2>2, <3>1, PlaceOf DEF Place, WalkSoFar
        <3>3. Position[a[t]] = Position[n] + 1 /\ Position[n] \in Nat
            BY <2>3, <3>2, Neighbours
        <3> QED
            BY <2>2, <2>3, <3>3
    <2> QED
        BY <2>4, <2>5
<1> QED
    BY <1>1, Invariance, PTL
----------------------------------------------------------------------------
(* Nobody waits in a circle                                                *)

\* The order of the natural numbers, in which every set of them has a least.
Less == OpToRel(<, Nat)

LEMMA LessThan == \A m, n \in Nat : <<m, n>> \in Less <=> m < n
BY DEF Less, OpToRel

LEMMA LeastOf ==
    ASSUME NEW S \in SUBSET Nat, S # {}
    PROVE  \E m \in S : \A n \in S : ~(n < m)
<1>1. IsWellFoundedOn(Less, Nat)
    BY NatLessThanWellFounded DEF Less
<1>2. PICK m \in S : \A n \in S : ~(<<n, m>> \in Less)
    BY <1>1, WFMin
<1> QED
    BY <1>2, LessThan

\* A thread that is not kept from its next step by a lock.
Unblocked(t) == pc[t] \in {"start", "lock"} => CanLock(t, Wanted(t))

LEMMA WantedNode ==
    ASSUME IInv, NEW t \in Threads, pc[t] \in {"start", "lock"}
    PROVE  Wanted(t) \in Nodes /\ Position[Wanted(t)] \in Nat /\ Position[Wanted(t)] <= Count
<1>1. Wanted(t) \in Nodes
    BY Neighbours, PlaceOf DEF Wanted, Place, InPlace
<1> QED
    BY <1>1, Neighbours

\* Who waits for a node waits for a thread that is further on.
LEMMA HolderIsFurther ==
    ASSUME IInv, LocksInListOrder, NEW t \in Threads, ~Unblocked(t),
           \A u \in Threads : ~Unblocked(u)
    PROVE  \E u \in Threads : Position[Wanted(t)] < Position[Wanted(u)]
<1>1. pc[t] \in {"start", "lock"} /\ ~CanLock(t, Wanted(t))
    BY DEF Unblocked
<1>2. Wanted(t) \in Nodes /\ held[Wanted(t)] \in SUBSET Threads
    BY <1>1, WantedNode DEF IInv, TypeOK
<1>3. PICK u \in Threads : u \in held[Wanted(t)]
    BY <1>1, <1>2 DEF CanLock
<1>4. pc[u] \in {"start", "lock"}
    BY DEF Unblocked
<1> QED
    BY <1>2, <1>3, <1>4 DEF LocksInListOrder

\* The thread that waits for the node nearest to the end can have it: whatever
\* the kind of the locks and the exchanges that run, the list never comes to a
\* deadlock (2.3/mutex, 2.3/spinlock and 2.3/rw, threads.c:52-163).
THEOREM SomebodyIsUnblocked ==
    Spec => [](Threads # {} => \E t \in Threads : Unblocked(t))
<1>1. IInv /\ LocksInListOrder => (Threads # {} => \E t \in Threads : Unblocked(t))
    <2> SUFFICES ASSUME IInv, LocksInListOrder, Threads # {},
                        \A t \in Threads : ~Unblocked(t)
                 PROVE  FALSE
        OBVIOUS
    <2> DEFINE ToEnd == {n \in Nat : \E t \in Threads : n = Count - Position[Wanted(t)]}
    <2>1. \A t \in Threads : pc[t] \in {"start", "lock"}
        BY DEF Unblocked
    <2>2. \A t \in Threads : /\ Position[Wanted(t)] \in Nat
                             /\ Count - Position[Wanted(t)] \in Nat
        <3>1. Count \in Nat
            BY Neighbours
        <3> QED
            BY <2>1, <3>1, WantedNode
    <2>3. ToEnd # {} /\ ToEnd \in SUBSET Nat
        BY <2>2
    <2>4. PICK m \in ToEnd : \A n \in ToEnd : ~(n < m)
        <3> HIDE DEF ToEnd
        <3> QED
            BY <2>3, LeastOf
    <2>5. PICK t \in Threads : m = Count - Position[Wanted(t)]
        BY <2>4
    <2>6. PICK u \in Threads : Position[Wanted(t)] < Position[Wanted(u)]
        BY HolderIsFurther
    <2>7. Count - Position[Wanted(u)] \in ToEnd
        BY <2>2
    <2>8. Count - Position[Wanted(u)] < Count - Position[Wanted(t)]
        BY <2>2, <2>6, Neighbours
    <2> QED
        BY <2>4, <2>5, <2>7, <2>8
<1> QED
    BY <1>1, Invariance, LocksOrdered, PTL

----------------------------------------------------------------------------
(* What the exchanges do                                                   *)

\* A swapper that has begun to exchange still wants it.
WantsIt == \A s \in Threads :
    pc[s] \in Links => NeedSwap(s, length[a[s]], length[b[s]])

\* The order changes by exchanges of two neighbours that stood the wrong way
\* round for their swapper, and the exchange takes effect as one
\* (threads.c:149-158).
Exchanges ==
    order' # order =>
        \E s \in Swappers, i \in 1 .. Count - 1 :
            /\ NeedSwap(s, length[order[i]], length[order[i + 1]])
            /\ order' = [order EXCEPT ![i] = order[i + 1], ![i + 1] = order[i]]

LEMMA WantsStep ==
    ASSUME IInv, WantsIt, [Next]_vars
    PROVE  WantsIt'
<1> USE DEF WantsIt, IInv, TypeOK, Links, Move, links
<1>1. CASE UNCHANGED vars
    BY <1>1 DEF vars, NeedSwap
<1>2. ASSUME NEW t \in Threads, Start(t) \/ Read(t) \/ Release(t) \/ Advance(t) \/ WalkOn(t)
      PROVE  WantsIt'
    BY <1>2 DEF Start, Read, Release, Advance, WalkOn, NeedSwap
<1>3. ASSUME NEW t \in Threads, LockPair(t) \/ LinkPrev(t) \/ LinkA(t) \/ LinkB(t)
      PROVE  WantsIt'
    BY <1>3 DEF LockPair, LinkPrev, LinkA, LinkB, NeedSwap
<1> QED
    BY <1>1, <1>2, <1>3 DEF Next, Step

\* A swap of threads.c:152-158 is an exchange of two neighbours that need it,
\* whatever the other swappers have done since the lengths were compared.
THEOREM OnlyNeededExchanges == Spec => [][Exchanges]_vars
<1>1. Init => WantsIt
    BY DEF Init, WantsIt, Links
<1>2. IInv /\ WantsIt /\ [Next]_vars => Exchanges
    <2> SUFFICES ASSUME IInv, WantsIt, [Next]_vars, order' # order
                 PROVE  \E s \in Swappers, i \in 1 .. Count - 1 :
                            /\ NeedSwap(s, length[order[i]], length[order[i + 1]])
                            /\ order' = [order EXCEPT ![i] = order[i + 1], ![i + 1] = order[i]]
        BY DEF Exchanges
    <2>1. PICK s \in Threads : LinkB(s)
        BY DEF Next, Step, vars, links, Start, Read, Release, Advance, WalkOn, LockPair,
           LinkPrev, LinkA
    <2>2. pc[s] \in Links
        BY <2>1 DEF LinkB, Links
    <2>3. /\ s \in Swappers /\ a[s] \in Items /\ b[s] \in Items
          /\ Successor[a[s]] = b[s]
        BY <2>2, LinkNodes
    <2>4. PICK i \in Nat : i = Position[a[s]]
        BY <2>3, Neighbours
    <2>5. /\ i \in 1 .. Count - 1 /\ Position[b[s]] = i + 1
          /\ order[i] = a[s] /\ order[i + 1] = b[s]
        BY <2>3, <2>4, Neighbours
    <2>6. order' = [order EXCEPT ![i] = order[i + 1], ![i + 1] = order[i]]
        BY <2>1, <2>4, <2>5 DEF LinkB
    <2>7. NeedSwap(s, length[order[i]], length[order[i + 1]])
        BY <2>2, <2>5 DEF WantsIt
    <2> QED
        BY <2>3, <2>5, <2>6, <2>7
<1>3. IInv /\ WantsIt /\ [Next]_vars => WantsIt'
    BY WantsStep
<1> QED
    BY <1>1, <1>2, <1>3, Invariance, PTL DEF Spec
=============================================================================
