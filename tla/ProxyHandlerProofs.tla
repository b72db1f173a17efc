------------------------- MODULE ProxyHandlerProofs -------------------------
(* Theorems about ProxyHandler, for every number of workers and any        *)
(* messages, keys and addresses.                                           *)
EXTENDS ProxyHandler, RequestParsingProofs, TLAPS

USE HandlerAssumption

\* The cache again, with its theorems.
P == INSTANCE CacheProofs WITH Users <- Workers

----------------------------------------------------------------------------
(* handle_client keeps to the protocol of the cache.                       *)

\* One step of a worker in the cache.
CacheStep(w) ==
    \/ C!Join(w) \/ C!WriterStep(w) \/ C!ReaderStep(w) \/ C!SpuriousWakeup(w)
    \/ C!ReleaseStep(w)

\* Up to the lookup, and the lookup itself.
LEMMA LookupSteps ==
    ASSUME NEW w \in Workers
    PROVE  /\ Accept(w) \/ Reject(w) => UNCHANGED cacheVars
           /\ \A q \in Requests :
                JoinAsReader(w, q) \/ JoinAsWriter(w, q) \/ JoinFails(w, q) => C!Join(w)
<1>1. Accept(w) \/ Reject(w) => UNCHANGED cacheVars
    BY DEF Accept, Reject
<1>2. \A q \in Requests : KeyOf(q) \in Keys
    BY DEF Keys
<1>3. ASSUME NEW q \in Requests,
             JoinAsReader(w, q) \/ JoinAsWriter(w, q) \/ JoinFails(w, q)
      PROVE  C!Join(w)
    BY <1>2, <1>3 DEF JoinAsReader, JoinAsWriter, JoinFails, C!Join
<1> QED
    BY <1>1, <1>3

\* A reader makes the steps of stream_from_cache.
LEMMA ReaderSteps ==
    ASSUME NEW w \in Workers
    PROVE  /\ Stream(w) \/ StreamSent(w) \/ StreamSendFails(w) => C!ReaderStep(w)
           /\ StreamSpurious(w) => C!SpuriousWakeup(w)
BY DEF Stream, StreamSent, StreamSendFails, StreamSpurious, C!ReaderStep

\* The calls of connect_to_origin, send_all and recv are none of the cache's
\* business.
LEMMA OriginSteps ==
    ASSUME NEW w \in Workers
    PROVE  \/ Resolve(w) \/ Connect(w) \/ ConnectFails(w)
           \/ SendRequest(w) \/ Forward(w) \/ ForwardFails(w)
           => UNCHANGED cacheVars
BY DEF Resolve, Connect, ConnectFails, SendRequest, Forward, ForwardFails

\* Every path of the writer appends, and ends with one verdict.
LEMMA WriterSteps ==
    ASSUME NEW w \in Workers
    PROVE  \/ BadGateway(w) \/ RequestFails(w) \/ Abort(w)
           \/ RecvEnd(w) \/ RecvReset(w) \/ RecvFails(w)
           \/ \E n \in 1..MaxAppend : RecvData(w, n) \/ RecvNoMemory(w, n)
           => C!WriterStep(w)
<1>1. \/ BadGateway(w) \/ RequestFails(w) \/ Abort(w)
      \/ RecvEnd(w) \/ RecvReset(w) \/ RecvFails(w)
      => C!MarkComplete(w) \/ C!MarkFailed(w)
    BY DEF BadGateway, RequestFails, Abort, RecvEnd, RecvReset, RecvFails, GiveUp,
       Seal, Fail
<1>2. \A n \in 1..MaxAppend :
        RecvData(w, n) \/ RecvNoMemory(w, n) => C!Append(w, n) \/ C!AppendFails(w, n)
    BY DEF RecvData, RecvNoMemory
<1> QED
    BY <1>1, <1>2 DEF C!WriterStep

LEMMA ReleaseSteps ==
    /\ \A w \in Workers : Release(w) => C!ReleaseStep(w)
    /\ Shutdown => C!TableDestroy \/ C!Closed
BY DEF Release, Shutdown, C!ReleaseStep

LEMMA WorkerSteps ==
    ASSUME NEW w \in Workers, Accept(w) \/ Handle(w) \/ StreamSpurious(w)
    PROVE  CacheStep(w) \/ UNCHANGED cacheVars
BY LookupSteps, ReaderSteps, OriginSteps, WriterSteps, ReleaseSteps
DEF Handle, CacheStep

\* Whatever handle_client does is a step of the cache's protocol or none.
LEMMA StepSimulates == [Next]_vars => [C!Next]_(C!vars)
<1> SUFFICES ASSUME [Next]_vars
             PROVE  C!Next \/ UNCHANGED C!vars
    OBVIOUS
<1>1. UNCHANGED cacheVars => UNCHANGED C!vars
    BY DEF cacheVars, C!vars
<1>2. ASSUME NEW w \in Workers, CacheStep(w)
      PROVE  C!Next
    BY <1>2 DEF C!Next, CacheStep
<1>3. ASSUME NEW w \in Workers, Accept(w) \/ Handle(w) \/ StreamSpurious(w)
      PROVE  C!Next \/ UNCHANGED C!vars
    BY <1>1, <1>2, <1>3, WorkerSteps
<1>4. CASE Shutdown
    BY <1>4, ReleaseSteps DEF C!Next
<1>5. CASE UNCHANGED vars
    BY <1>1, <1>5 DEF vars
<1> QED
    BY <1>3, <1>4, <1>5 DEF Next

\* The proxy steps its cache as Cache says: the actions of the handler are written
\* with those of C, and leave the variables of the cache alone otherwise.
LEMMA ProtocolKept == Spec => C!Spec
<1>1. Init => C!Init
    BY DEF Init
<1> QED
    BY <1>1, StepSimulates, PTL DEF Spec, C!Spec

----------------------------------------------------------------------------
(* C and P are one module: what is proved of P holds of C.                 *)

LEMMA SameStep == ASSUME NEW w PROVE CacheStep(w) <=> P!UserStep(w)
BY DEF CacheStep, P!UserStep,
    C!Blank, C!Fresh, C!Freed, C!Lookup, C!Droppable, C!CountRef, C!Hit, C!Miss,
    C!MissNoMemory, C!Join, C!MoveAndBroadcast, C!Grown, C!Append, C!AppendFails,
    C!MarkComplete, C!MarkFailed, C!Writing, C!WriterStep, C!Unread, C!StreamWait,
    C!SpuriousWakeup, C!StreamEnd, C!Chunk, C!StreamChunk, C!SendChunk, C!SendFails,
    C!ReaderStep, C!Left, C!Keeps, C!ReleaseShared, C!ReleaseKeep, C!ReleaseUnlink,
    C!Forget, C!ReleaseLogged, C!ReleaseDestroy, C!ReleaseStep, P!Blank, P!Fresh,
    P!Freed, P!Lookup, P!Droppable, P!CountRef, P!Hit, P!Miss, P!MissNoMemory, P!Join,
    P!MoveAndBroadcast, P!Grown, P!Append, P!AppendFails, P!MarkComplete,
    P!MarkFailed, P!Writing, P!WriterStep, P!Unread, P!StreamWait, P!SpuriousWakeup,
    P!StreamEnd, P!Chunk, P!StreamChunk, P!SendChunk, P!SendFails, P!ReaderStep,
    P!Left, P!Keeps, P!ReleaseShared, P!ReleaseKeep, P!ReleaseUnlink, P!Forget,
    P!ReleaseLogged, P!ReleaseDestroy, P!ReleaseStep

LEMMA SameSpec ==
    /\ C!Init <=> P!Init
    /\ C!Next <=> P!Next
<1>1. C!Init <=> P!Init
    BY DEF C!Init, P!Init, C!Blank, P!Blank
<1>2. C!Next <=> P!Next
    <2>1. C!Next <=> (\E w \in Workers : CacheStep(w)) \/ C!TableDestroy \/ C!Closed
        BY DEF C!Next, CacheStep
    <2>2. P!Next <=> (\E w \in Workers : P!UserStep(w)) \/ P!TableDestroy \/ P!Closed
        BY DEF P!Next, P!UserStep
    <2>3. C!TableDestroy <=> P!TableDestroy
        BY DEF C!TableDestroy, P!TableDestroy, C!Freed, P!Freed, C!Blank, P!Blank
    <2>4. C!Closed <=> P!Closed
        BY DEF C!Closed, P!Closed, C!vars, P!vars
    <2> QED
        BY <2>1, <2>2, <2>3, <2>4, SameStep
<1> QED
    BY <1>1, <1>2

LEMMA WorkersFinite == P!IsFiniteSet(Workers)
BY DEF IsFiniteSet, P!IsFiniteSet

\* The proxy runs the cache that CacheProofs is about.
LEMMA RunsCache == Spec => P!Spec
<1>1. [C!Next]_(C!vars) <=> [P!Next]_(P!vars)
    <2>1. UNCHANGED C!vars <=> UNCHANGED P!vars
        BY DEF C!vars, P!vars
    <2> QED
        BY <2>1, SameSpec
<1>2. C!Init <=> P!Init
    BY SameSpec
<1> QED
    BY <1>1, <1>2, ProtocolKept, PTL DEF C!Spec, P!Spec

\* The inductive invariant of the cache holds in the proxy.
LEMMA CacheSound == Spec => []P!IInv
<1>1. P!Spec => []P!IInv
    BY WorkersFinite, P!Invariance
<1> QED
    BY <1>1, RunsCache, PTL

\* What the cache guarantees to users that keep to its protocol it guarantees
\* to the handlers, whatever clients and origins do: no worker touches a freed
\* entry or copies beyond a buffer, two workers never fetch for one key, every
\* reader that sleeps has a worker that will wake it, and each worker counts.
THEOREM CacheServesProxy ==
    Spec => /\ [](P!NoUseAfterFree /\ P!CopiesInBounds)
            /\ [](P!OneFetchPerKey /\ P!NoOrphanedWaiter)
            /\ [](P!RefcntExact /\ P!NoLeak)
            /\ P!SealedContent
<1>1. P!Spec => []P!NoUseAfterFree /\ []P!CopiesInBounds
    BY WorkersFinite, P!MemorySafe, P!CopiesSafe
<1>2. P!Spec => []P!OneFetchPerKey /\ []P!NoOrphanedWaiter
    BY WorkersFinite, P!FetchOnce, P!NoLostWakeup
<1>3. P!Spec => []P!RefcntExact /\ []P!NoLeak
    BY WorkersFinite, P!RefcntCorrect, P!LeakFree
<1>4. P!Spec => P!SealedContent
    BY WorkersFinite, P!Sealed
<1> QED
    BY <1>1, <1>2, <1>3, <1>4, RunsCache, PTL

\* The handlers together are a store of responses: per key one is fetched by one
\* of them, shared, settled once, and fetched anew only after it failed.
THEOREM ProxyStoresResponses == Spec => P!StoresResponses
<1>1. P!Spec => P!StoresResponses
    BY WorkersFinite, P!ImplementsStore
<1> QED
    BY <1>1, RunsCache, PTL

----------------------------------------------------------------------------
(* What the others leave of a worker.                                      *)

\* The types of the cache, and what its invariant says of a worker in it.
LEMMA CacheTypes ==
    ASSUME P!IInv
    PROVE  /\ entry \in [Entries -> C!EntryFields]
           /\ at \in [Workers -> C!Points]
           /\ ref \in [Workers -> Entries \cup {NoEntry}]
           /\ offset \in [Workers -> Nat]
           /\ linked \in SUBSET Entries
BY DEF P!IInv, P!TypeOK, C!EntryFields, P!EntryFields, C!Points, P!Points,
   C!Holding, P!Holding, C!Writing, P!Writing, C!Reading, P!Reading, C!Leaving, P!Leaving

LEMMA Held ==
    ASSUME P!IInv, NEW w \in Workers, at[w] \in C!Holding
    PROVE  /\ ref[w] \in linked
           /\ ~(entry[ref[w]].complete /\ entry[ref[w]].failed)
<1>1. at[w] \in P!Holding
    BY DEF C!Holding, P!Holding, C!Writing, P!Writing, C!Reading, P!Reading
<1> QED
    BY <1>1 DEF P!IInv, P!Consistent, P!RefsLinked, P!OneVerdict

\* An entry is held, and no reader is ahead of it.
LEMMA ReaderBehind ==
    ASSUME P!IInv, NEW w \in Workers, at[w] \in C!Reading
    PROVE  /\ entry[ref[w]].size \in Nat /\ offset[w] \in Nat
           /\ offset[w] <= entry[ref[w]].size
<1>1. at[w] \in P!Reading
    BY DEF C!Reading, P!Reading
<1>2. offset[w] <= entry[ref[w]].size
    BY <1>1 DEF P!IInv, P!Consistent, P!CopiesInBounds
<1>3. ref[w] \in Entries
    BY Held, CacheTypes DEF C!Holding, C!Reading
<1> QED
    BY <1>2, <1>3, CacheTypes DEF C!EntryFields

----------------------------------------------------------------------------
(* The blocks of a response.                                               *)

LEMMA FirstBlocks ==
    ASSUME NEW n \in Nat
    PROVE  /\ Blocks(0, n) \in Seq(Nat)
           /\ Len(Blocks(0, n)) = n
           /\ \A i \in 1 .. n : Blocks(0, n)[i] = i
BY DEF Blocks

LEMMA NextBlocks ==
    ASSUME NEW m \in Nat, NEW n \in Nat
    PROVE  /\ Blocks(m, m + n) \in Seq(Nat)
           /\ Len(Blocks(m, m + n)) = n
           /\ \A i \in 1 .. n : Blocks(m, m + n)[i] = m + i
<1>1. m + n \in Nat /\ m <= m + n /\ m + n - m = n
    OBVIOUS
<1> QED
    BY <1>1 DEF Blocks

\* Nothing is the beginning of every response.
LEMMA NoBlocks == <<>> = Blocks(0, 0) /\ Len(<<>>) = 0 /\ <<>> \in Seq(Nat)
<1>1. Blocks(0, 0) \in Seq(Nat) /\ Len(Blocks(0, 0)) = 0
    BY FirstBlocks
<1>2. <<>> \in Seq(Nat) /\ Len(<<>>) = 0
    OBVIOUS
<1> QED
    BY <1>1, <1>2, SeqEqual

\* The next piece, put behind what was sent so far, continues it.
LEMMA NextPiece ==
    ASSUME NEW s, NEW m \in Nat, NEW n \in Nat, s = Blocks(0, m)
    PROVE  s \o Blocks(m, m + n) = Blocks(0, m + n)
<1>1. PICK t : t = Blocks(m, m + n)
    OBVIOUS
<1>2. PICK c : c = s \o t
    OBVIOUS
<1>3. PICK k : k = m + n
    OBVIOUS
<1>4. s \in Seq(Nat) /\ Len(s) = m /\ \A i \in 1 .. m : s[i] = i
    BY FirstBlocks
<1>5. t \in Seq(Nat) /\ Len(t) = n /\ \A i \in 1 .. n : t[i] = m + i
    BY <1>1, NextBlocks
<1>6. /\ c \in Seq(Nat) /\ Len(c) = k
      /\ \A i \in 1 .. k : c[i] = IF i <= m THEN s[i] ELSE t[i - m]
    BY <1>2, <1>3, <1>4, <1>5, ConcatProperties
<1>7. \A i \in 1 .. k : c[i] = i
    <2> SUFFICES ASSUME NEW i \in 1 .. k PROVE c[i] = i
        OBVIOUS
    <2>1. CASE i <= m
        <3>1. i \in 1 .. m
            BY <2>1
        <3> QED
            BY <1>4, <1>6, <2>1, <3>1
    <2>2. CASE i > m
        <3>1. PICK j : j = i - m
            OBVIOUS
        <3>2. j \in 1 .. n /\ m + j = i /\ ~(i <= m)
            BY <1>3, <2>2, <3>1
        <3>3. t[j] = m + j
            BY <1>5, <3>2
        <3>4. c[i] = t[j]
            BY <1>6, <3>1, <3>2
        <3> QED
            BY <3>2, <3>3, <3>4
    <2> QED
        BY <1>3, <2>1, <2>2
<1>8. k \in Nat
    BY <1>3
<1>9. PICK d : d = Blocks(0, k)
    OBVIOUS
<1>10. d \in Seq(Nat) /\ Len(d) = k /\ \A i \in 1 .. k : d[i] = i
    BY <1>8, <1>9, FirstBlocks
<1>11. c = d
    BY <1>6, <1>7, <1>10, SeqEqual
<1> QED
    BY <1>1, <1>2, <1>3, <1>9, <1>11

\* The blocks up to the k-th are k.
LEMMA BlocksSent ==
    ASSUME NEW s, NEW k \in Nat, s = Blocks(0, k)
    PROVE  Len(s) = k /\ s = Blocks(0, Len(s))
BY FirstBlocks

----------------------------------------------------------------------------
(* What the others leave of a worker's locals.                             *)

\* The locals of a worker are its own.
LEMMA LocalsAreOwn ==
    ASSUME LocalTypes, NEW w \in Workers, NEW v \in Workers, v # w,
           Accept(v) \/ Handle(v) \/ StreamSpurious(v)
    PROVE  /\ stage'[w] = stage[w]
           /\ req'[w] = req[w]
           /\ total'[w] = total[w]
           /\ alive'[w] = alive[w]
           /\ piece'[w] = piece[w]
           /\ sent'[w] = sent[w]
<1> DEFINE Goal == /\ stage'[w] = stage[w]
                   /\ req'[w] = req[w]
                   /\ total'[w] = total[w]
                   /\ alive'[w] = alive[w]
                   /\ piece'[w] = piece[w]
                   /\ sent'[w] = sent[w]
<1> USE DEF LocalTypes
<1>1. Accept(v) \/ StreamSpurious(v) => Goal
    BY DEF Accept, StreamSpurious, localVars, Goto
<1>2. Reject(v) => Goal
    BY DEF Reject, Return, Goto
<1>3. ASSUME NEW q \in Requests,
             JoinAsReader(v, q) \/ JoinAsWriter(v, q) \/ JoinFails(v, q)
      PROVE  Goal
    BY <1>3 DEF JoinAsReader, JoinAsWriter, JoinFails, Return, Goto
<1>4. Stream(v) \/ StreamSent(v) \/ StreamSendFails(v) => Goal
    BY DEF Stream, StreamSent, StreamSendFails, Deliver, Goto
<1>5. Resolve(v) \/ Connect(v) \/ ConnectFails(v) \/ SendRequest(v) => Goal
    BY DEF Resolve, Connect, ConnectFails, SendRequest, Goto
<1>6. \/ BadGateway(v) \/ RequestFails(v) \/ Abort(v)
      \/ RecvEnd(v) \/ RecvReset(v) \/ RecvFails(v)
      => Goal
    BY DEF BadGateway, RequestFails, Abort, RecvEnd, RecvReset, RecvFails, GiveUp, Seal,
       Fail, EndLoop, Goto
<1>7. ASSUME NEW n \in 1..MaxAppend, RecvData(v, n) \/ RecvNoMemory(v, n)
      PROVE  Goal
    BY <1>7 DEF RecvData, RecvNoMemory, Goto
<1>8. Forward(v) \/ ForwardFails(v) => Goal
    BY DEF Forward, ForwardFails, Deliver, Goto
<1>9. Release(v) => Goal
    BY DEF Release, Return, Goto, localVars
<1> SUFFICES Goal
    OBVIOUS
<1> HIDE DEF LocalTypes, Goal
<1> QED
    BY <1>1, <1>2, <1>3, <1>4, <1>5, <1>6, <1>7, <1>8, <1>9 DEF Handle

\* Nor do the others disturb what it shares with them.
LEMMA OthersPreserve ==
    ASSUME P!IInv, LocalTypes, NEW w \in Workers, WorkerInv(w),
           NEW v \in Workers, v # w, Accept(v) \/ Handle(v) \/ StreamSpurious(v)
    PROVE  WorkerInv(w)'
<1>1. /\ stage'[w] = stage[w] /\ req'[w] = req[w] /\ total'[w] = total[w]
      /\ alive'[w] = alive[w] /\ piece'[w] = piece[w] /\ sent'[w] = sent[w]
    BY LocalsAreOwn
<1>2. CASE UNCHANGED cacheVars
    BY <1>1, <1>2 DEF cacheVars, WorkerInv, InOrder, StartsAtZero, SentSoFar,
       ReaderKeepsUp, WriterKeepsUp, ReleasesAtEnd, EntryOfRequest
<1>3. CASE P!UserStep(v)
    <2>1. /\ at'[w] = at[w] \/ (at[w] = "wait" /\ at'[w] = "stream")
          /\ ref'[w] = ref[w] /\ offset'[w] = offset[w]
        BY <1>3, WorkersFinite, P!OthersWakeAtMost DEF P!IInv
    <2>2. ASSUME at[w] \in C!Holding
          PROVE  /\ entry'[ref[w]].key = entry[ref[w]].key
                 /\ entry[ref[w]].failed => entry'[ref[w]].failed
                 /\ entry[ref[w]].complete
                      => entry'[ref[w]].complete /\ entry'[ref[w]].size = entry[ref[w]].size
                 /\ at[w] = "write" => entry'[ref[w]].size = entry[ref[w]].size
        <3>1. at[w] \in P!Holding
            BY <2>2 DEF C!Holding, P!Holding, C!Writing, P!Writing, C!Reading, P!Reading
        <3>2. at[w] = "write" => at[w] \in P!Writing
            BY DEF P!Writing
        <3> QED
            BY <1>3, <3>1, <3>2, WorkersFinite, P!OthersKeepEntry
    <2>3. InOrder(w)' /\ StartsAtZero(w)' /\ SentSoFar(w)'
        BY <1>1, <2>1 DEF WorkerInv, InOrder, StartsAtZero, SentSoFar, C!Reading, C!Leaving
    <2>4. ReaderKeepsUp(w)'
        BY <1>1, <2>1 DEF WorkerInv, ReaderKeepsUp
    <2>5. WriterKeepsUp(w)'
        BY <1>1, <2>1, <2>2 DEF WorkerInv, WriterKeepsUp, C!Holding, C!Writing
    <2>6. ReleasesAtEnd(w)'
        BY <1>1, <2>1, <2>2 DEF WorkerInv, ReleasesAtEnd, C!Holding
    <2>7. EntryOfRequest(w)'
        BY <1>1, <2>1, <2>2 DEF WorkerInv, EntryOfRequest, C!Holding, C!Reading
    <2> QED
        BY <2>3, <2>4, <2>5, <2>6, <2>7 DEF WorkerInv
<1> QED
    BY <1>2, <1>3, WorkerSteps, SameStep

----------------------------------------------------------------------------
(* What a worker does itself.                                              *)

\* The lookup starts a reader or a writer at the beginning of its entry.
LEMMA OwnLookup ==
    ASSUME P!IInv, LocalTypes, NEW w \in Workers, WorkerInv(w),
           \/ Accept(w) \/ Reject(w)
           \/ \E q \in Requests : JoinAsReader(w, q) \/ JoinAsWriter(w, q) \/ JoinFails(w, q)
    PROVE  WorkerInv(w)'
<1> USE CacheTypes DEF LocalTypes, WorkerInv, InOrder, StartsAtZero, SentSoFar,
        ReaderKeepsUp, WriterKeepsUp, ReleasesAtEnd, EntryOfRequest,
        C!Holding, C!Writing, C!Reading, C!Leaving
<1>1. ASSUME Accept(w)
      PROVE  WorkerInv(w)'
    BY <1>1 DEF Accept, Goto, cacheVars
<1>2. ASSUME Reject(w)
      PROVE  WorkerInv(w)'
    BY <1>2, NoBlocks DEF Reject, Return, Goto, cacheVars
<1>3. ASSUME NEW q \in Requests, JoinAsReader(w, q)
      PROVE  WorkerInv(w)'
    <2>1. PICK e \in C!Lookup(KeyOf(q)) :
            /\ entry' = [entry EXCEPT ![e].refcnt = C!CountRef(e)]
            /\ ref' = [ref EXCEPT ![w] = e]
        BY <1>3 DEF JoinAsReader, C!Hit
    <2>2. e \in Entries /\ entry[e].key = KeyOf(q)
        BY DEF C!Lookup
    <2>3. ref'[w] = e /\ entry'[e].key = KeyOf(q)
        BY <2>1, <2>2 DEF C!EntryFields
    <2>4. /\ stage'[w] = "stream" /\ at'[w] = "stream" /\ req'[w] = q
          /\ offset'[w] = 0 /\ sent'[w] = sent[w] /\ sent[w] = <<>>
        BY <1>3 DEF JoinAsReader, C!Hit, Goto
    <2> QED
        BY <2>3, <2>4, NoBlocks
<1>4. ASSUME NEW q \in Requests, JoinAsWriter(w, q)
      PROVE  WorkerInv(w)'
    <2>1. PICK e \in Entries :
            /\ entry' = [C!Freed(C!Lookup(KeyOf(q))) EXCEPT ![e] = C!Fresh(KeyOf(q))]
            /\ ref' = [ref EXCEPT ![w] = e]
        BY <1>4 DEF JoinAsWriter, C!Miss
    <2>2. ref'[w] = e /\ entry'[e] = C!Fresh(KeyOf(q))
        BY <2>1 DEF C!Freed
    <2>3. entry'[e].key = KeyOf(q) /\ entry'[e].size = 0
        BY <2>2 DEF C!Fresh, C!Blank
    <2>4. /\ stage'[w] = "resolve" /\ at'[w] = "write" /\ req'[w] = q
          /\ total'[w] = 0 /\ sent'[w] = sent[w] /\ sent[w] = <<>>
        BY <1>4 DEF JoinAsWriter, C!Miss, Goto
    <2> QED
        BY <2>2, <2>3, <2>4, NoBlocks
<1>5. ASSUME NEW q \in Requests, JoinFails(w, q)
      PROVE  WorkerInv(w)'
    BY <1>5, NoBlocks DEF JoinFails, C!MissNoMemory, Return, Goto
<1> QED
    BY <1>1, <1>2, <1>3, <1>4, <1>5

\* A reader ends its loop behind the last piece, or without its client.
LEMMA OwnReading ==
    ASSUME P!IInv, LocalTypes, NEW w \in Workers, WorkerInv(w),
           Stream(w) \/ StreamSent(w) \/ StreamSendFails(w) \/ StreamSpurious(w)
    PROVE  WorkerInv(w)'
<1> USE CacheTypes DEF LocalTypes, WorkerInv, InOrder, StartsAtZero, SentSoFar,
        ReaderKeepsUp, WriterKeepsUp, ReleasesAtEnd, EntryOfRequest,
        C!Holding, C!Writing, C!Reading, C!Leaving
<1>1. ASSUME Stream(w)
      PROVE  WorkerInv(w)'
    <2>1. CASE C!StreamWait(w) \/ C!StreamEnd(w)
        BY <1>1, <2>1 DEF Stream, C!StreamWait, C!StreamChunk, C!StreamEnd, Goto
    <2>2. CASE C!StreamChunk(w)
        <3>1. /\ stage'[w] = "stream" /\ at'[w] = "send" /\ ref'[w] = ref[w]
              /\ req' = req /\ alive' = alive /\ sent' = sent /\ entry' = entry
              /\ offset'[w] = offset[w] + C!Chunk(w)
              /\ piece'[w] = Blocks(offset[w], offset[w] + C!Chunk(w))
              /\ at[w] = "stream"
            BY <1>1, <2>2 DEF Stream, C!StreamWait, C!StreamChunk, C!StreamEnd, Goto
        <3>2. C!Chunk(w) \in Nat /\ offset[w] \in Nat
            BY <3>1, ReaderBehind DEF C!Chunk, C!Unread
        <3>3. Len(sent[w]) = offset[w] /\ sent[w] = Blocks(0, Len(sent[w]))
            BY <3>1
        <3>4. PICK s, m, n : s = sent[w] /\ m = offset[w] /\ n = C!Chunk(w)
            OBVIOUS
        <3>5. m \in Nat /\ n \in Nat /\ s = Blocks(0, m)
            BY <3>2, <3>3, <3>4
        <3>6. s \o Blocks(m, m + n) = Blocks(0, m + n)
            BY ONLY <3>5, NextPiece
        <3>7. sent[w] \o piece'[w] = Blocks(0, offset'[w])
            BY <3>1, <3>4, <3>6
        <3> QED
            BY <3>1, <3>3, <3>7
    <2> QED
        BY <1>1, <2>1, <2>2 DEF Stream
<1>2. ASSUME StreamSent(w)
      PROVE  WorkerInv(w)'
    <2>1. /\ stage'[w] = "stream" /\ at[w] = "send" /\ at'[w] = "stream"
          /\ ref' = ref /\ req' = req /\ entry' = entry /\ offset' = offset
          /\ sent'[w] = sent[w] \o piece[w]
        BY <1>2 DEF StreamSent, C!SendChunk, Deliver
    <2>2. offset[w] \in Nat /\ sent'[w] = Blocks(0, offset[w])
        BY <2>1
    <2>3. Len(sent'[w]) = offset[w] /\ sent'[w] = Blocks(0, Len(sent'[w]))
        BY <2>2, BlocksSent
    <2> QED
        BY <2>1, <2>3
<1>3. ASSUME StreamSendFails(w)
      PROVE  WorkerInv(w)'
    BY <1>3 DEF StreamSendFails, C!SendFails, Goto
<1>4. ASSUME StreamSpurious(w)
      PROVE  WorkerInv(w)'
    BY <1>4 DEF StreamSpurious, C!SpuriousWakeup, localVars
<1> QED
    BY <1>1, <1>2, <1>3, <1>4 DEF Stream

\* Between two recv calls a writer has appended and forwarded as much as it got.
LEMMA OwnFetching ==
    ASSUME P!IInv, LocalTypes, NEW w \in Workers, WorkerInv(w),
           \/ Resolve(w) \/ Connect(w) \/ ConnectFails(w) \/ SendRequest(w)
           \/ Forward(w) \/ ForwardFails(w)
           \/ \E n \in 1..MaxAppend : RecvData(w, n) \/ RecvNoMemory(w, n)
    PROVE  WorkerInv(w)'
<1> USE CacheTypes DEF LocalTypes, WorkerInv, InOrder, StartsAtZero, SentSoFar,
        ReaderKeepsUp, WriterKeepsUp, ReleasesAtEnd, EntryOfRequest,
        C!Holding, C!Writing, C!Reading, C!Leaving
<1>1. ASSUME Resolve(w) \/ Connect(w) \/ ConnectFails(w) \/ SendRequest(w)
      PROVE  WorkerInv(w)'
    BY <1>1 DEF Resolve, Connect, ConnectFails, SendRequest, Goto, cacheVars
<1>2. ASSUME ForwardFails(w)
      PROVE  WorkerInv(w)'
    BY <1>2 DEF ForwardFails, Goto, cacheVars
<1>3. ASSUME NEW n \in 1..MaxAppend, RecvData(w, n)
      PROVE  WorkerInv(w)'
    <2>1. at[w] = "write" /\ ref[w] \in Entries
        BY <1>3, Held DEF RecvData, C!Append
    <2>2. /\ at'[w] = "write" /\ ref' = ref
          /\ entry'[ref[w]].size = entry[ref[w]].size + n
          /\ entry'[ref[w]].key = entry[ref[w]].key
        BY <1>3, <2>1 DEF RecvData, C!Append, C!MoveAndBroadcast, C!EntryFields
    <2>3. /\ total'[w] = total[w] + n
          /\ stage'[w] = IF alive[w] THEN "forward" ELSE "recv"
          /\ alive[w] => piece'[w] = Blocks(total[w], total[w] + n)
          /\ req' = req /\ alive' = alive /\ sent' = sent /\ stage[w] = "recv"
        BY <1>3 DEF RecvData, Goto
    <2>4. ASSUME alive[w]
          PROVE  sent[w] \o piece'[w] = Blocks(0, total'[w])
        <3>1. PICK s, m : s = sent[w] /\ m = total[w]
            OBVIOUS
        <3>2. m \in Nat /\ n \in Nat /\ s = Blocks(0, m)
            BY <2>1, <2>3, <2>4, <3>1
        <3>3. s \o Blocks(m, m + n) = Blocks(0, m + n)
            BY ONLY <3>2, NextPiece
        <3> QED
            BY <2>3, <2>4, <3>1, <3>3
    <2> QED
        BY <2>1, <2>2, <2>3, <2>4
<1>4. ASSUME NEW n \in 1..MaxAppend, RecvNoMemory(w, n)
      PROVE  WorkerInv(w)'
    <2>1. at[w] = "write" /\ ref[w] \in Entries
        BY <1>4, Held DEF RecvNoMemory, C!AppendFails
    <2>2. /\ at'[w] = "abort" /\ ref' = ref
          /\ entry'[ref[w]].key = entry[ref[w]].key
        BY <1>4, <2>1 DEF RecvNoMemory, C!AppendFails, C!MoveAndBroadcast, C!EntryFields
    <2>3. stage'[w] = "abort" /\ req' = req /\ sent' = sent
        BY <1>4 DEF RecvNoMemory, Goto
    <2> QED
        BY <2>1, <2>2, <2>3
<1>5. ASSUME Forward(w)
      PROVE  WorkerInv(w)'
    <2>1. /\ stage[w] = "forward" /\ stage'[w] = "recv" /\ at' = at
          /\ ref' = ref /\ req' = req /\ entry' = entry /\ total' = total
          /\ sent'[w] = sent[w] \o piece[w]
        BY <1>5 DEF Forward, Deliver, Goto, cacheVars
    <2>2. at[w] = "write" /\ total[w] \in Nat /\ sent'[w] = Blocks(0, total[w])
        BY <2>1
    <2>3. Len(sent'[w]) = total[w] /\ sent'[w] = Blocks(0, Len(sent'[w]))
        BY <2>2, BlocksSent
    <2> QED
        BY <2>1, <2>2, <2>3
<1> QED
    BY <1>1, <1>2, <1>3, <1>4, <1>5

\* A writer gives its verdict when it has appended everything, or fails.
LEMMA OwnVerdict ==
    ASSUME P!IInv, LocalTypes, NEW w \in Workers, WorkerInv(w),
           \/ BadGateway(w) \/ RequestFails(w) \/ Abort(w)
           \/ RecvEnd(w) \/ RecvReset(w) \/ RecvFails(w)
    PROVE  WorkerInv(w)'
<1> USE CacheTypes DEF LocalTypes, WorkerInv, InOrder, StartsAtZero, SentSoFar,
        ReaderKeepsUp, WriterKeepsUp, ReleasesAtEnd, EntryOfRequest,
        C!Holding, C!Writing, C!Reading, C!Leaving
<1>1. ASSUME GiveUp(w) \/ Fail(w)
      PROVE  WorkerInv(w)'
    <2>1. at[w] \in {"write", "abort"} /\ ref[w] \in Entries
        BY <1>1, Held DEF GiveUp, Fail, C!MarkFailed
    <2>2. /\ at'[w] = "release" /\ ref' = ref
          /\ entry'[ref[w]].failed
          /\ entry'[ref[w]].key = entry[ref[w]].key
        BY <1>1, <2>1 DEF GiveUp, Fail, C!MarkFailed, C!MoveAndBroadcast, C!EntryFields
    <2>3. stage'[w] = "release" /\ req' = req /\ sent' = sent
        BY <1>1 DEF GiveUp, Fail, EndLoop, Goto
    <2> QED
        BY <2>1, <2>2, <2>3
<1>2. ASSUME stage[w] = "recv", Seal(w)
      PROVE  WorkerInv(w)'
    <2>1. at[w] = "write" /\ ref[w] \in Entries
        BY <1>2, Held DEF Seal, C!MarkComplete
    <2>2. /\ at'[w] = "release" /\ ref' = ref
          /\ entry'[ref[w]].complete
          /\ entry'[ref[w]].size = entry[ref[w]].size
          /\ entry'[ref[w]].key = entry[ref[w]].key
        BY <1>2, <2>1 DEF Seal, C!MarkComplete, C!MoveAndBroadcast, C!EntryFields
    <2>3. stage'[w] = "release" /\ req' = req /\ alive' = alive /\ sent' = sent
        BY <1>2 DEF Seal, EndLoop, Goto
    <2> QED
        BY <1>2, <2>1, <2>2, <2>3
<1> QED
    BY <1>1, <1>2 DEF BadGateway, RequestFails, Abort, RecvEnd, RecvReset, RecvFails

\* cache_release lets go of the entry and of everything else.
LEMMA OwnRelease ==
    ASSUME P!IInv, LocalTypes, NEW w \in Workers, WorkerInv(w), Release(w)
    PROVE  WorkerInv(w)'
<1> USE CacheTypes DEF LocalTypes, WorkerInv, InOrder, StartsAtZero, SentSoFar,
        ReaderKeepsUp, WriterKeepsUp, ReleasesAtEnd, EntryOfRequest,
        C!Holding, C!Writing, C!Reading, C!Leaving
<1>1. CASE C!ReleaseShared(w) \/ C!ReleaseKeep(w) \/ C!ReleaseUnlink(w)
    <2>1. at'[w] \in {"log", "kept", "destroy"} /\ stage[w] = "release"
        BY <1>1 DEF Release, C!ReleaseShared, C!ReleaseKeep, C!ReleaseUnlink
    <2>2. UNCHANGED localVars
        BY <1>1 DEF Release, C!ReleaseShared, C!ReleaseKeep, C!ReleaseUnlink,
           C!ReleaseLogged, C!ReleaseDestroy
    <2> QED
        BY <2>1, <2>2 DEF localVars
<1>2. CASE (C!ReleaseLogged(w) \/ C!ReleaseDestroy(w)) /\ Return(w)
    BY <1>2, NoBlocks DEF C!ReleaseLogged, C!ReleaseDestroy, C!Forget, Return, Goto
<1> QED
    BY <1>1, <1>2 DEF Release

----------------------------------------------------------------------------
(* The invariant, and what follows from it.                                *)

LEMMA Delivered ==
    ASSUME LocalTypes, NEW w \in Workers, Deliver(w)
    PROVE  piece' \in [Workers -> Seq(Nat)] /\ sent' \in [Workers -> Seq(Nat)]
<1>1. sent[w] \o piece[w] \in Seq(Nat)
    BY ConcatProperties DEF LocalTypes
<1> QED
    BY <1>1, NoBlocks DEF LocalTypes, Deliver

LEMMA LocalTypesPreserved ==
    ASSUME P!IInv, LocalTypes, NEW w \in Workers,
           Accept(w) \/ Handle(w) \/ StreamSpurious(w)
    PROVE  LocalTypes'
<1> USE DEF LocalTypes, Stages
<1>1. Accept(w) \/ StreamSpurious(w) => LocalTypes'
    BY DEF Accept, StreamSpurious, localVars, Goto
<1>2. Reject(w) => LocalTypes'
    BY NoBlocks DEF Reject, Return, Goto
<1>3. ASSUME NEW q \in Requests,
             JoinAsReader(w, q) \/ JoinAsWriter(w, q) \/ JoinFails(w, q)
      PROVE  LocalTypes'
    <2>1. JoinAsReader(w, q) \/ JoinAsWriter(w, q) => LocalTypes'
        BY DEF JoinAsReader, JoinAsWriter, Goto
    <2>2. JoinFails(w, q) => LocalTypes'
        BY NoBlocks DEF JoinFails, Return, Goto
    <2> QED
        BY <1>3, <2>1, <2>2
<1>4. Stream(w) \/ StreamSent(w) \/ StreamSendFails(w) => LocalTypes'
    <2>1. ASSUME Stream(w)
          PROVE  LocalTypes'
        <3>1. CASE C!StreamChunk(w)
            <4>1. C!Chunk(w) \in Nat /\ offset[w] \in Nat
                BY <3>1, ReaderBehind DEF C!StreamChunk, C!Chunk, C!Unread, C!Reading
            <4>2. Blocks(offset[w], offset[w] + C!Chunk(w)) \in Seq(Nat)
                BY <4>1, NextBlocks
            <4> QED
                BY <2>1, <3>1, <4>2 DEF Stream, Goto, C!StreamChunk, C!StreamWait, C!StreamEnd
        <3> QED
            BY <2>1, <3>1 DEF Stream, Goto
    <2>2. StreamSendFails(w) => LocalTypes'
        BY NoBlocks DEF StreamSendFails, Goto
    <2>3. StreamSent(w) => LocalTypes'
        BY Delivered DEF StreamSent
    <2> QED
        BY <2>1, <2>2, <2>3
<1>5. Resolve(w) \/ Connect(w) \/ ConnectFails(w) \/ SendRequest(w) => LocalTypes'
    BY DEF Resolve, Connect, ConnectFails, SendRequest, Goto
<1>6. \/ BadGateway(w) \/ RequestFails(w) \/ Abort(w)
      \/ RecvEnd(w) \/ RecvReset(w) \/ RecvFails(w)
      => LocalTypes'
    BY DEF BadGateway, RequestFails, Abort, RecvEnd, RecvReset, RecvFails, GiveUp, Seal,
       Fail, EndLoop, Goto
<1>7. ASSUME NEW n \in 1..MaxAppend, RecvData(w, n) \/ RecvNoMemory(w, n)
      PROVE  LocalTypes'
    <2>1. total[w] \in Nat /\ total[w] + n \in Nat
        OBVIOUS
    <2>2. Blocks(total[w], total[w] + n) \in Seq(Nat)
        BY <2>1, NextBlocks
    <2> QED
        BY <1>7, <2>1, <2>2 DEF RecvData, RecvNoMemory, Goto
<1>8. Forward(w) \/ ForwardFails(w) => LocalTypes'
    BY NoBlocks, Delivered DEF Forward, ForwardFails, Goto
<1>9. Release(w) => LocalTypes'
    <2>1. UNCHANGED localVars => LocalTypes'
        BY DEF localVars
    <2>2. Return(w) => LocalTypes'
        BY NoBlocks DEF Return, Goto
    <2> QED
        BY <2>1, <2>2 DEF Release
<1> HIDE DEF LocalTypes
<1> QED
    BY <1>1, <1>2, <1>3, <1>4, <1>5, <1>6, <1>7, <1>8, <1>9 DEF Handle

\* A worker knows how far it is in the response it serves, whatever the others
\* do to the cache meanwhile.
THEOREM Invariance == Spec => []HandlerInv
<1>1. Init => HandlerInv
    BY NoBlocks DEF Init, C!Init, HandlerInv, LocalTypes, Stages, WorkerInv, InOrder,
       StartsAtZero, SentSoFar, ReaderKeepsUp, WriterKeepsUp, ReleasesAtEnd, EntryOfRequest,
       C!Holding, C!Writing, C!Reading
<1>2. ASSUME P!IInv, HandlerInv, [Next]_vars
      PROVE  HandlerInv'
    <2>1. ASSUME NEW v \in Workers, Accept(v) \/ Handle(v) \/ StreamSpurious(v)
          PROVE  HandlerInv'
        <3>1. LocalTypes'
            BY <1>2, <2>1, LocalTypesPreserved DEF HandlerInv
        <3>2. ASSUME NEW w \in Workers
              PROVE  WorkerInv(w)'
            <4>1. CASE w # v
                BY <1>2, <2>1, <4>1, OthersPreserve DEF HandlerInv
            <4>2. CASE w = v
                <5>1. LocalTypes /\ WorkerInv(v)
                    BY <1>2 DEF HandlerInv
                <5>2. WorkerInv(v)'
                    BY <1>2, <2>1, <5>1, OwnLookup, OwnReading, OwnFetching, OwnVerdict,
                       OwnRelease DEF Handle
                <5> QED
                    BY <4>2, <5>2
            <4> QED
                BY <4>1, <4>2
        <3> QED
            BY <3>1, <3>2 DEF HandlerInv
    <2>2. CASE UNCHANGED localVars /\ UNCHANGED <<at, ref, offset>>
               /\ \A w \in Workers : at[w] \notin C!Holding
        BY <1>2, <2>2 DEF HandlerInv, LocalTypes, localVars, WorkerInv, InOrder,
           StartsAtZero, SentSoFar, ReaderKeepsUp, WriterKeepsUp, ReleasesAtEnd,
           EntryOfRequest, C!Holding, C!Writing, C!Reading, C!Leaving
    <2>3. CASE Shutdown
        <3>1. \A w \in Workers : at[w] \notin C!Holding
            BY <1>2, <2>3 DEF Shutdown, HandlerInv, WorkerInv, InOrder, C!Holding,
               C!Writing, C!Reading
        <3> QED
            BY <2>2, <2>3, <3>1 DEF Shutdown, C!TableDestroy, C!Closed, C!vars
    <2>4. CASE UNCHANGED vars
        BY <1>2, <2>4 DEF vars, cacheVars, HandlerInv, LocalTypes, localVars, WorkerInv,
           InOrder, StartsAtZero, SentSoFar, ReaderKeepsUp, WriterKeepsUp, ReleasesAtEnd,
           EntryOfRequest
    <2> QED
        BY <1>2, <2>1, <2>3, <2>4 DEF Next
<1> QED
    BY <1>1, <1>2, CacheSound, PTL DEF Spec

\* handle_client calls the cache only when the cache expects it.
THEOREM CallOrder == Spec => []CallsInOrder
<1>1. HandlerInv => CallsInOrder
    BY DEF HandlerInv, WorkerInv, CallsInOrder
<1> QED
    BY <1>1, Invariance, PTL

\* A client that stayed was sent the whole of a response that was complete.
THEOREM WholeResponses == Spec => []ServedWhole
<1>1. P!IInv /\ HandlerInv => ServedWhole
    BY Held DEF HandlerInv, WorkerInv, ReleasesAtEnd, ServedWhole, C!Holding
<1> QED
    BY <1>1, Invariance, CacheSound, PTL

\* Every client is sent the blocks of the response from the first one on, each
\* once and in order.
THEOREM BlocksInOrder == Spec => []SentInOrder
<1>1. HandlerInv => SentInOrder
    <2> SUFFICES ASSUME HandlerInv, NEW w \in Workers, NEW i \in DOMAIN sent[w]
                 PROVE  sent[w][i] = i
        BY DEF SentInOrder
    <2>1. PICK k : k = Len(sent[w])
        OBVIOUS
    <2>2. k \in Nat /\ i \in 1 .. k
        BY <2>1 DEF HandlerInv, LocalTypes
    <2>3. sent[w] = Blocks(0, k)
        BY <2>1 DEF HandlerInv, WorkerInv, SentSoFar
    <2> QED
        BY <2>2, <2>3, FirstBlocks
<1> QED
    BY <1>1, Invariance, PTL

\* What is parsed is what a client of Messages meant.
LEMMA MeantBySomeone ==
    ASSUME NEW q \in Requests
    PROVE  \E m \in Messages : m.host # <<>> /\ q = Meaning(m)
<1>1. PICK b \in Arriving : Accepts(b) /\ q = Parse(b)
    BY DEF Requests
<1>2. PICK m \in Messages : b \in Buffers(m)
    BY DEF Arriving
<1> QED
    BY <1>1, <1>2, MessagesAssumption, ParsedAsMeant

\* In whatever pieces a message arrives, and whatever else it carries, the
\* request handle_client goes on with is the one its client meant.
THEOREM RequestsUnderstood == Spec => []RequestAsMeant
<1>1. HandlerInv => RequestAsMeant
    <2> SUFFICES ASSUME HandlerInv, NEW w \in Workers, req[w] # NoRequest
                 PROVE  \E m \in Messages : m.host # <<>> /\ req[w] = Meaning(m)
        BY DEF RequestAsMeant
    <2>1. req[w] \in Requests
        BY DEF HandlerInv, LocalTypes
    <2> QED
        BY <2>1, MeantBySomeone
<1> QED
    BY <1>1, Invariance, PTL

\* Clients that share an entry asked the same host, whatever they asked for, and
\* the same path as far as a key tells.
THEOREM SharersAgree == Spec => []SharersAskedSame
<1>1. ASSUME NEW q \in Requests, NEW r \in Requests, KeyOf(q) = KeyOf(r)
      PROVE  q.host = r.host /\ Cut(q.uri, Room(q)) = Cut(r.uri, Room(r))
    <2>1. PICK m \in Messages : q = Meaning(m)
        BY MeantBySomeone
    <2>2. PICK n \in Messages : r = Meaning(n)
        BY MeantBySomeone
    <2>3. WellFormed(m) /\ WellFormed(n)
        BY MessagesAssumption
    <2>4. PICK c : c = KeyOf(q) /\ c = KeyOf(r)
        BY <1>1
    <2>5. KeyedBy(c, q.host, Cut(q.uri, Room(q))) /\ KeyedBy(c, r.host, Cut(r.uri, Room(r)))
        BY <2>1, <2>2, <2>3, <2>4, KeyIs
    <2> QED
        BY <2>5, KeyDistinguishes
<1>2. HandlerInv => SharersAskedSame
    BY <1>1 DEF HandlerInv, WorkerInv, EntryOfRequest, SharersAskedSame
<1> QED
    BY <1>2, Invariance, PTL
=============================================================================
