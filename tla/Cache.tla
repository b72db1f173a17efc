------------------------------- MODULE Cache -------------------------------
(***************************************************************************)
(* The shared response cache of the proxy: cache/cache.c, together with    *)
(* stream_from_cache of proxy/proxy.c, the reader loop that works directly *)
(* on the fields, the mutex and the condition variable of an entry.        *)
(*                                                                         *)
(* Users are the threads that call the cache.  A user joins an entry with  *)
(* cache_start_or_join, as its writer (it created the entry and has to     *)
(* fill it) or as a reader (it streams what the writer appends), and       *)
(* leaves it with cache_release.                                           *)
(*                                                                         *)
(* One action is one critical section.  Everything cache_start_or_join and *)
(* cache_release read or write lies inside one section of t->lock, and     *)
(* every other operation is one section of e->lock; e->lock is nested in   *)
(* t->lock and never the other way round.  What cache_release does after   *)
(* it has dropped t->lock (the log lines that still dereference the entry, *)
(* the destruction of the entry) is a separate action.                     *)
(***************************************************************************)
EXTENDS Integers, FiniteSets

CONSTANTS
    Users,         \* threads that call the cache
    Keys,          \* cache keys
    Entries,       \* addresses malloc can return for a cache_entry_t
    NoKey,         \* the key of an unallocated entry
    NoEntry,       \* the NULL entry pointer
    InitCapacity,  \* first allocation of e->data (64 KiB), in blocks
    MaxAppend,     \* longest append (one recv of 8 KiB), in blocks
    MaxChunk,      \* longest piece a reader copies out (4 KiB), in blocks
    MaxSize        \* BOUND: longest response considered, in blocks

ASSUME CacheAssumption ==
    /\ IsFiniteSet(Users)
    /\ NoKey \notin Keys
    /\ NoEntry \notin Entries
    /\ InitCapacity \in Nat \ {0}
    /\ MaxAppend \in Nat \ {0}
    /\ MaxChunk \in Nat \ {0}
    /\ MaxSize \in Nat

VARIABLES
    open,    \* t->buckets is allocated
    live,    \* the entries that are allocated
    linked,  \* the entries reachable from t->buckets
    entry,   \* entry[e]: the fields of the entry at address e
    at,      \* at[u]: the point user u has reached
    ref,     \* ref[u]: the entry pointer u holds
    offset   \* offset[u]: the local of stream_from_cache

vars == <<open, live, linked, entry, at, ref, offset>>

\* Points at which a user owns one of the references counted in e->refcnt.
Writing == {"write", "abort"}
Reading == {"stream", "wait", "send"}
Holding == Writing \cup Reading \cup {"release"}
\* Points inside cache_release, after t->lock was dropped.
Leaving == {"log", "kept", "destroy"}

Points == {"out"} \cup Holding \cup Leaving

EntryFields == [key      : Keys \cup {NoKey},
                size     : Nat,
                capacity : Nat,
                complete : BOOLEAN,
                failed   : BOOLEAN,
                refcnt   : Nat]

TypeOK ==
    /\ open \in BOOLEAN
    /\ live \in SUBSET Entries
    /\ linked \in SUBSET Entries
    /\ entry \in [Entries -> EntryFields]
    /\ at \in [Users -> Points]
    /\ ref \in [Users -> Entries \cup {NoEntry}]
    /\ offset \in [Users -> Nat]

Holders(e) == {u \in Users : ref[u] = e /\ at[u] \in Holding}
Writers(e) == {u \in Holders(e) : at[u] \in Writing}

----------------------------------------------------------------------------
(* Memory: what calloc, cache_entry_create and free leave in an entry.     *)

Blank == [key |-> NoKey, size |-> 0, capacity |-> 0,
          complete |-> FALSE, failed |-> FALSE, refcnt |-> 0]

Fresh(k) == [Blank EXCEPT !.key = k, !.refcnt = 1]

Freed(S) == [e \in Entries |-> IF e \in S THEN Blank ELSE entry[e]]

\* cache_table_init
Init ==
    /\ open = TRUE
    /\ live = {}
    /\ linked = {}
    /\ entry = [e \in Entries |-> Blank]
    /\ at = [u \in Users |-> "out"]
    /\ ref = [u \in Users |-> NoEntry]
    /\ offset = [u \in Users |-> 0]

----------------------------------------------------------------------------
(* cache_start_or_join                                                     *)

\* The entries the walk along the bucket of k stops at.  (LookupUnfinished: one
\* that only finds complete entries, so that unfinished ones are not shared.)
LookupUnfinished(k) == {e \in linked : entry[e].key = k /\ entry[e].complete}
Lookup(k) == {e \in linked : entry[e].key = k}

\* A failed entry nobody holds any more is dropped and made anew.
\* (DroppableFailed: the test of refcnt forgotten.)
DroppableFailed(e) == entry[e].failed
Droppable(e) == entry[e].failed /\ entry[e].refcnt = 0

\* cache HIT: one more reference, *am_writer = 0.  (CountNoRef: not counted.)
CountNoRef(e) == entry[e].refcnt
CountRef(e) == entry[e].refcnt + 1

Hit(u, k) ==
    /\ open
    /\ at[u] = "out"
    /\ \E e \in Lookup(k) :
        /\ ~Droppable(e)
        /\ entry' = [entry EXCEPT ![e].refcnt = CountRef(e)]
        /\ ref' = [ref EXCEPT ![u] = e]
    /\ at' = [at EXCEPT ![u] = "stream"]
    /\ offset' = [offset EXCEPT ![u] = 0]
    /\ UNCHANGED <<open, live, linked>>

\* cache MISS: no entry, or one to drop; the caller becomes the writer.
Miss(u, k) ==
    /\ open
    /\ at[u] = "out"
    /\ \A d \in Lookup(k) : Droppable(d)
    /\ \E e \in Entries \ (live \ Lookup(k)) :
        /\ live' = (live \ Lookup(k)) \cup {e}
        /\ linked' = (linked \ Lookup(k)) \cup {e}
        /\ entry' = [Freed(Lookup(k)) EXCEPT ![e] = Fresh(k)]
        /\ ref' = [ref EXCEPT ![u] = e]
    /\ at' = [at EXCEPT ![u] = "write"]
    /\ UNCHANGED <<open, offset>>

\* A miss on which cache_entry_create returns NULL: the caller gets nothing.
MissNoMemory(u, k) ==
    /\ open
    /\ at[u] = "out"
    /\ \A d \in Lookup(k) : Droppable(d)
    /\ live' = live \ Lookup(k)
    /\ linked' = linked \ Lookup(k)
    /\ entry' = Freed(Lookup(k))
    /\ UNCHANGED <<open, at, ref, offset>>

----------------------------------------------------------------------------
(* The writer: cache_append_data, cache_mark_complete, cache_mark_failed.  *)

\* User u moves to p while a broadcast on e->cond, if any, wakes every reader
\* that sleeps on e; a reader that wakes up tests its condition again.
\* (MoveSilently: the broadcast forgotten.)
MoveSilently(u, p, e) == [at EXCEPT ![u] = p]
MoveAndBroadcast(u, p, e) ==
    [v \in Users |-> IF v = u THEN p
                     ELSE IF at[v] = "wait" /\ ref[v] = e THEN "stream"
                     ELSE at[v]]

\* Capacity of e->data once it can hold need blocks.  (GrownLate: off by one.)
GrownLate(c, need) ==
    IF need <= c + 1 THEN c
    ELSE LET newcap == IF c = 0 THEN InitCapacity ELSE 2 * c
         IN IF newcap < need THEN need ELSE newcap
Grown(c, need) ==
    IF need <= c THEN c
    ELSE LET newcap == IF c = 0 THEN InitCapacity ELSE 2 * c
         IN IF newcap < need THEN need ELSE newcap

Append(u, n) ==
    /\ at[u] = "write"
    /\ LET e    == ref[u]
           need == entry[e].size + n
       IN  /\ ~entry[e].failed
           /\ need <= MaxSize
           /\ entry' = [entry EXCEPT ![e].size = need,
                                     ![e].capacity = Grown(@, need)]
           /\ at' = MoveAndBroadcast(u, "write", e)
    /\ UNCHANGED <<open, live, linked, ref, offset>>

\* The entry has failed already, or realloc fails and makes it fail.
\* (FailsUnmarked: it does not.)
FailsUnmarked(u, n) ==
    /\ at[u] = "write"
    /\ LET e    == ref[u]
           need == entry[e].size + n
       IN  /\ need <= MaxSize
           /\ entry[e].failed \/ need > entry[e].capacity
           /\ at' = MoveAndBroadcast(u, "abort", e)
    /\ UNCHANGED <<open, live, linked, entry, ref, offset>>
AppendFails(u, n) ==
    /\ at[u] = "write"
    /\ LET e    == ref[u]
           need == entry[e].size + n
       IN  /\ need <= MaxSize
           /\ entry[e].failed \/ need > entry[e].capacity
           /\ entry' = [entry EXCEPT ![e].failed = TRUE]
           /\ at' = MoveAndBroadcast(u, "abort", e)
    /\ UNCHANGED <<open, live, linked, ref, offset>>

\* (MarkCompleteEarly: in the receive loop instead of after it.)
MarkCompleteEarly(u) ==
    /\ at[u] = "write"
    /\ entry' = [entry EXCEPT ![ref[u]].complete = TRUE]
    /\ at' = MoveAndBroadcast(u, "write", ref[u])
    /\ UNCHANGED <<open, live, linked, ref, offset>>
MarkComplete(u) ==
    /\ at[u] = "write"
    /\ entry' = [entry EXCEPT ![ref[u]].complete = TRUE]
    /\ at' = MoveAndBroadcast(u, "release", ref[u])
    /\ UNCHANGED <<open, live, linked, ref, offset>>

MarkFailed(u) ==
    /\ at[u] \in Writing
    /\ entry' = [entry EXCEPT ![ref[u]].failed = TRUE]
    /\ at' = MoveAndBroadcast(u, "release", ref[u])
    /\ UNCHANGED <<open, live, linked, ref, offset>>

----------------------------------------------------------------------------
(* The reader: stream_from_cache.                                          *)

Unread(u) == entry[ref[u]].size - offset[u]

\* pthread_cond_wait: nothing new and the entry is still being filled.
StreamWait(u) ==
    /\ at[u] = "stream"
    /\ LET e == entry[ref[u]]
       IN offset[u] = e.size /\ ~e.complete /\ ~e.failed
    /\ at' = [at EXCEPT ![u] = "wait"]
    /\ UNCHANGED <<open, live, linked, entry, ref, offset>>

\* POSIX lets pthread_cond_wait return without a broadcast.
SpuriousWakeup(u) ==
    /\ at[u] = "wait"
    /\ at' = [at EXCEPT ![u] = "stream"]
    /\ UNCHANGED <<open, live, linked, entry, ref, offset>>

\* The entry failed, or all of a complete entry has been sent.
StreamEnd(u) ==
    /\ at[u] = "stream"
    /\ LET e == entry[ref[u]]
       IN e.failed \/ (offset[u] = e.size /\ e.complete)
    /\ at' = [at EXCEPT ![u] = "release"]
    /\ UNCHANGED <<open, live, linked, entry, ref, offset>>

\* Copy the next piece into tmp and step over it, still under e->lock.
Chunk(u) == IF Unread(u) < MaxChunk THEN Unread(u) ELSE MaxChunk

StreamChunk(u) ==
    /\ at[u] = "stream"
    /\ ~entry[ref[u]].failed
    /\ offset[u] # entry[ref[u]].size
    /\ offset' = [offset EXCEPT ![u] = @ + Chunk(u)]
    /\ at' = [at EXCEPT ![u] = "send"]
    /\ UNCHANGED <<open, live, linked, entry, ref>>

\* send_all to the client, outside e->lock; the loop ends when it fails.
SendChunk(u) ==
    /\ at[u] = "send"
    /\ at' = [at EXCEPT ![u] = "stream"]
    /\ UNCHANGED <<open, live, linked, entry, ref, offset>>

SendFails(u) ==
    /\ at[u] = "send"
    /\ at' = [at EXCEPT ![u] = "release"]
    /\ UNCHANGED <<open, live, linked, entry, ref, offset>>

----------------------------------------------------------------------------
(* cache_release                                                           *)

\* (LeftTwice: released on two paths.)
LeftTwice(e) == entry[e].refcnt - 2
Left(e) == entry[e].refcnt - 1

\* The entry stays in the table for later requests.  (KeepsAnything: failed and
\* unfinished ones too.)
KeepsAnything(e) == TRUE
Keeps(e) == entry[e].complete /\ ~entry[e].failed

\* References are left.  Once t->lock is dropped the log line
\* "cache_release key='%s', new refcnt=%d" still reads the entry.
ReleaseShared(u) ==
    /\ at[u] = "release"
    /\ Left(ref[u]) > 0
    /\ entry' = [entry EXCEPT ![ref[u]].refcnt = Left(ref[u])]
    /\ at' = [at EXCEPT ![u] = "log"]
    /\ UNCHANGED <<open, live, linked, ref, offset>>

\* The last user of a complete entry leaves it in the table.
ReleaseKeep(u) ==
    /\ at[u] = "release"
    /\ Left(ref[u]) <= 0
    /\ Keeps(ref[u])
    /\ entry' = [entry EXCEPT ![ref[u]].refcnt = Left(ref[u])]
    /\ at' = [at EXCEPT ![u] = "kept"]
    /\ UNCHANGED <<open, live, linked, ref, offset>>

\* (ReleaseForget: unlinked and not destroyed.)
ReleaseForget(u) ==
    /\ at[u] = "release"
    /\ Left(ref[u]) <= 0
    /\ ~Keeps(ref[u])
    /\ entry' = [entry EXCEPT ![ref[u]].refcnt = Left(ref[u])]
    /\ linked' = linked \ {ref[u]}
    /\ at' = [at EXCEPT ![u] = "kept"]
    /\ UNCHANGED <<open, live, ref, offset>>
ReleaseUnlink(u) ==
    /\ at[u] = "release"
    /\ Left(ref[u]) <= 0
    /\ ~Keeps(ref[u])
    /\ entry' = [entry EXCEPT ![ref[u]].refcnt = Left(ref[u])]
    /\ linked' = linked \ {ref[u]}
    /\ at' = [at EXCEPT ![u] = "destroy"]
    /\ UNCHANGED <<open, live, ref, offset>>

Forget(u) ==
    /\ at' = [at EXCEPT ![u] = "out"]
    /\ ref' = [ref EXCEPT ![u] = NoEntry]
    /\ offset' = [offset EXCEPT ![u] = 0]

\* The log line is written and cache_release returns.
ReleaseLogged(u) ==
    /\ at[u] \in {"log", "kept"}
    /\ Forget(u)
    /\ UNCHANGED <<open, live, linked, entry>>

\* cache_entry_destroy, outside every lock.
ReleaseDestroy(u) ==
    /\ at[u] = "destroy"
    /\ live' = live \ {ref[u]}
    /\ entry' = Freed({ref[u]})
    /\ Forget(u)
    /\ UNCHANGED <<open, linked>>

----------------------------------------------------------------------------
\* cache_table_destroy: its caller has joined every user first.
TableDestroy ==
    /\ open
    /\ \A u \in Users : at[u] = "out"
    /\ open' = FALSE
    /\ live' = live \ linked
    /\ linked' = {}
    /\ entry' = Freed(linked)
    /\ UNCHANGED <<at, ref, offset>>

\* The table is gone and nobody calls the cache any more.
Closed == ~open /\ UNCHANGED vars

WriterStep(u) ==
    \/ \E n \in 1..MaxAppend : Append(u, n) \/ AppendFails(u, n)
    \/ MarkComplete(u)
    \/ MarkFailed(u)

ReaderStep(u) ==
    \/ StreamWait(u)
    \/ StreamEnd(u)
    \/ StreamChunk(u)
    \/ SendChunk(u)
    \/ SendFails(u)

ReleaseStep(u) ==
    \/ ReleaseShared(u)
    \/ ReleaseKeep(u)
    \/ ReleaseUnlink(u)
    \/ ReleaseLogged(u)
    \/ ReleaseDestroy(u)

Join(u) == \E k \in Keys : Hit(u, k) \/ Miss(u, k) \/ MissNoMemory(u, k)

Next ==
    \/ \E u \in Users : \/ Join(u)
                        \/ WriterStep(u)
                        \/ ReaderStep(u)
                        \/ SpuriousWakeup(u)
                        \/ ReleaseStep(u)
    \/ TableDestroy
    \/ Closed

Spec == Init /\ [][Next]_vars

\* Threads are scheduled.  Origins may stall and clients may stop reading;
\* nothing is assumed of joins and spurious wakeups.
Scheduling ==
    \A u \in Users : /\ WF_vars(StreamWait(u) \/ StreamEnd(u) \/ StreamChunk(u))
                     /\ WF_vars(ReleaseStep(u))

SchedSpec == Spec /\ Scheduling

----------------------------------------------------------------------------
(* Properties                                                              *)

\* e->refcnt is exactly the number of users that joined e and have not yet
\* released it, so that cache_release frees neither too early nor never.
RefcntExact ==
    \A e \in linked : entry[e].refcnt = Cardinality(Holders(e))

\* Requests for one key share one fetch: a key has at most one entry in the
\* table, and at most one user fills entries of that key.
OneFetchPerKey ==
    /\ \A d, e \in linked : entry[d].key = entry[e].key => d = e
    /\ \A u, v \in Users :
        /\ at[u] \in Writing
        /\ at[v] \in Writing
        /\ entry[ref[u]].key = entry[ref[v]].key
        => u = v

\* Whoever is about to dereference an entry finds it allocated, and nobody
\* but a last releaser holds an entry that has left the table.  The log line
\* of ReleaseShared is left to ReleaseLogReadsLiveEntry.
NoUseAfterFree ==
    \A u \in Users :
        /\ at[u] \in Holding \cup {"kept"} => ref[u] \in live \cap linked
        /\ at[u] = "destroy" =>
            /\ ref[u] \in live \ linked
            /\ \A v \in Users : ref[v] = ref[u] /\ v # u => at[v] = "log"

\* Every entry that waits in the table for a next request is complete and not
\* failed: cache_start_or_join never has a failed entry to drop.
IdleEntriesSealed ==
    \A e \in linked :
        entry[e].refcnt = 0 => entry[e].complete /\ ~entry[e].failed

\* A reader sleeps only while its writer is still to append or to mark the
\* entry: no broadcast was missed and the wakeup is yet to come.
NoOrphanedWaiter ==
    \A u \in Users : at[u] = "wait" =>
        /\ offset[u] = entry[ref[u]].size
        /\ ~entry[ref[u]].complete
        /\ Writers(ref[u]) # {}

\* Allocated entries are in the table or about to be destroyed by the user
\* that unlinked them; destroying the table leaves nothing allocated.
NoLeak ==
    /\ live = linked \cup {ref[u] : u \in {v \in Users : at[v] = "destroy"}}
    /\ ~open => live = {}

\* memcpy stays inside e->data, on the appending and on the reading side.
CopiesInBounds ==
    /\ \A e \in live : entry[e].size <= entry[e].capacity
    /\ \A u \in Users : at[u] \in Reading => offset[u] <= entry[ref[u]].size

\* What readers were told is the whole response stays so: a complete entry is
\* neither extended, nor failed, nor unlinked until the table is destroyed.
SealedStep ==
    \A e \in linked : entry[e].complete /\ open' =>
        /\ e \in linked'
        /\ entry'[e] = [entry[e] EXCEPT !.refcnt = entry'[e].refcnt]
SealedContent == [][SealedStep]_vars

\* The cache is a store of responses: for every key one is filled by the first
\* who asks, shared, settled once, and forgotten only if it failed, by whoever
\* leaves last.
StateOf(k) ==
    IF Lookup(k) = {} THEN "absent"
    ELSE IF \E e \in Lookup(k) : entry[e].complete THEN "complete"
    ELSE IF \E e \in Lookup(k) : entry[e].failed THEN "failed"
    ELSE "filling"
SizeOf(k) == IF Lookup(k) = {} THEN 0 ELSE entry[CHOOSE e \in Lookup(k) : TRUE].size
UsersOf(k) == {u \in Users : at[u] \in Holding /\ entry[ref[u]].key = k}
WritersOf(k) == {u \in UsersOf(k) : at[u] = "write"}

Store == INSTANCE ResponseStore WITH
    state   <- [k \in Keys |-> StateOf(k)],
    size    <- [k \in Keys |-> SizeOf(k)],
    users   <- [k \in Keys |-> UsersOf(k)],
    writers <- [k \in Keys |-> WritersOf(k)]
StoresResponses == Store!Spec

\* Once the writer has given its verdict on an entry, a reader needs nobody to
\* get on with it: it is out unless its own client keeps it in a send.
Settled(u) == at[u] \in {"stream", "wait"}
              /\ (entry[ref[u]].complete \/ entry[ref[u]].failed)
SettledReadersLeave ==
    \A u \in Users : Settled(u) ~> at[u] \in {"send", "out"}

----------------------------------------------------------------------------
(* The inductive invariant the safety properties follow from.              *)

\* A user outside the cache holds no pointer; one that has joined and not yet
\* released holds an entry of the table.
RefsLinked ==
    \A u \in Users : /\ at[u] = "out" => ref[u] = NoEntry
                     /\ at[u] \in Holding => ref[u] \in linked

\* An entry that is neither complete nor failed has a user that still fills
\* it, an entry is filled by at most one user, and its writer turns it from
\* filling to failed or complete exactly when it stops appending.
FillingHasWriter ==
    /\ \A e \in linked :
        ~entry[e].complete /\ ~entry[e].failed => \E u \in Users : u \in Writers(e)
    /\ \A u \in Users : at[u] \in Writing =>
        /\ ~entry[ref[u]].complete
        /\ entry[ref[u]].failed <=> at[u] = "abort"
    /\ \A u, v \in Users :
        at[u] \in Writing /\ at[v] \in Writing /\ ref[u] = ref[v] => u = v

\* A sleeping reader has read all of an entry that is still being filled.
SleepersUpToDate ==
    \A u \in Users : at[u] = "wait" =>
        /\ offset[u] = entry[ref[u]].size
        /\ ~entry[ref[u]].complete /\ ~entry[ref[u]].failed

\* What a last releaser found out under t->lock stays true after it.
ReleasersKnow ==
    /\ \A u \in Users : at[u] = "kept" =>
        ref[u] \in linked /\ entry[ref[u]].complete /\ ~entry[ref[u]].failed
    /\ \A u \in Users : at[u] = "destroy" => ref[u] \in live \ linked
    /\ \A u, v \in Users :
        at[u] = "destroy" /\ at[v] = "destroy" /\ ref[u] = ref[v] => u = v

\* The origin's answer was whole or it was not: no entry is marked both ways.
OneVerdict == \A e \in linked : ~(entry[e].complete /\ entry[e].failed)

UniqueKeys == \A d, e \in linked : entry[d].key = entry[e].key => d = e

AllOutWhenClosed == ~open => \A u \in Users : at[u] = "out"

\* What the points of the users, the table and the entries say of each other.
Consistent ==
    /\ RefsLinked
    /\ FillingHasWriter
    /\ SleepersUpToDate
    /\ ReleasersKnow
    /\ OneVerdict
    /\ UniqueKeys
    /\ IdleEntriesSealed
    /\ NoLeak
    /\ AllOutWhenClosed
    /\ CopiesInBounds

\* The inductive invariant: the three parts are preserved only together.
IInv == TypeOK /\ Consistent /\ RefcntExact

----------------------------------------------------------------------------
(* What a log line of the code takes for granted.                          *)

\* cache.c logs "cache_release key='%s', new refcnt=%d" from the entry after
\* t->lock was dropped; this says that the entry is still allocated then.
ReleaseLogReadsLiveEntry ==
    \A u \in Users : at[u] = "log" => ref[u] \in live

=============================================================================
