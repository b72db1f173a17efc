# Specifications of the caching proxy and the threading exercises

The repository holds a multi-threaded HTTP/1.0 caching proxy (`main.c`,
`proxy/`, `cache/`, `threadpool/`, `logger/`) and a series of exercises on
threads and locks (`1.6`, `1.7`, `2.3`, `2.4`). This directory holds TLA+
models of the code, the TLC configurations that check them and TLAPS proofs.

## 1. Inventory

### The proxy

| Part | State | Operations | Talks to |
|---|---|---|---|
| cache (`cache/cache.c`) | table of entries under `t->lock`; per entry `key data size capacity complete failed refcnt` under `e->lock`, `e->cond` | `cache_table_init/destroy`, `cache_start_or_join`, `cache_append_data`, `cache_mark_complete/failed`, `cache_release` | called by every handler |
| handler (`proxy.c`: `handle_client`, `connect_to_origin`, `stream_from_cache`, `send_all`) | locals of one call, plus the static buffer of `gethostbyname` | parse, join the cache, be its reader or its writer, close | cache, origin, client |
| request parsing (`proxy.c`: `memmem_simple`, `find_host_header`, key) | none | pure functions over a buffer | handler |
| main loop (`proxy.c`: `proxy_run`) | listening socket, the cache, the pool | create, accept and submit, shut down | pool, cache |
| thread pool (`threadpool/threadpool.c`) | list `head tail next`, `stop`, under `lock`; `has_work` | create, submit, stop, `workerLoop` | main loop, handlers |
| logger (`logger/logger.c`) | level and file, set once | printing | everybody |

What is hard about it: the reader and the writer of an entry are different
threads, the entry is shared by as many clients as ask for it, it changes under
one lock and is counted under another, and every error path of the handler has
to leave it in a state its readers can live with. A worker has no timeout
anywhere. The pool sleeps on a condition variable that is also used, without
the lock, by an error path.

What makes the parts correct:

* cache: references are counted exactly; nobody touches a freed entry; nothing
  leaks; one fetch per key at a time; complete entries are immutable; sleeping
  readers are always woken; copies stay inside the buffer.
* handler: what it takes for the request does not depend on how the bytes
  arrive; every path follows the protocol of the cache; a client that stays is
  sent the whole response, block by block, of the host and the path it asked for
  as far as the key tells paths apart; every connection is closed in the end; the
  origin asked is the one named.
* pool: the list is a FIFO queue; every accepted task runs exactly once; no task
  waits behind sleeping workers; stop drains the list and returns.
* main loop: an accepted connection has one owner that closes it, whichever call
  fails; the table, on the stack of `proxy_run`, outlives the workers; after an
  error of `accept` everything queued is served and `proxy_run` returns.

### The exercises

| Part | State | What makes it correct |
|---|---|---|
| `1.6/mythread.c`: kernel threads with `clone` and a futex | `completed detached joined`, the mapped stack | join returns after the thread's end; the stack is unmapped once, and never under a running thread |
| `1.7/uthread.c`: cooperative threads with `swapcontext` | ready list, `current`, states | every thread runs to its end; one runs at a time; the ready list is exact |
| `2.3/{mutex,rw,spinlock}`: a list of strings, three traversing and three swapping threads, lock per node | `next` fields, node locks, counters under a lock | the list stays a permutation, each traversal sees every node once, no deadlock |
| `2.4/mutex`: three-state futex mutex | `state`, the futex queue | mutual exclusion, no lost wakeup |
| `2.4/spinlock`: test-and-set lock with back-off | `state` | mutual exclusion, everybody gets through |

## 2. Plan

In the order the modules were written, the most important behaviour first.

| Module | Composes | State |
|---|---|---|
| `Cache`, abstract `ResponseStore`, `CacheProofs` | | checked, safety and refinement proved |
| `RequestParsing`, `RequestParsingProofs`, `ProxyHandler`, `ProxyHandlerProofs` | `Cache` | checked, safety proved |
| `ThreadPool`, abstract `WorkQueue` | | checked, proved as part of `Proxy` |
| `Proxy`, `ProxyProofs` | `ThreadPool` | checked, safety and refinement proved |
| `CounterTest`, `FutexMutex`, `SpinLock`, `LockTest`, abstract `AtomicCounter`, `LockTestProofs` | each other | checked, proved |
| `SharedList`, `SharedListProofs` | | checked, safety proved |
| `MyThread`, `MyThreadProofs` | | checked, safety proved |
| `UThread`, `UThreadProofs` | | checked, safety proved |

The plan is carried out; section 7 says what lies outside it, and why.

## 3. What is modelled

### `Cache` and `ResponseStore` (`cache/cache.c`, `stream_from_cache` of `proxy/proxy.c`)

`Users` are the threads that call the cache. `entry[e]` is the record of fields
of the entry at address `e`, `live` the allocated addresses, `linked` those
reachable from the buckets (one set stands for all chains; `hash_key` only
picks the chain), `at[u]` and `ref[u]` the point a user has reached and the
pointer it holds, `offset[u]` the local of `stream_from_cache`.

An action is one critical section. `cache_start_or_join` is `Hit`, `Miss` or
`MissNoMemory`; `cache_append_data` is `Append` or `AppendFails`;
`cache_mark_complete` and `cache_mark_failed` are `MarkComplete` and
`MarkFailed`. `stream_from_cache` is `StreamWait` (`pthread_cond_wait`),
`SpuriousWakeup`, `StreamEnd`, `StreamChunk` (copy out under `e->lock`) and
`SendChunk` or `SendFails` (outside it). A broadcast is part of the action that
makes it. `cache_release` is `ReleaseShared`, `ReleaseKeep` or `ReleaseUnlink`
under `t->lock`, then, outside it, `ReleaseLogged` (the log lines that read the
entry once more) or `ReleaseDestroy`. `TableDestroy` frees what is left.
`e->lock` is only ever nested inside `t->lock`, and nothing blocks while it
holds either except `pthread_cond_wait`, which drops it; so a critical section
is not interrupted and one action for it loses no interleaving.

Freed entries are blanked, so a use of one would be visible in the properties.
Data are counted in blocks; `InitCapacity`, `MaxAppend` and `MaxChunk` stand for
64 KiB, 8 KiB and 4 KiB and are arbitrary positive numbers. `size_t` does not
wrap: a response would need 2^64 bytes. `MaxSize` bounds the response.

`ResponseStore` is what the cache promises to the handlers, without entries,
pointers, counts or locks: for each key a response that is absent, filling,
complete or failed, its length, its users and the one of them who fills it.
`Begin` and `Join` are the two outcomes of `cache_start_or_join`, `Extend` and
`Settle` what a writer does, `Leave` is `cache_release`: what failed is absent
again once its last user has left, what is complete stays until `Close`.
`StoresResponses` says that `Cache` implements it; the mapping looks a key up in
the table as the code does (`StateOf`, `SizeOf`) and takes for its users those
who hold its entry (`UsersOf`). Readers' steps, the ends of releases outside the
lock and a failing allocation are steps the store does not see.

`NoUseAfterFree` leaves out the log line after `t->lock`; that one is
`ReleaseLogReadsLiveEntry`, which the code does violate (finding 1).

### `RequestParsing` and `ProxyHandler` (`handle_client`, `connect_to_origin`)

`RequestParsing` is the part of `handle_client` before the cache, as operators
on sequences of symbols: the separators (space, tab, CR, LF) and `Words`, which
the code compares but does not look into. A message is what a client means: a
method, the site and the path of its target, the lines before the one that names
the host, the host, and what comes after. `Wire` puts it into symbols; `Buffers`
are the contents `buf` may have when the loop around `recv` stops, for every way
the message may be cut into pieces; `Accepts` collects the early returns, `Parse`
gives the host and the uri, `KeyOf` what `snprintf` leaves of them in `key`,
where `Room` is what there is left for the uri. `HostStart` and `HostEnd` are
the places in `buf` where the host is looked for and its terminator stored.
`BufSize`, `HostSize` and `KeySize` are the sizes of the arrays, in symbols.
`RequestAsMeant` compares `Parse` with the `Meaning` of the message behind the
bytes. It is about `WellFormed` messages: no separator in a word, no blank line
among the fields, a host that fits in `host[256]`, and no `Host:` before the one
that counts. The code asks for no less: it takes a field whose name ends in
`Host:` for the host, and cuts a longer host.

Workers are the users of an instance of `Cache`, whose actions are conjuncts of
the actions of the handler. `stage[w]` is the place in `handle_client`. A
buffer is accepted as one of `Requests` or rejected (`Reject` stands for all
early returns before the join). `hostent` is the static buffer behind
`gethostbyname`, written by `Resolve` and read by `Connect`. `RecvReset` keeps
the distinction between a reset before and after the first byte. `piece[w]` is
what the worker has still to pass to `send_all`, copied from the entry (`tmp`) or
just received (`serv_buf`), `sent[w]` what it has passed on, both as the numbers
of the blocks of the response; `SentInOrder` therefore sees a block that is left
out, repeated or displaced, where `ServedWhole` counts. The receive loop closes
its sockets before `cache_release` (`EndLoop`), the other paths behind it.

### `ThreadPool`, `Proxy` and `WorkQueue` (`threadpool.c`, `proxy_run`)

`head`, `tail` and `next` are the pointers of the code; `pending` is an
auxiliary variable, the sequence they are to represent, and `ListIsQueue`
relates the two. `main` is the main thread in `threadPoolCreate`, between its
submissions, and in `threadPoolStop`; `pc[w]` is worker `w` in `workerLoop`. The
wait is cut in two (`FindNothing`, `Sleep`) because the error path of
`threadPoolCreate` does not take the lock. The test of `pool->stop` in
`threadPoolSubmit` (line 74) cannot succeed in this program, whose only
submitter also is the one that stops the pool, so there is no action for it.

`Proxy` is `proxy_run`: `point` is where it is, `table` the `cache_table_t` on
its stack, `lfd` the listening socket, `conn` the connection accepted and not
yet handed on, `fd[c]` the socket of connection `c`. Tasks are connections. The
actions of `ThreadPool` are conjuncts of those of `Proxy`, so that what the
module says of the pool is checked with the caller it has. The handler is kept
to what matters here: it needs the table until it returns and closes its socket
(`HandlerReturns`).

`WorkQueue` is what the pool promises: first in, first out, each task once;
`FifoWorkQueue` says that the pool under `proxy_run` implements it, with
`queue <- pending` and `running <- task`.

### `CounterTest`, `FutexMutex`, `SpinLock`, `LockTest`, `AtomicCounter` (`2.4`)

`CounterTest` holds what the two test programs share: threads that add 1 to a
volatile counter `Iterations` times, in two steps (`Load`, `Store`) between lock
and unlock. `FutexMutex` and `SpinLock` hold the operations of the locks, every
atomic access and every system call an action. In `FutexMutex`, `pc[t]` is the
place in `mutex_lock`: `observe` and `mark` are the load and the
compare-exchange of line 23, `wait` the call of `FUTEX_WAIT`, which sleeps only
while the word is 2, `retry` line 25; `wake` is the `FUTEX_WAKE` that
`mutex_unlock` still owes. In `SpinLock`, `spins` and `tries` are the length of
the round and the attempts made in it. `LockTest` puts them together: the
variable `lock`, chosen at the start, says which of the two programs runs. The
orderings asked of the compiler (acquire in trylock, release in unlock) make the
interleavings of these steps all there is. `AtomicCounter` is what the tests
expect: each `counter++` one step. `CountsAtomically` is the refinement, with
the identity for `counter` and `left`.

### `SharedList` (`2.3`)

`next` and `held` are the fields of the nodes, `prev`, `a` and `b` the pointers
of a thread. Both kinds of threads start with the lock of the first node and
read the next field of the last node they have locked, so `Start`, `Read` and
`Release` are common; the first steps of `do_random_swap` (lines 117-126) are
those of its loop with no `prev`. The exchange is three actions, one for each
assignment. `Shared` tells read locks for traversals (`2.3/rw`) from exclusive
ones (`2.3/mutex`, and `2.3/spinlock`, whose `threads.c` is the same); a read
lock is granted unless a writer holds the node. `order` and `passed` are
auxiliary: the sequence the links stand for, and what a traverser has seen.
The statistics are left out: nothing depends on them, and their lock is always
the last to be taken.

### `MyThread` (`1.6`)

`completed`, `detached`, `joined` and `retval` are the fields of a `mythread_t`,
`stack[t]` says whether the stack of thread `t` is mapped, `pc[t]` is the place
in `mythread_entry`, `main` and `i` that of the main thread in its two loops and
in `mythread_join` and `mythread_detach`. Every access of an atomic and every
system call is an action; `FUTEX_WAIT` may return without a wakeup. An access of
a stack that is not mapped kills the process (`crashed`). The `EINVAL` returns
for a thread joined or detached before are not reached by this `main`.

### `UThread` (`1.7`)

An action is what happens between two switches of context: nothing preempts a
user thread. `readyq`, `current` and `state` are those of `uthread.c`, `cpu`
says whose context executes, `t0` is the local of `uthread_run_all`, `stack[t]`
the allocation of a stack. `SwitchTo` is the common end of `uthread_yield` and
of the loop of `uthread_run_all`. `yields` counts the calls a start routine has
made and bounds them by `MaxYields`.

## 4. What is checked

| Run | Instance | Shows |
|---|---|---|
| `cache` | 3 users, 1 key, 2 addresses, 3 blocks, appends of up to 2, first allocation 1 | eight safety properties, `SealedContent`, the refinement `StoresResponses`, and `SettledReadersLeave` under scheduling alone |
| `cache_release_log` | 2 users, 1 block | finding 1, a violation |
| `handler` | 2 workers, 6 messages, 2 addresses, 2 blocks | parsing, sharing and service in `handle_client`; `EveryClientClosed` |
| `handler_host` | the same, 1 block | finding 2, a violation |
| `proxy` | 3 workers, 3 connections | owners of sockets, list, wakeups, FIFO, lifetime of the table, `EveryConnectionClosed`, `ProxyReturns` |
| `pool_create` | 2 workers, 1 task | finding 3, a violation |
| `locks` | 3 threads, 2 iterations, both locks, rounds of 1 and 2 attempts | exclusion, `CountsAtomically`, `SpinThreadsReturn` |
| `locks_mutex` | 3 threads, 2 iterations, the mutex | finding 4, a violation |
| `list` | 3 items, 2 traversers, 2 swappers, read locks | list, complete traversals, lock order, `PassesKeepEnding` |
| `mythread` | 4 threads, 2 joined and 2 detached | result, stacks, `MainEnds` |
| `mythread_crash` | 1 thread, joined | finding 5, a violation |
| `uthread` | 4 threads, up to 3 yields each | ready list, processor, order, `EveryThreadFinishes` |

Why the bounds are enough for what they are meant to show. Three users are a
writer, a reader and a third that joins, releases last or finds the key again;
the second address lets a fresh entry exist beside one that is unlinked and not
yet destroyed. Three blocks with a first allocation of one make a buffer that
fits exactly, one that doubles, and a reader that lags behind by more than a
piece. The messages of `handler` are the same resource in two forms (with an
absolute target, another field first and bytes behind the blank line), whose key
just fits (`KeySize` = 4); one with a longer path, whose key is cut to the same
three symbols, so that two workers do share an entry for two paths; one of
another host that names a third one later, and two that are turned down. Two
workers are a writer and a reader of one entry, or two resolving at once. Three
workers and three connections let some workers run, some look and some sleep
while the list grows and shrinks to nothing, and let every call of the main
thread fail with something queued, something running and something accepted. A
lock needs an owner, a waiter and a third that takes the lock in between, and a
second iteration for the owner to come back. Three items have two pairs to
exchange, which share one of them, in front of, between and behind the
traversers. Every behaviour with exclusive locks is one with read locks, which
are granted more often, so the safety properties of the run hold for `2.3/mutex`
and `2.3/spinlock` too; theorem `SomebodyIsUnblocked` rules out a deadlock there.
Threads of `1.6` meet the main thread only, one at a time: two of each kind let
the ones main has not come to run ahead of it or lag behind. Four user threads
with three yields are one more than the program has of each.

No symmetry is used. Deadlock is checked in every run; the states in which the
program has ended (`Closed`, `ProxyReturned`, `Terminated`, `Joined`) stutter.

Fairness. `FairSpec` of `ProxyHandler` lets every worker that has a client
proceed. Besides the scheduler, that assumes that origins send, close or fail
and that clients read or disconnect: the code has no timeout, so nothing weaker
would do, and a stalled origin or a stalled client of the writer does stop all
readers of the entry. It also assumes that a response is finite (`MaxSize`).
`SchedSpec` of `Cache` assumes the scheduler alone, and under it
`SettledReadersLeave` shows that the dependence ends with the writer's verdict.
No fairness is assumed of new requests, of failures or of spurious wakeups.
`FairProxySpec` assumes that workers are scheduled, that handlers return and
that the main thread goes on when it has something to do; it has strong fairness
for the two calls that take the pool's lock, since only workers that wake up
without a reason for ever could keep that lock busy each time it is looked at.
Nobody need connect and `accept` need not fail. `SpinLock` and `SharedList`
assume weak fairness of each thread and no more: a thread that finds a lock
taken each time it looks may never get it, which is why `PassesKeepEnding` says
that some pass ends again and again, not which; on the spinlock all get through
since the others run out of iterations. `MyThread` assumes that the kernel runs
its threads, `UThread` that the process runs and that start routines return. No
spurious wakeup is owed to a sleeper of `FUTEX_WAIT`.

Every property of a passing run has a faulty variant of one definition under
which it fails; the variants stand next to the definitions they vary, their
comments say in parentheses which mistake they are.

## 5. What is proved

All theorems are about every number of threads, users, keys, connections,
blocks and iterations. Each rests on an inductive invariant that was first
checked by TLC on small instances; preservation is proved with one step per
action.

`CacheProofs`: `Spec` implies `IInv` and from it the safety properties of the
run `cache`. The only assumptions are those of `CacheAssumption`: the set of
users is finite, `NoKey` and `NoEntry` are no key and no entry, the sizes are
natural numbers, those of the code positive. The invariants are not inductive
one by one. That `cache_release` leaves the right thing depends on `refcnt`
being exact; that it is exact after a join depends on the lookup never finding
an entry to drop, hence on idle entries being sealed; that they are depends on
every filling entry having a writer who still holds it. `IInv` is therefore the
conjunction of `TypeOK`, `RefcntExact` and `Consistent`, whose parts say: users
in the cache hold linked entries (`RefsLinked`), filling entries have exactly
one writer (`FillingHasWriter`), sleepers have read everything
(`SleepersUpToDate`), what a last releaser found under the lock stays true after
it (`ReleasersKnow`), no entry is both complete and failed (`OneVerdict`), and
four of the properties themselves. Two lemmas carry the argument about counting:
`HolderCounted` (a holder implies a positive count) and `LastHolder` (a count of
one leaves one holder); `NothingToDrop` shows that the branch of
`cache_start_or_join` for failed entries without users (`cache.c:125-157`) is
never taken. `OthersWakeAtMost` and `OthersKeepEntry` say what a step of one
user leaves to the others; the next module needs them.

Its last part shows that `Cache` implements `ResponseStore` (`ImplementsStore`),
from the same `IInv`. A key that is in the table has one entry, whose holders
are its users (`EntryOfKey`, by `UniqueKeys` and `RefsLinked`); a writer's step
therefore changes one response (`WriterMoves`), and who is to forget one was its
only user (`LastHolder`) and can only forget a failed one (`FillingHasWriter`
and `OneVerdict`).

`ProxyHandlerProofs`: the handler is written with the actions of `Cache`, so it
takes no other steps in the cache; that much holds by construction
(`ProtocolKept`, a lemma) and makes every theorem of `CacheProofs` hold of the
proxy, by an instance of that module with the workers for the users. What does
depend on the paths of `handle_client` is that each call comes when the cache
expects it, or a worker would be stuck in the model where the code goes on:
`CallOrder`. `HandlerInv` says besides that a worker
knows how far it is in the response it serves: what it has sent are the first
blocks (`SentSoFar`), a reader has sent what it has copied but for the piece in
its hands, a writer has sent what it has appended as long as its client
stays, and whoever comes to the release with a client has reached the end of the
entry. That a piece continues what was sent is `NextPiece`; that a reader's piece
is none of negative length needs `CopiesInBounds` from the cache. From it follow
`WholeResponses` and `BlocksInOrder`. `RunsCache` carries the
theorems of `CacheProofs` over: `CacheServesProxy` (memory safety, one fetch per
key, exact counts, no lost wakeup, sealed content) and `ProxyStoresResponses`,
the refinement of `ResponseStore` by the handlers. With the next module,
`RequestsUnderstood` states `RequestAsMeant` for any set of well-formed messages
(`MessagesAssumption`), and `SharersAgree` that clients served from one entry
asked the same host, and for the same path as far as the key has room, for any
such messages, whether their keys are cut or not. `ParsingAssumption` has
`host[256]` shorter than `key[512]`, so the host is never cut. Two paths of one
host that differ only behind what `snprintf` keeps do share an entry.

`RequestParsingProofs`: what the code reads from a buffer is what the client
meant (`ParsedAsMeant`), for messages and pieces of any length. There is no
recursion in the searches, so no induction is needed: `FindIsFirst`, `UpToStop`
and `WithoutBlanks` say that the position that satisfies a search and that none
before satisfies is the one it returns. Predicates such as `LineOf`, `RestOf` and
`WireOf` say what each symbol of a text is. The argument is about where the blank
line can be that ended the `recv` loop: not in the request line, which has no CR
(`RequestLineArrived`), and not before the end of the host's line, since it would
then lie among the fields before it (`HostArrived`). Hence both are complete in
the buffer. `KeyIs` and `KeyDistinguishes`: a key determines the host, and the
uri up to the cut, since no host has a space in it. `HostEndsInBuffer` is not
about well-formed messages but about a buffer of any content that is accepted: it
says exactly when the terminator of `proxy.c:287` is stored one past `buf[8192]`,
namely when the buffer is full, its first `Host:` stands behind the blank line and
no CR or LF follows it. A `Host:` before the blank line has a CR behind it, where
the search ends (`UpToEnds`); what a search finds is there (`FoundAt`), by the
well-foundedness of `<`.

`ProxyProofs`: `IInv` says that the lock and the tasks of the workers follow
their points (`PointsTell`), that what a worker found in the list is still so
where it relies on it (`FoundEmpty`), that a task the pool accepted is in one
place (`PlacesDisjoint`), that `proxy_run` is where its pool is
(`PointsAgree`), that sockets are open where somebody will close them
(`SocketsFollow`), together with `ListIsQueue` and `EnoughAwake`. Four lemmas
(`SubmitMoves`, `TakeMoves`, `FinishMoves`, `StopMoves`) say how a task moves
from place to place; the argument for `EnoughAwake` counts: a submission adds
one task and one worker on its way, a worker that takes a task takes both away,
and a worker goes to sleep only while the list is empty. From `IInv` follow
`PointersAreQueue`, `NobodyOversleeps`, `TableIsThere`, `ConnectionsOwned` and
the refinement `ImplementsQueue`. The assumption is that there are workers,
finitely many: with none, a stopped pool would drop what it accepted.

`LockTestProofs`: type correctness, mutual exclusion and the refinement
`Spec => CountsAtomically` of both locks (for any lengths of rounds with
`FirstSpins <= MaxSpins`, the first positive). The inductive invariant adds to
the exclusion that a thread between `Load` and `Store` has read what the counter
still is, which is what makes `Store` an increment, and that a thread that has
begun an iteration has it still to count. Exclusion of the mutex does not depend
on its wakeups, so it holds in spite of finding 4.
`SumExpected` is what the tests print, for any finite set of threads: the
counter plus the size of `Todo`, the set of iterations still to count, never
changes, and `Todo` is empty when everybody is done. `TwoThreadsAreWoken` is the
other side of finding 4: with two threads every sleeper has a waker on its way or
an owner that will find a 2, so the owner that does not mark (`mutex.c:23-32`)
can only harm a third thread, and the violating run needs its three.

`MyThreadProofs`: `IInv` relates the three flags of a thread to its point and to
that of the main thread: the fields tell how far the thread is
(`FieldsTellPoint`), what the main thread has seen is so (`MainKnows`), a stack
the main thread has passed over is unmapped or left to the thread
(`JoinedByMain`, `LeftToThread`). From it follow `JoinCorrect`, `StackKept` and
`NothingLeaks`.
A second invariant, `JoinInv`, says that a thread to be joined keeps its stack
until the main thread comes to it (`WaitedForKept`), that a sleeping join has its
wakeup before it (`WakeupToCome`) and what the joins behind have got
(`Delivered`). It gives `JoinersAreWoken`, the safety half of a join that ends,
and `JoinsDeliver`. `CrashesAfterCompletion` delimits finding 5: whatever
crashes has stored its result and `completed`, and dies between there and its
return.

`UThreadProofs`: `IInv` adds to `ReadyListExact` and `CpuIsCurrent` that the main
thread is resumed only when the list is empty, so that its `t0` is not put in the
list while it is there (`MainWaits`), that a thread that is ready or running has
its stack (`StacksHeld`), and that a thread not yet made is in no state
(`NotYetMade`). A listed thread is ready, so `pop_ready` takes the one that was
pushed last (`PopIsTail`); a yield has just pushed its caller, which is therefore
resumed, and no thread changes its state (`YieldReturns`). From it follow
`ListCorrect`, `ProcessorCorrect` and `YieldIsNoSwitch`.

`SharedListProofs`: `IInv` says, besides `ListIsOrder`, that `order` has every
item once (`Permutation`), which locks a thread holds at each point
(`HeldIsOwned`), that swappers share their nodes with nobody (`SwappersAlone`),
that a thread knows the neighbours of the node it has locked (`InPlace`), how
far it is on its way (`PassSoFar`, `WalkSoFar`), and how far the three
assignments of an exchange are (`HalfLinked`). Without the last the invariant is
not inductive: `ListIsOrder` speaks of nodes outside exchanges only. Two lemmas
carry the argument. `ExchangeFacts` says what an exchange of neighbours does to
positions and successors: of the items before a given node, the set changes only
if that node is the first of the two. `Disjoint` says that the nodes of an
exchange are nobody else's; so what a traverser has gone through, and the way a
swapper has before it, stay (`SparedKeeps`). From `IInv` follow `LinksCorrect`,
`PairFound`, `PassesComplete` and `LocksOrdered`, for exclusive and for shared
locks (`Shared`), any number of items but none, and any threads.
`SomebodyIsUnblocked` closes the circle: of the threads that wait, the one whose
node is nearest to the end of the list waits for nobody, since a holder of that
node would wait for a later one. The greatest of these positions is taken from
the well-foundedness of `<` on the naturals (`LeastOf`), which can be cited where
the induction theorems cannot, and needs no finiteness of the set of threads.
`OnlyNeededExchanges` says that three assignments and the hand-over-hand locks
amount to one exchange of neighbours which the swapper still wants when it takes
effect.

Only model-checked: all liveness properties. TLAPS proves none under fairness.

## 6. Findings

1. `cache.c:256`: the log line of a release that is not the last reads the
   entry after `t->lock` was dropped; it may be freed by then.
2. `proxy.c:106,124`: `gethostbyname` is not thread-safe; a worker may connect
   to, and cache, another worker's origin.
3. `threadpool.c:46-47`: stop and broadcast without the lock, so that a failed
   `threadPoolCreate` may never return.
4. `2.4/mutex/mutex.c:23-32`: a thread that was woken holds the lock with the
   word at 1, so its unlock wakes nobody though others may sleep; with three
   threads or more a wakeup can be lost and the join of the test never ends.
5. `1.6/mythread.c:83,95,28`: the stack of a thread is unmapped once `completed`
   is set, by the joiner, the detacher or the thread itself, while the thread
   has still to wake the joiner and to return on it.

## 7. What is not modelled

* The logger and `main.c`: output and constants.
* `create_listen_socket` and the loop of `connect_to_origin` over addresses are
  one call that succeeds or fails; `EINTR` retries and partial sends inside
  `send_all` end in success or failure.
* `uthread_run`, which nobody calls; `mythread` calls that return `EINVAL`,
  which `main.c` never makes.
* `2.3/spinlock/list.c`, which does not compile (line 30); its `threads.c` is
  covered by `SharedList`. The counters and the monitors of `2.3`, and
  `storage_destroy`, which is never reached.
* The runs of `run_test` in `2.4` without a lock and with a lock of the library.
* Timeouts, evictions and retries: the code has none.
