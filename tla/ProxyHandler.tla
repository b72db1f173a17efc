---------------------------- MODULE ProxyHandler ----------------------------
(***************************************************************************)
(* handle_client of proxy/proxy.c with connect_to_origin: what a worker    *)
(* thread of the pool does with one client connection.  Several workers    *)
(* run it at once on one cache, the module Cache, whose operations are     *)
(* conjuncts of the actions below.                                         *)
(*                                                                         *)
(* stage[w] is where worker w is in handle_client between two calls that   *)
(* block or that other workers can observe; at[w], in Cache, is where it   *)
(* is in the protocol of the cache.  Clients, origins, the resolver and    *)
(* the sockets are the environment: every call into them succeeds or fails *)
(* as it likes.                                                            *)
(***************************************************************************)
EXTENDS Integers, FiniteSets, RequestParsing

CONSTANTS
    Workers,   \* worker threads of the pool
    Messages,  \* what clients send, as RequestParsing describes it
    NoRequest, \* a worker without a parsed request
    NoHost,    \* the resolver's buffer before its first use
    Entries, NoKey, NoEntry, InitCapacity, MaxAppend, MaxChunk, MaxSize

\* The requests handle_client reads from those messages, in whatever pieces
\* they arrive.
Arriving == UNION {Buffers(m) : m \in Messages}
Requests == {Parse(b) : b \in {b \in Arriving : Accepts(b)}}
Keys  == {KeyOf(q) : q \in Requests}
Hosts == {q.host : q \in Requests}

VARIABLES
    open, live, linked, entry, at, ref, offset,  \* the cache
    stage,    \* stage[w]: the point of handle_client worker w has reached
    req,      \* req[w]: the request it parsed
    hostent,  \* the host whose address gethostbyname's static buffer holds
    peer,     \* peer[w]: the host ofd is connected to
    total,    \* total[w]: total_from_origin, in blocks
    alive,    \* alive[w]: client_alive; for a reader, no send has failed
    piece,    \* piece[w]: blocks it still has to send to its client
    sent      \* sent[w]: blocks of the response its client was sent, in order

cacheVars == <<open, live, linked, entry, at, ref, offset>>
localVars == <<stage, req, peer, total, alive, piece, sent>>
vars == <<cacheVars, localVars, hostent>>

C == INSTANCE Cache WITH Users <- Workers

\* The constants suit the cache.
ASSUME HandlerAssumption ==
    /\ IsFiniteSet(Workers)
    /\ NoKey \notin Keys
    /\ NoEntry \notin Entries
    /\ InitCapacity \in Nat \ {0}
    /\ MaxAppend \in Nat \ {0}
    /\ MaxChunk \in Nat \ {0}
    /\ MaxSize \in Nat

ASSUME MessagesAssumption == \A m \in Messages : WellFormed(m)

Stages == {"idle", "parse", "stream", "resolve", "connect", "badgateway",
           "request", "recv", "forward", "abort", "release"}

TypeOK ==
    /\ C!TypeOK
    /\ stage \in [Workers -> Stages]
    /\ req \in [Workers -> Requests \cup {NoRequest}]
    /\ hostent \in Hosts \cup {NoHost}
    /\ peer \in [Workers -> Hosts \cup {NoHost}]
    /\ total \in [Workers -> 0..MaxSize]
    /\ alive \in [Workers -> BOOLEAN]
    /\ piece \in [Workers -> Seq(1..MaxSize)]
    /\ sent \in [Workers -> Seq(1..MaxSize)]

Init ==
    /\ C!Init
    /\ stage = [w \in Workers |-> "idle"]
    /\ req = [w \in Workers |-> NoRequest]
    /\ hostent = NoHost
    /\ peer = [w \in Workers |-> NoHost]
    /\ total = [w \in Workers |-> 0]
    /\ alive = [w \in Workers |-> FALSE]
    /\ piece = [w \in Workers |-> <<>>]
    /\ sent = [w \in Workers |-> <<>>]

Goto(w, s) == stage' = [stage EXCEPT ![w] = s]

\* Worker w is back in workerLoop with its sockets closed.
Return(w) ==
    /\ Goto(w, "idle")
    /\ req' = [req EXCEPT ![w] = NoRequest]
    /\ peer' = [peer EXCEPT ![w] = NoHost]
    /\ total' = [total EXCEPT ![w] = 0]
    /\ alive' = [alive EXCEPT ![w] = FALSE]
    /\ piece' = [piece EXCEPT ![w] = <<>>]
    /\ sent' = [sent EXCEPT ![w] = <<>>]
    /\ UNCHANGED hostent

\* The blocks of the response behind the first m, up to the n-th.
\* (BlocksFromStart: copied from the beginning of the data.)
BlocksFromStart(m, n) == [i \in 1 .. n - m |-> i]
Blocks(m, n) == [i \in 1 .. n - m |-> m + i]

\* The piece in hand has gone out to the client.
Deliver(w) ==
    /\ sent' = [sent EXCEPT ![w] = @ \o piece[w]]
    /\ piece' = [piece EXCEPT ![w] = <<>>]

----------------------------------------------------------------------------
(* Up to the lookup in the cache.                                          *)

\* workerLoop calls handle_client on a new connection.
Accept(w) ==
    /\ stage[w] = "idle"
    /\ open
    /\ Goto(w, "parse")
    /\ alive' = [alive EXCEPT ![w] = TRUE]
    /\ UNCHANGED <<cacheVars, req, hostent, peer, total, piece, sent>>

\* recv fails or ends, headers too large, or the request is rejected.
Reject(w) ==
    /\ stage[w] = "parse"
    /\ Return(w)
    /\ UNCHANGED cacheVars

JoinAsReader(w, q) ==
    /\ stage[w] = "parse"
    /\ C!Hit(w, KeyOf(q))
    /\ Goto(w, "stream")
    /\ req' = [req EXCEPT ![w] = q]
    /\ UNCHANGED <<hostent, peer, total, alive, piece, sent>>

JoinAsWriter(w, q) ==
    /\ stage[w] = "parse"
    /\ C!Miss(w, KeyOf(q))
    /\ Goto(w, "resolve")
    /\ req' = [req EXCEPT ![w] = q]
    /\ UNCHANGED <<hostent, peer, total, alive, piece, sent>>

JoinFails(w, q) ==
    /\ stage[w] = "parse"
    /\ C!MissNoMemory(w, KeyOf(q))
    /\ Return(w)

----------------------------------------------------------------------------
(* The reader.                                                             *)

\* stream_from_cache, up to the piece to send next or to its end.
Stream(w) ==
    /\ stage[w] = "stream"
    /\ \/ C!StreamWait(w) /\ UNCHANGED <<stage, piece>>
       \/ /\ C!StreamChunk(w)
          /\ piece' = [piece EXCEPT ![w] = Blocks(offset[w], offset[w] + C!Chunk(w))]
          /\ UNCHANGED stage
       \/ C!StreamEnd(w) /\ Goto(w, "release") /\ UNCHANGED piece
    /\ UNCHANGED <<req, hostent, peer, total, alive, sent>>

StreamSpurious(w) ==
    /\ stage[w] = "stream"
    /\ C!SpuriousWakeup(w)
    /\ UNCHANGED <<localVars, hostent>>

StreamSent(w) ==
    /\ stage[w] = "stream"
    /\ C!SendChunk(w)
    /\ Deliver(w)
    /\ UNCHANGED <<stage, req, hostent, peer, total, alive>>

StreamSendFails(w) ==
    /\ stage[w] = "stream"
    /\ C!SendFails(w)
    /\ Goto(w, "release")
    /\ alive' = [alive EXCEPT ![w] = FALSE]
    /\ piece' = [piece EXCEPT ![w] = <<>>]
    /\ UNCHANGED <<req, hostent, peer, total, sent>>

----------------------------------------------------------------------------
(* The writer: connect_to_origin.                                          *)

\* gethostbyname leaves its answer in a buffer all threads share.
Resolve(w) ==
    /\ stage[w] = "resolve"
    /\ hostent' = req[w].host
    /\ Goto(w, "connect")
    /\ UNCHANGED <<cacheVars, req, peer, total, alive, piece, sent>>

\* The address is copied out of that buffer and connected to.
Connect(w) ==
    /\ stage[w] = "connect"
    /\ peer' = [peer EXCEPT ![w] = hostent]
    /\ Goto(w, "request")
    /\ UNCHANGED <<cacheVars, req, hostent, total, alive, piece, sent>>

\* gethostbyname, socket or connect fails.
ConnectFails(w) ==
    /\ stage[w] \in {"resolve", "connect"}
    /\ Goto(w, "badgateway")
    /\ UNCHANGED <<cacheVars, req, hostent, peer, total, alive, piece, sent>>

\* The entry fails and the worker gives it back, before it closes its sockets.
GiveUp(w) ==
    /\ C!MarkFailed(w)
    /\ Goto(w, "release")
    /\ UNCHANGED <<req, hostent, peer, total, alive, piece, sent>>

\* The 502 is sent before the entry is marked.
BadGateway(w) == stage[w] = "badgateway" /\ GiveUp(w)

----------------------------------------------------------------------------
(* The writer: request and response.                                       *)

SendRequest(w) ==
    /\ stage[w] = "request"
    /\ Goto(w, "recv")
    /\ UNCHANGED <<cacheVars, req, hostent, peer, total, alive, piece, sent>>

\* The request does not fit in req[4096], or send_all to the origin fails.
\* (ReleaseUnmarked: released without a verdict.)
ReleaseUnmarked(w) ==
    /\ stage[w] = "request"
    /\ at' = [at EXCEPT ![w] = "release"]
    /\ Goto(w, "release")
    /\ UNCHANGED <<open, live, linked, entry, ref, offset>>
    /\ UNCHANGED <<req, hostent, peer, total, alive, piece, sent>>
RequestFails(w) == stage[w] = "request" /\ GiveUp(w)

\* n blocks arrive and are appended, then forwarded to the writer's own client
\* if that is still connected.
RecvData(w, n) ==
    /\ stage[w] = "recv"
    /\ C!Append(w, n)
    /\ total' = [total EXCEPT ![w] = @ + n]
    /\ IF alive[w]
       THEN /\ Goto(w, "forward")
            /\ piece' = [piece EXCEPT ![w] = Blocks(total[w], total[w] + n)]
       ELSE UNCHANGED <<stage, piece>>
    /\ UNCHANGED <<req, hostent, peer, alive, sent>>

\* (ForwardNothing: the piece is cached only.)
ForwardNothing(w) ==
    /\ stage[w] = "forward"
    /\ piece' = [piece EXCEPT ![w] = <<>>]
    /\ Goto(w, "recv")
    /\ UNCHANGED <<cacheVars, req, hostent, peer, total, alive, sent>>
Forward(w) ==
    /\ stage[w] = "forward"
    /\ Deliver(w)
    /\ Goto(w, "recv")
    /\ UNCHANGED <<cacheVars, req, hostent, peer, total, alive>>

\* The client is gone; the worker goes on caching.
ForwardFails(w) ==
    /\ stage[w] = "forward"
    /\ alive' = [alive EXCEPT ![w] = FALSE]
    /\ piece' = [piece EXCEPT ![w] = <<>>]
    /\ Goto(w, "recv")
    /\ UNCHANGED <<cacheVars, req, hostent, peer, total, sent>>

\* n blocks arrive and cannot be appended; the caller marks the entry again.
\* (RecvIgnored: the result of cache_append_data not looked at.)
RecvIgnored(w, n) ==
    /\ stage[w] = "recv"
    /\ C!AppendFails(w, n)
    /\ total' = [total EXCEPT ![w] = @ + n]
    /\ UNCHANGED <<stage, req, hostent, peer, alive, piece, sent>>
RecvNoMemory(w, n) ==
    /\ stage[w] = "recv"
    /\ C!AppendFails(w, n)
    /\ total' = [total EXCEPT ![w] = @ + n]
    /\ Goto(w, "abort")
    /\ UNCHANGED <<req, hostent, peer, alive, piece, sent>>

\* The receive loop ends with a verdict; the sockets are closed at once.
EndLoop(w) ==
    /\ Goto(w, "release")
    /\ peer' = [peer EXCEPT ![w] = NoHost]
    /\ UNCHANGED <<req, hostent, total, alive, piece, sent>>
Seal(w) == C!MarkComplete(w) /\ EndLoop(w)
Fail(w) == C!MarkFailed(w) /\ EndLoop(w)

Abort(w) == stage[w] = "abort" /\ Fail(w)

\* The origin closes the connection.
RecvEnd(w) == stage[w] = "recv" /\ Seal(w)

\* A reset ends a response, but fails one that has not begun.
RecvReset(w) ==
    /\ stage[w] = "recv"
    /\ IF total[w] > 0 THEN Seal(w) ELSE Fail(w)

RecvFails(w) == stage[w] = "recv" /\ Fail(w)

----------------------------------------------------------------------------
\* cache_release up to its return, and with it that of handle_client.
Release(w) ==
    /\ stage[w] = "release"
    /\ \/ /\ C!ReleaseShared(w) \/ C!ReleaseKeep(w) \/ C!ReleaseUnlink(w)
          /\ UNCHANGED <<localVars, hostent>>
       \/ (C!ReleaseLogged(w) \/ C!ReleaseDestroy(w)) /\ Return(w)

\* proxy_run destroys the table after it has joined the workers.
Shutdown ==
    /\ \A w \in Workers : stage[w] = "idle"
    /\ C!TableDestroy \/ C!Closed
    /\ UNCHANGED <<localVars, hostent>>

Handle(w) ==
    \/ Reject(w)
    \/ \E q \in Requests : JoinAsReader(w, q) \/ JoinAsWriter(w, q) \/ JoinFails(w, q)
    \/ Stream(w) \/ StreamSent(w) \/ StreamSendFails(w)
    \/ Resolve(w) \/ Connect(w) \/ ConnectFails(w) \/ BadGateway(w)
    \/ SendRequest(w) \/ RequestFails(w)
    \/ \E n \in 1..MaxAppend : RecvData(w, n) \/ RecvNoMemory(w, n)
    \/ Forward(w) \/ ForwardFails(w) \/ Abort(w)
    \/ RecvEnd(w) \/ RecvReset(w) \/ RecvFails(w)
    \/ Release(w)

Next ==
    \/ \E w \in Workers : Accept(w) \/ Handle(w) \/ StreamSpurious(w)
    \/ Shutdown

Spec == Init /\ [][Next]_vars

\* A worker that has a client goes on: it is scheduled, the origin sends, ends
\* or fails, and the client reads or disconnects.  The code has no timeouts.
FairSpec == Spec /\ \A w \in Workers : WF_vars(Handle(w))

----------------------------------------------------------------------------
(* Properties                                                              *)

\* Where handle_client stands and what the cache expects of it next agree, so
\* no call is made that the cache is not ready for.
InOrder(w) ==
    /\ stage[w] \in {"idle", "parse"} => at[w] = "out"
    /\ stage[w] = "stream" => at[w] \in C!Reading
    /\ stage[w] \in {"resolve", "connect", "badgateway", "request", "recv", "forward"}
         => at[w] = "write"
    /\ stage[w] = "abort" => at[w] = "abort"
    /\ stage[w] = "release" => at[w] \in {"release"} \cup C!Leaving
CallsInOrder == \A w \in Workers : InOrder(w)

\* A client that stayed connected and was served from a response that came to
\* its end was sent all of it, by the worker that fetched it as by those that
\* streamed it while it grew.
ServedWhole ==
    \A w \in Workers :
        /\ stage[w] = "release" /\ at[w] = "release"
        /\ alive[w] /\ entry[ref[w]].complete
        => Len(sent[w]) = entry[ref[w]].size

\* Whatever a client was sent, by the worker that fetches or by one that copies
\* from an entry that grows meanwhile, is the beginning of the response: no
\* block is left out, sent twice or sent out of order (proxy.c:163-170, 404-415).
SentInOrder == \A w \in Workers : \A i \in DOMAIN sent[w] : sent[w][i] = i

\* What handle_client takes for the request is what some client meant by its
\* message, however that was cut into pieces, whatever else it carries and
\* wherever its target names the site.
RequestAsMeant ==
    \A w \in Workers :
        req[w] # NoRequest => \E m \in Messages : m.host # <<>> /\ req[w] = Meaning(m)

\* Clients that are served from one entry have asked the same host, always, and
\* for the same path as far as key[512] has room for it: what line 298 cuts off
\* the end of a path does not tell two resources apart.
SharersAskedSame ==
    \A v, w \in {u \in Workers : at[u] \in C!Holding} :
        ref[v] = ref[w] =>
            /\ req[v].host = req[w].host
            /\ Cut(req[v].uri, Room(req[v])) = Cut(req[w].uri, Room(req[w]))

\* Every connection a worker takes on is closed in the end.
EveryClientClosed ==
    \A w \in Workers : stage[w] # "idle" ~> stage[w] = "idle"

\* "connected to origin %s:%d" is logged with the host of the request; this
\* says that the origin of a fetch is that host.
ConnectsToNamedHost ==
    \A w \in Workers : peer[w] # NoHost => peer[w] = req[w].host

----------------------------------------------------------------------------
(* The inductive invariant of the handler, beside that of its cache.       *)

LocalTypes ==
    /\ stage \in [Workers -> Stages]
    /\ req \in [Workers -> Requests \cup {NoRequest}]
    /\ total \in [Workers -> Nat]
    /\ alive \in [Workers -> BOOLEAN]
    /\ piece \in [Workers -> Seq(Nat)]
    /\ sent \in [Workers -> Seq(Nat)]

\* Nothing is counted before the lookup in the cache.
StartsAtZero(w) == stage[w] \in {"idle", "parse"} => total[w] = 0 /\ sent[w] = <<>>

\* What was sent is the beginning of the response.
SentSoFar(w) == sent[w] = Blocks(0, Len(sent[w]))

\* A reader has sent what it has copied, but for the piece in its hands.
ReaderKeepsUp(w) ==
    /\ at[w] \in {"stream", "wait"} => Len(sent[w]) = offset[w]
    /\ at[w] = "send" => sent[w] \o piece[w] = Blocks(0, offset[w])

\* A writer has appended what it received, and forwarded it before the next recv.
WriterKeepsUp(w) ==
    at[w] = "write" =>
        /\ total[w] = entry[ref[w]].size
        /\ alive[w] /\ stage[w] # "forward" => Len(sent[w]) = total[w]
        /\ stage[w] = "forward" => sent[w] \o piece[w] = Blocks(0, total[w])

\* Who comes to cache_release with its client has seen the end of the response.
ReleasesAtEnd(w) ==
    at[w] = "release" /\ alive[w] =>
        \/ entry[ref[w]].failed
        \/ entry[ref[w]].complete /\ Len(sent[w]) = entry[ref[w]].size

\* The entry a worker holds is the one of its request.
EntryOfRequest(w) ==
    at[w] \in C!Holding => /\ req[w] \in Requests
                           /\ entry[ref[w]].key = KeyOf(req[w])

WorkerInv(w) ==
    /\ InOrder(w)
    /\ StartsAtZero(w)
    /\ SentSoFar(w)
    /\ ReaderKeepsUp(w)
    /\ WriterKeepsUp(w)
    /\ ReleasesAtEnd(w)
    /\ EntryOfRequest(w)

HandlerInv == LocalTypes /\ \A w \in Workers : WorkerInv(w)
=============================================================================
