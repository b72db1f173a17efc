------------------------------- MODULE Proxy -------------------------------
(***************************************************************************)
(* proxy_run of proxy/proxy.c, the main thread of the proxy: it makes the  *)
(* table of the cache and the pool, accepts connections and submits one    *)
(* task for each, and takes everything down when accept fails.  It calls   *)
(* the pool of the module ThreadPool, whose tasks are the connections here *)
(* and whose actions are conjuncts of the actions below; the handler a     *)
(* worker runs is what matters to proxy_run of the module ProxyHandler: it *)
(* uses the table up to its return, and closes its connection.             *)
(***************************************************************************)
EXTENDS ThreadPool

VARIABLES
    point,  \* the point proxy_run has reached
    table,  \* the cache_table_t on its stack: none, ready or destroyed
    lfd,    \* the listening socket: none, open or closed
    conn,   \* the connection accepted and not yet handed on
    fd      \* fd[c]: the socket of connection c

proxyVars == <<point, table, lfd, conn, fd>>
allVars == <<vars, proxyVars>>

Sockets == {"none", "open", "closed", "closed twice"}

ProxyTypeOK ==
    /\ TypeOK
    /\ point \in {"table", "create", "listen", "accept", "submit",
                  "stop", "join", "destroy", "returned"}
    /\ table \in {"none", "ready", "destroyed"}
    /\ lfd \in Sockets
    /\ conn \in Tasks \cup {NoTask}
    /\ fd \in [Tasks -> Sockets]

ProxyInit ==
    /\ Init
    /\ point = "table"
    /\ table = "none"
    /\ lfd = "none"
    /\ conn = NoTask
    /\ fd = [c \in Tasks |-> "none"]

\* What close does to a socket.
Closed(s) == IF s = "open" THEN "closed" ELSE "closed twice"

----------------------------------------------------------------------------
(* Up to the listening socket                                              *)

InitTable ==
    /\ point = "table"
    /\ table' = "ready"
    /\ point' = "create"
    /\ UNCHANGED <<vars, lfd, conn, fd>>

InitTableFails ==
    /\ point = "table"
    /\ point' = "returned"
    /\ UNCHANGED <<vars, table, lfd, conn, fd>>

\* threadPoolCreate, up to its return of a pool or of NULL.
CreatePool ==
    /\ point = "create"
    /\ \/ /\ (\E w \in Workers : CreateWorker(w)) \/ CreateFails \/ FailBroadcast
          /\ UNCHANGED point
       \/ CreateDone /\ point' = "listen"
       \/ FailJoined /\ point' = "destroy"
    /\ UNCHANGED <<table, lfd, conn, fd>>

Listen ==
    /\ point = "listen"
    /\ \/ lfd' = "open" /\ point' = "accept"
       \/ point' = "stop" /\ UNCHANGED lfd
    /\ UNCHANGED <<vars, table, conn, fd>>

----------------------------------------------------------------------------
(* The loop.  accept is called again when a signal has interrupted it.     *)

Accept(c) ==
    /\ point = "accept"
    /\ fd[c] = "none"
    /\ fd' = [fd EXCEPT ![c] = "open"]
    /\ conn' = c
    /\ point' = "submit"
    /\ UNCHANGED <<vars, table, lfd>>

SubmitClient ==
    /\ point = "submit"
    /\ Submit(conn)
    /\ conn' = NoTask
    /\ point' = "accept"
    /\ UNCHANGED <<table, lfd, fd>>

\* malloc fails here, or in threadPoolSubmit before the list is touched.
\* (RefuseSubmitted: once the task is on the list.)
RefuseSubmitted ==
    /\ point = "submit"
    /\ Submit(conn)
    /\ fd' = [fd EXCEPT ![conn] = Closed(@)]
    /\ conn' = NoTask
    /\ point' = "accept"
    /\ UNCHANGED <<table, lfd>>
Refuse ==
    /\ point = "submit"
    /\ fd' = [fd EXCEPT ![conn] = Closed(@)]
    /\ conn' = NoTask
    /\ point' = "accept"
    /\ UNCHANGED <<vars, table, lfd>>

\* Any other error of accept ends the loop.
AcceptFails ==
    /\ point = "accept"
    /\ lfd' = Closed(lfd)
    /\ point' = "stop"
    /\ UNCHANGED <<vars, table, conn, fd>>

----------------------------------------------------------------------------
(* The way out                                                             *)

\* threadPoolStop.  (StopDestroying: the table is destroyed before the workers
\* are joined.)
StopDestroying ==
    /\ point = "stop"
    /\ Stop
    /\ table' = "destroyed"
    /\ point' = "join"
    /\ UNCHANGED <<lfd, conn, fd>>
StopPool ==
    /\ point = "stop"
    /\ Stop
    /\ point' = "join"
    /\ UNCHANGED <<table, lfd, conn, fd>>

PoolStopped ==
    /\ point = "join"
    /\ Stopped
    /\ point' = "destroy"
    /\ UNCHANGED <<table, lfd, conn, fd>>

DestroyTable ==
    /\ point = "destroy"
    /\ table' = "destroyed"
    /\ point' = "returned"
    /\ UNCHANGED <<vars, lfd, conn, fd>>

----------------------------------------------------------------------------
(* The workers                                                             *)

\* handle_client closes its connection, and the task is finished.
HandlerReturns(w) ==
    /\ Finish(w)
    /\ fd' = [fd EXCEPT ![task[w]] = Closed(@)]
    /\ UNCHANGED <<point, table, lfd, conn>>

ProxyWorker(w) ==
    \/ /\ Lock(w) \/ FindNothing(w) \/ Sleep(w) \/ Exit(w) \/ Take(w)
       /\ UNCHANGED proxyVars
    \/ HandlerReturns(w)

----------------------------------------------------------------------------
\* The steps proxy_run takes by itself, once it has something to do.
ProxyMain ==
    \/ InitTable \/ InitTableFails \/ CreatePool \/ Listen
    \/ SubmitClient \/ Refuse
    \/ StopPool \/ PoolStopped \/ DestroyTable

ProxyReturned == point = "returned" /\ UNCHANGED allVars

ProxyNext ==
    \/ ProxyMain
    \/ (\E c \in Tasks : Accept(c)) \/ AcceptFails
    \/ \E w \in Workers :
        \/ ProxyWorker(w)
        \/ SpuriousWakeup(w) /\ UNCHANGED proxyVars
    \/ ProxyReturned

ProxySpec == ProxyInit /\ [][ProxyNext]_allVars

\* Threads are scheduled and handlers return; nobody need connect, and accept
\* need not fail.  The main thread gets a lock that is free again and again:
\* only workers that wake up without a reason for ever could keep it busy.
FairProxySpec ==
    /\ ProxySpec
    /\ WF_allVars(ProxyMain)
    /\ SF_allVars(SubmitClient \/ StopPool)
    /\ \A w \in Workers : WF_allVars(ProxyWorker(w))

----------------------------------------------------------------------------
(* Properties                                                              *)

\* The connections workers are busy with.
Served == {task[w] : w \in Running}

\* An open connection is with exactly one of the main thread, the list of the
\* pool and a worker, whichever call failed on its way; a closed one with none.
OneOwner ==
    /\ {c \in Tasks : fd[c] = "open"} = ({conn} \ {NoTask}) \cup Pending \cup Served
    /\ conn \notin Pending \cup Served
    /\ Pending \cap Served = {}
    /\ \A j, k \in 1..Len(pending) : pending[j] = pending[k] => j = k
    /\ \A v, w \in Running : task[v] = task[w] => v = w
    /\ \A c \in Tasks : fd[c] # "closed twice"

\* The table is on the stack of proxy_run: it is made before the first worker
\* and destroyed after the last, on the error paths too.
TableOutlivesWorkers ==
    \A w \in Workers : pc[w] \notin {"unborn", "exited"} => table = "ready"

\* Every connection that was accepted is closed.
EveryConnectionClosed ==
    \A c \in Tasks : fd[c] = "open" ~> fd[c] = "closed"

\* After an error of accept or of create_listen_socket proxy_run returns, when
\* the tasks it has submitted are done.
ProxyReturns == point = "stop" ~> point = "returned"

----------------------------------------------------------------------------
(* The inductive invariant the safety properties follow from.              *)

\* A worker holds the lock up to pthread_cond_wait, an unlock or its end, and
\* a task while it runs it.
PointsTell ==
    \A w \in Workers : /\ owner = w <=> pc[w] \in {"test", "towait"}
                       /\ task[w] # NoTask <=> pc[w] = "run"

\* What a worker has found in the list is so as long as it relies on it.
FoundEmpty ==
    /\ \A w \in Workers : pc[w] = "towait" => pending = <<>>
    /\ \A w \in Workers : pc[w] = "exited" => stop /\ pending = <<>>

\* A connection accepted by the pool is in one place.
PlacesDisjoint ==
    /\ \A j, k \in 1..Len(pending) : pending[j] = pending[k] => j = k
    /\ \A v, w \in Running : task[v] = task[w] => v = w
    /\ Pending \cap Served = {}
    /\ done \cap (Pending \cup Served) = {}
    /\ accepted = Pending \cup Served \cup done

\* proxy_run is where the pool it made or is making is.
PointsAgree ==
    /\ point = "table" => main = "create" /\ \A w \in Workers : pc[w] = "unborn"
    /\ point = "create" => main \in {"create", "failcast", "failjoin"}
    /\ point \in {"listen", "accept", "submit", "stop"} => main = "serve"
    /\ point = "join" => main = "join"
    /\ point \in {"destroy", "returned"} =>
        /\ main \notin {"serve", "join"}
        /\ \A w \in Workers : pc[w] \in {"unborn", "exited"}
    /\ point \notin {"table", "returned"} => table = "ready"
    /\ main \in {"create", "serve"} => ~stop
    /\ main \in {"serve", "join", "gone"} => \A w \in Workers : pc[w] # "unborn"
    /\ conn # NoTask <=> point = "submit"

\* The sockets of the connections, by where these are.
SocketsFollow ==
    /\ conn \notin accepted
    /\ \A c \in Tasks :
        /\ fd[c] = "open" <=> c = conn \/ c \in Pending \cup Served
        /\ c \in done => fd[c] = "closed"
        /\ fd[c] # "closed twice"

IInv ==
    /\ ProxyTypeOK
    /\ PointsTell
    /\ FoundEmpty
    /\ ListIsQueue
    /\ PlacesDisjoint
    /\ PointsAgree
    /\ SocketsFollow
    /\ EnoughAwake
=============================================================================
