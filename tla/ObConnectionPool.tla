-------------------------- MODULE ObConnectionPool --------------------------
(***************************************************************************)
(* The OceanBase connection pool, dbms/oceanbase/ob_connection_pool.cpp,   *)
(* with the executor it shares with the sessions (runtime/thread_pool.h).  *)
(*                                                                         *)
(* Clients are terminals inside their inflight slot: they acquire a        *)
(* session, submit operations to the executor, and release the session     *)
(* when its last operation has completed.  A step is one critical section  *)
(* of Mutex_, or what happens between two of them.  Promises are resolved  *)
(* outside the lock, but nobody else can reach a promise taken out of      *)
(* Waiters_, so resolving it is part of the step that takes it.            *)
(*                                                                         *)
(* The I/O threads are interchangeable: the model counts those that wait   *)
(* for ReconnectMutex_, and follows the one that owns it.                  *)
(*                                                                         *)
(* A connection is the address of its object, so a new connection may get  *)
(* the address of a destroyed one.  A FaultX is a plausible bug in X.      *)
(***************************************************************************)
EXTENDS Naturals, Sequences, FiniteSets

CONSTANTS
  Client,     \* terminals between IncInflight and DecInflight
  NoClient,   \* marks a replacement task in the executor's queue
  Conn,       \* addresses of connection objects
  NoConn,     \* null
  PoolSize,   \* PoolSize_
  IoThreads,  \* threads of Executor_
  MaxBacklog  \* bound of the model: see MayBreak

ASSUME PoolAssumption == PoolSize \in Nat \ {0} /\ IoThreads \in Nat \ {0}
ASSUME BacklogAssumption == MaxBacklog \in Nat
ASSUME NullAssumption == NoConn \notin Conn /\ NoClient \notin Client

VARIABLES
  connections, \* Connections_
  checkedOut,  \* CheckedOut_
  waiters,     \* Waiters_
  pending,     \* PendingReplacements_
  at,          \* where each client is
  conn,        \* the connection its session owns
  broken,      \* TObSession::Broken_ of that session
  tasks,       \* Tasks of the executor
  blocked,     \* I/O threads waiting for ReconnectMutex_
  replacer,    \* where the owner of ReconnectMutex_ is
  fresh,       \* the connection it has just opened
  main,        \* progress of the runner's main thread
  victims      \* connections CancelAll still has to interrupt

poolVars   == <<connections, checkedOut, waiters, pending>>
clientVars == <<at, conn, broken>>
ioVars     == <<tasks, blocked, replacer, fresh>>
mainVars   == <<main, victims>>
vars == <<poolVars, clientVars, ioVars, mainVars>>

\* "query": an operation is queued in the executor; "running": an I/O thread
\* executes it.  The last four are inside ReleaseSession.
AtLabel == {"idle", "parked", "session", "query", "running",
            "returning", "dropping", "dropped", "submitting"}
ReplacerLabel == {"none", "check", "create", "publish", "backoff"}
MainLabel == {"serving", "killing", "cancelled", "closing", "closed"}

TypeOK ==
  /\ connections \in Seq(Conn)
  /\ checkedOut \in SUBSET Conn
  /\ waiters \in Seq(Client)
  /\ pending \in Nat
  /\ at \in [Client -> AtLabel]
  /\ conn \in [Client -> Conn \cup {NoConn}]
  /\ broken \in [Client -> BOOLEAN]
  /\ tasks \in Seq(Client \cup {NoClient})
  /\ blocked \in Nat
  /\ replacer \in ReplacerLabel
  /\ fresh \in Conn \cup {NoConn}
  /\ main \in MainLabel
  /\ victims \in SUBSET Conn

\* The constructor has opened PoolSize_ connections.
Init ==
  /\ connections \in {s \in [1 .. PoolSize -> Conn] :
                        \A i, j \in 1 .. PoolSize : s[i] = s[j] => i = j}
  /\ checkedOut = {}
  /\ waiters = <<>>
  /\ pending = 0
  /\ at = [c \in Client |-> "idle"]
  /\ conn = [c \in Client |-> NoConn]
  /\ broken = [c \in Client |-> FALSE]
  /\ tasks = <<>>
  /\ blocked = 0
  /\ replacer = "none"
  /\ fresh = NoConn
  /\ main = "serving"
  /\ victims = {}

Elems(s) == {s[i] : i \in DOMAIN s}

\* The connection objects that exist.
Live == (Elems(connections) \cup {conn[c] : c \in Client} \cup {fresh}) \ {NoConn}

\* The scheduler runs the clients until the main thread has joined it, which
\* it does before it destroys the pool.
Runs(c, label) == at[c] = label /\ main \notin {"closing", "closed"}

\* Shutdown_, set by the destructor only.
FaultShutdown == main = "closed"
Shutdown == main \in {"closing", "closed"}

\* Every dropped connection submits a task, while one task replaces all that
\* are pending: superfluous tasks pile up behind it.  Connections break only
\* while fewer than MaxBacklog tasks exist or are certain to come.
MayBreak ==
  Cardinality({c \in Client : broken[c] \/ at[c] \in {"dropping", "dropped", "submitting"}})
    + Cardinality({i \in DOMAIN tasks : tasks[i] = NoClient}) + blocked < MaxBacklog

------------------------------------------------------------------------------
(* Clients.                                                                  *)

\* AcquireSessionAsync: take the oldest free connection, or park.  CancelAll
\* does not set Shutdown_, so a cancelled pool still does both.
AcquireSessionAsync(c) ==
  /\ Runs(c, "idle")
  /\ \/ /\ connections # <<>>
        /\ connections' = Tail(connections)
        /\ checkedOut' = checkedOut \cup {Head(connections)}
        /\ conn' = [conn EXCEPT ![c] = Head(connections)]
        /\ at' = [at EXCEPT ![c] = "session"]
        /\ UNCHANGED waiters
     \/ /\ connections = <<>>
        /\ waiters' = Append(waiters, c)
        /\ at' = [at EXCEPT ![c] = "parked"]
        /\ UNCHANGED <<connections, checkedOut, conn>>
  /\ UNCHANGED <<pending, broken, ioVars, mainVars>>

\* An operation of the session: TObSession submits it to the executor.
SubmitOperation(c) ==
  /\ Runs(c, "session")
  /\ tasks' = Append(tasks, c)
  /\ at' = [at EXCEPT ![c] = "query"]
  /\ UNCHANGED <<poolVars, conn, broken, blocked, replacer, fresh, mainVars>>

\* ReleaseSession up to its first critical section.  ReleaseConnection rolls back
\* an open transaction, which discards the server's answer and so changes
\* nothing about the session: reusable is ~Broken_.
FaultReleaseSession(c) ==
  /\ Runs(c, "session")
  /\ at' = [at EXCEPT ![c] = IF broken[c] THEN "dropping" ELSE "returning"]
  /\ broken' = [broken EXCEPT ![c] = FALSE]
  /\ UNCHANGED <<poolVars, conn, ioVars, mainVars>>
ReleaseSession(c) ==
  /\ Runs(c, "session")
  /\ checkedOut' = checkedOut \ {conn[c]}
  /\ at' = [at EXCEPT ![c] = IF broken[c] THEN "dropping" ELSE "returning"]
  /\ broken' = [broken EXCEPT ![c] = FALSE]
  /\ UNCHANGED <<connections, waiters, pending, conn, ioVars, mainVars>>

\* A connection k becomes available: the oldest waiter gets it, registered as
\* checked out, or it joins the free ones.  a and n are at and conn after the
\* giver has let go of k.
FaultOffer(k, a, n) ==
  /\ connections' = Append(connections, k)
  /\ at' = a
  /\ conn' = n
  /\ UNCHANGED <<waiters, checkedOut>>
Offer(k, a, n) ==
  \/ /\ waiters # <<>>
     /\ waiters' = Tail(waiters)
     /\ checkedOut' = checkedOut \cup {k}
     /\ at' = [a EXCEPT ![Head(waiters)] = "session"]
     /\ conn' = [n EXCEPT ![Head(waiters)] = k]
     /\ UNCHANGED connections
  \/ /\ waiters = <<>>
     /\ connections' = Append(connections, k)
     /\ at' = a
     /\ conn' = n
     /\ UNCHANGED <<waiters, checkedOut>>

\* ReleaseSession of a reusable session, second critical section.
ReturnConnection(c) ==
  /\ Runs(c, "returning")
  /\ Offer(conn[c], [at EXCEPT ![c] = "idle"], [conn EXCEPT ![c] = NoConn])
  /\ UNCHANGED <<pending, broken, ioVars, mainVars>>

\* ReleaseSession of a broken one: Abandon and destroy the connection ...
DropConnection(c) ==
  /\ Runs(c, "dropping")
  /\ conn' = [conn EXCEPT ![c] = NoConn]
  /\ at' = [at EXCEPT ![c] = "dropped"]
  /\ UNCHANGED <<poolVars, broken, ioVars, mainVars>>

\* ... count the replacement it needs ...
FaultCountReplacement(c) ==
  /\ Runs(c, "dropped")
  /\ at' = [at EXCEPT ![c] = "submitting"]
  /\ UNCHANGED <<poolVars, conn, broken, ioVars, mainVars>>
CountReplacement(c) ==
  /\ Runs(c, "dropped")
  /\ pending' = pending + 1
  /\ at' = [at EXCEPT ![c] = "submitting"]
  /\ UNCHANGED <<connections, checkedOut, waiters, conn, broken, ioVars, mainVars>>

\* ... and submit ReplaceBrokenConnections.
SubmitReplacement(c) ==
  /\ Runs(c, "submitting")
  /\ tasks' = Append(tasks, NoClient)
  /\ at' = [at EXCEPT ![c] = "idle"]
  /\ UNCHANGED <<poolVars, conn, broken, blocked, replacer, fresh, mainVars>>

ClientStep(c) ==
  \/ AcquireSessionAsync(c) \/ SubmitOperation(c) \/ ReleaseSession(c)
  \/ ReturnConnection(c) \/ DropConnection(c) \/ CountReplacement(c)
  \/ SubmitReplacement(c)

------------------------------------------------------------------------------
(* The executor's threads.                                                   *)

\* Threads inside a task, and a thread to take the next one.
BusyThreads ==
  Cardinality({c \in Client : at[c] = "running"}) + blocked
    + (IF replacer = "none" THEN 0 ELSE 1)

\* WorkerLoop takes the oldest task.
TakeTask ==
  /\ tasks # <<>> /\ BusyThreads < IoThreads
  /\ tasks' = Tail(tasks)
  /\ \/ /\ Head(tasks) # NoClient
        /\ at' = [at EXCEPT ![Head(tasks)] = "running"]
        /\ UNCHANGED blocked
     \/ /\ Head(tasks) = NoClient
        /\ blocked' = blocked + 1
        /\ UNCHANGED at
  /\ UNCHANGED <<poolVars, conn, broken, replacer, fresh, mainVars>>

\* The DBMS answers, the statement fails, or the connection is lost and
\* MarkException sets Broken_; the client is resumed.
CompleteOperation(c) ==
  /\ at[c] = "running"
  /\ at' = [at EXCEPT ![c] = "session"]
  /\ \E lost \in {FALSE, MayBreak} : broken' = [broken EXCEPT ![c] = @ \/ lost]
  /\ UNCHANGED <<poolVars, conn, ioVars, mainVars>>

\* A thread gets ReconnectMutex_.
LockReconnect ==
  /\ blocked > 0 /\ replacer = "none"
  /\ blocked' = blocked - 1
  /\ replacer' = "check"
  /\ UNCHANGED <<poolVars, clientVars, tasks, fresh, mainVars>>

\* The conditions under which ReplaceBrokenConnections returns.
FaultNothingToDo == Shutdown
NothingToDo == Shutdown \/ pending = 0

\* Top of its loop.
CheckPending ==
  /\ replacer = "check"
  /\ replacer' = IF NothingToDo THEN "none" ELSE "create"
  /\ UNCHANGED <<poolVars, clientVars, tasks, blocked, fresh, mainVars>>

CreateSucceeds ==
  /\ replacer = "create"
  /\ fresh' \in Conn \ Live
  /\ replacer' = "publish"
  /\ UNCHANGED <<poolVars, clientVars, tasks, blocked, mainVars>>

FaultCreateFails ==
  /\ replacer = "create"
  /\ replacer' = "none"
  /\ UNCHANGED <<poolVars, clientVars, tasks, blocked, fresh, mainVars>>
CreateFails ==
  /\ replacer = "create"
  /\ replacer' = IF Shutdown THEN "none" ELSE "backoff"
  /\ UNCHANGED <<poolVars, clientVars, tasks, blocked, fresh, mainVars>>

\* wait_for has timed out or was ended by the destructor.
BackoffOver ==
  /\ replacer = "backoff"
  /\ replacer' = IF Shutdown THEN "none" ELSE "check"
  /\ UNCHANGED <<poolVars, clientVars, tasks, blocked, fresh, mainVars>>

\* The new connection enters the pool, or is dropped by a closing one.
PublishReplacement ==
  /\ replacer = "publish"
  /\ fresh' = NoConn
  /\ \/ /\ NothingToDo
        /\ replacer' = "none"
        /\ UNCHANGED <<poolVars, at, conn>>
     \/ /\ ~NothingToDo
        /\ pending' = pending - 1
        /\ Offer(fresh, at, conn)
        /\ replacer' = "check"
  /\ UNCHANGED <<broken, tasks, blocked, mainVars>>

Create == CreateSucceeds \/ CreateFails
Replace == LockReconnect \/ CheckPending \/ BackoffOver \/ PublishReplacement

------------------------------------------------------------------------------
(* The main thread.                                                          *)

\* The waiters' futures resolve with an exception.
FailWaiters ==
  /\ waiters' = <<>>
  /\ at' = [c \in Client |-> IF at[c] = "parked" THEN "idle" ELSE at[c]]

\* CancelAll: one critical section, then KillQuery for each connection that was
\* checked out, by its address.  It interrupts what runs there; if the object
\* has been destroyed meanwhile the call is undefined behaviour, of which the
\* model keeps the outcome "nothing happens".
CancelAll ==
  /\ main = "serving"
  /\ victims' = checkedOut
  /\ FailWaiters
  /\ main' = "killing"
  /\ UNCHANGED <<connections, checkedOut, pending, conn, broken, ioVars>>

KillQuery ==
  /\ main = "killing"
  /\ \/ /\ victims # {}
        /\ \E k \in victims : victims' = victims \ {k}
        /\ UNCHANGED main
     \/ /\ victims = {}
        /\ main' = "cancelled"
        /\ UNCHANGED victims
  /\ UNCHANGED <<poolVars, clientVars, ioVars>>

\* The destructor, after the scheduler was joined: no client is between two
\* suspensions, and the sessions of destroyed coroutines have been released.
ClosePool ==
  /\ main = "cancelled"
  /\ \A c \in Client : at[c] \in {"idle", "parked", "query", "running"}
  /\ FailWaiters
  /\ main' = "closing"
  /\ UNCHANGED <<connections, checkedOut, pending, conn, broken, ioVars, victims>>

\* Executor_->Join returns once every queued task has been executed.
PoolClosed ==
  /\ main = "closing"
  /\ tasks = <<>> /\ BusyThreads = 0
  /\ connections' = <<>>
  /\ main' = "closed"
  /\ UNCHANGED <<checkedOut, waiters, pending, clientVars, ioVars, victims>>

Main == CancelAll \/ KillQuery \/ ClosePool \/ PoolClosed

Next ==
  \/ \E c \in Client : ClientStep(c) \/ CompleteOperation(c)
  \/ TakeTask \/ Create \/ Replace
  \/ Main

Spec == Init /\ [][Next]_vars

\* Threads run; the server ends every statement and connection attempt, be it
\* with an error (a run session sets no timeout for its statements itself); and a
\* terminal releases its session after finitely many operations.
Fairness ==
  /\ \A c \in Client :
       /\ WF_vars(SubmitOperation(c) \/ ReleaseSession(c) \/ ReturnConnection(c)
                  \/ DropConnection(c) \/ CountReplacement(c) \/ SubmitReplacement(c))
       /\ SF_vars(ReleaseSession(c))
       /\ WF_vars(CompleteOperation(c))
  /\ WF_vars(TakeTask) /\ WF_vars(Create) /\ WF_vars(Replace)
  /\ WF_vars(PoolClosed)
FairSpec == Spec /\ Fairness

------------------------------------------------------------------------------
(* Properties.                                                               *)

\* Clients whose connection left the pool and is not counted in pending.
Out == {c \in Client : at[c] \notin {"idle", "parked", "submitting"}}

\* Connections are conserved: free, out, or owed by ReplaceBrokenConnections.
\* However releases, drops, replacements and CancelAll interleave, the pool
\* neither shrinks for good nor grows beyond PoolSize.
Conservation ==
  main # "closed" => Len(connections) + Cardinality(Out) + pending = PoolSize

\* CheckedOut_ is exactly the set of connections that sessions own, each owned
\* by one, none free: what CancelAll interrupts is what runs, and no two
\* terminals share a connection.
ExclusiveUse ==
  LET users == {c \in Client : at[c] \in {"session", "query", "running"}} IN
    /\ checkedOut = {conn[c] : c \in users}
    /\ \A c, d \in Client : conn[c] = conn[d] /\ conn[c] # NoConn => c = d
    /\ \A c \in Client : conn[c] \notin Elems(connections)
    /\ fresh # NoConn => fresh \notin Elems(connections) \cup {conn[c] : c \in Client}

\* Nobody is parked beside a free connection: no hand-over is lost between a
\* release or a replacement and AcquireSessionAsync.
NoIdleConnection == waiters # <<>> => connections = <<>>

\* Every connection that has to be replaced has a task that will do it, queued,
\* blocked on ReconnectMutex_ or in the loop, or about to be submitted.
ReplacementOwed ==
  pending > 0 /\ ~Shutdown =>
    \/ NoClient \in Elems(tasks) \/ blocked > 0 \/ replacer # "none"
    \/ \E c \in Client : at[c] = "submitting"

\* A terminal parked in a pool that serves gets a session, or an exception, though
\* connections break and reconnects fail any number of times, as long as the
\* server comes back.
WaitersServed ==
  SF_vars(CreateSucceeds) =>
    \A c \in Client : at[c] = "parked" /\ main = "serving" ~> at[c] # "parked"

\* The destructor returns although the server refuses every new connection.
PoolCloses == main = "closing" ~> main = "closed"

\* "slows reconnects while many sessions are being replaced. The run continues":
\* while the run lasts, an operation of a session that has a connection is
\* executed, even if no new connection can be opened.
OperationsServed ==
  \A c \in Client : at[c] = "query" ~> at[c] # "query" \/ main # "serving"

\* "If the pool is shutting down or cancelled the future resolves with an
\* exception": once CancelAll has turned the waiters away, nobody is parked.
CancelledPoolParksNobody == main # "serving" => waiters = <<>>
==============================================================================
