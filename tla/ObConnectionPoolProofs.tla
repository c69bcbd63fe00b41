------------------------ MODULE ObConnectionPoolProofs ------------------------
(***************************************************************************)
(* Proofs about the OceanBase connection pool, for every number of         *)
(* terminals, connections and I/O threads and every bound on the backlog.  *)
(***************************************************************************)
EXTENDS ObConnectionPool, FiniteSetTheorems, TLAPS

------------------------------------------------------------------------------
(* The inductive invariants.                                                 *)

\* No element twice.
Distinct(s) == \A i, j \in DOMAIN s : s[i] = s[j] => i = j

\* A client owns a connection exactly from AcquireSessionAsync, or a hand-over,
\* to the end of ReleaseSession; the replacer, from opening to publishing it.
Owning == {"session", "query", "running", "returning", "dropping"}
HoldInv ==
  /\ \A c \in Client : conn[c] # NoConn <=> at[c] \in Owning
  /\ fresh # NoConn <=> replacer = "publish"

\* The entries of Waiters_ are parked clients, each once.
WaiterInv ==
  /\ \A i \in DOMAIN waiters : at[waiters[i]] = "parked"
  /\ Distinct(waiters)

\* The operations in the executor's queue are those of waiting clients.
TaskInv ==
  /\ \A i \in DOMAIN tasks : tasks[i] # NoClient => at[tasks[i]] = "query"
  /\ \A i, j \in DOMAIN tasks : tasks[i] = tasks[j] /\ tasks[i] # NoClient => i = j

CoreInv == TypeOK /\ HoldInv /\ WaiterInv /\ TaskInv

\* No connection is in two places: with Distinct, what ExclusiveUse rests on.
UseInv == ExclusiveUse /\ Distinct(connections)

\* Counting is possible: finitely many connections are out at any time.
CountInv == IsFiniteSet(Out) /\ Conservation

------------------------------------------------------------------------------
(* Sequences.                                                                *)

\* The tail of a sequence, element by element.
LEMMA TailFacts ==
  ASSUME NEW S, NEW s \in Seq(S), s # <<>>
  PROVE  /\ Head(s) \in S /\ Head(s) = s[1] /\ 1 \in DOMAIN s
         /\ Tail(s) \in Seq(S) /\ Len(Tail(s)) = Len(s) - 1 /\ Len(s) > 0
         /\ \A i \in DOMAIN Tail(s) : i + 1 \in DOMAIN s /\ Tail(s)[i] = s[i + 1]
         /\ \A i \in DOMAIN s : i # 1 => i - 1 \in DOMAIN Tail(s) /\ Tail(s)[i - 1] = s[i]
  OBVIOUS

\* An appended element.
LEMMA AppendFacts ==
  ASSUME NEW S, NEW s \in Seq(S), NEW x \in S
  PROVE  /\ Append(s, x) \in Seq(S) /\ Len(Append(s, x)) = Len(s) + 1
         /\ Len(s) + 1 \in DOMAIN Append(s, x) /\ Append(s, x)[Len(s) + 1] = x
         /\ \A i \in DOMAIN s : i \in DOMAIN Append(s, x) /\ Append(s, x)[i] = s[i]
         /\ \A i \in DOMAIN Append(s, x) : i \in DOMAIN s \/ i = Len(s) + 1
         /\ Len(s) + 1 \notin DOMAIN s
  OBVIOUS

\* What taking from the front leaves.
LEMMA ElemsTail ==
  ASSUME NEW S, NEW s \in Seq(S), s # <<>>
  PROVE  /\ Elems(s) = Elems(Tail(s)) \cup {Head(s)}
         /\ Distinct(s) => Distinct(Tail(s)) /\ Head(s) \notin Elems(Tail(s))
  <1>1. Elems(s) = Elems(Tail(s)) \cup {Head(s)}
    <2>1. ASSUME NEW x \in Elems(s) PROVE x \in Elems(Tail(s)) \cup {Head(s)}
      <3>1. PICK i \in DOMAIN s : x = s[i]
        BY <2>1 DEF Elems
      <3>2. CASE i = 1
        BY <3>1, <3>2, TailFacts
      <3>3. CASE i # 1
        <4>1. i - 1 \in DOMAIN Tail(s) /\ Tail(s)[i - 1] = s[i]
          BY <3>1, <3>3, TailFacts
        <4> QED BY <3>1, <4>1 DEF Elems
      <3> QED BY <3>2, <3>3
    <2>2. ASSUME NEW x \in Elems(Tail(s)) PROVE x \in Elems(s)
      <3>1. PICK i \in DOMAIN Tail(s) : x = Tail(s)[i]
        BY <2>2 DEF Elems
      <3> QED BY <3>1, TailFacts DEF Elems
    <2>3. Head(s) \in Elems(s)
      BY TailFacts DEF Elems
    <2> QED BY <2>1, <2>2, <2>3
  <1>2. ASSUME Distinct(s) PROVE Distinct(Tail(s)) /\ Head(s) \notin Elems(Tail(s))
    <2>1. \A i, j \in DOMAIN Tail(s) : Tail(s)[i] = Tail(s)[j] => i + 1 = j + 1
      BY <1>2, TailFacts DEF Distinct
    <2>2. \A i \in DOMAIN Tail(s) : i \in Nat /\ i # 0 /\ Tail(s)[i] # Head(s)
      BY <1>2, TailFacts DEF Distinct
    <2> QED BY <2>1, <2>2 DEF Distinct, Elems
  <1> QED BY <1>1, <1>2

\* What putting at the end adds.
LEMMA ElemsAppend ==
  ASSUME NEW S, NEW s \in Seq(S), NEW x \in S
  PROVE  /\ Elems(Append(s, x)) = Elems(s) \cup {x}
         /\ Distinct(s) /\ x \notin Elems(s) => Distinct(Append(s, x))
  <1>1. Elems(Append(s, x)) = Elems(s) \cup {x}
    BY AppendFacts DEF Elems
  <1>2. ASSUME Distinct(s), x \notin Elems(s) PROVE Distinct(Append(s, x))
    BY <1>2, AppendFacts DEF Distinct, Elems
  <1> QED BY <1>1, <1>2

------------------------------------------------------------------------------
(* What the steps change.                                                    *)

\* An element of a typed variable has its type.
LEMMA ClientType ==
  ASSUME TypeOK, NEW c \in Client
  PROVE  at[c] \in AtLabel /\ conn[c] \in Conn \cup {NoConn} /\ broken[c] \in BOOLEAN
  BY DEF TypeOK

\* Client c goes to label, and no other client moves.
Moved(c, label) ==
  /\ at' \in [Client -> AtLabel] /\ at'[c] = label
  /\ \A d \in Client \ {c} : at'[d] = at[d]

\* The form the actions give it.
LEMMA MovedShape ==
  ASSUME TypeOK, NEW c \in Client, NEW label \in AtLabel, at' = [at EXCEPT ![c] = label]
  PROVE  Moved(c, label)
  BY DEF TypeOK, Moved

\* Connection k goes from the clients of G to the oldest waiter w ...
Handed(k, G, w) ==
  /\ waiters # <<>> /\ w = Head(waiters) /\ w \in Client \ G /\ at[w] = "parked"
  /\ waiters' = Tail(waiters)
  /\ checkedOut' = checkedOut \cup {k}
  /\ connections' = connections
  /\ at' \in [Client -> AtLabel] /\ conn' \in [Client -> Conn \cup {NoConn}]
  /\ at'[w] = "session" /\ conn'[w] = k
  /\ \A g \in G : at'[g] = "idle" /\ conn'[g] = NoConn
  /\ \A d \in Client \ (G \cup {w}) : at'[d] = at[d] /\ conn'[d] = conn[d]

\* ... or back into the pool.
Freed(k, G) ==
  /\ waiters = <<>> /\ waiters' = waiters /\ checkedOut' = checkedOut
  /\ connections' = Append(connections, k)
  /\ at' \in [Client -> AtLabel] /\ conn' \in [Client -> Conn \cup {NoConn}]
  /\ \A g \in G : at'[g] = "idle" /\ conn'[g] = NoConn
  /\ \A d \in Client \ G : at'[d] = at[d] /\ conn'[d] = conn[d]

Given(k, G) == (\E w \in Client : Handed(k, G, w)) \/ Freed(k, G)

\* The oldest waiter is a parked client.
LEMMA OldestWaiter ==
  ASSUME TypeOK, WaiterInv, waiters # <<>>
  PROVE  Head(waiters) \in Client /\ at[Head(waiters)] = "parked"
  <1>1. waiters \in Seq(Client)
    BY DEF TypeOK
  <1> QED BY <1>1, TailFacts DEF WaiterInv

\* ReleaseSession hands the connection of its client over, or frees it.
LEMMA ReturnShape ==
  ASSUME TypeOK, HoldInv, WaiterInv, NEW c \in Client, ReturnConnection(c)
  PROVE  /\ at[c] = "returning" /\ conn[c] \in Conn /\ Given(conn[c], {c})
         /\ UNCHANGED <<pending, broken, ioVars, mainVars>>
  <1> DEFINE a == [at EXCEPT ![c] = "idle"]
             n == [conn EXCEPT ![c] = NoConn]
             k == conn[c]
  <1>1. at[c] = "returning" /\ UNCHANGED <<pending, broken, ioVars, mainVars>>
        /\ Offer(k, a, n)
    BY DEF ReturnConnection, Runs
  <1>2. conn[c] \in Conn
    BY <1>1 DEF HoldInv, Owning, TypeOK
  <1>3. /\ a \in [Client -> AtLabel] /\ n \in [Client -> Conn \cup {NoConn}]
        /\ a[c] = "idle" /\ n[c] = NoConn
        /\ \A d \in Client \ {c} : a[d] = at[d] /\ n[d] = conn[d]
    BY DEF TypeOK, AtLabel
  <1> HIDE DEF a, n
  <1>4. CASE waiters # <<>>
    <2> DEFINE w == Head(waiters)
    <2>1. w \in Client /\ at[w] = "parked" /\ w # c
      BY <1>1, <1>4, OldestWaiter
    <2>2. /\ waiters' = Tail(waiters) /\ checkedOut' = checkedOut \cup {k}
          /\ at' = [a EXCEPT ![w] = "session"] /\ conn' = [n EXCEPT ![w] = k]
          /\ connections' = connections
      BY <1>1, <1>4 DEF Offer
    <2> HIDE DEF w
    <2>3. /\ at' \in [Client -> AtLabel] /\ conn' \in [Client -> Conn \cup {NoConn}]
          /\ at'[w] = "session" /\ conn'[w] = k
          /\ \A d \in Client \ {w} : at'[d] = a[d] /\ conn'[d] = n[d]
      BY <1>2, <1>3, <2>1, <2>2 DEF AtLabel
    <2>4. Handed(k, {c}, w)
      BY <1>3, <1>4, <2>1, <2>2, <2>3 DEF Handed, w
    <2> QED BY <1>1, <1>2, <2>1, <2>4 DEF Given
  <1>5. CASE waiters = <<>>
    <2>1. /\ connections' = Append(connections, k) /\ at' = a /\ conn' = n
          /\ UNCHANGED <<waiters, checkedOut>>
      BY <1>1, <1>5 DEF Offer
    <2>2. Freed(k, {c})
      BY <1>3, <1>5, <2>1 DEF Freed
    <2> QED BY <1>1, <1>2, <2>2 DEF Given
  <1> QED BY <1>4, <1>5

\* PublishReplacement does the same with the new connection, or drops it.
LEMMA PublishShape ==
  ASSUME TypeOK, HoldInv, WaiterInv, PublishReplacement
  PROVE  /\ replacer = "publish" /\ fresh \in Conn /\ fresh' = NoConn
         /\ UNCHANGED <<broken, tasks, blocked, mainVars>>
         /\ \/ /\ NothingToDo /\ replacer' = "none"
               /\ UNCHANGED <<poolVars, at, conn>>
            \/ /\ ~NothingToDo /\ replacer' = "check"
               /\ pending' = pending - 1 /\ pending > 0
               /\ Given(fresh, {})
  <1>1. /\ replacer = "publish" /\ fresh' = NoConn
        /\ UNCHANGED <<broken, tasks, blocked, mainVars>>
    BY DEF PublishReplacement
  <1>2. fresh \in Conn
    BY <1>1 DEF HoldInv, TypeOK
  <1>3. CASE NothingToDo
    BY <1>1, <1>2, <1>3 DEF PublishReplacement
  <1>4. CASE ~NothingToDo
    <2>1. /\ pending' = pending - 1 /\ replacer' = "check" /\ Offer(fresh, at, conn)
          /\ pending > 0
      BY <1>4 DEF PublishReplacement, NothingToDo, TypeOK
    <2>2. CASE waiters # <<>>
      <3> DEFINE w == Head(waiters)
      <3>1. w \in Client /\ at[w] = "parked"
        BY <2>2, OldestWaiter
      <3>2. /\ waiters' = Tail(waiters) /\ checkedOut' = checkedOut \cup {fresh}
            /\ at' = [at EXCEPT ![w] = "session"] /\ conn' = [conn EXCEPT ![w] = fresh]
            /\ connections' = connections
        BY <2>1, <2>2 DEF Offer
      <3> HIDE DEF w
      <3>3. /\ at' \in [Client -> AtLabel] /\ conn' \in [Client -> Conn \cup {NoConn}]
            /\ at'[w] = "session" /\ conn'[w] = fresh
            /\ \A d \in Client \ {w} : at'[d] = at[d] /\ conn'[d] = conn[d]
        BY <1>2, <3>1, <3>2 DEF TypeOK, AtLabel
      <3>4. Handed(fresh, {}, w)
        BY <2>2, <3>1, <3>2, <3>3 DEF Handed, w
      <3> QED BY <1>1, <1>2, <1>4, <2>1, <3>1, <3>4 DEF Given
    <2>3. CASE waiters = <<>>
      <3>1. /\ connections' = Append(connections, fresh) /\ at' = at /\ conn' = conn
            /\ UNCHANGED <<waiters, checkedOut>>
        BY <2>1, <2>3 DEF Offer
      <3>2. Freed(fresh, {})
        BY <2>3, <3>1 DEF Freed, TypeOK
      <3> QED BY <1>1, <1>2, <1>4, <2>1, <3>2 DEF Given
    <2> QED BY <2>2, <2>3
  <1> QED BY <1>3, <1>4

\* The steps of a client that move it and leave the pool's lists alone.
Walk(c) ==
  \/ SubmitOperation(c) \/ ReleaseSession(c) \/ DropConnection(c) \/ CountReplacement(c)
  \/ SubmitReplacement(c) \/ CompleteOperation(c)

\* MayBreak is true or false.
LEMMA MayBreakType == MayBreak \in BOOLEAN
  BY DEF MayBreak

\* Where they lead.
LEMMA WalkShape ==
  ASSUME TypeOK, NEW c \in Client, Walk(c)
  PROVE  /\ Moved(c, at'[c])
         /\ \/ SubmitOperation(c) /\ at[c] = "session" /\ at'[c] = "query"
            \/ ReleaseSession(c) /\ at[c] = "session" /\ at'[c] \in {"returning", "dropping"}
            \/ DropConnection(c) /\ at[c] = "dropping" /\ at'[c] = "dropped"
            \/ CountReplacement(c) /\ at[c] = "dropped" /\ at'[c] = "submitting"
            \/ SubmitReplacement(c) /\ at[c] = "submitting" /\ at'[c] = "idle"
            \/ CompleteOperation(c) /\ at[c] = "running" /\ at'[c] = "session"
         /\ UNCHANGED <<connections, waiters, blocked, replacer, fresh, mainVars>>
         /\ broken' \in [Client -> BOOLEAN]
  <1> USE MovedShape DEF AtLabel, Moved, Runs, poolVars, ioVars
  <1>1. CASE SubmitOperation(c)
    BY <1>1 DEF SubmitOperation, TypeOK
  <1>2. CASE ReleaseSession(c)
    BY <1>2 DEF ReleaseSession, TypeOK
  <1>3. CASE DropConnection(c)
    BY <1>3 DEF DropConnection, TypeOK
  <1>4. CASE CountReplacement(c)
    BY <1>4 DEF CountReplacement, TypeOK
  <1>5. CASE SubmitReplacement(c)
    BY <1>5 DEF SubmitReplacement, TypeOK
  <1>6. CASE CompleteOperation(c)
    <2>1. PICK lost \in BOOLEAN : broken' = [broken EXCEPT ![c] = @ \/ lost]
      BY <1>6, MayBreakType DEF CompleteOperation
    <2>2. broken' \in [Client -> BOOLEAN]
      BY <2>1 DEF TypeOK
    <2> QED BY <1>6, <2>2 DEF CompleteOperation
  <1> QED BY <1>1, <1>2, <1>3, <1>4, <1>5, <1>6 DEF Walk

\* The steps of the replacer that touch neither lists nor clients.
Turn ==
  LockReconnect \/ CheckPending \/ CreateSucceeds \/ CreateFails \/ BackoffOver

\* What they change.
LEMMA TurnShape ==
  ASSUME TypeOK, HoldInv, Turn
  PROVE  /\ UNCHANGED <<poolVars, clientVars, tasks, mainVars>>
         /\ blocked' \in Nat /\ replacer' \in ReplacerLabel /\ fresh' \in Conn \cup {NoConn}
         /\ fresh' # NoConn <=> replacer' = "publish"
         /\ fresh' # NoConn => fresh' \in Conn \ Live
  <1> USE NullAssumption DEF ReplacerLabel
  <1>1. CASE LockReconnect
    BY <1>1 DEF LockReconnect, TypeOK, HoldInv
  <1>2. CASE CheckPending
    BY <1>2 DEF CheckPending, TypeOK, HoldInv
  <1>3. CASE CreateSucceeds
    BY <1>3 DEF CreateSucceeds, TypeOK, HoldInv
  <1>4. CASE CreateFails
    BY <1>4 DEF CreateFails, TypeOK, HoldInv
  <1>5. CASE BackoffOver
    BY <1>5 DEF BackoffOver, TypeOK, HoldInv
  <1> QED BY <1>1, <1>2, <1>3, <1>4, <1>5 DEF Turn

\* The waiters' futures are failed.
LEMMA FailShape ==
  ASSUME TypeOK, FailWaiters
  PROVE  /\ waiters' = <<>> /\ at' \in [Client -> AtLabel]
         /\ \A c \in Client : at'[c] = IF at[c] = "parked" THEN "idle" ELSE at[c]
  BY DEF FailWaiters, TypeOK, AtLabel

\* What the main thread changes.
LEMMA MainShape ==
  ASSUME TypeOK, Main
  PROVE  /\ UNCHANGED <<checkedOut, pending, conn, broken, ioVars>>
         /\ main' \in MainLabel /\ victims' \in SUBSET Conn
         /\ main # "closed"
         /\ main \in {"closing"} => main' \in {"closing", "closed"}
         /\ (waiters' = waiters /\ at' = at) \/ FailWaiters
         /\ connections' = connections \/ (connections' = <<>> /\ main' = "closed")
  <1> USE DEF TypeOK, MainLabel, poolVars, clientVars
  <1>1. CASE CancelAll
    BY <1>1 DEF CancelAll
  <1>2. CASE KillQuery
    BY <1>2 DEF KillQuery
  <1>3. CASE ClosePool
    BY <1>3 DEF ClosePool
  <1>4. CASE PoolClosed
    BY <1>4 DEF PoolClosed
  <1> QED BY <1>1, <1>2, <1>3, <1>4 DEF Main

\* A free connection is taken ...
Taken(c) ==
  /\ connections # <<>> /\ connections' = Tail(connections)
  /\ checkedOut' = checkedOut \cup {Head(connections)}
  /\ conn' = [conn EXCEPT ![c] = Head(connections)]
  /\ Moved(c, "session") /\ waiters' = waiters

\* ... or the client is parked.
Parked(c) ==
  /\ connections = <<>> /\ waiters' = Append(waiters, c)
  /\ Moved(c, "parked") /\ UNCHANGED <<connections, checkedOut, conn>>

\* What AcquireSessionAsync changes.
LEMMA AcquireShape ==
  ASSUME TypeOK, NEW c \in Client, AcquireSessionAsync(c)
  PROVE  /\ at[c] = "idle" /\ UNCHANGED <<pending, broken, ioVars, mainVars>>
         /\ Taken(c) \/ Parked(c)
  BY MovedShape DEF AcquireSessionAsync, Runs, Taken, Parked, AtLabel

\* An operation is taken from the queue, or a replacement.
LEMMA TakeShape ==
  ASSUME TypeOK, TaskInv, TakeTask
  PROVE  /\ UNCHANGED <<poolVars, conn, broken, replacer, fresh, mainVars>>
         /\ tasks # <<>> /\ tasks' = Tail(tasks)
         /\ \/ /\ Head(tasks) \in Client /\ at[Head(tasks)] = "query"
               /\ Moved(Head(tasks), "running") /\ blocked' = blocked
            \/ /\ Head(tasks) = NoClient /\ blocked' = blocked + 1 /\ at' = at
  <1>1. /\ tasks # <<>> /\ tasks' = Tail(tasks) /\ tasks \in Seq(Client \cup {NoClient})
        /\ UNCHANGED <<poolVars, conn, broken, replacer, fresh, mainVars>>
    BY DEF TakeTask, TypeOK
  <1>2. Head(tasks) \in Client \cup {NoClient} /\ Head(tasks) = tasks[1] /\ 1 \in DOMAIN tasks
    BY <1>1, TailFacts
  <1>3. CASE Head(tasks) = NoClient
    BY <1>1, <1>3 DEF TakeTask
  <1>4. CASE Head(tasks) # NoClient
    <2>1. Head(tasks) \in Client /\ at[Head(tasks)] = "query"
      BY <1>2, <1>4 DEF TaskInv
    <2>2. at' = [at EXCEPT ![Head(tasks)] = "running"] /\ blocked' = blocked
      BY <1>4 DEF TakeTask
    <2>3. Moved(Head(tasks), "running")
      BY <2>1, <2>2, MovedShape DEF AtLabel
    <2> QED BY <1>1, <2>1, <2>2, <2>3
  <1> QED BY <1>3, <1>4

\* Every step is one of these.
LEMMA Steps ==
  ASSUME [Next]_vars
  PROVE  \/ \E c \in Client : AcquireSessionAsync(c) \/ ReturnConnection(c) \/ Walk(c)
         \/ TakeTask \/ Turn \/ PublishReplacement \/ Main \/ UNCHANGED vars
  BY DEF Next, ClientStep, Walk, Create, Replace, Turn

------------------------------------------------------------------------------
(* Types, owners and queues.                                                 *)

\* Waiters_ as it was, nobody unparked; tasks as they were, nobody resumed.
LEMMA WaitersKept ==
  ASSUME TypeOK, WaiterInv, waiters' = waiters,
         \A d \in Client : at[d] = "parked" => at'[d] = "parked"
  PROVE  WaiterInv'
  <1>1. \A i \in DOMAIN waiters : waiters[i] \in Client
    BY DEF TypeOK
  <1> QED BY <1>1 DEF WaiterInv, Distinct

\* The same for the executor's queue.
LEMMA TasksKept ==
  ASSUME TypeOK, TaskInv, tasks' = tasks,
         \A d \in Client : at[d] = "query" => at'[d] = "query"
  PROVE  TaskInv'
  <1>1. \A i \in DOMAIN tasks : tasks[i] \in Client \cup {NoClient}
    BY DEF TypeOK
  <1> QED BY <1>1 DEF TaskInv

\* AcquireSessionAsync keeps types, owners and queues.
LEMMA AcquireCore ==
  ASSUME CoreInv, NEW c \in Client, AcquireSessionAsync(c) PROVE CoreInv'
  <1>1. TypeOK /\ HoldInv /\ WaiterInv /\ TaskInv
    BY DEF CoreInv
  <1>2. at[c] = "idle" /\ UNCHANGED <<pending, broken, ioVars, mainVars>>
    BY <1>1, AcquireShape
  <1>3. connections \in Seq(Conn) /\ waiters \in Seq(Client)
    BY <1>1 DEF TypeOK
  <1>4. CASE Taken(c)
    <2>1. Head(connections) \in Conn /\ Tail(connections) \in Seq(Conn)
      BY <1>3, <1>4, TailFacts DEF Taken
    <2>2. /\ conn' \in [Client -> Conn \cup {NoConn}] /\ conn'[c] \in Conn
          /\ \A d \in Client \ {c} : conn'[d] = conn[d]
      BY <1>1, <1>4, <2>1 DEF Taken, TypeOK
    <2>3. TypeOK'
      BY <1>1, <1>2, <1>4, <2>1, <2>2 DEF TypeOK, Taken, Moved, ioVars, mainVars
    <2>4. HoldInv'
      BY <1>1, <1>2, <1>4, <2>2, NullAssumption
      DEF HoldInv, Taken, Moved, ioVars, Owning
    <2>5. WaiterInv' /\ TaskInv'
      BY <1>1, <1>2, <1>4, WaitersKept, TasksKept DEF Taken, Moved, ioVars
    <2> QED BY <2>3, <2>4, <2>5 DEF CoreInv
  <1>5. CASE Parked(c)
    <2>1. Append(waiters, c) \in Seq(Client)
      BY <1>3
    <2>2. TypeOK'
      BY <1>1, <1>2, <1>5, <2>1 DEF TypeOK, Parked, Moved, ioVars, mainVars
    <2>3. HoldInv'
      BY <1>1, <1>2, <1>5 DEF HoldInv, Parked, Moved, ioVars, Owning
    <2>4. WaiterInv'
      <3>1. c \notin Elems(waiters)
        BY <1>1, <1>2 DEF WaiterInv, Elems
      <3>2. Distinct(Append(waiters, c))
        BY <1>1, <1>3, <3>1, ElemsAppend DEF WaiterInv
      <3>3. \A i \in DOMAIN waiters : waiters[i] \in Client /\ at'[waiters[i]] = "parked"
        BY <1>1, <1>2, <1>3, <1>5 DEF WaiterInv, Parked, Moved
      <3>4. \A i \in DOMAIN Append(waiters, c) : at'[Append(waiters, c)[i]] = "parked"
        BY <1>3, <1>5, <3>3, AppendFacts DEF Parked, Moved
      <3> QED BY <1>5, <3>2, <3>4 DEF WaiterInv, Parked
    <2>5. TaskInv'
      BY <1>1, <1>2, <1>5, TasksKept DEF Parked, Moved, ioVars
    <2> QED BY <2>2, <2>3, <2>4, <2>5 DEF CoreInv
  <1> QED BY <1>1, <1>4, <1>5, AcquireShape

\* So does every hand-over.
LEMMA GivenCore ==
  ASSUME CoreInv, NEW k \in Conn, NEW G \in SUBSET Client, Given(k, G),
         \A g \in G : at[g] = "returning",
         tasks' = tasks
  PROVE  /\ connections' \in Seq(Conn) /\ waiters' \in Seq(Client)
         /\ checkedOut' \in SUBSET Conn
         /\ at' \in [Client -> AtLabel] /\ conn' \in [Client -> Conn \cup {NoConn}]
         /\ \A c \in Client : conn'[c] # NoConn <=> at'[c] \in Owning
         /\ WaiterInv' /\ TaskInv'
  <1>1. TypeOK /\ HoldInv /\ WaiterInv /\ TaskInv
    BY DEF CoreInv
  <1>2. connections \in Seq(Conn) /\ waiters \in Seq(Client) /\ checkedOut \in SUBSET Conn
    BY <1>1 DEF TypeOK
  <1>3. ASSUME NEW w \in Client, Handed(k, G, w)
        PROVE  /\ connections' \in Seq(Conn) /\ waiters' \in Seq(Client)
               /\ checkedOut' \in SUBSET Conn
               /\ at' \in [Client -> AtLabel] /\ conn' \in [Client -> Conn \cup {NoConn}]
               /\ \A c \in Client : conn'[c] # NoConn <=> at'[c] \in Owning
               /\ WaiterInv' /\ TaskInv'
    <2>1. Tail(waiters) \in Seq(Client)
      BY <1>2, <1>3, TailFacts DEF Handed
    <2>2. \A c \in Client : conn'[c] # NoConn <=> at'[c] \in Owning
      <3> TAKE c \in Client
      <3>1. CASE c = w
        BY <1>3, <3>1, NullAssumption DEF Handed, Owning
      <3>2. CASE c \in G
        BY <1>3, <3>2 DEF Handed, Owning
      <3>3. CASE c \in Client \ (G \cup {w})
        BY <1>1, <1>3, <3>3 DEF Handed, HoldInv
      <3> QED BY <3>1, <3>2, <3>3
    <2>3. WaiterInv'
      <3>1. Distinct(Tail(waiters)) /\ w \notin Elems(Tail(waiters))
        BY <1>1, <1>2, <1>3, ElemsTail DEF Handed, WaiterInv
      <3>2. \A i \in DOMAIN Tail(waiters) :
              /\ Tail(waiters)[i] \in Client \ {w}
              /\ at[Tail(waiters)[i]] = "parked"
        BY <1>1, <1>2, <1>3, <3>1, TailFacts DEF Handed, WaiterInv, Elems
      <3>3. \A i \in DOMAIN Tail(waiters) : at'[Tail(waiters)[i]] = "parked"
        BY <1>3, <3>2 DEF Handed
      <3> QED BY <1>3, <3>1, <3>3 DEF WaiterInv, Handed
    <2>4. TaskInv'
      BY <1>1, <1>3, TasksKept DEF Handed
    <2> QED BY <1>2, <1>3, <2>1, <2>2, <2>3, <2>4 DEF Handed
  <1>4. CASE Freed(k, G)
    <2>1. Append(connections, k) \in Seq(Conn)
      BY <1>2
    <2>2. \A c \in Client : conn'[c] # NoConn <=> at'[c] \in Owning
      BY <1>1, <1>4 DEF Freed, Owning, HoldInv
    <2>3. WaiterInv' /\ TaskInv'
      BY <1>1, <1>4, WaitersKept, TasksKept DEF Freed
    <2> QED BY <1>2, <1>4, <2>1, <2>2, <2>3 DEF Freed
  <1> QED BY <1>3, <1>4 DEF Given

\* So do the steps of a client that leave the pool's lists alone.
LEMMA WalkCore ==
  ASSUME CoreInv, NEW c \in Client, Walk(c) PROVE CoreInv'
  <1>1. TypeOK /\ HoldInv /\ WaiterInv /\ TaskInv
    BY DEF CoreInv
  <1>2. /\ Moved(c, at'[c])
        /\ at[c] \in {"session", "dropping", "dropped", "submitting", "running"}
        /\ at'[c] \in {"query", "returning", "dropping", "dropped", "submitting", "idle",
                       "session"}
        /\ UNCHANGED <<connections, waiters, blocked, replacer, fresh, mainVars>>
        /\ broken' \in [Client -> BOOLEAN]
    BY <1>1, WalkShape
  <1>3. /\ conn' \in [Client -> Conn \cup {NoConn}]
        /\ \A d \in Client \ {c} : conn'[d] = conn[d]
        /\ conn'[c] # NoConn <=> at'[c] \in Owning
    <2> USE NullAssumption DEF HoldInv, Owning, TypeOK
    <2>1. CASE DropConnection(c)
      BY <1>1, <2>1, WalkShape DEF DropConnection
    <2>2. CASE ~DropConnection(c)
      <3>1. conn' = conn
        BY <2>2 DEF Walk, SubmitOperation, ReleaseSession, CountReplacement,
           SubmitReplacement, CompleteOperation, poolVars
      <3>2. at[c] \in Owning <=> at'[c] \in Owning
        BY <1>1, <2>2, WalkShape
      <3> QED BY <1>1, <3>1, <3>2
    <2> QED BY <2>1, <2>2
  <1>4. checkedOut' \in SUBSET Conn /\ pending' \in Nat
    BY <1>1 DEF TypeOK, Walk, SubmitOperation, ReleaseSession, DropConnection,
       CountReplacement, SubmitReplacement, CompleteOperation, poolVars
  <1>5. WaiterInv'
    BY <1>1, <1>2, WaitersKept DEF Moved
  <1>6. tasks' \in Seq(Client \cup {NoClient}) /\ TaskInv'
    <2>1. CASE tasks' = tasks
      BY <1>1, <1>2, <2>1, TasksKept DEF Moved, TypeOK
    <2>2. CASE SubmitOperation(c)
      <3>1. tasks' = Append(tasks, c) /\ at[c] = "session" /\ at'[c] = "query"
        BY <1>1, <2>2, WalkShape DEF SubmitOperation, Runs
      <3>2. tasks \in Seq(Client \cup {NoClient})
        BY <1>1 DEF TypeOK
      <3>3. \A i \in DOMAIN tasks : tasks[i] \in Client \cup {NoClient} /\ tasks[i] # c
        BY <1>1, <3>1, <3>2, NullAssumption DEF TaskInv
      <3>4. \A i \in DOMAIN tasks : tasks[i] # NoClient => at'[tasks[i]] = "query"
        BY <1>1, <1>2, <3>3 DEF TaskInv, Moved
      <3> QED BY <1>1, <3>1, <3>2, <3>3, <3>4, AppendFacts DEF TaskInv
    <2>3. CASE SubmitReplacement(c)
      <3>1. tasks' = Append(tasks, NoClient)
        BY <2>3 DEF SubmitReplacement
      <3>2. tasks \in Seq(Client \cup {NoClient})
        BY <1>1 DEF TypeOK
      <3>3. \A i \in DOMAIN tasks : tasks[i] # NoClient => at'[tasks[i]] = "query"
        BY <1>1, <1>2, <3>2 DEF TaskInv, Moved
      <3> QED BY <1>1, <3>1, <3>2, <3>3, AppendFacts DEF TaskInv
    <2> QED BY <2>1, <2>2, <2>3 DEF Walk, ReleaseSession, DropConnection,
               CountReplacement, CompleteOperation, ioVars
  <1>7. TypeOK'
    BY <1>1, <1>2, <1>3, <1>4, <1>6 DEF TypeOK, Moved, mainVars
  <1>8. HoldInv'
    BY <1>1, <1>2, <1>3 DEF HoldInv, Moved
  <1> QED BY <1>5, <1>6, <1>7, <1>8 DEF CoreInv

\* So does an I/O thread that takes a task.
LEMMA TakeCore == ASSUME CoreInv, TakeTask PROVE CoreInv'
  <1>1. TypeOK /\ HoldInv /\ WaiterInv /\ TaskInv
    BY DEF CoreInv
  <1>2. /\ UNCHANGED <<poolVars, conn, broken, replacer, fresh, mainVars>>
        /\ tasks # <<>> /\ tasks' = Tail(tasks)
    BY <1>1, TakeShape
  <1>3. tasks \in Seq(Client \cup {NoClient})
    BY <1>1 DEF TypeOK
  <1>4. Tail(tasks) \in Seq(Client \cup {NoClient})
    BY <1>2, <1>3, TailFacts
  <1>5. /\ blocked' \in Nat /\ at' \in [Client -> AtLabel]
        /\ \A d \in Client : at'[d] = at[d] \/ (at[d] = "query" /\ at'[d] = "running")
        /\ \A d \in Client : d # Head(tasks) => at'[d] = at[d]
    BY <1>1, TakeShape DEF Moved, TypeOK
  <1>6. TypeOK'
    BY <1>1, <1>2, <1>4, <1>5 DEF TypeOK, poolVars, mainVars
  <1>7. HoldInv'
    BY <1>1, <1>2, <1>5 DEF HoldInv, Owning
  <1>8. WaiterInv'
    BY <1>1, <1>2, <1>5, WaitersKept DEF poolVars
  <1>9. TaskInv'
    <2>1. \A i \in DOMAIN Tail(tasks) :
             /\ i + 1 \in DOMAIN tasks /\ Tail(tasks)[i] = tasks[i + 1]
             /\ i \in Nat /\ i # 0
             /\ tasks[i + 1] \in Client \cup {NoClient}
      BY <1>2, <1>3, TailFacts
    <2>2. 1 \in DOMAIN tasks /\ Head(tasks) = tasks[1]
      BY <1>2, <1>3, TailFacts
    <2>3. \A i \in DOMAIN Tail(tasks) :
             tasks[i + 1] # NoClient => tasks[i + 1] # Head(tasks) /\ at[tasks[i + 1]] = "query"
      BY <1>1, <2>1, <2>2 DEF TaskInv
    <2>4. \A i \in DOMAIN Tail(tasks) :
             Tail(tasks)[i] # NoClient => at'[Tail(tasks)[i]] = "query"
      BY <1>5, <2>1, <2>3
    <2>5. \A i, j \in DOMAIN Tail(tasks) :
             Tail(tasks)[i] = Tail(tasks)[j] /\ Tail(tasks)[i] # NoClient => i + 1 = j + 1
      BY <1>1, <2>1 DEF TaskInv
    <2> QED BY <1>2, <2>1, <2>4, <2>5 DEF TaskInv
  <1> QED BY <1>6, <1>7, <1>8, <1>9 DEF CoreInv

\* Every step keeps types, owners and queues.
LEMMA CoreStep == CoreInv /\ [Next]_vars => CoreInv'
  <1> SUFFICES ASSUME CoreInv, [Next]_vars PROVE CoreInv'
    OBVIOUS
  <1>1. TypeOK /\ HoldInv /\ WaiterInv /\ TaskInv
    BY DEF CoreInv
  <1>2. ASSUME NEW c \in Client, ReturnConnection(c) PROVE CoreInv'
    <2>1. /\ at[c] = "returning" /\ conn[c] \in Conn /\ Given(conn[c], {c})
          /\ UNCHANGED <<pending, broken, tasks, blocked, replacer, fresh, main, victims>>
      BY <1>1, <1>2, ReturnShape DEF ioVars, mainVars
    <2>2. /\ connections' \in Seq(Conn) /\ waiters' \in Seq(Client)
          /\ checkedOut' \in SUBSET Conn
          /\ at' \in [Client -> AtLabel] /\ conn' \in [Client -> Conn \cup {NoConn}]
          /\ \A d \in Client : conn'[d] # NoConn <=> at'[d] \in Owning
          /\ WaiterInv' /\ TaskInv'
      BY <2>1, GivenCore
    <2> QED BY <1>1, <2>1, <2>2 DEF CoreInv, TypeOK, HoldInv
  <1>3. CASE PublishReplacement
    <2>1. /\ replacer = "publish" /\ fresh \in Conn /\ fresh' = NoConn
          /\ UNCHANGED <<broken, tasks, blocked, main, victims>>
          /\ replacer' \in {"none", "check"}
      BY <1>1, <1>3, PublishShape DEF mainVars
    <2>2. CASE Given(fresh, {}) /\ pending' = pending - 1 /\ pending > 0
      <3>1. /\ connections' \in Seq(Conn) /\ waiters' \in Seq(Client)
            /\ checkedOut' \in SUBSET Conn
            /\ at' \in [Client -> AtLabel] /\ conn' \in [Client -> Conn \cup {NoConn}]
            /\ \A d \in Client : conn'[d] # NoConn <=> at'[d] \in Owning
            /\ WaiterInv' /\ TaskInv'
        BY <2>1, <2>2, GivenCore
      <3>2. pending' \in Nat
        BY <1>1, <2>2 DEF TypeOK
      <3> QED BY <1>1, <2>1, <3>1, <3>2 DEF CoreInv, TypeOK, HoldInv, ReplacerLabel
    <2>3. CASE UNCHANGED <<connections, checkedOut, waiters, pending, at, conn>>
      <3>1. WaiterInv' /\ TaskInv'
        BY <1>1, <2>1, <2>3, WaitersKept, TasksKept
      <3> QED BY <1>1, <2>1, <2>3, <3>1 DEF CoreInv, TypeOK, HoldInv, ReplacerLabel
    <2> QED BY <1>1, <1>3, <2>2, <2>3, PublishShape DEF poolVars
  <1>4. CASE Turn
    <2>1. /\ UNCHANGED <<connections, checkedOut, waiters, pending, at, conn, broken, tasks,
                         main, victims>>
          /\ blocked' \in Nat /\ replacer' \in ReplacerLabel /\ fresh' \in Conn \cup {NoConn}
          /\ fresh' # NoConn <=> replacer' = "publish"
      BY <1>1, <1>4, TurnShape DEF poolVars, clientVars, mainVars
    <2>2. WaiterInv' /\ TaskInv'
      BY <1>1, <2>1, WaitersKept, TasksKept
    <2> QED BY <1>1, <2>1, <2>2 DEF CoreInv, TypeOK, HoldInv
  <1>5. CASE Main
    <2>1. /\ UNCHANGED <<checkedOut, pending, conn, broken, tasks, blocked, replacer, fresh>>
          /\ main' \in MainLabel /\ victims' \in SUBSET Conn
          /\ connections' \in Seq(Conn)
      <3>1. /\ UNCHANGED <<checkedOut, pending, conn, broken, ioVars>>
            /\ main' \in MainLabel /\ victims' \in SUBSET Conn
            /\ connections' = connections \/ connections' = <<>>
        BY <1>1, <1>5, MainShape
      <3>2. connections \in Seq(Conn) /\ <<>> \in Seq(Conn)
        BY <1>1 DEF TypeOK
      <3> QED BY <3>1, <3>2 DEF ioVars
    <2>2. CASE waiters' = waiters /\ at' = at
      <3>1. WaiterInv' /\ TaskInv'
        BY <1>1, <2>1, <2>2, WaitersKept, TasksKept
      <3> QED BY <1>1, <2>1, <2>2, <3>1 DEF CoreInv, TypeOK, HoldInv
    <2>3. CASE FailWaiters
      <3>1. /\ waiters' = <<>> /\ at' \in [Client -> AtLabel]
            /\ \A c \in Client : at'[c] = IF at[c] = "parked" THEN "idle" ELSE at[c]
        BY <1>1, <2>3, FailShape
      <3>2. WaiterInv' /\ waiters' \in Seq(Client)
        BY <3>1 DEF WaiterInv, Distinct
      <3>3. TaskInv'
        BY <1>1, <2>1, <3>1, TasksKept
      <3>4. HoldInv'
        BY <1>1, <2>1, <3>1 DEF HoldInv, Owning
      <3> QED BY <1>1, <2>1, <3>1, <3>2, <3>3, <3>4 DEF CoreInv, TypeOK
    <2> QED BY <1>1, <1>5, <2>2, <2>3, MainShape
  <1>6. CASE UNCHANGED vars
    <2>1. UNCHANGED <<connections, checkedOut, waiters, pending, at, conn, broken, tasks,
                      blocked, replacer, fresh, main, victims>>
      BY <1>6 DEF vars, poolVars, clientVars, ioVars, mainVars
    <2>2. WaiterInv' /\ TaskInv'
      BY <1>1, <2>1, WaitersKept, TasksKept
    <2> QED BY <1>1, <2>1, <2>2 DEF CoreInv, TypeOK, HoldInv
  <1> QED BY <1>2, <1>3, <1>4, <1>5, <1>6, Steps, AcquireCore, WalkCore, TakeCore

\* The constructor leaves a well formed pool.
LEMMA CoreInit == Init => CoreInv
  <1> SUFFICES ASSUME Init PROVE CoreInv
    OBVIOUS
  <1>1. connections \in Seq(Conn)
    BY PoolAssumption DEF Init
  <1>2. TypeOK
    BY <1>1 DEF Init, TypeOK, AtLabel, ReplacerLabel, MainLabel
  <1>3. HoldInv /\ WaiterInv /\ TaskInv
    BY DEF Init, HoldInv, WaiterInv, TaskInv, Distinct, Owning
  <1> QED BY <1>2, <1>3 DEF CoreInv

\* Every reachable state of the pool is well typed: in particular no count goes
\* below zero and no null pointer enters the list of free connections.
THEOREM TypeCorrect == Spec => []TypeOK
  <1>1. CoreInv => TypeOK
    BY DEF CoreInv
  <1> QED BY <1>1, CoreInit, CoreStep, PTL DEF Spec

------------------------------------------------------------------------------
(* Nobody waits beside a free connection.                                    *)

\* Every step keeps it so.
LEMMA IdleStep == CoreInv /\ NoIdleConnection /\ [Next]_vars => NoIdleConnection'
  <1> SUFFICES ASSUME CoreInv, NoIdleConnection, [Next]_vars PROVE NoIdleConnection'
    OBVIOUS
  <1>1. TypeOK /\ HoldInv /\ WaiterInv /\ TaskInv
    BY DEF CoreInv
  <1>2. ASSUME NEW c \in Client, AcquireSessionAsync(c) PROVE NoIdleConnection'
    BY <1>1, <1>2, AcquireShape DEF Taken, Parked, NoIdleConnection
  <1>3. ASSUME NEW k, NEW G, Given(k, G) PROVE NoIdleConnection'
    BY <1>3 DEF Given, Handed, Freed, NoIdleConnection
  <1>4. CASE UNCHANGED <<connections, waiters>>
    BY <1>4 DEF NoIdleConnection
  <1>5. ASSUME NEW c \in Client, ReturnConnection(c) PROVE NoIdleConnection'
    BY <1>1, <1>3, <1>5, ReturnShape
  <1>6. CASE PublishReplacement
    BY <1>1, <1>3, <1>4, <1>6, PublishShape DEF poolVars
  <1>7. ASSUME NEW c \in Client, Walk(c) PROVE NoIdleConnection'
    BY <1>1, <1>4, <1>7, WalkShape
  <1>8. CASE TakeTask \/ Turn \/ UNCHANGED vars
    BY <1>1, <1>4, <1>8, TakeShape, TurnShape DEF poolVars, vars
  <1>9. CASE Main
    <2>1. \/ waiters' = waiters \/ waiters' = <<>>
      BY <1>1, <1>9, MainShape, FailShape
    <2>2. connections' = connections \/ connections' = <<>>
      BY <1>1, <1>9, MainShape
    <2> QED BY <2>1, <2>2 DEF NoIdleConnection
  <1> QED BY <1>2, <1>5, <1>6, <1>7, <1>8, <1>9, Steps

\* No hand-over is lost: as long as anybody is parked no connection is free.
THEOREM NoLostHandOver == Spec => []NoIdleConnection
  <1>1. Init => NoIdleConnection
    BY DEF Init, NoIdleConnection
  <1> QED BY <1>1, IdleStep, CoreInit, CoreStep, PTL DEF Spec

------------------------------------------------------------------------------
(* Replacements.                                                             *)

\* Somebody is about to replace what is pending.
Owed ==
  \/ NoClient \in Elems(tasks) \/ blocked > 0 \/ replacer # "none"
  \/ \E c \in Client : at[c] = "submitting"

\* Every step keeps the debt and the one who pays it together.
LEMMA OwedStep == CoreInv /\ ReplacementOwed /\ [Next]_vars => ReplacementOwed'
  <1> SUFFICES ASSUME CoreInv, ReplacementOwed, [Next]_vars, pending' > 0, ~Shutdown'
               PROVE  Owed'
    BY DEF ReplacementOwed, Owed
  <1>1. /\ TypeOK /\ HoldInv /\ WaiterInv /\ TaskInv
        /\ pending > 0 /\ ~Shutdown => Owed
        /\ tasks \in Seq(Client \cup {NoClient}) /\ blocked \in Nat /\ pending \in Nat
    BY DEF CoreInv, TypeOK, ReplacementOwed, Owed
  <1>2. ASSUME UNCHANGED <<pending, main, tasks, blocked, replacer>>,
               \A d \in Client : at[d] = "submitting" => at'[d] = "submitting"
        PROVE  Owed'
    BY <1>1, <1>2 DEF Owed, Shutdown
  <1>3. ASSUME NEW c \in Client, AcquireSessionAsync(c) PROVE Owed'
    BY <1>1, <1>2, <1>3, AcquireShape DEF Taken, Parked, Moved, ioVars, mainVars
  <1>4. ASSUME NEW c \in Client, ReturnConnection(c) PROVE Owed'
    <2>1. /\ UNCHANGED <<pending, broken, ioVars, mainVars>>
          /\ at[c] = "returning" /\ Given(conn[c], {c})
      BY <1>1, <1>4, ReturnShape
    <2>2. \A d \in Client : at[d] = "submitting" => at'[d] = "submitting"
      BY <2>1 DEF Given, Handed, Freed
    <2> QED BY <1>2, <2>1, <2>2 DEF ioVars, mainVars
  <1>5. ASSUME NEW c \in Client, Walk(c) PROVE Owed'
    <2>1. CASE CountReplacement(c)
      BY <1>1, <2>1, <1>5, WalkShape DEF Owed, CountReplacement, Runs
    <2>2. CASE SubmitReplacement(c)
      <3>1. tasks' = Append(tasks, NoClient)
        BY <2>2 DEF SubmitReplacement
      <3>2. NoClient \in Elems(tasks')
        BY <1>1, <3>1, ElemsAppend
      <3> QED BY <3>2 DEF Owed, Elems
    <2>3. CASE SubmitOperation(c)
      <3>1. /\ tasks' = Append(tasks, c) /\ UNCHANGED <<pending, blocked, replacer, main>>
            /\ Moved(c, "query") /\ at[c] = "session"
        BY <1>1, <2>3, <1>5, MovedShape DEF SubmitOperation, Runs, poolVars, mainVars, AtLabel
      <3>2. NoClient \in Elems(tasks) => NoClient \in Elems(tasks')
        BY <1>1, <3>1, ElemsAppend
      <3>3. \A d \in Client : at[d] = "submitting" => at'[d] = "submitting"
        BY <3>1 DEF Moved
      <3> QED BY <1>1, <3>1, <3>2, <3>3 DEF Owed, Shutdown, Elems
    <2>4. CASE ReleaseSession(c) \/ DropConnection(c) \/ CompleteOperation(c)
      <3>1. UNCHANGED <<pending, main, tasks, blocked, replacer>>
        BY <2>4 DEF ReleaseSession, DropConnection, CompleteOperation, poolVars, ioVars, mainVars
      <3>2. at[c] # "submitting" /\ \A d \in Client \ {c} : at'[d] = at[d]
        BY <1>1, <1>5, <2>4, WalkShape
        DEF Moved, ReleaseSession, DropConnection, CompleteOperation, Runs
      <3> QED BY <1>2, <3>1, <3>2
    <2> QED BY <1>5, <2>1, <2>2, <2>3, <2>4 DEF Walk
  <1>6. CASE TakeTask
    <2>1. /\ UNCHANGED <<pending, main, replacer>> /\ tasks # <<>> /\ tasks' = Tail(tasks)
          /\ \A d \in Client : at[d] = "submitting" => at'[d] = "submitting"
      BY <1>1, <1>6, TakeShape DEF poolVars, mainVars, Moved
    <2>2. Head(tasks) = NoClient => blocked' > 0
      BY <1>1, <1>6, TakeShape, NullAssumption
    <2>3. Head(tasks) # NoClient => blocked' = blocked
      BY <1>1, <1>6, TakeShape
    <2>4. Elems(tasks) = Elems(tasks') \cup {Head(tasks)}
      BY <1>1, <2>1, ElemsTail
    <2> QED BY <1>1, <2>1, <2>2, <2>3, <2>4 DEF Owed, Shutdown, Elems
  <1>7. CASE Turn
    <2>1. UNCHANGED <<pending, main, at, tasks>>
      BY <1>1, <1>7, TurnShape DEF poolVars, clientVars, mainVars
    <2>2. pending > 0 /\ ~Shutdown
      BY <2>1 DEF Shutdown
    <2>3. CASE LockReconnect
      BY <2>3 DEF LockReconnect, Owed
    <2>4. CASE CheckPending
      BY <1>1, <2>2, <2>4 DEF CheckPending, NothingToDo, Owed
    <2>5. CASE CreateSucceeds
      BY <2>5 DEF CreateSucceeds, Owed
    <2>6. CASE CreateFails \/ BackoffOver
      BY <2>2, <2>6 DEF CreateFails, BackoffOver, Owed
    <2> QED BY <1>7, <2>3, <2>4, <2>5, <2>6 DEF Turn
  <1>8. CASE PublishReplacement
    <2>1. CASE replacer' = "check"
      BY <2>1 DEF Owed
    <2>2. CASE NothingToDo /\ UNCHANGED <<pending, main>>
      BY <1>1, <2>2 DEF NothingToDo, Shutdown
    <2> QED BY <1>1, <1>8, <2>1, <2>2, PublishShape DEF poolVars, mainVars
  <1>9. CASE Main
    <2>1. UNCHANGED <<pending, tasks, blocked, replacer>>
      BY <1>1, <1>9, MainShape DEF ioVars
    <2>2. ~Shutdown
      BY <1>1, <1>9, MainShape DEF Shutdown
    <2>3. \A d \in Client : at[d] = "submitting" => at'[d] = "submitting"
      BY <1>1, <1>9, MainShape, FailShape
    <2> QED BY <1>1, <2>1, <2>2, <2>3 DEF Owed
  <1>10. CASE UNCHANGED vars
    BY <1>2, <1>10 DEF vars, poolVars, clientVars, ioVars, mainVars
  <1> QED BY <1>3, <1>4, <1>5, <1>6, <1>7, <1>8, <1>9, <1>10, Steps

\* A dropped connection is never forgotten: until the pool closes a task that
\* will replace it exists, however many drops one task serves.
THEOREM ReplacementsPaid == Spec => []ReplacementOwed
  <1>1. Init => ReplacementOwed
    BY DEF Init, ReplacementOwed
  <1> QED BY <1>1, OwedStep, CoreInit, CoreStep, PTL DEF Spec

------------------------------------------------------------------------------
(* One owner per connection.                                                 *)

Using == {"session", "query", "running"}

\* UseInv, one connection at a time.
OneOwner ==
  /\ \A k : k \in checkedOut <=> \E c \in Client : at[c] \in Using /\ conn[c] = k
  /\ \A c, d \in Client : conn[c] = conn[d] /\ conn[c] # NoConn => c = d
  /\ \A c \in Client : conn[c] \notin Elems(connections)
  /\ fresh # NoConn => fresh \notin Elems(connections) /\ \A c \in Client : conn[c] # fresh
  /\ Distinct(connections)

\* The two say the same.
LEMMA OneOwnerUse == OneOwner <=> UseInv
  <1>1. (\A k : k \in checkedOut <=> \E c \in Client : at[c] \in Using /\ conn[c] = k)
        <=> checkedOut = {conn[c] : c \in {d \in Client : at[d] \in Using}}
    OBVIOUS
  <1>2. (fresh \notin Elems(connections) /\ \A c \in Client : conn[c] # fresh)
        <=> fresh \notin Elems(connections) \cup {conn[c] : c \in Client}
    OBVIOUS
  <1> QED BY <1>1, <1>2 DEF OneOwner, UseInv, ExclusiveUse, Using

\* Nothing changes hands.
LEMMA OwnersKept ==
  ASSUME OneOwner, UNCHANGED <<connections, conn, checkedOut>>,
         fresh' = fresh \/ fresh' = NoConn,
         \A d \in Client : at'[d] \in Using <=> at[d] \in Using
  PROVE  OneOwner'
  BY DEF OneOwner, Elems, Distinct

\* A free connection is taken.
LEMMA TakenOwner ==
  ASSUME TypeOK, HoldInv, OneOwner, NEW c \in Client, at[c] = "idle", Taken(c), fresh' = fresh
  PROVE  OneOwner'
  <1> DEFINE k == Head(connections)
             rest == Tail(connections)
  <1>1. /\ connections \in Seq(Conn) /\ connections # <<>>
        /\ conn \in [Client -> Conn \cup {NoConn}]
    BY DEF TypeOK, Taken
  <1>2. /\ k \in Conn /\ Elems(connections) = Elems(rest) \cup {k}
        /\ Distinct(rest) /\ k \notin Elems(rest)
    BY <1>1, TailFacts, ElemsTail DEF OneOwner
  <1>3. /\ connections' = rest /\ checkedOut' = checkedOut \cup {k}
        /\ conn'[c] = k /\ at'[c] = "session"
        /\ \A d \in Client \ {c} : conn'[d] = conn[d] /\ at'[d] = at[d]
    BY <1>1 DEF Taken, Moved
  <1> HIDE DEF k, rest
  <1>4. \A d \in Client : conn[d] # k /\ conn[d] \notin Elems(rest)
    BY <1>2 DEF OneOwner
  <1>5. fresh # NoConn => fresh # k /\ fresh \notin Elems(rest)
    BY <1>2 DEF OneOwner
  <1>6. \A x : x \in checkedOut' <=> \E d \in Client : at'[d] \in Using /\ conn'[d] = x
    <2> TAKE x
    <2>1. ASSUME x \in checkedOut PROVE \E d \in Client : at'[d] \in Using /\ conn'[d] = x
      <3>1. PICK d \in Client : at[d] \in Using /\ conn[d] = x
        BY <2>1 DEF OneOwner
      <3>2. d # c
        BY <3>1 DEF Using
      <3> QED BY <1>3, <3>1, <3>2
    <2>2. \E d \in Client : at'[d] \in Using /\ conn'[d] = k
      BY <1>3 DEF Using
    <2>3. ASSUME NEW d \in Client, at'[d] \in Using, conn'[d] = x PROVE x \in checkedOut'
      BY <1>3, <2>3 DEF OneOwner
    <2> QED BY <1>3, <2>1, <2>2, <2>3
  <1>7. \A d, e \in Client : conn'[d] = conn'[e] /\ conn'[d] # NoConn => d = e
    BY <1>3, <1>4 DEF OneOwner
  <1>8. \A d \in Client : conn'[d] \notin Elems(connections')
    BY <1>2, <1>3, <1>4
  <1>9. fresh # NoConn => fresh \notin Elems(connections') /\ \A d \in Client : conn'[d] # fresh
    BY <1>3, <1>5 DEF OneOwner
  <1>10. Distinct(connections')
    BY <1>2, <1>3
  <1> QED BY <1>6, <1>7, <1>8, <1>9, <1>10 DEF OneOwner, Elems, Distinct

\* A connection that nobody else has goes to the oldest waiter or is freed.
LEMMA GivenOwner ==
  ASSUME TypeOK, HoldInv, OneOwner, NEW k \in Conn, NEW G \in SUBSET Client, Given(k, G),
         \A g \in G : at[g] = "returning",
         k \notin Elems(connections), \A d \in Client \ G : conn[d] # k,
         fresh' # NoConn => fresh' = fresh /\ fresh # k
  PROVE  OneOwner'
  <1>1. connections \in Seq(Conn)
    BY DEF TypeOK
  <1>2. ASSUME NEW w \in Client, Handed(k, G, w) PROVE OneOwner'
    <2>1. /\ connections' = connections /\ checkedOut' = checkedOut \cup {k}
          /\ w \notin G /\ at[w] = "parked" /\ at'[w] = "session" /\ conn'[w] = k
          /\ \A g \in G : at'[g] = "idle" /\ conn'[g] = NoConn
          /\ \A d \in Client \ (G \cup {w}) : at'[d] = at[d] /\ conn'[d] = conn[d]
      BY <1>2 DEF Handed
    <2>2. \A x : x \in checkedOut' <=> \E d \in Client : at'[d] \in Using /\ conn'[d] = x
      <3> TAKE x
      <3>1. ASSUME x \in checkedOut PROVE \E d \in Client : at'[d] \in Using /\ conn'[d] = x
        <4>1. PICK d \in Client : at[d] \in Using /\ conn[d] = x
          BY <3>1 DEF OneOwner
        <4>2. d # w /\ d \notin G
          BY <2>1, <4>1 DEF Using
        <4> QED BY <2>1, <4>1, <4>2
      <3>2. \E d \in Client : at'[d] \in Using /\ conn'[d] = k
        BY <2>1 DEF Using
      <3>3. ASSUME NEW d \in Client, at'[d] \in Using, conn'[d] = x PROVE x \in checkedOut'
        <4>1. d \notin G
          BY <2>1, <3>3 DEF Using
        <4> QED BY <2>1, <3>3, <4>1 DEF OneOwner
      <3> QED BY <2>1, <3>1, <3>2, <3>3
    <2>3. \A d, e \in Client : conn'[d] = conn'[e] /\ conn'[d] # NoConn => d = e
      BY <2>1 DEF OneOwner
    <2>4. \A d \in Client : conn'[d] \notin Elems(connections')
      <3>1. NoConn \notin Elems(connections)
        BY <1>1, NullAssumption DEF Elems
      <3> QED BY <2>1, <3>1 DEF OneOwner
    <2>5. fresh' # NoConn =>
             fresh' \notin Elems(connections') /\ \A d \in Client : conn'[d] # fresh'
      BY <2>1 DEF OneOwner
    <2> QED BY <2>1, <2>2, <2>3, <2>4, <2>5 DEF OneOwner, Elems, Distinct
  <1>3. CASE Freed(k, G)
    <2>1. /\ connections' = Append(connections, k) /\ checkedOut' = checkedOut
          /\ \A g \in G : at'[g] = "idle" /\ conn'[g] = NoConn
          /\ \A d \in Client \ G : at'[d] = at[d] /\ conn'[d] = conn[d]
      BY <1>3 DEF Freed
    <2>2. Elems(connections') = Elems(connections) \cup {k} /\ Distinct(connections')
      BY <1>1, <2>1, ElemsAppend DEF OneOwner
    <2>3. NoConn \notin Elems(connections) \cup {k}
      BY <1>1, NullAssumption DEF Elems
    <2>4. \A x : x \in checkedOut' <=> \E d \in Client : at'[d] \in Using /\ conn'[d] = x
      BY <2>1 DEF OneOwner, Using
    <2>5. \A d, e \in Client : conn'[d] = conn'[e] /\ conn'[d] # NoConn => d = e
      BY <2>1 DEF OneOwner
    <2>6. \A d \in Client : conn'[d] \notin Elems(connections')
      BY <2>1, <2>2, <2>3 DEF OneOwner
    <2>7. fresh' # NoConn =>
             fresh' \notin Elems(connections') /\ \A d \in Client : conn'[d] # fresh'
      BY <2>1, <2>2 DEF OneOwner
    <2> QED BY <2>2, <2>4, <2>5, <2>6, <2>7 DEF OneOwner, Elems, Distinct
  <1> QED BY <1>2, <1>3 DEF Given

\* ReleaseSession takes its connection off the list first.
LEMMA ReleaseOwner ==
  ASSUME TypeOK, HoldInv, OneOwner, NEW c \in Client, ReleaseSession(c)
  PROVE  OneOwner'
  <1>1. /\ at[c] = "session" /\ Moved(c, at'[c]) /\ at'[c] \in {"returning", "dropping"}
        /\ checkedOut' = checkedOut \ {conn[c]}
        /\ UNCHANGED <<connections, conn, fresh>>
    BY WalkShape DEF ReleaseSession, Runs, Walk, Moved, ioVars
  <1>2. conn[c] # NoConn
    BY <1>1 DEF HoldInv, Owning
  <1>3. \A x : x \in checkedOut' <=> \E d \in Client : at'[d] \in Using /\ conn'[d] = x
    <2> TAKE x
    <2>1. ASSUME x \in checkedOut' PROVE \E d \in Client : at'[d] \in Using /\ conn'[d] = x
      <3>1. PICK d \in Client : at[d] \in Using /\ conn[d] = x
        BY <1>1, <2>1 DEF OneOwner
      <3>2. d # c
        BY <1>1, <2>1, <3>1
      <3> QED BY <1>1, <3>1, <3>2 DEF Moved
    <2>2. ASSUME NEW d \in Client, at'[d] \in Using, conn'[d] = x PROVE x \in checkedOut'
      <3>1. d # c
        BY <1>1, <2>2 DEF Using
      <3>2. at[d] \in Using /\ conn[d] = x
        BY <1>1, <2>2, <3>1 DEF Moved
      <3>3. x \in checkedOut /\ x # conn[c]
        BY <1>2, <3>1, <3>2 DEF OneOwner
      <3> QED BY <1>1, <3>3
    <2> QED BY <2>1, <2>2
  <1> QED BY <1>1, <1>3 DEF OneOwner, Elems, Distinct

\* Every step keeps one owner per connection.
LEMMA OwnerStep == CoreInv /\ OneOwner /\ [Next]_vars => OneOwner'
  <1> SUFFICES ASSUME CoreInv, OneOwner, [Next]_vars PROVE OneOwner'
    OBVIOUS
  <1>1. TypeOK /\ HoldInv /\ WaiterInv /\ TaskInv
    BY DEF CoreInv
  <1>2. ASSUME NEW c \in Client, AcquireSessionAsync(c) PROVE OneOwner'
    <2>1. at[c] = "idle" /\ fresh' = fresh
      BY <1>1, <1>2, AcquireShape DEF ioVars
    <2>2. CASE Taken(c)
      BY <1>1, <2>1, <2>2, TakenOwner
    <2>3. CASE Parked(c)
      BY <2>1, <2>3, OwnersKept DEF Parked, Moved, Using
    <2> QED BY <1>1, <1>2, <2>2, <2>3, AcquireShape
  <1>3. ASSUME NEW c \in Client, ReturnConnection(c) PROVE OneOwner'
    <2>1. /\ at[c] = "returning" /\ conn[c] \in Conn /\ Given(conn[c], {c}) /\ fresh' = fresh
      BY <1>1, <1>3, ReturnShape DEF ioVars
    <2>2. /\ conn[c] \notin Elems(connections)
          /\ \A d \in Client \ {c} : conn[d] # conn[c]
          /\ fresh # NoConn => fresh # conn[c]
      BY <2>1, NullAssumption DEF OneOwner
    <2> QED BY <1>1, <2>1, <2>2, GivenOwner
  <1>4. ASSUME NEW c \in Client, Walk(c) PROVE OneOwner'
    <2>1. CASE ReleaseSession(c)
      BY <1>1, <2>1, ReleaseOwner
    <2>2. CASE DropConnection(c)
      <3>1. /\ at[c] = "dropping" /\ at'[c] = "dropped" /\ conn'[c] = NoConn
            /\ UNCHANGED <<connections, checkedOut, fresh>>
            /\ \A d \in Client \ {c} : at'[d] = at[d] /\ conn'[d] = conn[d]
        BY <1>1, <1>4, <2>2, WalkShape
        DEF DropConnection, Runs, Moved, poolVars, ioVars, TypeOK
      <3>2. NoConn \notin Elems(connections)
        BY <1>1, NullAssumption DEF Elems, TypeOK
      <3>3. \A x : x \in checkedOut <=> \E d \in Client : at'[d] \in Using /\ conn'[d] = x
        BY <3>1 DEF OneOwner, Using
      <3> QED BY <3>1, <3>2, <3>3 DEF OneOwner, Elems, Distinct
    <2>3. CASE ~ReleaseSession(c) /\ ~DropConnection(c)
      <3>1. UNCHANGED <<connections, conn, checkedOut, fresh>>
        BY <1>4, <2>3 DEF Walk, SubmitOperation, CountReplacement, SubmitReplacement,
           CompleteOperation, poolVars, ioVars
      <3>2. \A d \in Client : at'[d] \in Using <=> at[d] \in Using
        BY <1>1, <1>4, <2>3, WalkShape DEF Moved, Using
      <3> QED BY <3>1, <3>2, OwnersKept
    <2> QED BY <2>1, <2>2, <2>3
  <1>5. CASE TakeTask
    <2>1. UNCHANGED <<connections, conn, checkedOut, fresh>>
      BY <1>1, <1>5, TakeShape DEF poolVars
    <2>2. \A d \in Client : at'[d] \in Using <=> at[d] \in Using
      BY <1>1, <1>5, TakeShape DEF Moved, Using
    <2> QED BY <2>1, <2>2, OwnersKept
  <1>6. CASE Turn
    <2>1. /\ UNCHANGED <<connections, conn, checkedOut, at>>
          /\ fresh' # NoConn => fresh' \in Conn \ Live
      BY <1>1, <1>6, TurnShape DEF poolVars, clientVars
    <2>2. fresh' # NoConn =>
             fresh' \notin Elems(connections) /\ \A c \in Client : conn[c] # fresh'
      BY <2>1, NullAssumption DEF Live
    <2> QED BY <2>1, <2>2 DEF OneOwner, Elems, Distinct
  <1>7. CASE PublishReplacement
    <2>1. fresh \in Conn /\ fresh' = NoConn
      BY <1>1, <1>7, PublishShape
    <2>2. fresh \notin Elems(connections) /\ \A d \in Client : conn[d] # fresh
      BY <2>1, NullAssumption DEF OneOwner
    <2>3. CASE Given(fresh, {})
      BY <1>1, <2>1, <2>2, <2>3, GivenOwner
    <2>4. CASE UNCHANGED <<poolVars, at, conn>>
      BY <2>1, <2>4, OwnersKept DEF poolVars
    <2> QED BY <1>1, <1>7, <2>3, <2>4, PublishShape
  <1>8. CASE Main
    <2>1. UNCHANGED <<checkedOut, conn, fresh>>
      BY <1>1, <1>8, MainShape DEF ioVars
    <2>2. \A d \in Client : at'[d] \in Using <=> at[d] \in Using
      BY <1>1, <1>8, MainShape, FailShape DEF Using
    <2>3. CASE connections' = connections
      BY <2>1, <2>2, <2>3, OwnersKept
    <2>4. CASE connections' = <<>>
      <3>1. Elems(connections') = {} /\ Distinct(connections')
        BY <2>4 DEF Elems, Distinct
      <3>2. \A x : x \in checkedOut <=> \E d \in Client : at'[d] \in Using /\ conn[d] = x
        BY <2>2 DEF OneOwner
      <3> QED BY <2>1, <3>1, <3>2 DEF OneOwner, Elems, Distinct
    <2> QED BY <1>1, <1>8, <2>3, <2>4, MainShape
  <1>9. CASE UNCHANGED vars
    BY <1>9, OwnersKept DEF vars, poolVars, clientVars, ioVars
  <1> QED BY <1>2, <1>3, <1>4, <1>5, <1>6, <1>7, <1>8, <1>9, Steps

\* No two terminals share a connection, no free connection is in use, and
\* CheckedOut_ names exactly the connections that CancelAll has to interrupt.
THEOREM OneTerminalPerConnection == Spec => []ExclusiveUse
  <1>1. Init => OneOwner
    <2> SUFFICES ASSUME Init PROVE OneOwner
      OBVIOUS
    <2>1. Distinct(connections) /\ NoConn \notin Elems(connections)
      BY NullAssumption DEF Init, Distinct, Elems
    <2> QED BY <2>1 DEF Init, OneOwner, Using
  <1>2. OneOwner => ExclusiveUse
    BY OneOwnerUse DEF UseInv
  <1> QED BY <1>1, <1>2, OwnerStep, CoreInit, CoreStep, PTL DEF Spec

------------------------------------------------------------------------------
(* Counting.                                                                 *)

Inside == {"idle", "parked", "submitting"}

\* Finite sets, one element more or less.
LEMMA OneMore ==
  ASSUME NEW S, IsFiniteSet(S), NEW x
  PROVE  /\ Cardinality(S) \in Nat
         /\ IsFiniteSet(S \cup {x}) /\ IsFiniteSet(S \ {x})
         /\ x \notin S => Cardinality(S \cup {x}) = Cardinality(S) + 1
         /\ x \in S => Cardinality(S \ {x}) = Cardinality(S) - 1
  BY FS_CardinalityType, FS_AddElement, FS_RemoveElement

\* Who is out, when one client moves.
LEMMA OutMoved ==
  ASSUME TypeOK, NEW c \in Client, NEW label, Moved(c, label)
  PROVE  /\ at[c] \in Inside /\ label \in Inside => Out' = Out
         /\ at[c] \notin Inside /\ label \notin Inside => Out' = Out
         /\ at[c] \in Inside /\ label \notin Inside => Out' = Out \cup {c} /\ c \notin Out
         /\ at[c] \notin Inside /\ label \in Inside => Out' = Out \ {c} /\ c \in Out
  BY DEF Moved, Out, Inside

\* A step that moves no connection.
LEMMA CountKept ==
  ASSUME CountInv, Out' = Out, UNCHANGED <<connections, pending>>,
         main' # "closed" => main # "closed"
  PROVE  CountInv'
  BY DEF CountInv, Conservation

\* Every step conserves the connections.
LEMMA CountStep == CoreInv /\ CountInv /\ [Next]_vars => CountInv'
  <1> SUFFICES ASSUME CoreInv, CountInv, [Next]_vars PROVE CountInv'
    OBVIOUS
  <1>1. /\ TypeOK /\ HoldInv /\ WaiterInv /\ TaskInv
        /\ connections \in Seq(Conn) /\ pending \in Nat
        /\ IsFiniteSet(Out) /\ Cardinality(Out) \in Nat /\ PoolSize \in Nat
    BY PoolAssumption, FS_CardinalityType DEF CoreInv, CountInv, TypeOK
  <1>2. Len(connections) \in Nat
    BY <1>1
  <1> USE DEF CountInv, Conservation
  <1>3. ASSUME NEW c \in Client, AcquireSessionAsync(c) PROVE CountInv'
    <2>1. at[c] = "idle" /\ UNCHANGED <<pending, main>>
      BY <1>1, <1>3, AcquireShape DEF mainVars
    <2>2. CASE Taken(c)
      <3>1. Out' = Out \cup {c} /\ c \notin Out
        BY <1>1, <2>1, <2>2, OutMoved DEF Taken, Inside
      <3>2. IsFiniteSet(Out') /\ Cardinality(Out') = Cardinality(Out) + 1
        BY <1>1, <3>1, OneMore
      <3>3. Len(connections') = Len(connections) - 1
        BY <1>1, <2>2, TailFacts DEF Taken
      <3> QED BY <1>1, <1>2, <2>1, <3>2, <3>3
    <2>3. CASE Parked(c)
      <3>1. Out' = Out
        BY <1>1, <2>1, <2>3, OutMoved DEF Parked, Inside
      <3> QED BY <2>1, <2>3, <3>1, CountKept DEF Parked
    <2> QED BY <1>1, <1>3, <2>2, <2>3, AcquireShape
  <1>4. ASSUME NEW c \in Client, ReturnConnection(c) PROVE CountInv'
    <2>1. at[c] = "returning" /\ Given(conn[c], {c}) /\ UNCHANGED <<pending, main>>
      BY <1>1, <1>4, ReturnShape DEF mainVars
    <2>2. /\ IsFiniteSet(Out \ {c}) /\ Cardinality(Out \ {c}) = Cardinality(Out) - 1
          /\ Cardinality(Out \ {c}) \in Nat
      <3>1. c \in Out
        BY <2>1 DEF Out
      <3>2. IsFiniteSet(Out \ {c}) /\ Cardinality(Out \ {c}) = Cardinality(Out) - 1
        BY <1>1, <3>1, OneMore
      <3> QED BY <3>2, FS_CardinalityType
    <2>3. ASSUME NEW w \in Client, Handed(conn[c], {c}, w) PROVE CountInv'
      <3>1. Out' = (Out \ {c}) \cup {w} /\ w \notin Out \ {c}
        BY <2>3 DEF Handed, Out
      <3>2. IsFiniteSet(Out') /\ Cardinality(Out') = Cardinality(Out)
        <4>1. /\ IsFiniteSet((Out \ {c}) \cup {w})
              /\ Cardinality((Out \ {c}) \cup {w}) = Cardinality(Out \ {c}) + 1
          BY <2>2, <3>1, OneMore
        <4> QED BY <1>1, <2>2, <3>1, <4>1
      <3> QED BY <2>1, <2>3, <3>2 DEF Handed
    <2>4. CASE Freed(conn[c], {c})
      <3>1. Out' = Out \ {c}
        BY <2>4 DEF Freed, Out
      <3>2. Len(connections') = Len(connections) + 1
        <4>1. conn[c] \in Conn
          BY <1>1, <1>4, ReturnShape
        <4> QED BY <1>1, <2>4, <4>1, AppendFacts DEF Freed
      <3> QED BY <1>1, <1>2, <2>1, <2>2, <3>1, <3>2
    <2> QED BY <2>1, <2>3, <2>4 DEF Given
  <1>5. ASSUME NEW c \in Client, Walk(c) PROVE CountInv'
    <2>1. UNCHANGED <<connections, main>> /\ Moved(c, at'[c])
      BY <1>1, <1>5, WalkShape DEF mainVars
    <2>2. CASE CountReplacement(c)
      <3>1. at[c] = "dropped" /\ at'[c] = "submitting" /\ pending' = pending + 1
        BY <1>1, <1>5, <2>2, WalkShape DEF CountReplacement, Runs
      <3>2. Out' = Out \ {c} /\ c \in Out
        BY <1>1, <2>1, <3>1, OutMoved DEF Inside
      <3>3. IsFiniteSet(Out') /\ Cardinality(Out') = Cardinality(Out) - 1
        BY <1>1, <3>2, OneMore
      <3> QED BY <1>1, <1>2, <2>1, <3>1, <3>3
    <2>3. CASE ~CountReplacement(c)
      <3>1. pending' = pending
        BY <1>5, <2>3 DEF Walk, SubmitOperation, ReleaseSession, DropConnection,
           SubmitReplacement, CompleteOperation, poolVars
      <3>2. at[c] \in Inside <=> at'[c] \in Inside
        BY <1>1, <1>5, <2>3, WalkShape DEF Inside
      <3>3. Out' = Out
        BY <1>1, <2>1, <3>2, OutMoved
      <3> QED BY <2>1, <3>1, <3>3, CountKept
    <2> QED BY <2>2, <2>3
  <1>6. CASE TakeTask
    <2>1. UNCHANGED <<connections, pending, main>>
      BY <1>1, <1>6, TakeShape DEF poolVars, mainVars
    <2>2. Out' = Out
      <3>1. CASE at' = at
        BY <3>1 DEF Out
      <3>2. CASE at' # at
        BY <1>1, <1>6, <3>2, TakeShape, OutMoved DEF Inside
      <3> QED BY <3>1, <3>2
    <2> QED BY <2>1, <2>2, CountKept
  <1>7. CASE Turn
    <2>1. UNCHANGED <<connections, pending, at, main>>
      BY <1>1, <1>7, TurnShape DEF poolVars, clientVars, mainVars
    <2> QED BY <2>1, CountKept DEF Out
  <1>8. CASE PublishReplacement
    <2>1. main' = main
      BY <1>1, <1>8, PublishShape DEF mainVars
    <2>2. CASE UNCHANGED <<connections, pending, at>>
      BY <2>1, <2>2, CountKept DEF Out
    <2>3. CASE Given(fresh, {}) /\ pending' = pending - 1
      <3>1. ASSUME NEW w \in Client, Handed(fresh, {}, w) PROVE CountInv'
        <4>1. Out' = Out \cup {w} /\ w \notin Out /\ connections' = connections
          BY <3>1 DEF Handed, Out
        <4>2. IsFiniteSet(Out') /\ Cardinality(Out') = Cardinality(Out) + 1
          BY <1>1, <4>1, OneMore
        <4> QED BY <1>1, <1>2, <2>1, <2>3, <4>1, <4>2
      <3>2. CASE Freed(fresh, {})
        <4>1. Out' = Out
          BY <3>2 DEF Freed, Out
        <4>2. Len(connections') = Len(connections) + 1
          <5>1. fresh \in Conn
            BY <1>1, <1>8, PublishShape
          <5> QED BY <1>1, <3>2, <5>1, AppendFacts DEF Freed
        <4> QED BY <1>1, <1>2, <2>1, <2>3, <4>1, <4>2
      <3> QED BY <2>3, <3>1, <3>2 DEF Given
    <2> QED BY <1>1, <1>8, <2>2, <2>3, PublishShape DEF poolVars
  <1>9. CASE Main
    <2>1. UNCHANGED pending /\ main # "closed"
          /\ (connections' = connections \/ main' = "closed")
      BY <1>1, <1>9, MainShape
    <2>2. Out' = Out
      BY <1>1, <1>9, MainShape, FailShape DEF Out
    <2> QED BY <2>1, <2>2
  <1>10. CASE UNCHANGED vars
    BY <1>10, CountKept DEF vars, poolVars, clientVars, mainVars, Out
  <1> QED BY <1>3, <1>4, <1>5, <1>6, <1>7, <1>8, <1>9, <1>10, Steps

\* The pool neither leaks connections nor opens too many: until it is destroyed
\* those free, in use or to be replaced are PoolSize_ in number.
THEOREM ConnectionsConserved == Spec => []Conservation
  <1>1. Init => CountInv
    <2> SUFFICES ASSUME Init PROVE CountInv
      OBVIOUS
    <2>1. Out = {}
      BY DEF Init, Out
    <2>2. Len(connections) = PoolSize
      BY PoolAssumption DEF Init
    <2>3. pending = 0 /\ PoolSize \in Nat
      BY PoolAssumption DEF Init
    <2> QED BY <2>1, <2>2, <2>3, FS_EmptySet DEF CountInv, Conservation
  <1>2. CountInv => Conservation
    BY DEF CountInv
  <1> QED BY <1>1, <1>2, CountStep, CoreInit, CoreStep, PTL DEF Spec
==============================================================================
