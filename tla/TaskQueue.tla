------------------------------ MODULE TaskQueue ------------------------------
(***************************************************************************)
(* The worker's coroutine scheduler, tpcc/runtime/task_queue.{h,cpp}.      *)
(*                                                                         *)
(* ThreadCount scheduler threads each own four queues of suspended         *)
(* coroutines (terminals): timers, ready (internal), waiting for an        *)
(* inflight slot, and ready (external, filled by other threads).  One      *)
(* atomic counter, RunningInternalCount, caps the transactions in flight.  *)
(* The module splits every operation at the points where another thread    *)
(* can run between two accesses to shared state: the fetch_add and the     *)
(* fetch_sub of IncInflight, the queue checks of MaybeIdleWait and its     *)
(* reset of IdleWake, a push and the notification that follows it.         *)
(*                                                                         *)
(* A definition FaultX is a plausible bug in X.  No specification uses it:  *)
(* it replaces X to show that a property notices the difference.           *)
(***************************************************************************)
EXTENDS Naturals, Sequences, FiniteSets

CONSTANTS
  ThreadCount,    \* scheduler threads
  TerminalCount,  \* coroutines the scheduler multiplexes
  MaxRunning,     \* MaxRunningInternal: slots; 0 means no limit
  MaxResumes,     \* MaxInternalResumesPerIteration
  IoThread        \* threads that complete futures (adapter pools, main at start)

ASSUME ThreadAssumption == ThreadCount \in Nat \ {0}
ASSUME TerminalAssumption == TerminalCount \in Nat
ASSUME SlotAssumption == MaxRunning \in Nat
ASSUME ResumeAssumption == MaxResumes \in Nat \ {0}

Thread == 0 .. ThreadCount - 1
Task   == 0 .. TerminalCount - 1

\* Stands for "no coroutine" in cur; no terminal has this number.
NoTask == TerminalCount

\* A terminal passes its TerminalID as threadHint to every call.
Home(t) == t % ThreadCount

VARIABLES
  pc,         \* where each scheduler thread is in RunThread
  call,       \* the queue operation its running coroutine is inside
  notifyAt,   \* next thread NotifyAllThreads notifies, for a caller inside it
  cur,        \* the coroutine a thread is executing
  batch,      \* externalTasks: drained from ReadyTasksExternal, not yet resumed
  readyI,     \* ReadyTasksInternal
  readyE,     \* ReadyTasksExternal
  waiting,    \* InflightWaitingTasksInternal
  due,        \* sleepers whose deadline has passed, in deadline order
  quota,      \* sleepers ProcessSleepingTasks still has to pop in this turn
  resumed,    \* internalResumed
  running,    \* RunningInternalCount
  holders,    \* coroutines that passed IncInflight and not yet DecInflight
  idleWake,   \* IdleWake
  wakeupAll,  \* WakeupAll
  stop,       \* ThreadsStopSource
  main,       \* progress of the thread that shuts the queue down
  mainAt,     \* next thread that thread notifies
  ioNotify,   \* thread an I/O thread has pushed to and not yet notified
  where       \* which queue, thread or pending future holds each coroutine

queueVars  == <<batch, readyI, readyE, waiting, due>>
threadVars == <<pc, call, notifyAt, cur, quota, resumed>>
slotVars   == <<running, holders>>
mainVars   == <<wakeupAll, stop, main, mainAt>>
vars == <<threadVars, queueVars, slotVars, mainVars, idleWake, ioNotify, where>>

PcLabel   == {"top", "external", "inflight", "claim", "unclaim", "sleepers",
              "internal", "check", "checkExternal", "arm", "wait", "exit"}
CallLabel == {"none", "undoInc", "notify"}
MainLabel == {"serve", "waking", "woken", "stopping", "joining", "joined"}
\* "handed": a future or TTerminal::Start will pass the handle to
\* TaskReadyThreadSafe; "leaked": popped and dropped because stop was set.
Place == {"handed", "external", "batch", "running", "ready", "waiting",
          "sleeping", "due", "done", "leaked", "destroyed"}

TypeOK ==
  /\ pc \in [Thread -> PcLabel]
  /\ call \in [Thread -> CallLabel]
  /\ notifyAt \in [Thread -> Thread]
  /\ cur \in [Thread -> Task \cup {NoTask}]
  /\ batch \in [Thread -> Seq(Task)]
  /\ readyI \in [Thread -> Seq(Task)]
  /\ readyE \in [Thread -> Seq(Task)]
  /\ waiting \in [Thread -> Seq(Task)]
  /\ due \in [Thread -> Seq(Task)]
  /\ quota \in [Thread -> Nat]
  /\ resumed \in [Thread -> 0 .. MaxResumes]
  /\ running \in Nat
  /\ holders \in SUBSET Task
  /\ idleWake \in [Thread -> BOOLEAN]
  /\ wakeupAll \in BOOLEAN
  /\ stop \in BOOLEAN
  /\ main \in MainLabel
  /\ mainAt \in Thread
  /\ ioNotify \in [IoThread -> 0 .. ThreadCount]
  /\ where \in [Task -> Place]

\* TTaskQueue::TTaskQueue and Run: threads started, terminals about to be
\* handed over one by one by TTerminal::Start.
Init ==
  /\ pc = [th \in Thread |-> "top"]
  /\ call = [th \in Thread |-> "none"]
  /\ notifyAt = [th \in Thread |-> 0]
  /\ cur = [th \in Thread |-> NoTask]
  /\ batch = [th \in Thread |-> <<>>]
  /\ readyI = [th \in Thread |-> <<>>]
  /\ readyE = [th \in Thread |-> <<>>]
  /\ waiting = [th \in Thread |-> <<>>]
  /\ due = [th \in Thread |-> <<>>]
  /\ quota = [th \in Thread |-> 0]
  /\ resumed = [th \in Thread |-> 0]
  /\ running = 0
  /\ holders = {}
  /\ idleWake = [th \in Thread |-> FALSE]
  /\ wakeupAll = FALSE
  /\ stop = FALSE
  /\ main = "serve"
  /\ mainAt = 0
  /\ ioNotify = [i \in IoThread |-> ThreadCount]
  /\ where = [t \in Task |-> "handed"]

\* A slot is free when fetch_add returned n.
FaultSlotFree(n) == MaxRunning = 0 \/ n <= MaxRunning
SlotFree(n) == MaxRunning = 0 \/ n < MaxRunning

\* fetch_sub: the value of RunningInternalCount after a slot is given back.
FaultGiveBack == running
GiveBack == running - 1

\* TryPop of thread th's queue in q.
FaultPop(q, th) == q
Pop(q, th) == [q EXCEPT ![th] = Tail(@)]

\* i is the last index of the loop in NotifyAllThreads.
FaultLastThread(i) == i = ThreadCount
LastThread(i) == i + 1 = ThreadCount

\* The flags MaybeIdleWait looks at first and again in its wait predicate.
FaultShuttingDown == wakeupAll
ShuttingDown == stop \/ wakeupAll

\* A waiter of th could be promoted now.
Promotable(th) == waiting[th] # <<>> /\ SlotFree(running)

Goto(th, label) == pc' = [pc EXCEPT ![th] = label]
MoveTo(t, place) == where' = [where EXCEPT ![t] = place]

------------------------------------------------------------------------------
(* What a resumed coroutine does before it suspends again.                   *)

Executing(th) == cur[th] # NoTask /\ call[th] = "none"

\* TSuspend -> AsyncSleep: keying, think time, backoff, session poll.
AsyncSleep(th) ==
  /\ Executing(th)
  /\ MoveTo(cur[th], "sleeping")
  /\ cur' = [cur EXCEPT ![th] = NoTask]
  /\ UNCHANGED <<pc, call, notifyAt, quota, resumed, queueVars, slotVars, mainVars,
                 idleWake, ioNotify>>

\* TSuspendWithFuture on a future that is not ready: only an admitted
\* transaction waits for a session or a query.
AwaitFuture(th) ==
  /\ Executing(th)
  /\ cur[th] \in holders
  /\ MoveTo(cur[th], "handed")
  /\ cur' = [cur EXCEPT ![th] = NoTask]
  /\ UNCHANGED <<pc, call, notifyAt, quota, resumed, queueVars, slotVars, mainVars,
                 idleWake, ioNotify>>

\* The terminal returns; it has always released its slot by then.
Finish(th) ==
  /\ Executing(th)
  /\ cur[th] \notin holders
  /\ MoveTo(cur[th], "done")
  /\ cur' = [cur EXCEPT ![th] = NoTask]
  /\ UNCHANGED <<pc, call, notifyAt, quota, resumed, queueVars, slotVars, mainVars,
                 idleWake, ioNotify>>

\* IncInflight up to its decision: fetch_add, then admitted or not.
IncInflight(th) ==
  /\ Executing(th)
  /\ cur[th] \notin holders
  /\ running' = running + 1
  /\ \/ /\ SlotFree(running)
        /\ holders' = holders \cup {cur[th]}
        /\ UNCHANGED call
     \/ /\ ~SlotFree(running)
        /\ call' = [call EXCEPT ![th] = "undoInc"]
        /\ UNCHANGED holders
  /\ UNCHANGED <<pc, notifyAt, cur, quota, resumed, queueVars, mainVars, idleWake,
                 ioNotify, where>>

\* The rest of a refused IncInflight: fetch_sub, park the coroutine.
IncInflightPark(th) ==
  /\ call[th] = "undoInc"
  /\ running' = GiveBack
  /\ call' = [call EXCEPT ![th] = "none"]
  /\ waiting' = [waiting EXCEPT ![Home(cur[th])] = Append(@, cur[th])]
  /\ MoveTo(cur[th], "waiting")
  /\ cur' = [cur EXCEPT ![th] = NoTask]
  /\ UNCHANGED <<pc, notifyAt, quota, resumed, batch, readyI, readyE, due, holders,
                 mainVars, idleWake, ioNotify>>

\* DecInflight: fetch_sub, then NotifyAllThreads one thread at a time.
DecInflight(th) ==
  /\ Executing(th)
  /\ cur[th] \in holders
  /\ running' = GiveBack
  /\ holders' = holders \ {cur[th]}
  /\ call' = [call EXCEPT ![th] = "notify"]
  /\ UNCHANGED <<pc, notifyAt, cur, quota, resumed, queueVars, mainVars, idleWake, ioNotify,
                 where>>

DecInflightNotify(th) ==
  /\ call[th] = "notify"
  /\ idleWake' = [idleWake EXCEPT ![notifyAt[th]] = TRUE]
  /\ \/ /\ ~LastThread(notifyAt[th])
        /\ notifyAt' = [notifyAt EXCEPT ![th] = @ + 1]
        /\ UNCHANGED call
     \/ /\ LastThread(notifyAt[th])
        /\ notifyAt' = [notifyAt EXCEPT ![th] = 0]
        /\ call' = [call EXCEPT ![th] = "none"]
  /\ UNCHANGED <<pc, cur, quota, resumed, queueVars, slotVars, mainVars, ioNotify,
                 where>>

Coroutine(th) ==
  \/ AsyncSleep(th) \/ AwaitFuture(th) \/ Finish(th)
  \/ IncInflight(th) \/ IncInflightPark(th)
  \/ DecInflight(th) \/ DecInflightNotify(th)

------------------------------------------------------------------------------
(* RunThread, one turn of the scheduler loop.                                *)

\* Top of the loop: leave when stop is requested; else read the clock and
\* drain ReadyTasksExternal under its lock.
DrainExternal(th) ==
  /\ pc[th] = "top" /\ ~stop
  /\ quota' = [quota EXCEPT ![th] = Len(due[th])]
  /\ batch' = [batch EXCEPT ![th] = readyE[th]]
  /\ readyE' = [readyE EXCEPT ![th] = <<>>]
  /\ where' = [t \in Task |-> IF where[t] = "external" /\ Home(t) = th
                              THEN "batch" ELSE where[t]]
  /\ Goto(th, "external")
  /\ UNCHANGED <<call, notifyAt, cur, resumed, readyI, waiting, due, slotVars,
                 mainVars, idleWake, ioNotify>>

ExitThread(th) ==
  /\ pc[th] = "top" /\ stop
  /\ Goto(th, "exit")
  /\ UNCHANGED <<call, notifyAt, cur, quota, resumed, queueVars, slotVars, mainVars,
                 idleWake, ioNotify, where>>

ResumeExternal(th) ==
  /\ pc[th] = "external" /\ cur[th] = NoTask /\ ~stop
  /\ batch[th] # <<>>
  /\ cur' = [cur EXCEPT ![th] = Head(batch[th])]
  /\ batch' = Pop(batch, th)
  /\ MoveTo(Head(batch[th]), "running")
  /\ UNCHANGED <<pc, call, notifyAt, quota, resumed, readyI, readyE, waiting, due,
                 slotVars, mainVars, idleWake, ioNotify>>

\* The batch is finished, or abandoned with its handles when stop is seen.
LeaveExternal(th) ==
  /\ pc[th] = "external" /\ cur[th] = NoTask
  /\ batch[th] = <<>> \/ stop
  /\ batch' = [batch EXCEPT ![th] = <<>>]
  /\ where' = [t \in Task |-> IF where[t] = "batch" /\ Home(t) = th
                              THEN "leaked" ELSE where[t]]
  /\ Goto(th, "inflight")
  /\ UNCHANGED <<call, notifyAt, cur, quota, resumed, readyI, readyE, waiting, due,
                 slotVars, mainVars, idleWake, ioNotify>>

\* How many sleepers ProcessSleepingTasks pops: those due when the turn began,
\* or all of them when WakeupAll is set as it starts.
Sleepers(th) == {t \in Task : where[t] \in {"sleeping", "due"} /\ Home(t) = th}
EnterSleepers(th) ==
  /\ Goto(th, "sleepers")
  /\ quota' = [quota EXCEPT ![th] = IF wakeupAll THEN Cardinality(Sleepers(th)) ELSE @]

\* The loop condition of ProcessInflightQueue.
InflightLoop(th) ==
  /\ pc[th] = "inflight"
  /\ \/ /\ MaxRunning # 0 /\ Promotable(th)
        /\ Goto(th, "claim")
        /\ UNCHANGED quota
     \/ /\ MaxRunning = 0 \/ ~Promotable(th)
        /\ EnterSleepers(th)
  /\ UNCHANGED <<call, notifyAt, cur, resumed, queueVars, slotVars, mainVars,
                 idleWake, ioNotify, where>>

\* fetch_add, and promotion of the oldest waiter when a slot was free.
ClaimSlot(th) ==
  /\ pc[th] = "claim"
  /\ running' = running + 1
  /\ \/ /\ SlotFree(running)
        /\ waiting' = Pop(waiting, th)
        /\ readyI' = [readyI EXCEPT ![th] = Append(@, Head(waiting[th]))]
        /\ holders' = holders \cup {Head(waiting[th])}
        /\ MoveTo(Head(waiting[th]), "ready")
        /\ Goto(th, "inflight")
     \/ /\ ~SlotFree(running)
        /\ Goto(th, "unclaim")
        /\ UNCHANGED <<waiting, readyI, holders, where>>
  /\ UNCHANGED <<call, notifyAt, cur, quota, resumed, batch, readyE, due, mainVars,
                 idleWake, ioNotify>>

\* Somebody was faster: fetch_sub and leave ProcessInflightQueue.
UnclaimSlot(th) ==
  /\ pc[th] = "unclaim"
  /\ running' = GiveBack
  /\ EnterSleepers(th)
  /\ UNCHANGED <<call, notifyAt, cur, resumed, queueVars, holders, mainVars,
                 idleWake, ioNotify, where>>

\* One iteration of ProcessSleepingTasks: the earliest deadline first.
WakeSleeper(th) ==
  /\ pc[th] = "sleepers" /\ quota[th] > 0
  /\ quota' = [quota EXCEPT ![th] = @ - 1]
  /\ \/ /\ due[th] # <<>>
        /\ due' = Pop(due, th)
        /\ readyI' = [readyI EXCEPT ![th] = Append(@, Head(due[th]))]
        /\ MoveTo(Head(due[th]), "ready")
     \/ /\ due[th] = <<>>
        /\ \E t \in Task :
             /\ where[t] = "sleeping" /\ Home(t) = th
             /\ readyI' = [readyI EXCEPT ![th] = Append(@, t)]
             /\ MoveTo(t, "ready")
        /\ UNCHANGED due
  /\ UNCHANGED <<pc, call, notifyAt, cur, resumed, batch, readyE, waiting, slotVars,
                 mainVars, idleWake, ioNotify>>

LeaveSleepers(th) ==
  /\ pc[th] = "sleepers" /\ quota[th] = 0
  /\ Goto(th, "internal")
  /\ UNCHANGED <<call, notifyAt, cur, quota, resumed, queueVars, slotVars, mainVars, idleWake,
                 ioNotify, where>>

\* Pop one internal task.  Stop is looked at after the pop, so the popped
\* handle is dropped when it is set.
ResumeInternal(th) ==
  /\ pc[th] = "internal" /\ cur[th] = NoTask
  /\ resumed[th] < MaxResumes /\ readyI[th] # <<>>
  /\ readyI' = Pop(readyI, th)
  /\ \/ /\ ~stop
        /\ cur' = [cur EXCEPT ![th] = Head(readyI[th])]
        /\ resumed' = [resumed EXCEPT ![th] = @ + 1]
        /\ MoveTo(Head(readyI[th]), "running")
        /\ UNCHANGED pc
     \/ /\ stop
        /\ MoveTo(Head(readyI[th]), "leaked")
        /\ resumed' = [resumed EXCEPT ![th] = 0]
        /\ Goto(th, "check")
        /\ UNCHANGED cur
  /\ UNCHANGED <<call, notifyAt, quota, batch, readyE, waiting, due, slotVars,
                 mainVars, idleWake, ioNotify>>

LeaveInternal(th) ==
  /\ pc[th] = "internal" /\ cur[th] = NoTask
  /\ resumed[th] = MaxResumes \/ readyI[th] = <<>>
  /\ resumed' = [resumed EXCEPT ![th] = 0]
  /\ Goto(th, "check")
  /\ UNCHANGED <<call, notifyAt, cur, quota, queueVars, slotVars, mainVars,
                 idleWake, ioNotify, where>>

\* MaybeIdleWait, first half: flags, ready queue, promotable waiters.
IdleCheck(th) ==
  /\ pc[th] = "check"
  /\ LET busy == ShuttingDown \/ readyI[th] # <<>> \/ Promotable(th)
     IN Goto(th, IF busy THEN "top" ELSE "checkExternal")
  /\ UNCHANGED <<call, notifyAt, cur, quota, resumed, queueVars, slotVars, mainVars,
                 idleWake, ioNotify, where>>

\* MaybeIdleWait, second half: external queue under its lock, next deadline.
IdleCheckExternal(th) ==
  /\ pc[th] = "checkExternal"
  /\ Goto(th, IF readyE[th] # <<>> \/ due[th] # <<>> THEN "top" ELSE "arm")
  /\ UNCHANGED <<call, notifyAt, cur, quota, resumed, queueVars, slotVars, mainVars,
                 idleWake, ioNotify, where>>

\* Under IdleMutex: reset IdleWake, evaluate the predicate once, block.
IdleArm(th) ==
  /\ pc[th] = "arm"
  /\ idleWake' = [idleWake EXCEPT ![th] = FALSE]
  /\ Goto(th, IF ShuttingDown THEN "top" ELSE "wait")
  /\ UNCHANGED <<call, notifyAt, cur, quota, resumed, queueVars, slotVars, mainVars,
                 ioNotify, where>>

\* IdleCv: a notification has set IdleWake, or the next deadline has come.
IdleWakeUp(th) ==
  /\ pc[th] = "wait"
  /\ idleWake[th] \/ due[th] # <<>>
  /\ Goto(th, "top")
  /\ UNCHANGED <<call, notifyAt, cur, quota, resumed, queueVars, slotVars, mainVars,
                 idleWake, ioNotify, where>>

Scheduler(th) ==
  \/ DrainExternal(th) \/ ExitThread(th)
  \/ ResumeExternal(th) \/ LeaveExternal(th)
  \/ InflightLoop(th) \/ ClaimSlot(th) \/ UnclaimSlot(th)
  \/ WakeSleeper(th) \/ LeaveSleepers(th)
  \/ ResumeInternal(th) \/ LeaveInternal(th)
  \/ IdleCheck(th) \/ IdleCheckExternal(th) \/ IdleArm(th) \/ IdleWakeUp(th)

------------------------------------------------------------------------------
(* Other threads.                                                            *)

\* The next deadline of thread th passes.
TimerExpires(t) ==
  /\ where[t] = "sleeping" /\ main # "joined"
  /\ due' = [due EXCEPT ![Home(t)] = Append(@, t)]
  /\ MoveTo(t, "due")
  /\ UNCHANGED <<threadVars, batch, readyI, readyE, waiting, slotVars, mainVars,
                 idleWake, ioNotify>>

\* TaskReadyThreadSafe, called by a future's callback or by TTerminal::Start:
\* push under ReadyTasksLock ...
TaskReadyThreadSafe(i, t) ==
  /\ ioNotify[i] = ThreadCount
  /\ where[t] = "handed"
  /\ readyE' = [readyE EXCEPT ![Home(t)] = Append(@, t)]
  /\ ioNotify' = [ioNotify EXCEPT ![i] = Home(t)]
  /\ MoveTo(t, "external")
  /\ UNCHANGED <<threadVars, batch, readyI, waiting, due, slotVars, mainVars,
                 idleWake>>

\* ... then NotifyThread.
NotifyThread(i) ==
  /\ ioNotify[i] < ThreadCount
  /\ idleWake' = [idleWake EXCEPT ![ioNotify[i]] = TRUE]
  /\ ioNotify' = [ioNotify EXCEPT ![i] = ThreadCount]
  /\ UNCHANGED <<threadVars, queueVars, slotVars, mainVars, where>>

\* WakeupAndNeverSleep: set WakeupAll, then NotifyAllThreads.
WakeupAndNeverSleep ==
  /\ main = "serve"
  /\ wakeupAll' = TRUE
  /\ main' = "waking"
  /\ UNCHANGED <<threadVars, queueVars, slotVars, stop, mainAt, idleWake, ioNotify,
                 where>>

\* Join: request stop, NotifyAllThreads, join.  The runner calls it after
\* WakeupAndNeverSleep, the destructor may call it alone.
JoinRequestStop ==
  /\ main \in {"serve", "woken"}
  /\ stop' = TRUE
  /\ main' = "stopping"
  /\ UNCHANGED <<threadVars, queueVars, slotVars, wakeupAll, mainAt, idleWake,
                 ioNotify, where>>

\* NotifyAllThreads as called by the two operations above.
MainNotify ==
  /\ main \in {"waking", "stopping"}
  /\ idleWake' = [idleWake EXCEPT ![mainAt] = TRUE]
  /\ \/ /\ ~LastThread(mainAt)
        /\ mainAt' = mainAt + 1
        /\ UNCHANGED main
     \/ /\ LastThread(mainAt)
        /\ mainAt' = 0
        /\ main' = IF main = "waking" THEN "woken" ELSE "joining"
  /\ UNCHANGED <<threadVars, queueVars, slotVars, wakeupAll, stop, ioNotify, where>>

\* Join, after the last thread has exited: destroy the queued frames.
JoinDestroy ==
  /\ main = "joining"
  /\ \A th \in Thread : pc[th] = "exit"
  /\ main' = "joined"
  /\ readyI' = [th \in Thread |-> <<>>]
  /\ readyE' = [th \in Thread |-> <<>>]
  /\ waiting' = [th \in Thread |-> <<>>]
  /\ due' = [th \in Thread |-> <<>>]
  /\ where' = [t \in Task |->
                 IF where[t] \in {"external", "ready", "waiting", "sleeping", "due"}
                 THEN "destroyed" ELSE where[t]]
  /\ UNCHANGED <<threadVars, batch, slotVars, wakeupAll, stop, mainAt, idleWake,
                 ioNotify>>

Io(i) == NotifyThread(i) \/ \E t \in Task : TaskReadyThreadSafe(i, t)

Main == WakeupAndNeverSleep \/ JoinRequestStop \/ MainNotify \/ JoinDestroy

Next ==
  \/ \E th \in Thread : Scheduler(th) \/ Coroutine(th)
  \/ \E t \in Task : TimerExpires(t)
  \/ \E i \in IoThread : Io(i)
  \/ Main

\* Every scheduler thread the operating system runs makes progress, a resumed
\* coroutine suspends or returns sooner or later, and the main thread finishes a
\* shutdown it has begun; nothing obliges it to begin one, and neither timers nor
\* the DBMS need ever come back.
Fairness ==
  /\ \A th \in Thread : WF_vars(Scheduler(th) \/ Coroutine(th))
  /\ \A th \in Thread : SF_vars(AsyncSleep(th) \/ AwaitFuture(th) \/ Finish(th))
  /\ WF_vars(MainNotify) /\ WF_vars(JoinDestroy)

Spec == Init /\ [][Next]_vars
FairSpec == Spec /\ Fairness

------------------------------------------------------------------------------
(* Properties.                                                               *)

\* Threads that have added one to RunningInternalCount and are about to take
\* it back: inside a refused IncInflight or ProcessInflightQueue.
Overshoot == {th \in Thread : call[th] = "undoInc" \/ pc[th] = "unclaim"}

\* Slot accounting: RunningInternalCount is the number of coroutines that hold
\* a slot plus the transient additions, so no slot is leaked or released twice
\* whatever the interleaving of IncInflight, ProcessInflightQueue, DecInflight.
SlotConservation == running = Cardinality(holders) + Cardinality(Overshoot)

\* max_inflight: never more than MaxRunning coroutines between IncInflight and
\* DecInflight, although the counter itself overshoots.
AdmissionBound == MaxRunning # 0 => Cardinality(holders) <= MaxRunning

\* The scheduler implements the counting semaphore of InflightGate: however the
\* split IncInflight, promotion and DecInflight interleave, a terminal is
\* admitted only while a slot is free, and releases only what it holds.
Gate == INSTANCE InflightGate
          WITH Client <- Task, Slots <- MaxRunning, holding <- holders
GateSpec == Gate!Spec

Elems(s) == {s[i] : i \in DOMAIN s}
NoRepeat(s) == \A i, j \in DOMAIN s : s[i] = s[j] => i = j

\* The queues q of all threads hold exactly the coroutines that w places in p,
\* each once, each in the queue of its home thread.
Owned(q, p, w) ==
  \A th \in Thread :
    /\ NoRepeat(q[th])
    /\ Elems(q[th]) = {t \in Task : w[t] = p /\ Home(t) = th}

\* Each thread executes exactly the coroutine of its own that w calls running.
Current(c, w) ==
  \A th \in Thread :
    {t \in Task : w[t] = "running" /\ Home(t) = th} = {c[th]} \ {NoTask}

\* A coroutine handle is in one queue only, once, and only in the queues of its
\* home thread; it is executed by that thread alone.  Two copies would be
\* resumed twice (the second resume of a destroyed frame), and a queue sized
\* for TerminalCount handles could overflow and throw "Task queue is full".
SingleOwner ==
  /\ Owned(batch, "batch", where)
  /\ Owned(readyI, "ready", where)
  /\ Owned(readyE, "external", where)
  /\ Owned(waiting, "waiting", where)
  /\ Owned(due, "due", where)
  /\ Current(cur, where)

\* Nothing can happen any more but a shutdown: every thread is blocked on its
\* condition variable with no timer, and nobody owes a notification.
Stalled ==
  /\ main = "serve"
  /\ \A th \in Thread : pc[th] = "wait" /\ ~idleWake[th]
  /\ \A t \in Task : where[t] \notin {"sleeping", "due", "handed"}
  /\ \A i \in IoThread : ioNotify[i] = ThreadCount

\* DecInflight wakes the threads so that they "can promote waiters after a
\* global slot frees": the scheduler never goes to sleep for good with a free
\* slot and a coroutine waiting for it.
NoStrandedWaiter ==
  Stalled /\ (\E th \in Thread : waiting[th] # <<>>) => running >= MaxRunning

\* Join terminates: no thread sleeps through the stop request, whichever step
\* of its turn it was in and whether or not WakeupAndNeverSleep came first.
JoinCompletes == stop ~> main = "joined"
==============================================================================
