--------------------------- MODULE TaskQueueProofs ---------------------------
(***************************************************************************)
(* Machine-checked proofs about the scheduler, for every number of         *)
(* threads, terminals and slots.                                           *)
(***************************************************************************)
EXTENDS TaskQueue, FiniteSetTheorems, TLAPS

USE ThreadAssumption, TerminalAssumption, SlotAssumption, ResumeAssumption

\* The home thread of a terminal exists (threadHint % PerThreadContext.size()).
LEMMA HomeType == \A t \in Task : Home(t) \in Thread
  BY DEF Task, Thread, Home

\* NoTask is not a terminal number.
LEMMA NoTaskIsNoTask == NoTask \notin Task
  BY DEF Task, NoTask

\* Threads and terminals are finite sets.
LEMMA FiniteSorts == IsFiniteSet(Thread) /\ IsFiniteSet(Task)
  BY FS_Interval DEF Thread, Task

\* What a push does to the elements of a queue.
LEMMA AppendElems ==
  ASSUME NEW s \in Seq(Task), NEW e \in Task
  PROVE  /\ Elems(Append(s, e)) = Elems(s) \cup {e}
         /\ NoRepeat(s) /\ e \notin Elems(s) => NoRepeat(Append(s, e))
  <1>1. Len(s) \in Nat /\ DOMAIN s = 1 .. Len(s)
    OBVIOUS
  <1>2. DOMAIN Append(s, e) = 1 .. Len(s) + 1
    OBVIOUS
  <1>3. /\ \A i \in 1 .. Len(s) : Append(s, e)[i] = s[i]
        /\ Append(s, e)[Len(s) + 1] = e
    OBVIOUS
  <1>4. Elems(Append(s, e)) \subseteq Elems(s) \cup {e}
    BY <1>1, <1>2, <1>3 DEF Elems
  <1>5. Elems(s) \cup {e} \subseteq Elems(Append(s, e))
    BY <1>1, <1>2, <1>3 DEF Elems
  <1>6. ASSUME NoRepeat(s), e \notin Elems(s) PROVE NoRepeat(Append(s, e))
    BY <1>1, <1>2, <1>3, <1>6 DEF Elems, NoRepeat
  <1> QED BY <1>4, <1>5, <1>6

\* What a pop does to the elements of a queue.
LEMMA TailElems ==
  ASSUME NEW s \in Seq(Task), s # <<>>, NoRepeat(s)
  PROVE  /\ Head(s) \in Elems(s) /\ Head(s) \in Task
         /\ Elems(Tail(s)) = Elems(s) \ {Head(s)}
         /\ NoRepeat(Tail(s))
  <1>1. Head(s) = s[1] /\ 1 \in DOMAIN s /\ Len(s) \in Nat /\ Len(s) >= 1
    OBVIOUS
  <1>2. \A i \in 1 .. Len(s) - 1 : Tail(s)[i] = s[i + 1]
    OBVIOUS
  <1>3. DOMAIN Tail(s) = 1 .. Len(s) - 1 /\ DOMAIN s = 1 .. Len(s)
    OBVIOUS
  <1>4. Elems(Tail(s)) \subseteq Elems(s) \ {Head(s)}
    BY <1>1, <1>2, <1>3 DEF Elems, NoRepeat
  <1>5. ASSUME NEW x \in Elems(s) \ {Head(s)} PROVE x \in Elems(Tail(s))
    <2>1. PICK i \in DOMAIN s : x = s[i]
      BY DEF Elems
    <2>2. i # 1 /\ i - 1 \in DOMAIN Tail(s) /\ Tail(s)[i - 1] = s[i]
      BY <2>1, <1>1, <1>2, <1>3
    <2> QED BY <2>1, <2>2 DEF Elems
  <1>6. NoRepeat(Tail(s))
    BY <1>2, <1>3 DEF NoRepeat
  <1>7. Head(s) \in Elems(s)
    BY <1>1 DEF Elems
  <1>8. Head(s) \in Task
    OBVIOUS
  <1>9. Elems(Tail(s)) = Elems(s) \ {Head(s)}
    BY <1>4, <1>5
  <1> QED BY <1>6, <1>7, <1>8, <1>9

------------------------------------------------------------------------------
(* How a push, a pop and a move elsewhere change the ownership of a queue.    *)

\* A push moves a coroutine into place p and into its home thread's queue.
LEMMA PushOwned ==
  ASSUME NEW q \in [Thread -> Seq(Task)], NEW w \in [Task -> Place],
         NEW p \in Place, NEW t \in Task, w[t] # p, Owned(q, p, w)
  PROVE  Owned([q EXCEPT ![Home(t)] = Append(@, t)], p, [w EXCEPT ![t] = p])
  <1> DEFINE q2 == [q EXCEPT ![Home(t)] = Append(@, t)]
  <1> SUFFICES ASSUME NEW th \in Thread
               PROVE  /\ NoRepeat(q2[th])
                      /\ Elems(q2[th]) =
                           {u \in Task : [w EXCEPT ![t] = p][u] = p /\ Home(u) = th}
    BY DEF Owned
  <1>1. CASE th = Home(t)
    <2>1. q2[th] = Append(q[th], t)
      BY <1>1, HomeType
    <2>2. t \notin Elems(q[th])
      BY DEF Owned
    <2> QED BY <2>1, <2>2, <1>1, AppendElems DEF Owned
  <1>2. CASE th # Home(t)
    BY <1>2 DEF Owned
  <1> QED BY <1>1, <1>2

\* The oldest coroutine of a queue is in its place and at home.
LEMMA HeadOwned ==
  ASSUME NEW q \in [Thread -> Seq(Task)], NEW w, NEW p, NEW th \in Thread,
         q[th] # <<>>, Owned(q, p, w)
  PROVE  Head(q[th]) \in Task /\ w[Head(q[th])] = p /\ Home(Head(q[th])) = th
  <1>1. Head(q[th]) \in Elems(q[th]) /\ Head(q[th]) \in Task
    BY TailElems DEF Owned
  <1> QED BY <1>1 DEF Owned

\* A pop takes the oldest coroutine of th out of place p.
LEMMA PopOwned ==
  ASSUME NEW q \in [Thread -> Seq(Task)], NEW w \in [Task -> Place],
         NEW p \in Place, NEW r \in Place, r # p, NEW th \in Thread,
         q[th] # <<>>, Owned(q, p, w)
  PROVE  /\ Pop(q, th) \in [Thread -> Seq(Task)]
         /\ Owned(Pop(q, th), p, [w EXCEPT ![Head(q[th])] = r])
  <1> DEFINE h == Head(q[th])
  <1>1. /\ h \in Elems(q[th]) /\ h \in Task
        /\ Elems(Tail(q[th])) = Elems(q[th]) \ {h}
        /\ NoRepeat(Tail(q[th]))
    BY TailElems DEF Owned
  <1>2. w[h] = p /\ Home(h) = th
    BY <1>1 DEF Owned
  <1>3. Pop(q, th) \in [Thread -> Seq(Task)]
    BY DEF Pop
  <1>4. ASSUME NEW u \in Thread
        PROVE  /\ NoRepeat(Pop(q, th)[u])
               /\ Elems(Pop(q, th)[u]) =
                    {t \in Task : [w EXCEPT ![h] = r][t] = p /\ Home(t) = u}
    <2> HIDE DEF h
    <2>1. CASE u = th
      BY <2>1, <1>1, <1>2 DEF Owned, Pop
    <2>2. CASE u # th
      BY <2>2, <1>1, <1>2 DEF Owned, Pop
    <2> QED BY <2>1, <2>2
  <1> QED BY <1>1, <1>2, <1>3, <1>4 DEF Owned

\* A coroutine that moves between two other places leaves p alone.
LEMMA OtherOwned ==
  ASSUME NEW q \in [Thread -> Seq(Task)], NEW w \in [Task -> Place],
         NEW p \in Place, NEW r \in Place, r # p, NEW t \in Task, w[t] # p,
         Owned(q, p, w)
  PROVE  Owned(q, p, [w EXCEPT ![t] = r])
  BY DEF Owned

\* Ownership only looks at which coroutines are in p.
LEMMA SameOwned ==
  ASSUME NEW q, NEW w, NEW w2, NEW p,
         \A t \in Task : w2[t] = p <=> w[t] = p, Owned(q, p, w)
  PROVE  Owned(q, p, w2)
  BY DEF Owned

------------------------------------------------------------------------------
(* The inductive invariant.                                                   *)

\* A thread runs a coroutine only in its two resume loops, the coroutine is
\* inside a queue operation only while it runs, a refused one holds no slot, a
\* drained batch does not survive the turn, a claim has a waiter to serve.
ThreadInv ==
  \A th \in Thread :
    /\ cur[th] # NoTask => pc[th] \in {"external", "internal"}
    /\ call[th] # "none" => cur[th] # NoTask
    /\ call[th] = "undoInc" => cur[th] \notin holders
    /\ pc[th] # "external" => batch[th] = <<>>
    /\ pc[th] = "claim" => waiting[th] # <<>>

\* A coroutine that waits for a slot holds none.
WaiterInv == \A t \in Task : where[t] = "waiting" => t \notin holders

IInv == /\ TypeOK /\ SlotConservation /\ AdmissionBound /\ SingleOwner
        /\ ThreadInv /\ WaiterInv

\* Holders and overshooting threads are finite sets.
LEMMA FiniteSlots ==
  ASSUME TypeOK
  PROVE  /\ IsFiniteSet(holders) /\ Cardinality(holders) \in Nat
         /\ IsFiniteSet(Overshoot) /\ Cardinality(Overshoot) \in Nat
  <1>1. holders \subseteq Task /\ Overshoot \subseteq Thread
    BY DEF TypeOK, Overshoot
  <1> QED BY <1>1, FiniteSorts, FS_Subset, FS_CardinalityType

\* Whoever gives a slot back finds the counter positive: the fetch_sub of
\* IncInflight, ProcessInflightQueue and DecInflight never wraps around.
LEMMA GiveBackType ==
  ASSUME TypeOK, SlotConservation, holders # {} \/ Overshoot # {}
  PROVE  GiveBack \in Nat
  <1>1. Cardinality(holders) # 0 \/ Cardinality(Overshoot) # 0
    BY FiniteSlots, FS_EmptySet
  <1>2. running \in Nat /\ running = Cardinality(holders) + Cardinality(Overshoot)
    BY DEF TypeOK, SlotConservation
  <1> QED BY <1>1, <1>2, FiniteSlots DEF GiveBack

\* Which coroutine a thread runs, and what the invariant says about it.
LEMMA Running ==
  ASSUME IInv, NEW th \in Thread, cur[th] # NoTask
  PROVE  /\ cur[th] \in Task /\ where[cur[th]] = "running"
         /\ Home(cur[th]) = th /\ pc[th] \in {"external", "internal"}
  BY NoTaskIsNoTask DEF IInv, TypeOK, SingleOwner, Current, ThreadInv

\* The actions of one thread's coroutine keep the types.
LEMMA CoroutineType ==
  ASSUME IInv, NEW th \in Thread, Coroutine(th)
  PROVE  TypeOK'
  <1> USE DEF TypeOK, MoveTo, Goto, queueVars, threadVars, slotVars, mainVars,
              CallLabel, Place
  <1>0. TypeOK /\ SlotConservation
    BY DEF IInv
  <1>1. CASE AsyncSleep(th)
    BY <1>0, <1>1 DEF AsyncSleep
  <1>2. CASE AwaitFuture(th)
    BY <1>0, <1>2 DEF AwaitFuture
  <1>3. CASE Finish(th)
    BY <1>0, <1>3 DEF Finish
  <1>4. CASE IncInflight(th)
    <2>1. cur[th] \in Task
      BY <1>4, Running DEF IncInflight, Executing
    <2>2. running' \in Nat /\ holders' \in SUBSET Task
          /\ call' \in [Thread -> CallLabel]
      <3>1. CASE SlotFree(running)
        BY <1>0, <1>4, <2>1, <3>1 DEF IncInflight
      <3>2. CASE ~SlotFree(running)
        <4>1. call' = [call EXCEPT ![th] = "undoInc"] /\ holders' = holders
          BY <1>4, <3>2 DEF IncInflight
        <4> QED BY <1>0, <1>4, <4>1 DEF IncInflight
      <3> QED BY <3>1, <3>2
    <2> QED BY <1>0, <1>4, <2>2 DEF IncInflight
  <1>5. CASE IncInflightPark(th)
    <2>1. th \in Overshoot
      BY <1>5 DEF IncInflightPark, Overshoot
    <2>2. GiveBack \in Nat
      BY <1>0, <2>1, GiveBackType
    <2>3. cur[th] \in Task
      BY <1>5, Running DEF IInv, ThreadInv, IncInflightPark
    <2>4. waiting' \in [Thread -> Seq(Task)] /\ running' \in Nat
      BY <1>0, <1>5, <2>2, <2>3, HomeType DEF IncInflightPark
    <2> QED BY <1>0, <1>5, <2>3, <2>4 DEF IncInflightPark
  <1>6. CASE DecInflight(th)
    <2>1. GiveBack \in Nat
      BY <1>0, <1>6, GiveBackType DEF DecInflight
    <2> QED BY <1>0, <1>6, <2>1 DEF DecInflight
  <1>7. CASE DecInflightNotify(th)
    <2>1. 0 \in Thread
      BY DEF Thread
    <2>2. ~LastThread(notifyAt[th]) => notifyAt[th] + 1 \in Thread
      <3>1. notifyAt[th] \in Thread
        BY <1>0
      <3> QED BY ONLY <3>1, ThreadAssumption DEF Thread, LastThread
    <2>3. notifyAt' \in [Thread -> Thread] /\ call' \in [Thread -> CallLabel]
      <3>1. CASE LastThread(notifyAt[th])
        <4>1. notifyAt' = [notifyAt EXCEPT ![th] = 0]
              /\ call' = [call EXCEPT ![th] = "none"]
          BY <1>7, <3>1 DEF DecInflightNotify
        <4> QED BY <1>0, <2>1, <4>1
      <3>2. CASE ~LastThread(notifyAt[th])
        <4>1. notifyAt' = [notifyAt EXCEPT ![th] = @ + 1] /\ call' = call
          BY <1>7, <3>2 DEF DecInflightNotify
        <4> QED BY <1>0, <2>2, <3>2, <4>1
      <3> QED BY <3>1, <3>2
    <2>4. idleWake' \in [Thread -> BOOLEAN]
      BY <1>0, <1>7 DEF DecInflightNotify
    <2> QED BY <1>0, <1>7, <2>3, <2>4 DEF DecInflightNotify
  <1> QED BY <1>1, <1>2, <1>3, <1>4, <1>5, <1>6, <1>7 DEF Coroutine

\* What a queue that is not empty yields, and that its rest is a queue.
LEMMA HeadType ==
  ASSUME NEW q \in [Thread -> Seq(Task)], NEW th \in Thread, q[th] # <<>>
  PROVE  Head(q[th]) \in Task /\ Pop(q, th) \in [Thread -> Seq(Task)]
  BY DEF Pop

\* A push keeps the type of a queue.
LEMMA PushType ==
  ASSUME NEW q \in [Thread -> Seq(Task)], NEW th \in Thread, NEW t \in Task
  PROVE  [q EXCEPT ![th] = Append(@, t)] \in [Thread -> Seq(Task)]
  OBVIOUS

\* The number of sleepers ProcessSleepingTasks may pop is a number.
LEMMA EnterSleepersType ==
  ASSUME TypeOK, NEW th \in Thread, EnterSleepers(th)
  PROVE  pc' \in [Thread -> PcLabel] /\ quota' \in [Thread -> Nat]
  <1>1. Sleepers(th) \subseteq Task
    BY DEF Sleepers
  <1>2. Cardinality(Sleepers(th)) \in Nat
    BY <1>1, FiniteSorts, FS_Subset, FS_CardinalityType
  <1>3. pc \in [Thread -> PcLabel] /\ quota \in [Thread -> Nat]
    BY DEF TypeOK
  <1> QED BY <1>2, <1>3 DEF EnterSleepers, Goto, PcLabel

\* The steps of RunThread keep the types.
LEMMA SchedulerType ==
  ASSUME IInv, NEW th \in Thread, Scheduler(th)
  PROVE  TypeOK'
  <1> USE DEF TypeOK, MoveTo, Goto, queueVars, threadVars, slotVars, mainVars,
              PcLabel, Place
  <1>0. TypeOK /\ ThreadInv
    BY DEF IInv
  <1>1. CASE DrainExternal(th)
    <2>1. batch' \in [Thread -> Seq(Task)] /\ readyE' \in [Thread -> Seq(Task)]
          /\ quota' \in [Thread -> Nat]
      BY <1>0, <1>1 DEF DrainExternal
    <2>2. where' \in [Task -> Place]
      BY <1>0, <1>1 DEF DrainExternal
    <2> QED BY <1>0, <1>1, <2>1, <2>2 DEF DrainExternal
  <1>2. CASE ExitThread(th)
    BY <1>0, <1>2 DEF ExitThread
  <1>3. CASE ResumeExternal(th)
    <2>1. Head(batch[th]) \in Task /\ batch' \in [Thread -> Seq(Task)]
      BY <1>0, <1>3, HeadType DEF ResumeExternal
    <2> QED BY <1>0, <1>3, <2>1 DEF ResumeExternal
  <1>4. CASE LeaveExternal(th)
    <2>1. batch' \in [Thread -> Seq(Task)] /\ where' \in [Task -> Place]
      BY <1>0, <1>4 DEF LeaveExternal
    <2> QED BY <1>0, <1>4, <2>1 DEF LeaveExternal
  <1>5. CASE InflightLoop(th)
    <2>1. pc' \in [Thread -> PcLabel] /\ quota' \in [Thread -> Nat]
      BY <1>0, <1>5, EnterSleepersType DEF InflightLoop
    <2> QED BY <1>0, <1>5, <2>1 DEF InflightLoop
  <1>6. CASE ClaimSlot(th)
    <2>1. waiting[th] # <<>>
      BY <1>0, <1>6 DEF ThreadInv, ClaimSlot
    <2>2. Head(waiting[th]) \in Task /\ Pop(waiting, th) \in [Thread -> Seq(Task)]
      BY <1>0, <2>1, HeadType
    <2>3. running' \in Nat
      BY <1>0, <1>6 DEF ClaimSlot
    <2>4. CASE SlotFree(running)
      <3>1. /\ readyI' = [readyI EXCEPT ![th] = Append(@, Head(waiting[th]))]
            /\ waiting' = Pop(waiting, th)
            /\ holders' = holders \cup {Head(waiting[th])}
            /\ MoveTo(Head(waiting[th]), "ready")
            /\ Goto(th, "inflight")
        BY <1>6, <2>4 DEF ClaimSlot
      <3>2. readyI' \in [Thread -> Seq(Task)]
        BY <1>0, <2>2, <3>1, PushType
      <3> QED BY <1>0, <1>6, <2>2, <2>3, <3>1, <3>2 DEF ClaimSlot
    <2>5. CASE ~SlotFree(running)
      <3>1. Goto(th, "unclaim") /\ UNCHANGED <<waiting, readyI, holders, where>>
        BY <1>6, <2>5 DEF ClaimSlot
      <3> QED BY <1>0, <1>6, <2>3, <3>1 DEF ClaimSlot
    <2> QED BY <2>4, <2>5
  <1>7. CASE UnclaimSlot(th)
    <2>1. th \in Overshoot
      BY <1>7 DEF UnclaimSlot, Overshoot
    <2>2. running' \in Nat
      BY <1>0, <1>7, <2>1, GiveBackType DEF UnclaimSlot, IInv
    <2>3. pc' \in [Thread -> PcLabel] /\ quota' \in [Thread -> Nat]
      BY <1>0, <1>7, EnterSleepersType DEF UnclaimSlot
    <2> QED BY <1>0, <1>7, <2>2, <2>3 DEF UnclaimSlot
  <1>8. CASE WakeSleeper(th)
    <2>1. quota' \in [Thread -> Nat]
      BY <1>0, <1>8, SMTT(30) DEF WakeSleeper
    <2>2. CASE due[th] # <<>>
      <3>1. /\ due' = Pop(due, th)
            /\ readyI' = [readyI EXCEPT ![th] = Append(@, Head(due[th]))]
            /\ MoveTo(Head(due[th]), "ready")
        BY <1>8, <2>2 DEF WakeSleeper
      <3>2. Head(due[th]) \in Task /\ due' \in [Thread -> Seq(Task)]
        BY <1>0, <2>2, <3>1, HeadType
      <3>3. readyI' \in [Thread -> Seq(Task)]
        BY <1>0, <3>1, <3>2, PushType
      <3> QED BY <1>0, <1>8, <2>1, <3>1, <3>2, <3>3 DEF WakeSleeper
    <2>3. CASE due[th] = <<>>
      <3>1. PICK t \in Task :
              /\ readyI' = [readyI EXCEPT ![th] = Append(@, t)]
              /\ MoveTo(t, "ready")
              /\ due' = due
        BY <1>8, <2>3 DEF WakeSleeper
      <3>2. readyI' \in [Thread -> Seq(Task)]
        BY <1>0, <3>1, PushType
      <3> QED BY <1>0, <1>8, <2>1, <3>1, <3>2 DEF WakeSleeper
    <2> QED BY <2>2, <2>3
  <1>9. CASE LeaveSleepers(th)
    BY <1>0, <1>9 DEF LeaveSleepers
  <1>10. CASE ResumeInternal(th)
    <2>1. Head(readyI[th]) \in Task /\ readyI' \in [Thread -> Seq(Task)]
      BY <1>0, <1>10, HeadType DEF ResumeInternal
    <2>2. resumed' \in [Thread -> 0 .. MaxResumes]
      <3>1. resumed \in [Thread -> 0 .. MaxResumes] /\ resumed[th] < MaxResumes
            /\ \/ resumed' = [resumed EXCEPT ![th] = @ + 1]
               \/ resumed' = [resumed EXCEPT ![th] = 0]
        BY <1>0, <1>10 DEF ResumeInternal
      <3> QED BY ONLY <3>1, ResumeAssumption
    <2>3. CASE ~stop
      <3>1. cur' = [cur EXCEPT ![th] = Head(readyI[th])]
            /\ MoveTo(Head(readyI[th]), "running") /\ pc' = pc
        BY <1>10, <2>3 DEF ResumeInternal
      <3> QED BY <1>0, <1>10, <2>1, <2>2, <3>1 DEF ResumeInternal
    <2>4. CASE stop
      <3>1. cur' = cur /\ MoveTo(Head(readyI[th]), "leaked") /\ Goto(th, "check")
        BY <1>10, <2>4 DEF ResumeInternal
      <3> QED BY <1>0, <1>10, <2>1, <2>2, <3>1 DEF ResumeInternal
    <2> QED BY <2>3, <2>4
  <1>11. CASE LeaveInternal(th)
    BY <1>0, <1>11, SMTT(30) DEF LeaveInternal
  <1>12. CASE IdleCheck(th)
    <2>1. pc' \in [Thread -> PcLabel]
      BY <1>0, <1>12 DEF IdleCheck
    <2> QED BY <1>0, <1>12, <2>1 DEF IdleCheck
  <1>13. CASE IdleCheckExternal(th)
    <2>1. pc' \in [Thread -> PcLabel]
      BY <1>0, <1>13 DEF IdleCheckExternal
    <2> QED BY <1>0, <1>13, <2>1 DEF IdleCheckExternal
  <1>14. CASE IdleArm(th)
    <2>1. pc' \in [Thread -> PcLabel]
      BY <1>0, <1>14 DEF IdleArm
    <2>2. idleWake' \in [Thread -> BOOLEAN]
      BY <1>0, <1>14 DEF IdleArm
    <2> QED BY <1>0, <1>14, <2>1, <2>2 DEF IdleArm
  <1>15. CASE IdleWakeUp(th)
    BY <1>0, <1>15 DEF IdleWakeUp
  <1> QED BY <1>1, <1>2, <1>3, <1>4, <1>5, <1>6, <1>7, <1>8, <1>9, <1>10, <1>11,
             <1>12, <1>13, <1>14, <1>15 DEF Scheduler

\* What the timers and the other threads do keeps the types.
LEMMA OthersType ==
  ASSUME IInv, Main \/ (\E t \in Task : TimerExpires(t)) \/ (\E i \in IoThread : Io(i))
  PROVE  TypeOK'
  <1> USE DEF TypeOK, MoveTo, queueVars, threadVars, slotVars, mainVars, Place,
              MainLabel
  <1>0. TypeOK
    BY DEF IInv
  <1>1. ASSUME NEW t \in Task, TimerExpires(t) PROVE TypeOK'
    <2>1. due' \in [Thread -> Seq(Task)]
      BY <1>0, <1>1, PushType, HomeType DEF TimerExpires
    <2> QED BY <1>0, <1>1, <2>1 DEF TimerExpires
  <1>2. ASSUME NEW i \in IoThread, NEW t \in Task, TaskReadyThreadSafe(i, t)
        PROVE  TypeOK'
    <2>1. readyE' \in [Thread -> Seq(Task)]
      BY <1>0, <1>2, PushType, HomeType DEF TaskReadyThreadSafe
    <2>2. Home(t) \in 0 .. ThreadCount
      BY HomeType DEF Thread
    <2> QED BY <1>0, <1>2, <2>1, <2>2 DEF TaskReadyThreadSafe
  <1>3. ASSUME NEW i \in IoThread, NotifyThread(i) PROVE TypeOK'
    <2>1. idleWake' \in [Thread -> BOOLEAN]
      BY <1>0, <1>3 DEF NotifyThread
    <2>2. ioNotify' \in [IoThread -> 0 .. ThreadCount]
      BY <1>0, <1>3 DEF NotifyThread
    <2> QED BY <1>0, <1>3, <2>1, <2>2 DEF NotifyThread
  <1>4. CASE WakeupAndNeverSleep
    BY <1>0, <1>4 DEF WakeupAndNeverSleep
  <1>5. CASE JoinRequestStop
    BY <1>0, <1>5 DEF JoinRequestStop
  <1>6. CASE MainNotify
    <2>1. idleWake' \in [Thread -> BOOLEAN]
      BY <1>0, <1>6 DEF MainNotify
    <2>2. mainAt' \in Thread
      <3>1. mainAt \in Thread /\ (mainAt' = 0 \/ (~LastThread(mainAt) /\ mainAt' = mainAt + 1))
        BY <1>0, <1>6 DEF MainNotify
      <3> QED BY ONLY <3>1, ThreadAssumption DEF Thread, LastThread
    <2>3. main' \in MainLabel
      BY <1>0, <1>6 DEF MainNotify
    <2> QED BY <1>0, <1>6, <2>1, <2>2, <2>3 DEF MainNotify
  <1>7. CASE JoinDestroy
    <2>1. where' \in [Task -> Place]
      BY <1>0, <1>7 DEF JoinDestroy
    <2>2. <<>> \in Seq(Task)
      OBVIOUS
    <2>3. [th \in Thread |-> <<>>] \in [Thread -> Seq(Task)]
      BY <2>2
    <2> QED BY <1>0, <1>7, <2>1, <2>3 DEF JoinDestroy
  <1> QED BY <1>1, <1>2, <1>3, <1>4, <1>5, <1>6, <1>7 DEF Main, Io

\* Every step keeps the types.
LEMMA TypeStep ==
  ASSUME IInv, [Next]_vars
  PROVE  TypeOK'
  <1>1. CASE UNCHANGED vars
    BY <1>1 DEF IInv, TypeOK, vars, queueVars, threadVars, slotVars, mainVars
  <1>2. CASE Next
    BY <1>2, CoroutineType, SchedulerType, OthersType DEF Next
  <1> QED BY <1>1, <1>2

------------------------------------------------------------------------------
(* The slots.                                                                 *)

\* Every step keeps the slot accounting, the bound, and what the invariant
\* says about threads and waiters.  First: the set of overshooting threads
\* changes only where the counter is corrected.
LEMMA SameOvershoot ==
  ASSUME \A th \in Thread : call'[th] = "undoInc" <=> call[th] = "undoInc",
         \A th \in Thread : pc'[th] = "unclaim" <=> pc[th] = "unclaim"
  PROVE  Overshoot' = Overshoot
  BY DEF Overshoot

\* Steps that touch neither the counter nor the holders.
LEMMA SlotsUntouched ==
  ASSUME IInv, UNCHANGED slotVars, Overshoot' = Overshoot
  PROVE  SlotConservation' /\ AdmissionBound'
  BY DEF IInv, SlotConservation, AdmissionBound, slotVars

\* The overshoot of one thread begins and ends.
LEMMA OvershootBegins ==
  ASSUME IInv, TypeOK', NEW th \in Thread, th \notin Overshoot,
         Overshoot' = Overshoot \cup {th}, holders' = holders, running' = running + 1
  PROVE  SlotConservation' /\ AdmissionBound'
  <1>1. IsFiniteSet(Overshoot) /\ Cardinality(Overshoot) \in Nat
        /\ Cardinality(holders) \in Nat
    BY FiniteSlots DEF IInv
  <1>2. Cardinality(Overshoot') = Cardinality(Overshoot) + 1
    BY <1>1, FS_AddElement
  <1>3. running = Cardinality(holders) + Cardinality(Overshoot)
    BY DEF IInv, SlotConservation
  <1>4. SlotConservation'
    BY <1>1, <1>2, <1>3 DEF SlotConservation
  <1>5. AdmissionBound'
    BY DEF IInv, AdmissionBound
  <1> QED BY <1>4, <1>5

\* A refused thread takes its addition back: the slots stay accounted for.
LEMMA OvershootEnds ==
  ASSUME IInv, TypeOK', NEW th \in Thread, th \in Overshoot,
         Overshoot' = Overshoot \ {th}, holders' = holders, running' = GiveBack
  PROVE  SlotConservation' /\ AdmissionBound'
  <1>1. IsFiniteSet(Overshoot) /\ Cardinality(Overshoot) \in Nat
        /\ Cardinality(holders) \in Nat
    BY FiniteSlots DEF IInv
  <1>2. Cardinality(Overshoot') = Cardinality(Overshoot) - 1
    BY <1>1, FS_RemoveElement
  <1>3. running = Cardinality(holders) + Cardinality(Overshoot)
    BY DEF IInv, SlotConservation
  <1>4. SlotConservation'
    BY <1>1, <1>2, <1>3 DEF SlotConservation, GiveBack
  <1>5. AdmissionBound'
    BY DEF IInv, AdmissionBound
  <1> QED BY <1>4, <1>5

\* The gate counts with the same Cardinality.
LEMMA GateCardinality == Gate!Cardinality(holders) = Cardinality(holders)
  BY DEF Gate!Cardinality, Cardinality

\* A slot is taken only while one is free: the counter is never below the
\* number of holders.
LEMMA SlotTaken ==
  ASSUME IInv, NEW t \in Task, t \notin holders, SlotFree(running),
         Overshoot' = Overshoot, holders' = holders \cup {t}, running' = running + 1
  PROVE  SlotConservation' /\ AdmissionBound' /\ Gate!Acquire(t)
  <1>1. IsFiniteSet(holders) /\ Cardinality(Overshoot) \in Nat
        /\ Cardinality(holders) \in Nat
    BY FiniteSlots DEF IInv
  <1>2. Cardinality(holders') = Cardinality(holders) + 1
    BY <1>1, FS_AddElement
  <1>3. running = Cardinality(holders) + Cardinality(Overshoot)
    BY DEF IInv, SlotConservation
  <1>4. SlotConservation'
    BY <1>1, <1>2, <1>3 DEF SlotConservation
  <1>5. MaxRunning # 0 => Cardinality(holders) < MaxRunning
    BY <1>1, <1>3 DEF SlotFree
  <1>6. AdmissionBound'
    BY <1>1, <1>2, <1>5 DEF AdmissionBound
  <1>7. Gate!Acquire(t)
    BY <1>5, GateCardinality DEF Gate!Acquire, Gate!Open
  <1> QED BY <1>4, <1>6, <1>7

\* DecInflight gives back exactly the slot of its caller.
LEMMA SlotReleased ==
  ASSUME IInv, NEW t \in holders,
         Overshoot' = Overshoot, holders' = holders \ {t}, running' = GiveBack
  PROVE  SlotConservation' /\ AdmissionBound' /\ Gate!Release(t)
  <1>1. IsFiniteSet(holders) /\ Cardinality(Overshoot) \in Nat
        /\ Cardinality(holders) \in Nat
    BY FiniteSlots DEF IInv
  <1>2. Cardinality(holders') = Cardinality(holders) - 1
    BY <1>1, FS_RemoveElement
  <1>3. running = Cardinality(holders) + Cardinality(Overshoot)
    BY DEF IInv, SlotConservation
  <1>4. SlotConservation'
    BY <1>1, <1>2, <1>3 DEF SlotConservation, GiveBack
  <1>5. AdmissionBound'
    BY <1>1, <1>2 DEF AdmissionBound, IInv
  <1>6. Gate!Release(t)
    BY DEF Gate!Release
  <1> QED BY <1>4, <1>5, <1>6

\* Every step of a running coroutine keeps the accounting and acts as the gate.
LEMMA CoroutineSlots ==
  ASSUME IInv, TypeOK', NEW th \in Thread, Coroutine(th)
  PROVE  /\ SlotConservation' /\ AdmissionBound'
         /\ holders' = holders \/ \E c \in Task : Gate!Acquire(c) \/ Gate!Release(c)
  <1>0. pc \in [Thread -> PcLabel] /\ call \in [Thread -> CallLabel]
        /\ holders \in SUBSET Task
    BY DEF IInv, TypeOK
  <1>1. CASE AsyncSleep(th) \/ AwaitFuture(th) \/ Finish(th)
    <2>1. pc' = pc /\ call' = call /\ slotVars' = slotVars
      BY <1>1 DEF AsyncSleep, AwaitFuture, Finish, slotVars
    <2> QED BY <2>1, SameOvershoot, SlotsUntouched DEF slotVars
  <1>2. CASE IncInflight(th)
    <2>1. cur[th] \in Task /\ pc[th] # "unclaim" /\ call[th] = "none"
          /\ cur[th] \notin holders
      BY <1>2, Running DEF IncInflight, Executing
    <2>2. CASE SlotFree(running)
      <3>1. running' = running + 1 /\ holders' = holders \cup {cur[th]}
            /\ call' = call /\ pc' = pc
        BY <1>2, <2>2 DEF IncInflight
      <3> QED BY <2>1, <2>2, <3>1, SameOvershoot, SlotTaken
    <2>3. CASE ~SlotFree(running)
      <3>1. running' = running + 1 /\ holders' = holders /\ pc' = pc
            /\ call' = [call EXCEPT ![th] = "undoInc"]
        BY <1>2, <2>3 DEF IncInflight
      <3>2. th \notin Overshoot /\ Overshoot' = Overshoot \cup {th}
        BY <1>0, <2>1, <3>1 DEF Overshoot
      <3> QED BY <3>1, <3>2, OvershootBegins
    <2> QED BY <2>2, <2>3
  <1>3. CASE IncInflightPark(th)
    <2>1. pc[th] # "unclaim" /\ call[th] = "undoInc"
      BY <1>3, Running DEF IncInflightPark, IInv, ThreadInv
    <2>2. running' = GiveBack /\ holders' = holders /\ pc' = pc
          /\ call' = [call EXCEPT ![th] = "none"]
      BY <1>3 DEF IncInflightPark
    <2>3. th \in Overshoot /\ Overshoot' = Overshoot \ {th}
      BY <1>0, <2>1, <2>2 DEF Overshoot
    <2> QED BY <2>2, <2>3, OvershootEnds
  <1>4. CASE DecInflight(th)
    <2>1. cur[th] \in holders /\ call[th] = "none"
      BY <1>4 DEF DecInflight, Executing
    <2>2. running' = GiveBack /\ holders' = holders \ {cur[th]} /\ pc' = pc
          /\ call' = [call EXCEPT ![th] = "notify"]
      BY <1>4 DEF DecInflight
    <2>3. Overshoot' = Overshoot
      BY <1>0, <2>1, <2>2 DEF Overshoot
    <2> QED BY <1>0, <2>1, <2>2, <2>3, SlotReleased
  <1>5. CASE DecInflightNotify(th)
    <2>1. slotVars' = slotVars /\ pc' = pc /\ call[th] = "notify"
          /\ (call' = call \/ call' = [call EXCEPT ![th] = "none"])
      BY <1>5 DEF DecInflightNotify, slotVars
    <2>2. Overshoot' = Overshoot
      BY <1>0, <2>1 DEF Overshoot
    <2> QED BY <2>1, <2>2, SlotsUntouched DEF slotVars
  <1> QED BY <1>1, <1>2, <1>3, <1>4, <1>5 DEF Coroutine

\* So does every step of RunThread.
LEMMA SchedulerSlots ==
  ASSUME IInv, TypeOK', NEW th \in Thread, Scheduler(th)
  PROVE  /\ SlotConservation' /\ AdmissionBound'
         /\ holders' = holders \/ \E c \in Task : Gate!Acquire(c) \/ Gate!Release(c)
  <1>0. pc \in [Thread -> PcLabel] /\ call \in [Thread -> CallLabel]
        /\ holders \in SUBSET Task
    BY DEF IInv, TypeOK
  <1>1. CASE InflightLoop(th)
    <2>1. slotVars' = slotVars /\ call' = call /\ pc[th] = "inflight"
          /\ (Goto(th, "claim") \/ Goto(th, "sleepers"))
      BY <1>1 DEF InflightLoop, EnterSleepers, slotVars
    <2>2. Overshoot' = Overshoot
      BY <1>0, <2>1 DEF Overshoot, Goto
    <2> QED BY <2>1, <2>2, SlotsUntouched DEF slotVars
  <1>2. CASE ClaimSlot(th)
    <2>1. pc[th] = "claim" /\ waiting[th] # <<>> /\ running' = running + 1
          /\ call' = call /\ call[th] # "undoInc"
      BY <1>2 DEF ClaimSlot, IInv, ThreadInv
    <2>2. CASE SlotFree(running)
      <3>1. holders' = holders \cup {Head(waiting[th])} /\ Goto(th, "inflight")
        BY <1>2, <2>2 DEF ClaimSlot
      <3>2. waiting \in [Thread -> Seq(Task)] /\ where \in [Task -> Place]
            /\ Owned(waiting, "waiting", where)
        BY DEF IInv, TypeOK, SingleOwner
      <3>3. Head(waiting[th]) \in Task /\ where[Head(waiting[th])] = "waiting"
        BY <2>1, <3>2, HeadOwned
      <3>4. Head(waiting[th]) \notin holders
        BY <3>3 DEF IInv, WaiterInv
      <3>5. Overshoot' = Overshoot
        BY <1>0, <2>1, <3>1 DEF Overshoot, Goto
      <3> QED BY <2>1, <2>2, <3>1, <3>3, <3>4, <3>5, SlotTaken
    <2>3. CASE ~SlotFree(running)
      <3>1. holders' = holders /\ Goto(th, "unclaim")
        BY <1>2, <2>3 DEF ClaimSlot
      <3>2. th \notin Overshoot /\ Overshoot' = Overshoot \cup {th}
        BY <1>0, <2>1, <3>1 DEF Overshoot, Goto
      <3> QED BY <2>1, <3>1, <3>2, OvershootBegins
    <2> QED BY <2>2, <2>3
  <1>3. CASE UnclaimSlot(th)
    <2>1. pc[th] = "unclaim" /\ call[th] # "undoInc" /\ Goto(th, "sleepers")
          /\ running' = GiveBack /\ holders' = holders /\ call' = call
      BY <1>3 DEF UnclaimSlot, IInv, ThreadInv, EnterSleepers
    <2>2. th \in Overshoot /\ Overshoot' = Overshoot \ {th}
      BY <1>0, <2>1 DEF Overshoot, Goto
    <2> QED BY <2>1, <2>2, OvershootEnds
  <1>4. CASE ~(InflightLoop(th) \/ ClaimSlot(th) \/ UnclaimSlot(th))
    <2>1. slotVars' = slotVars /\ call' = call
      BY <1>4 DEF Scheduler, DrainExternal, ExitThread, ResumeExternal, LeaveExternal,
             WakeSleeper, LeaveSleepers, ResumeInternal, LeaveInternal, IdleCheck,
             IdleCheckExternal, IdleArm, IdleWakeUp, slotVars
    <2>2. pc[th] # "unclaim" /\ \E l \in PcLabel \ {"unclaim"} : pc' = pc \/ Goto(th, l)
      BY <1>4 DEF Scheduler, DrainExternal, ExitThread, ResumeExternal, LeaveExternal,
             WakeSleeper, LeaveSleepers, ResumeInternal, LeaveInternal, IdleCheck,
             IdleCheckExternal, IdleArm, IdleWakeUp,
             Goto, PcLabel
    <2>3. Overshoot' = Overshoot
      BY <1>0, <2>1, <2>2 DEF Overshoot, Goto
    <2> QED BY <2>1, <2>3, SlotsUntouched DEF slotVars
  <1> QED BY <1>1, <1>2, <1>3, <1>4

\* Every step keeps the slot accounting and is a step of the gate or no step.
LEMMA SlotStep ==
  ASSUME IInv, TypeOK', [Next]_vars
  PROVE  /\ SlotConservation' /\ AdmissionBound'
         /\ holders' = holders \/ \E c \in Task : Gate!Acquire(c) \/ Gate!Release(c)
  <1>1. CASE UNCHANGED vars
    BY <1>1, SameOvershoot, SlotsUntouched DEF vars, threadVars, slotVars
  <1>2. CASE Main \/ (\E t \in Task : TimerExpires(t)) \/ (\E i \in IoThread : Io(i))
    <2>1. UNCHANGED threadVars /\ UNCHANGED slotVars
      BY <1>2 DEF Main, WakeupAndNeverSleep, JoinRequestStop, MainNotify, JoinDestroy,
                  TimerExpires, Io, NotifyThread, TaskReadyThreadSafe
    <2> QED BY <2>1, SameOvershoot, SlotsUntouched DEF threadVars, slotVars
  <1> QED BY <1>1, <1>2, CoroutineSlots, SchedulerSlots DEF Next

------------------------------------------------------------------------------
(* Ownership.                                                                 *)

\* A coroutine that moves from where[t] to r leaves every other queue owned.
LEMMA Moved ==
  ASSUME IInv, NEW t \in Task, NEW r \in Place
  PROVE  LET w == [where EXCEPT ![t] = r] IN
         /\ where[t] # "batch" /\ r # "batch" => Owned(batch, "batch", w)
         /\ where[t] # "ready" /\ r # "ready" => Owned(readyI, "ready", w)
         /\ where[t] # "external" /\ r # "external" => Owned(readyE, "external", w)
         /\ where[t] # "waiting" /\ r # "waiting" => Owned(waiting, "waiting", w)
         /\ where[t] # "due" /\ r # "due" => Owned(due, "due", w)
         /\ where[t] # "running" /\ r # "running" => Current(cur, w)
  <1>1. /\ where \in [Task -> Place]
        /\ batch \in [Thread -> Seq(Task)] /\ readyI \in [Thread -> Seq(Task)]
        /\ readyE \in [Thread -> Seq(Task)] /\ waiting \in [Thread -> Seq(Task)]
        /\ due \in [Thread -> Seq(Task)]
    BY DEF IInv, TypeOK
  <1>2. SingleOwner
    BY DEF IInv
  <1>3. {"batch", "ready", "external", "waiting", "due"} \subseteq Place
    BY DEF Place
  <1> DEFINE w == [where EXCEPT ![t] = r]
  <1>4. ASSUME where[t] # "running", r # "running" PROVE Current(cur, w)
    BY <1>1, <1>2, <1>4 DEF SingleOwner, Current
  <1> HIDE DEF w
  <1>5. /\ where[t] # "batch" /\ r # "batch" => Owned(batch, "batch", w)
        /\ where[t] # "ready" /\ r # "ready" => Owned(readyI, "ready", w)
    BY <1>1, <1>2, <1>3, OtherOwned DEF SingleOwner, w
  <1>6. /\ where[t] # "external" /\ r # "external" => Owned(readyE, "external", w)
        /\ where[t] # "waiting" /\ r # "waiting" => Owned(waiting, "waiting", w)
    BY <1>1, <1>2, <1>3, OtherOwned DEF SingleOwner, w
  <1>7. where[t] # "due" /\ r # "due" => Owned(due, "due", w)
    BY <1>1, <1>2, <1>3, OtherOwned DEF SingleOwner, w
  <1> QED BY <1>4, <1>5, <1>6, <1>7 DEF w

\* A thread starts to execute a coroutine of its own ...
LEMMA Started ==
  ASSUME IInv, NEW th \in Thread, cur[th] = NoTask, NEW t \in Task, Home(t) = th
  PROVE  Current([cur EXCEPT ![th] = t], [where EXCEPT ![t] = "running"])
  <1>1. where \in [Task -> Place] /\ cur \in [Thread -> Task \cup {NoTask}]
        /\ Current(cur, where)
    BY DEF IInv, TypeOK, SingleOwner
  <1>2. t # NoTask
    BY NoTaskIsNoTask
  <1> QED BY <1>1, <1>2 DEF Current

\* ... and suspends it.
LEMMA Suspended ==
  ASSUME IInv, NEW th \in Thread, cur[th] # NoTask, NEW r \in Place, r # "running"
  PROVE  Current([cur EXCEPT ![th] = NoTask], [where EXCEPT ![cur[th]] = r])
  <1>1. where \in [Task -> Place] /\ cur \in [Thread -> Task \cup {NoTask}]
        /\ Current(cur, where)
    BY DEF IInv, TypeOK, SingleOwner
  <1>2. cur[th] \in Task /\ Home(cur[th]) = th
    BY Running
  <1> QED BY <1>1, <1>2 DEF Current

\* Every step of a running coroutine keeps ownership.
LEMMA CoroutineOwner ==
  ASSUME IInv, NEW th \in Thread, Coroutine(th)
  PROVE  SingleOwner'
  <1>0. cur[th] # NoTask
    BY DEF Coroutine, AsyncSleep, AwaitFuture, Finish, IncInflight, IncInflightPark,
           DecInflight, DecInflightNotify, Executing, IInv, ThreadInv
  <1>1. cur[th] \in Task /\ where[cur[th]] = "running" /\ Home(cur[th]) = th
    BY <1>0, Running
  <1>2. CASE AsyncSleep(th) \/ AwaitFuture(th) \/ Finish(th)
    <2>1. PICK r \in {"sleeping", "handed", "done"} :
            where' = [where EXCEPT ![cur[th]] = r]
            /\ cur' = [cur EXCEPT ![th] = NoTask] /\ UNCHANGED queueVars
      BY <1>2 DEF AsyncSleep, AwaitFuture, Finish, MoveTo
    <2>2. r \in Place
      BY DEF Place
    <2>3. Current(cur', where')
      BY <1>0, <2>1, <2>2, Suspended
    <2> QED BY <1>1, <2>1, <2>2, <2>3, Moved DEF SingleOwner, queueVars
  <1>3. CASE IncInflight(th) \/ DecInflight(th) \/ DecInflightNotify(th)
    BY <1>3 DEF IncInflight, DecInflight, DecInflightNotify, IInv, SingleOwner,
                queueVars
  <1>4. CASE IncInflightPark(th)
    <2>1. /\ where' = [where EXCEPT ![cur[th]] = "waiting"]
          /\ cur' = [cur EXCEPT ![th] = NoTask]
          /\ waiting' = [waiting EXCEPT ![Home(cur[th])] = Append(@, cur[th])]
          /\ batch' = batch /\ readyI' = readyI /\ readyE' = readyE /\ due' = due
      BY <1>4 DEF IncInflightPark, MoveTo
    <2>2. "waiting" \in Place
      BY DEF Place
    <2>3. Owned(waiting', "waiting", where')
      BY <1>1, <2>1, <2>2, PushOwned DEF IInv, TypeOK, SingleOwner
    <2>4. Current(cur', where')
      BY <1>0, <2>1, <2>2, Suspended
    <2> QED BY <1>1, <2>1, <2>2, <2>3, <2>4, Moved DEF SingleOwner
  <1> QED BY <1>2, <1>3, <1>4 DEF Coroutine

\* Every step of RunThread keeps ownership.
LEMMA SchedulerOwner ==
  ASSUME IInv, NEW th \in Thread, Scheduler(th)
  PROVE  SingleOwner'
  <1>0. /\ where \in [Task -> Place] /\ cur \in [Thread -> Task \cup {NoTask}]
        /\ batch \in [Thread -> Seq(Task)] /\ readyI \in [Thread -> Seq(Task)]
        /\ readyE \in [Thread -> Seq(Task)] /\ waiting \in [Thread -> Seq(Task)]
        /\ due \in [Thread -> Seq(Task)]
    BY DEF IInv, TypeOK
  <1>a. /\ Owned(batch, "batch", where) /\ Owned(readyI, "ready", where)
        /\ Owned(readyE, "external", where) /\ Owned(waiting, "waiting", where)
        /\ Owned(due, "due", where) /\ Current(cur, where)
    BY DEF IInv, SingleOwner
  <1>b. {"batch", "ready", "external", "waiting", "due", "running", "leaked"}
          \subseteq Place
    BY DEF Place
  <1>1. CASE DrainExternal(th)
    <2>1. /\ batch' = [batch EXCEPT ![th] = readyE[th]]
          /\ readyE' = [readyE EXCEPT ![th] = <<>>]
          /\ where' = [t \in Task |-> IF where[t] = "external" /\ Home(t) = th
                                      THEN "batch" ELSE where[t]]
          /\ cur' = cur /\ readyI' = readyI /\ waiting' = waiting /\ due' = due
          /\ batch[th] = <<>>
      BY <1>1 DEF DrainExternal, IInv, ThreadInv
    <2>2. Owned(readyI', "ready", where') /\ Owned(waiting', "waiting", where')
          /\ Owned(due', "due", where')
      BY <1>a, <2>1, SameOwned
    <2>3. Current(cur', where')
      BY <1>0, <1>a, <2>1 DEF Current
    <2>4. NoRepeat(<<>>) /\ Elems(<<>>) = {}
      BY DEF NoRepeat, Elems
    <2>5. Owned(readyE', "external", where')
      BY <1>0, <1>a, <2>1, <2>4 DEF Owned
    <2>6. \A t \in Task : ~(where[t] = "batch" /\ Home(t) = th)
      BY <1>a, <2>1, <2>4 DEF Owned
    <2>7. Owned(batch', "batch", where')
      BY <1>0, <1>a, <2>1, <2>6 DEF Owned
    <2> QED BY <2>2, <2>3, <2>5, <2>7 DEF SingleOwner
  <1>2. CASE LeaveExternal(th)
    <2>1. /\ batch' = [batch EXCEPT ![th] = <<>>]
          /\ where' = [t \in Task |-> IF where[t] = "batch" /\ Home(t) = th
                                      THEN "leaked" ELSE where[t]]
          /\ cur' = cur /\ readyI' = readyI /\ waiting' = waiting /\ due' = due
          /\ readyE' = readyE
      BY <1>2 DEF LeaveExternal
    <2>2. Owned(readyI', "ready", where') /\ Owned(waiting', "waiting", where')
          /\ Owned(due', "due", where') /\ Owned(readyE', "external", where')
      BY <1>a, <2>1, SameOwned
    <2>3. Current(cur', where')
      BY <1>0, <1>a, <2>1 DEF Current
    <2>4. NoRepeat(<<>>) /\ Elems(<<>>) = {}
      BY DEF NoRepeat, Elems
    <2>5. Owned(batch', "batch", where')
      BY <1>0, <1>a, <2>1, <2>4 DEF Owned
    <2> QED BY <2>2, <2>3, <2>5 DEF SingleOwner
  <1>3. CASE ResumeExternal(th)
    <2> DEFINE h == Head(batch[th])
    <2>1. /\ batch[th] # <<>> /\ cur[th] = NoTask
          /\ batch' = Pop(batch, th) /\ where' = [where EXCEPT ![h] = "running"]
          /\ cur' = [cur EXCEPT ![th] = h]
          /\ readyI' = readyI /\ waiting' = waiting /\ due' = due /\ readyE' = readyE
      BY <1>3 DEF ResumeExternal, MoveTo
    <2>2. h \in Task /\ where[h] = "batch" /\ Home(h) = th
      BY <1>0, <1>a, <2>1, HeadOwned
    <2>4. Owned(batch', "batch", where')
      BY <1>0, <1>a, <1>b, <2>1, PopOwned
    <2> HIDE DEF h
    <2>3. Current(cur', where')
      BY <2>1, <2>2, Started
    <2> QED BY <1>b, <2>1, <2>2, <2>3, <2>4, Moved DEF SingleOwner
  <1>4. CASE ClaimSlot(th)
    <2>1. CASE SlotFree(running)
      <3> DEFINE h == Head(waiting[th])
      <3>1. /\ waiting[th] # <<>> /\ waiting' = Pop(waiting, th)
            /\ readyI' = [readyI EXCEPT ![th] = Append(@, h)]
            /\ where' = [where EXCEPT ![h] = "ready"]
            /\ batch' = batch /\ due' = due /\ readyE' = readyE /\ cur' = cur
        BY <1>4, <2>1 DEF ClaimSlot, MoveTo, IInv, ThreadInv
      <3>2. h \in Task /\ where[h] = "waiting" /\ Home(h) = th
        BY <1>0, <1>a, <3>1, HeadOwned
      <3>4. Owned(waiting', "waiting", where')
        BY <1>0, <1>a, <1>b, <3>1, PopOwned
      <3> HIDE DEF h
      <3>3. Owned(readyI', "ready", where')
        BY <1>0, <1>a, <1>b, <3>1, <3>2, PushOwned
      <3> QED BY <1>b, <3>1, <3>2, <3>3, <3>4, Moved DEF SingleOwner
    <2>2. CASE ~SlotFree(running)
      <3>1. UNCHANGED <<waiting, readyI, where, batch, readyE, due, cur>>
        BY <1>4, <2>2 DEF ClaimSlot
      <3> QED BY <1>a, <3>1 DEF SingleOwner
    <2> QED BY <2>1, <2>2
  <1>5. CASE WakeSleeper(th)
    <2>1. CASE due[th] # <<>>
      <3> DEFINE h == Head(due[th])
      <3>1. /\ due' = Pop(due, th)
            /\ readyI' = [readyI EXCEPT ![th] = Append(@, h)]
            /\ where' = [where EXCEPT ![h] = "ready"]
            /\ batch' = batch /\ waiting' = waiting /\ readyE' = readyE /\ cur' = cur
        BY <1>5, <2>1 DEF WakeSleeper, MoveTo
      <3>2. h \in Task /\ where[h] = "due" /\ Home(h) = th
        BY <1>0, <1>a, <2>1, <3>1, HeadOwned
      <3>4. Owned(due', "due", where')
        BY <1>0, <1>a, <1>b, <2>1, <3>1, PopOwned
      <3> HIDE DEF h
      <3>3. Owned(readyI', "ready", where')
        BY <1>0, <1>a, <1>b, <3>1, <3>2, PushOwned
      <3> QED BY <1>b, <3>1, <3>2, <3>3, <3>4, Moved DEF SingleOwner
    <2>2. CASE due[th] = <<>>
      <3>1. PICK t \in Task :
              /\ where[t] = "sleeping" /\ Home(t) = th
              /\ readyI' = [readyI EXCEPT ![th] = Append(@, t)]
              /\ where' = [where EXCEPT ![t] = "ready"]
              /\ due' = due
        BY <1>5, <2>2 DEF WakeSleeper, MoveTo
      <3>2. batch' = batch /\ waiting' = waiting /\ readyE' = readyE /\ cur' = cur
        BY <1>5 DEF WakeSleeper
      <3>3. Owned(readyI', "ready", where')
        BY <1>0, <1>a, <1>b, <3>1, PushOwned
      <3> QED BY <1>b, <3>1, <3>2, <3>3, Moved DEF SingleOwner
    <2> QED BY <2>1, <2>2
  <1>6. CASE ResumeInternal(th)
    <2> DEFINE h == Head(readyI[th])
    <2>1. /\ readyI[th] # <<>> /\ cur[th] = NoTask /\ readyI' = Pop(readyI, th)
          /\ batch' = batch /\ waiting' = waiting /\ due' = due /\ readyE' = readyE
      BY <1>6 DEF ResumeInternal
    <2>2. h \in Task /\ where[h] = "ready" /\ Home(h) = th
      BY <1>0, <1>a, <2>1, HeadOwned
    <2>3. CASE ~stop
      <3>1. where' = [where EXCEPT ![h] = "running"] /\ cur' = [cur EXCEPT ![th] = h]
        BY <1>6, <2>3 DEF ResumeInternal, MoveTo
      <3>2. Owned(readyI', "ready", where')
        BY <1>0, <1>a, <1>b, <2>1, <3>1, PopOwned
      <3> HIDE DEF h
      <3>3. Current(cur', where')
        BY <2>1, <2>2, <3>1, Started
      <3> QED BY <1>b, <2>1, <2>2, <3>1, <3>2, <3>3, Moved DEF SingleOwner
    <2>4. CASE stop
      <3>1. where' = [where EXCEPT ![h] = "leaked"] /\ cur' = cur
        BY <1>6, <2>4 DEF ResumeInternal, MoveTo
      <3>2. Owned(readyI', "ready", where')
        BY <1>0, <1>a, <1>b, <2>1, <3>1, PopOwned
      <3> HIDE DEF h
      <3> QED BY <1>b, <2>1, <2>2, <3>1, <3>2, Moved DEF SingleOwner
    <2> QED BY <2>3, <2>4
  <1>7. CASE ~(\/ DrainExternal(th) \/ LeaveExternal(th) \/ ResumeExternal(th)
               \/ ClaimSlot(th) \/ WakeSleeper(th) \/ ResumeInternal(th))
    <2>1. UNCHANGED queueVars /\ cur' = cur /\ where' = where
      BY <1>7 DEF Scheduler, ExitThread, InflightLoop, UnclaimSlot, LeaveSleepers,
                  LeaveInternal, IdleCheck, IdleCheckExternal, IdleArm, IdleWakeUp
    <2> QED BY <1>a, <2>1 DEF SingleOwner, queueVars
  <1> QED BY <1>1, <1>2, <1>3, <1>4, <1>5, <1>6, <1>7

\* Every step keeps ownership.
LEMMA OwnerStep ==
  ASSUME IInv, [Next]_vars
  PROVE  SingleOwner'
  <1>0. /\ where \in [Task -> Place] /\ readyE \in [Thread -> Seq(Task)]
        /\ due \in [Thread -> Seq(Task)] /\ SingleOwner
    BY DEF IInv, TypeOK
  <1>a. {"external", "due", "destroyed"} \subseteq Place
    BY DEF Place
  <1>1. CASE UNCHANGED vars
    BY <1>0, <1>1 DEF vars, queueVars, threadVars, SingleOwner
  <1>2. ASSUME NEW t \in Task, TimerExpires(t) PROVE SingleOwner'
    <2>1. /\ where[t] = "sleeping" /\ where' = [where EXCEPT ![t] = "due"]
          /\ due' = [due EXCEPT ![Home(t)] = Append(@, t)]
          /\ batch' = batch /\ readyI' = readyI /\ readyE' = readyE
          /\ waiting' = waiting /\ cur' = cur
      BY <1>2 DEF TimerExpires, MoveTo, threadVars
    <2>2. Owned(due', "due", where')
      BY <1>0, <1>a, <2>1, PushOwned DEF SingleOwner
    <2> QED BY <1>a, <2>1, <2>2, Moved DEF SingleOwner
  <1>3. ASSUME NEW i \in IoThread, NEW t \in Task, TaskReadyThreadSafe(i, t)
        PROVE  SingleOwner'
    <2>1. /\ where[t] = "handed" /\ where' = [where EXCEPT ![t] = "external"]
          /\ readyE' = [readyE EXCEPT ![Home(t)] = Append(@, t)]
          /\ batch' = batch /\ readyI' = readyI /\ due' = due
          /\ waiting' = waiting /\ cur' = cur
      BY <1>3 DEF TaskReadyThreadSafe, MoveTo, threadVars
    <2>2. Owned(readyE', "external", where')
      BY <1>0, <1>a, <2>1, PushOwned DEF SingleOwner
    <2> QED BY <1>a, <2>1, <2>2, Moved DEF SingleOwner
  <1>4. ASSUME NEW i \in IoThread, NotifyThread(i) PROVE SingleOwner'
    BY <1>0, <1>4 DEF NotifyThread, threadVars, queueVars, SingleOwner
  <1>5. CASE WakeupAndNeverSleep \/ JoinRequestStop \/ MainNotify
    BY <1>0, <1>5 DEF WakeupAndNeverSleep, JoinRequestStop, MainNotify, threadVars,
                      queueVars, SingleOwner
  <1>6. CASE JoinDestroy
    <2>1. /\ readyI' = [th \in Thread |-> <<>>] /\ readyE' = [th \in Thread |-> <<>>]
          /\ waiting' = [th \in Thread |-> <<>>] /\ due' = [th \in Thread |-> <<>>]
          /\ where' = [t \in Task |->
               IF where[t] \in {"external", "ready", "waiting", "sleeping", "due"}
               THEN "destroyed" ELSE where[t]]
          /\ batch' = batch /\ cur' = cur
      BY <1>6 DEF JoinDestroy, threadVars
    <2>2. NoRepeat(<<>>) /\ Elems(<<>>) = {}
      BY DEF NoRepeat, Elems
    <2>3. \A t \in Task : where'[t] \notin {"external", "ready", "waiting", "due"}
      BY <1>0, <2>1
    <2>4. Owned(readyI', "ready", where') /\ Owned(readyE', "external", where')
          /\ Owned(waiting', "waiting", where') /\ Owned(due', "due", where')
      BY <2>1, <2>2, <2>3 DEF Owned
    <2>5. \A t \in Task : /\ where'[t] = "batch" <=> where[t] = "batch"
                          /\ where'[t] = "running" <=> where[t] = "running"
      BY <2>1
    <2>6. Owned(batch', "batch", where')
      BY <1>0, <2>1, <2>5, SameOwned DEF SingleOwner
    <2>7. Current(cur', where')
      BY <1>0, <2>1, <2>5 DEF SingleOwner, Current
    <2> QED BY <2>4, <2>6, <2>7 DEF SingleOwner
  <1> QED BY <1>1, <1>2, <1>3, <1>4, <1>5, <1>6, CoroutineOwner, SchedulerOwner
          DEF Next, Main, Io

------------------------------------------------------------------------------
(* Threads and waiters.                                                       *)

\* Every step of a running coroutine keeps ThreadInv and WaiterInv.
LEMMA CoroutineThread ==
  ASSUME IInv, NEW th \in Thread, Coroutine(th)
  PROVE  ThreadInv' /\ WaiterInv'
  <1>0. /\ where \in [Task -> Place] /\ cur \in [Thread -> Task \cup {NoTask}]
        /\ call \in [Thread -> CallLabel] /\ waiting \in [Thread -> Seq(Task)]
        /\ ThreadInv /\ WaiterInv
    BY DEF IInv, TypeOK
  <1>1. cur[th] # NoTask
    BY DEF Coroutine, AsyncSleep, AwaitFuture, Finish, IncInflight, IncInflightPark,
           DecInflight, DecInflightNotify, Executing, IInv, ThreadInv
  <1>2. cur[th] \in Task /\ where[cur[th]] = "running" /\ Home(cur[th]) = th
    BY <1>1, Running
  <1>3. \A u \in Thread : cur[u] # NoTask /\ u # th => cur[u] # cur[th]
    BY <1>2, Running
  <1>4. CASE AsyncSleep(th) \/ AwaitFuture(th) \/ Finish(th)
    <2>1. /\ cur' = [cur EXCEPT ![th] = NoTask] /\ call[th] = "none"
          /\ UNCHANGED <<pc, call, batch, waiting, holders>>
      BY <1>4 DEF AsyncSleep, AwaitFuture, Finish, Executing, queueVars, slotVars
    <2>2. PICK r \in {"sleeping", "handed", "done"} : where' = [where EXCEPT ![cur[th]] = r]
      BY <1>4 DEF AsyncSleep, AwaitFuture, Finish, MoveTo
    <2>3. ThreadInv'
      BY <1>0, <2>1 DEF ThreadInv
    <2>4. WaiterInv'
      BY <1>0, <2>1, <2>2 DEF WaiterInv
    <2> QED BY <2>3, <2>4
  <1>5. CASE IncInflight(th)
    <2>1. UNCHANGED <<pc, cur, batch, waiting, where>> /\ call[th] = "none"
          /\ cur[th] \notin holders
      BY <1>5 DEF IncInflight, Executing, queueVars
    <2>2. CASE SlotFree(running)
      <3>1. holders' = holders \cup {cur[th]} /\ call' = call
        BY <1>5, <2>2 DEF IncInflight
      <3>2. ThreadInv'
        BY <1>0, <1>3, <2>1, <3>1 DEF ThreadInv
      <3>3. WaiterInv'
        BY <1>0, <1>2, <2>1, <3>1 DEF WaiterInv
      <3> QED BY <3>2, <3>3
    <2>3. CASE ~SlotFree(running)
      <3>1. holders' = holders /\ call' = [call EXCEPT ![th] = "undoInc"]
        BY <1>5, <2>3 DEF IncInflight
      <3>2. ThreadInv'
        BY <1>0, <1>1, <2>1, <3>1 DEF ThreadInv
      <3>3. WaiterInv'
        BY <1>0, <2>1, <3>1 DEF WaiterInv
      <3> QED BY <3>2, <3>3
    <2> QED BY <2>2, <2>3
  <1>6. CASE IncInflightPark(th)
    <2>1. /\ call[th] = "undoInc" /\ call' = [call EXCEPT ![th] = "none"]
          /\ cur' = [cur EXCEPT ![th] = NoTask]
          /\ waiting' = [waiting EXCEPT ![Home(cur[th])] = Append(@, cur[th])]
          /\ where' = [where EXCEPT ![cur[th]] = "waiting"]
          /\ UNCHANGED <<pc, batch, holders>>
      BY <1>6 DEF IncInflightPark, MoveTo
    <2>2. cur[th] \notin holders
      BY <1>0, <2>1 DEF ThreadInv
    <2>3. \A u \in Thread : waiting[u] # <<>> => waiting'[u] # <<>>
      BY <1>0, <1>2, <2>1
    <2>4. ThreadInv'
      BY <1>0, <2>1, <2>3 DEF ThreadInv
    <2>5. WaiterInv'
      BY <1>0, <2>1, <2>2 DEF WaiterInv
    <2> QED BY <2>4, <2>5
  <1>7. CASE DecInflight(th)
    <2>1. /\ call' = [call EXCEPT ![th] = "notify"] /\ holders' = holders \ {cur[th]}
          /\ UNCHANGED <<pc, cur, batch, waiting, where>>
      BY <1>7 DEF DecInflight, queueVars
    <2> QED BY <1>0, <1>1, <2>1 DEF ThreadInv, WaiterInv
  <1>8. CASE DecInflightNotify(th)
    <2>1. /\ call' = call \/ call' = [call EXCEPT ![th] = "none"]
          /\ UNCHANGED <<pc, cur, batch, waiting, holders, where>>
      BY <1>8 DEF DecInflightNotify, queueVars, slotVars
    <2> QED BY <1>0, <2>1 DEF ThreadInv, WaiterInv
  <1> QED BY <1>4, <1>5, <1>6, <1>7, <1>8 DEF Coroutine

\* So does every step of RunThread.
LEMMA SchedulerThread ==
  ASSUME IInv, NEW th \in Thread, Scheduler(th)
  PROVE  ThreadInv' /\ WaiterInv'
  <1>0. /\ where \in [Task -> Place] /\ cur \in [Thread -> Task \cup {NoTask}]
        /\ pc \in [Thread -> PcLabel] /\ waiting \in [Thread -> Seq(Task)]
        /\ batch \in [Thread -> Seq(Task)] /\ ThreadInv /\ WaiterInv
    BY DEF IInv, TypeOK
  <1>a. /\ Owned(batch, "batch", where) /\ Owned(readyI, "ready", where)
        /\ Owned(waiting, "waiting", where) /\ Owned(due, "due", where)
        /\ readyI \in [Thread -> Seq(Task)] /\ due \in [Thread -> Seq(Task)]
    BY DEF IInv, SingleOwner, TypeOK
  <1>1. CASE DrainExternal(th)
    <2>1. /\ batch' = [batch EXCEPT ![th] = readyE[th]] /\ pc[th] = "top"
          /\ pc' = [pc EXCEPT ![th] = "external"]
          /\ UNCHANGED <<cur, call, holders, waiting>>
          /\ where' = [t \in Task |-> IF where[t] = "external" /\ Home(t) = th
                                      THEN "batch" ELSE where[t]]
      BY <1>1 DEF DrainExternal, Goto, slotVars
    <2> QED BY <1>0, <2>1 DEF ThreadInv, WaiterInv
  <1>2. CASE LeaveExternal(th)
    <2>1. /\ batch' = [batch EXCEPT ![th] = <<>>] /\ cur[th] = NoTask
          /\ pc' = [pc EXCEPT ![th] = "inflight"]
          /\ UNCHANGED <<cur, call, holders, waiting>>
          /\ where' = [t \in Task |-> IF where[t] = "batch" /\ Home(t) = th
                                      THEN "leaked" ELSE where[t]]
      BY <1>2 DEF LeaveExternal, Goto, slotVars
    <2> QED BY <1>0, <2>1 DEF ThreadInv, WaiterInv
  <1>3. CASE ResumeExternal(th)
    <2>1. /\ batch' = Pop(batch, th) /\ cur[th] = NoTask /\ pc[th] = "external"
          /\ cur' = [cur EXCEPT ![th] = Head(batch[th])]
          /\ where' = [where EXCEPT ![Head(batch[th])] = "running"]
          /\ UNCHANGED <<pc, call, holders, waiting>> /\ batch[th] # <<>>
      BY <1>3 DEF ResumeExternal, MoveTo, slotVars
    <2>2. Head(batch[th]) \in Task
      BY <1>0, <1>a, <2>1, HeadOwned
    <2>3. call[th] = "none"
      BY <1>0, <2>1 DEF ThreadInv
    <2>4. ThreadInv'
      BY <1>0, <2>1, <2>2, <2>3 DEF ThreadInv, Pop
    <2>5. WaiterInv'
      BY <1>0, <2>1, <2>2 DEF WaiterInv
    <2> QED BY <2>4, <2>5
  <1>4. CASE InflightLoop(th)
    <2>1. /\ UNCHANGED <<cur, call, holders, batch, waiting, where>> /\ pc[th] = "inflight"
          /\ \/ pc' = [pc EXCEPT ![th] = "claim"] /\ waiting[th] # <<>>
             \/ pc' = [pc EXCEPT ![th] = "sleepers"]
      BY <1>4 DEF InflightLoop, Promotable, EnterSleepers, Goto, queueVars, slotVars
    <2>2. WaiterInv'
      BY <1>0, <2>1 DEF WaiterInv
    <2> QED BY <1>0, <2>1, <2>2 DEF ThreadInv
  <1>5. CASE ClaimSlot(th)
    <2>1. pc[th] = "claim" /\ UNCHANGED <<cur, call, batch>>
          /\ waiting[th] # <<>> /\ cur[th] = NoTask
      BY <1>0, <1>5 DEF ClaimSlot, ThreadInv
    <2>2. CASE SlotFree(running)
      <3> DEFINE h == Head(waiting[th])
      <3>1. /\ waiting' = Pop(waiting, th) /\ holders' = holders \cup {h}
            /\ where' = [where EXCEPT ![h] = "ready"]
            /\ pc' = [pc EXCEPT ![th] = "inflight"]
        BY <1>5, <2>2 DEF ClaimSlot, MoveTo, Goto
      <3>0. waiting \in [Thread -> Seq(Task)] /\ Owned(waiting, "waiting", where)
        BY <1>0, <1>a
      <3>2. h \in Task /\ where[h] = "waiting"
        BY <2>1, <3>0, HeadOwned
      <3> HIDE DEF h
      <3>3. \A u \in Thread : cur[u] # NoTask => cur[u] # h
        BY <3>2, Running
      <3>4. \A u \in Thread : u # th => waiting'[u] = waiting[u]
        BY <1>0, <3>1 DEF Pop
      <3>5. ThreadInv'
        BY <1>0, <2>1, <3>1, <3>3, <3>4 DEF ThreadInv
      <3>6. WaiterInv'
        BY <1>0, <3>1, <3>2 DEF WaiterInv
      <3> QED BY <3>5, <3>6
    <2>3. CASE ~SlotFree(running)
      <3>1. /\ pc' = [pc EXCEPT ![th] = "unclaim"]
            /\ UNCHANGED <<waiting, holders, where>>
        BY <1>5, <2>3 DEF ClaimSlot, Goto
      <3> QED BY <1>0, <2>1, <3>1 DEF ThreadInv, WaiterInv
    <2> QED BY <2>2, <2>3
  <1>6. CASE WakeSleeper(th)
    <2>1. UNCHANGED <<pc, cur, call, batch, waiting, holders>>
      BY <1>6 DEF WakeSleeper, slotVars
    <2>2. \E t \in Task : where' = [where EXCEPT ![t] = "ready"]
      <3>1. CASE due[th] # <<>>
        <4>1. Head(due[th]) \in Task
          BY <1>a, <3>1, HeadOwned
        <4> QED BY <1>6, <3>1, <4>1 DEF WakeSleeper, MoveTo
      <3>2. CASE due[th] = <<>>
        BY <1>6, <3>2 DEF WakeSleeper, MoveTo
      <3> QED BY <3>1, <3>2
    <2>3. ThreadInv'
      BY <1>0, <2>1 DEF ThreadInv
    <2>4. WaiterInv'
      BY <1>0, <2>1, <2>2 DEF WaiterInv
    <2> QED BY <2>3, <2>4
  <1>7. CASE ResumeInternal(th)
    <2> DEFINE h == Head(readyI[th])
    <2>1. /\ pc[th] = "internal" /\ cur[th] = NoTask /\ readyI[th] # <<>>
          /\ UNCHANGED <<call, batch, waiting, holders>>
      BY <1>7 DEF ResumeInternal, slotVars
    <2>2. h \in Task /\ call[th] = "none"
      BY <1>0, <1>a, <2>1, HeadOwned DEF ThreadInv
    <2>3. CASE ~stop
      <3>1. /\ where' = [where EXCEPT ![h] = "running"]
            /\ cur' = [cur EXCEPT ![th] = h] /\ pc' = pc
        BY <1>7, <2>3 DEF ResumeInternal, MoveTo
      <3> HIDE DEF h
      <3>2. ThreadInv'
        BY <1>0, <2>1, <2>2, <3>1 DEF ThreadInv
      <3>3. WaiterInv'
        BY <1>0, <2>1, <2>2, <3>1 DEF WaiterInv
      <3> QED BY <3>2, <3>3
    <2>4. CASE stop
      <3>1. /\ where' = [where EXCEPT ![h] = "leaked"]
            /\ cur' = cur /\ pc' = [pc EXCEPT ![th] = "check"]
        BY <1>7, <2>4 DEF ResumeInternal, MoveTo, Goto
      <3> HIDE DEF h
      <3>2. ThreadInv'
        BY <1>0, <2>1, <2>2, <3>1 DEF ThreadInv
      <3>3. WaiterInv'
        BY <1>0, <2>1, <2>2, <3>1 DEF WaiterInv
      <3> QED BY <3>2, <3>3
    <2> QED BY <2>3, <2>4
  <1>8. CASE ~(\/ DrainExternal(th) \/ LeaveExternal(th) \/ ResumeExternal(th)
               \/ InflightLoop(th) \/ ClaimSlot(th) \/ WakeSleeper(th)
               \/ ResumeInternal(th))
    <2>1. UNCHANGED <<cur, call, holders, batch, waiting, where>>
      BY <1>8 DEF Scheduler, ExitThread, UnclaimSlot, LeaveSleepers, LeaveInternal,
                  IdleCheck, IdleCheckExternal, IdleArm, IdleWakeUp, queueVars, slotVars
    <2>2. /\ pc[th] # "external" /\ cur[th] = NoTask
          /\ \E l \in PcLabel \ {"external", "claim"} : pc' = [pc EXCEPT ![th] = l]
      BY <1>0, <1>8 DEF Scheduler, ExitThread, UnclaimSlot, LeaveSleepers, LeaveInternal,
                  IdleCheck, IdleCheckExternal, IdleArm, IdleWakeUp, EnterSleepers,
                  Goto, PcLabel, ThreadInv
    <2>3. ThreadInv'
      BY <1>0, <2>1, <2>2 DEF ThreadInv
    <2>4. WaiterInv'
      BY <1>0, <2>1 DEF WaiterInv
    <2> QED BY <2>3, <2>4
  <1> QED BY <1>1, <1>2, <1>3, <1>4, <1>5, <1>6, <1>7, <1>8

\* Every step keeps ThreadInv and WaiterInv.
LEMMA ThreadStep ==
  ASSUME IInv, [Next]_vars
  PROVE  ThreadInv' /\ WaiterInv'
  <1>0. where \in [Task -> Place] /\ ThreadInv /\ WaiterInv
    BY DEF IInv, TypeOK
  <1>1. CASE UNCHANGED vars
    BY <1>0, <1>1 DEF vars, queueVars, threadVars, slotVars, ThreadInv, WaiterInv
  <1>2. ASSUME NEW t \in Task, TimerExpires(t) PROVE ThreadInv' /\ WaiterInv'
    BY <1>0, <1>2 DEF TimerExpires, MoveTo, threadVars, slotVars, ThreadInv, WaiterInv
  <1>3. ASSUME NEW i \in IoThread, NEW t \in Task, TaskReadyThreadSafe(i, t)
        PROVE  ThreadInv' /\ WaiterInv'
    BY <1>0, <1>3 DEF TaskReadyThreadSafe, MoveTo, threadVars, slotVars, ThreadInv,
                      WaiterInv
  <1>4. ASSUME NEW i \in IoThread, NotifyThread(i) PROVE ThreadInv' /\ WaiterInv'
    BY <1>0, <1>4 DEF NotifyThread, queueVars, threadVars, slotVars, ThreadInv,
                      WaiterInv
  <1>5. CASE WakeupAndNeverSleep \/ JoinRequestStop \/ MainNotify
    BY <1>0, <1>5 DEF WakeupAndNeverSleep, JoinRequestStop, MainNotify, queueVars,
                      threadVars, slotVars, ThreadInv, WaiterInv
  <1>6. CASE JoinDestroy
    <2>1. /\ UNCHANGED <<pc, call, cur, batch, holders>>
          /\ \A th \in Thread : pc[th] = "exit"
          /\ where' = [t \in Task |->
               IF where[t] \in {"external", "ready", "waiting", "sleeping", "due"}
               THEN "destroyed" ELSE where[t]]
      BY <1>6 DEF JoinDestroy, threadVars, slotVars
    <2> QED BY <1>0, <2>1 DEF ThreadInv, WaiterInv
  <1> QED BY <1>1, <1>2, <1>3, <1>4, <1>5, <1>6, CoroutineThread, SchedulerThread
          DEF Next, Main, Io

------------------------------------------------------------------------------
(* The theorems.                                                              *)

\* The initial state satisfies the inductive invariant.
LEMMA InitInv == Init => IInv
  <1> SUFFICES ASSUME Init PROVE IInv
    OBVIOUS
  <1> USE DEF Init
  <1>1. 0 \in Thread
    BY DEF Thread
  <1>2. TypeOK
    BY <1>1 DEF TypeOK, PcLabel, CallLabel, MainLabel, Place
  <1>3. Overshoot = {}
    BY DEF Overshoot
  <1>4. SlotConservation /\ AdmissionBound
    BY <1>3, FS_EmptySet DEF SlotConservation, AdmissionBound
  <1>5. NoRepeat(<<>>) /\ Elems(<<>>) = {}
    BY DEF NoRepeat, Elems
  <1>6. SingleOwner
    BY <1>5 DEF SingleOwner, Owned, Current
  <1>7. ThreadInv /\ WaiterInv
    BY DEF ThreadInv, WaiterInv
  <1> QED BY <1>2, <1>4, <1>6, <1>7 DEF IInv

\* The inductive invariant of the scheduler: types, slot accounting, the
\* admission bound and single ownership hold in every reachable state.
THEOREM Invariance == Spec => []IInv
  <1>1. IInv /\ [Next]_vars => IInv'
    BY TypeStep, SlotStep, OwnerStep, ThreadStep DEF IInv
  <1> QED BY InitInv, <1>1, PTL DEF Spec

\* Every variable keeps its type; in particular RunningInternalCount, an
\* unsigned counter decremented in three places, never goes below zero.
THEOREM TypeCorrect == Spec => []TypeOK
  <1>1. IInv => TypeOK
    BY DEF IInv
  <1> QED BY <1>1, Invariance, PTL

\* Slots are neither leaked nor released twice, for any number of threads.
THEOREM SlotsConserved == Spec => []SlotConservation
  <1>1. IInv => SlotConservation
    BY DEF IInv
  <1> QED BY <1>1, Invariance, PTL

\* max_inflight is respected at every instant (IncInflight, ProcessInflightQueue).
THEOREM AdmissionBounded == Spec => []AdmissionBound
  <1>1. IInv => AdmissionBound
    BY DEF IInv
  <1> QED BY <1>1, Invariance, PTL

\* A coroutine handle is never in two queues and never resumed by two threads.
THEOREM SingleOwnership == Spec => []SingleOwner
  <1>1. IInv => SingleOwner
    BY DEF IInv
  <1> QED BY <1>1, Invariance, PTL

\* The scheduler implements the counting semaphore that terminals rely on.
THEOREM ImplementsGate == Spec => GateSpec
  <1>1. Init => Gate!Init
    BY DEF Init, Gate!Init
  <1>2. IInv /\ [Next]_vars => [Gate!Next]_holders
    BY TypeStep, SlotStep DEF Gate!Next
  <1> QED BY <1>1, <1>2, Invariance, PTL DEF Spec, GateSpec, Gate!Spec
==============================================================================
