----------------------------- MODULE WorkerProofs -----------------------------
(***************************************************************************)
(* Proofs about the worker, for every number of terminals, slots and       *)
(* attempts, every schedule and both retry policies.                       *)
(***************************************************************************)
EXTENDS Worker, FiniteSetTheorems, TLAPS

------------------------------------------------------------------------------
(* The inductive invariants.                                                 *)

TxType == [start : Nat, attempt : 0 .. RetryMaxAttempts - 1,
           inputs : Inputs \cup {NoInputs}, result : Result,
           fatal : BOOLEAN, used : SUBSET Inputs,
           commits : Nat, commitAt : Nat, outcomes : Seq(Outcome)]

\* A terminal waits in "backoff" only when it has an attempt left.
AttemptInv ==
  \A t \in Terminal : pc[t] = "backoff" => tx[t].attempt + 1 < RetryMaxAttempts

TypeInv == TypeOK /\ AttemptInv

\* The phase, the main thread, the clock and the stop source go together.
Starting == {"prepared", "waiting"}
RunInv ==
  /\ rampStart <= now
  /\ main \in Starting => phase = "Prepare"
  /\ main = "loop" => phase \in {"Ramp", "Measure", "Drain"}
  /\ main = "drain" => phase = "Drain"
  /\ main \in {"stopping", "exited"} => phase \in {"Prepare", "Stop"}
  /\ phase = "Drain" => MeasurementEnd <= now
  /\ main \in Starting => \A t \in Terminal : pc[t] \in {"loop", "refused", "done"}

\* Who stopped the run: somebody, an error, or the end of the drain.
StopInv ==
  /\ stop /\ ~error /\ ~signalled => main \in {"stopping", "exited"}
  /\ main \in {"stopping", "exited"} /\ ~error /\ ~signalled =>
        MeasurementEnd <= now /\ phase = "Stop"
  /\ exitCode = 0 => main = "exited" /\ ~error

\* An integrity error that was handled has raised the error flag, or its terminal
\* is on its way to do so, which Join waits for.
HandledInv ==
  integrity = "handled" => error \/ \E t \in Terminal : pc[t] = "finish" /\ tx[t].fatal
CodeInv == exitCode = 0 => integrity # "handled"

\* The history of the business transaction that a terminal is executing.
Before == {"loop", "refused", "keying", "queue", "admitted", "think", "done"}
UsedOK(t) ==
  LET x == tx[t] IN
  /\ pc[t] \in Before => x.used = {}
  /\ pc[t] \in InTransaction =>
        x.used = IF x.inputs = NoInputs THEN {} ELSE {x.inputs}
CommitOK(t) ==
  LET x == tx[t] IN
  /\ x.start <= now
  /\ x.commits > 0 => x.start <= x.commitAt /\ x.commitAt <= now
  /\ pc[t] \in Before => x.commits = 0
  /\ pc[t] = "ended" /\ x.result = "ok" => x.commits > 0
  /\ ~RetryAmbiguousCommit =>
       /\ x.commits <= 1
       /\ x.commits = 1 => pc[t] \in {"ended", "finish"}
       /\ pc[t] = "ended" /\ x.commits = 1 =>
            x.result \in {"ok", "AmbiguousCommit", "Permanent"}
ReportOK(t) ==
  LET x == tx[t] IN
  /\ pc[t] # "finish" => x.outcomes = <<>>
  /\ Len(x.outcomes) <= 1
  /\ \A i \in DOMAIN x.outcomes :
       /\ x.outcomes[i].kind = "aborted" => RetryAmbiguousCommit \/ x.commits = 0
       /\ x.outcomes[i].kind = "ok" => x.commits > 0
       /\ x.outcomes[i].kind = "ok" /\ x.outcomes[i].measured =>
            MeasurementStart <= x.commitAt /\ x.commitAt <= MeasurementEnd
UsedInv == \A t \in Terminal : UsedOK(t)
CommitInv == \A t \in Terminal : CommitOK(t)
ReportInv == \A t \in Terminal : ReportOK(t)

------------------------------------------------------------------------------
(* What the steps change.                                                    *)

\* The assumptions on the constants, in one place.
LEMMA ConstantFacts ==
  /\ MaxInflight \in Nat /\ RetryMaxAttempts \in Nat /\ RetryMaxAttempts > 0
  /\ StartAt \in Nat /\ RampUp \in Nat /\ Measurement \in Nat /\ TransactionDrain \in Nat
  /\ NoInputs \notin Inputs
  BY InflightAssumption, AttemptsAssumption, ScheduleAssumption, InputsAssumption

\* A terminal that goes on is the only one that moves.
LEMMA GotoShape ==
  ASSUME TypeOK, NEW t \in Terminal, NEW label \in PcLabel, Goto(t, label)
  PROVE  /\ pc' \in [Terminal -> PcLabel] /\ pc'[t] = label
         /\ \A s \in Terminal \ {t} : pc'[s] = pc[s]
  BY DEF Goto, TypeOK

\* A terminal that changes its transaction changes no other.
LEMMA TxShape ==
  ASSUME TypeOK, NEW t \in Terminal, NEW x \in TxType, tx' = [tx EXCEPT ![t] = x]
  PROVE  /\ tx' \in [Terminal -> TxType] /\ tx'[t] = x
         /\ \A s \in Terminal \ {t} : tx'[s] = tx[s]
  BY DEF TypeOK, TxType

\* The transaction before the first one.
LEMMA NoTxType ==
  /\ NoTx \in TxType
  /\ NoTx.used = {} /\ NoTx.commits = 0 /\ NoTx.outcomes = <<>> /\ NoTx.start = 0
  BY ConstantFacts DEF NoTx, TxType, Result

\* Reporting an outcome.
LEMMA RecordType ==
  ASSUME NEW x \in TxType, NEW kind \in {"ok", "failed", "aborted"}, NEW m \in BOOLEAN,
         NEW f \in BOOLEAN
  PROVE  LET o == [kind |-> kind, measured |-> m] IN
         /\ [x EXCEPT !.outcomes = Append(@, o)] \in TxType
         /\ [x EXCEPT !.fatal = f, !.outcomes = Append(x.outcomes, o)] \in TxType
  <1>1. [kind |-> kind, measured |-> m] \in Outcome
    BY DEF Outcome
  <1>2. x.outcomes \in Seq(Outcome)
    BY DEF TxType
  <1>3. Append(x.outcomes, [kind |-> kind, measured |-> m]) \in Seq(Outcome)
    BY <1>1, <1>2
  <1> QED BY <1>3 DEF TxType

\* What a step of a terminal leaves alone.
Frame(t) ==
  /\ UNCHANGED <<now, phase, rampStart, main, tickAt, exitCode, signalled>>
  /\ pc' \in [Terminal -> PcLabel] /\ tx' \in [Terminal -> TxType]
  /\ \A s \in Terminal \ {t} : pc'[s] = pc[s] /\ tx'[s] = tx[s]

\* The steps that leave the business transaction as it is.
Walk(t) ==
  \/ LeaveLoop(t) \/ AdmissionRefused(t) \/ WaitInPrepare(t)
  \/ IncInflight(t) \/ TooLate(t) \/ PollOver(t) \/ DropError(t) \/ RetryError(t)
  \/ BackoffInterrupted(t) \/ ThinkOver(t) \/ SessionGranted(t) \/ SessionUnavailable(t)
  \/ ReplacementFails(t)

\* Where they lead.
LEMMA WalkShape ==
  ASSUME TypeOK, NEW t \in Terminal, Walk(t)
  PROVE  /\ Frame(t) /\ tx'[t] = tx[t]
         /\ pc[t] # "finish"
         /\ pc[t] \in Before <=> pc'[t] \in Before
         /\ pc'[t] = "backoff" => RetryError(t)
         /\ pc'[t] = "ended" => pc[t] = "ended"
         /\ pc[t] = "ended" => pc'[t] \in {"ended", "finish", "backoff"}
  <1> USE DEF Walk, LeaveLoop, AdmissionRefused, WaitInPrepare, IncInflight, TooLate,
              PollOver, DropError, RetryError, BackoffInterrupted, ThinkOver,
              SessionGranted, SessionUnavailable, ReplacementFails
  <1>1. tx' = tx /\ UNCHANGED <<now, phase, rampStart, main, tickAt, exitCode, signalled>>
    BY DEF mainVars
  <1>2. pc[t] # "finish" /\ pc \in [Terminal -> PcLabel]
    BY DEF At, TypeOK
  <1>3. CASE pc' = pc
    BY <1>1, <1>2, <1>3 DEF Frame, TypeOK, TxType, At, Goto
  <1>4. CASE \E label \in PcLabel : Goto(t, label)
    <2>1. PICK label \in PcLabel : Goto(t, label)
      BY <1>4
    <2>2. /\ pc' \in [Terminal -> PcLabel] /\ pc'[t] = label
          /\ \A s \in Terminal \ {t} : pc'[s] = pc[s]
      BY <2>1, GotoShape
    <2>3. /\ pc[t] \in Before <=> label \in Before
          /\ label = "backoff" => RetryError(t)
          /\ label = "ended" => pc[t] = "ended"
          /\ pc[t] = "ended" => label \in {"ended", "finish", "backoff"}
      BY <1>2, <2>1, <2>2 DEF Before, At, Goto
    <2>4. Frame(t) /\ tx'[t] = tx[t]
      BY <1>1, <2>2 DEF Frame, TypeOK, TxType
    <2> QED BY <2>2, <2>3, <2>4, <1>2
  <1>5. pc' = pc \/ \E label \in PcLabel : Goto(t, label)
    BY DEF PcLabel
  <1> QED BY <1>3, <1>4, <1>5

\* A transaction of the terminal becomes x, its place label.
Moves(t, x, label) ==
  Frame(t) /\ x \in TxType /\ label \in PcLabel /\ tx'[t] = x /\ pc'[t] = label

\* How the pieces of a step make one.
LEMMA MovesShape ==
  ASSUME TypeOK, NEW t \in Terminal, NEW x \in TxType, NEW label \in PcLabel,
         tx' = [tx EXCEPT ![t] = x], Goto(t, label),
         UNCHANGED <<now, phase, rampStart, main, tickAt, exitCode, signalled>>
  PROVE  Moves(t, x, label)
  BY GotoShape, TxShape DEF Moves, Frame

\* Before admission only the start is written.
LEMMA ChooseShape ==
  ASSUME TypeOK, NEW t \in Terminal, ChooseTransaction(t) \/ KeyingOver(t)
  PROVE  /\ pc[t] \in {"loop", "keying"}
         /\ \E x \in {tx[t], [tx[t] EXCEPT !.start = now]},
               label \in {"loop", "keying", "queue", "done"} : Moves(t, x, label)
  <1>1. tx[t] \in TxType /\ now \in Nat
    BY DEF TypeOK, TxType
  <1>2. [tx[t] EXCEPT !.start = now] \in TxType
    BY <1>1 DEF TxType
  <1>3. /\ pc[t] \in {"loop", "keying"}
        /\ UNCHANGED <<now, phase, rampStart, main, tickAt, exitCode, signalled>>
        /\ \E label \in {"loop", "keying", "queue", "done"} : Goto(t, label)
        /\ tx' = tx \/ tx' = [tx EXCEPT ![t].start = now]
    BY DEF ChooseTransaction, KeyingOver, At, mainVars
  <1>4. tx' = [tx EXCEPT ![t] = tx[t]] \/ tx' = [tx EXCEPT ![t] = [tx[t] EXCEPT !.start = now]]
    BY <1>3 DEF TypeOK
  <1> QED BY <1>1, <1>2, <1>3, <1>4, MovesShape DEF PcLabel

\* Admission clears the inputs.
LEMMA AdmitShape ==
  ASSUME TypeOK, NEW t \in Terminal, Admit(t)
  PROVE  pc[t] = "admitted" /\ Moves(t, [tx[t] EXCEPT !.inputs = NoInputs], "session")
  <1>1. tx[t] \in TxType
    BY DEF TypeOK, TxType
  <1>2. [tx[t] EXCEPT !.inputs = NoInputs] \in TxType
    BY <1>1 DEF TxType
  <1> QED BY <1>2, MovesShape DEF Admit, At, mainVars, PcLabel

Endings(t) == BeginFails(t) \/ OperationFails(t) \/ CommitFails(t) \/ UserAborts(t)

\* An attempt ends without a commit.
LEMMA EndsShape ==
  ASSUME TypeOK, NEW t \in Terminal, Endings(t)
  PROVE  /\ pc[t] \in {"session", "begin", "work"}
         /\ \E r \in Result \ {"ok"} : Moves(t, [tx[t] EXCEPT !.result = r], "ended")
  <1>1. tx[t] \in TxType
    BY DEF TypeOK, TxType
  <1>2. \A r \in Result : [tx[t] EXCEPT !.result = r] \in TxType
    BY <1>1 DEF TxType
  <1>3. PICK r \in Result \ {"ok"} : Ends(t, r)
    BY DEF Endings, BeginFails, OperationFails, CommitFails, UserAborts, Result, EErrorClass
  <1>4. /\ pc[t] \in {"session", "begin", "work"}
        /\ UNCHANGED <<now, phase, rampStart, main, tickAt, exitCode, signalled>>
    BY DEF Endings, BeginFails, OperationFails, CommitFails, UserAborts, At, mainVars
  <1> QED BY <1>2, <1>3, <1>4, MovesShape DEF Ends, PcLabel

\* A workflow starts with the inputs of the transaction, new ones the first time.
LEMMA StartShape ==
  ASSUME TypeOK, NEW t \in Terminal, StartWorkflow(t)
  PROVE  /\ pc[t] = "begin"
         /\ \E in \in Inputs :
              /\ tx[t].inputs = NoInputs \/ in = tx[t].inputs
              /\ Moves(t, [tx[t] EXCEPT !.inputs = in, !.used = tx[t].used \cup {in}], "work")
  <1>1. tx[t] \in TxType
    BY DEF TypeOK, TxType
  <1>2. PICK in \in Inputs :
          /\ tx[t].inputs = NoInputs \/ in = tx[t].inputs
          /\ tx' = [tx EXCEPT ![t] = [tx[t] EXCEPT !.inputs = in, !.used = tx[t].used \cup {in}]]
    BY DEF StartWorkflow
  <1>3. [tx[t] EXCEPT !.inputs = in, !.used = tx[t].used \cup {in}] \in TxType
    BY <1>1 DEF TxType
  <1> QED BY <1>2, <1>3, MovesShape DEF StartWorkflow, At, mainVars, PcLabel

\* A commit is applied.
LEMMA CommitShape ==
  ASSUME TypeOK, NEW t \in Terminal, CommitApplied(t)
  PROVE  /\ pc[t] = "work"
         /\ \E r \in {"ok", "AmbiguousCommit", "Permanent"} :
              Moves(t, [tx[t] EXCEPT !.result = r, !.commits = tx[t].commits + 1, !.commitAt = now],
                    "ended")
  <1>1. tx[t] \in TxType /\ now \in Nat
    BY DEF TypeOK, TxType
  <1>2. PICK r \in {"ok", "AmbiguousCommit", "Permanent"} :
          tx' = [tx EXCEPT ![t] =
                   [tx[t] EXCEPT !.result = r, !.commits = tx[t].commits + 1, !.commitAt = now]]
    BY DEF CommitApplied
  <1>3. [tx[t] EXCEPT !.result = r, !.commits = tx[t].commits + 1, !.commitAt = now] \in TxType
    <2>1. \A n \in Nat :
             [tx[t] EXCEPT !.result = r, !.commits = n, !.commitAt = now] \in TxType
      BY <1>1 DEF TxType, Result, EErrorClass
    <2>2. tx[t].commits \in Nat
      BY <1>1 DEF TxType
    <2>3. tx[t].commits + 1 \in Nat
      BY <2>2
    <2> QED BY <2>1, <2>3
  <1> QED BY <1>2, <1>3, MovesShape DEF CommitApplied, At, mainVars, PcLabel

Reported(t, k, f) ==
  [tx[t] EXCEPT !.fatal = f,
                !.outcomes = Append(tx[t].outcomes, [kind |-> k,
                     measured |-> CompletelyWithinMeasurement(tx[t].start, now)])]

\* The terminal reports the outcome of the transaction.
LEMMA RecordShape ==
  ASSUME TypeOK, NEW t \in Terminal, RecordReported(t) \/ RecordError(t)
  PROVE  /\ pc[t] = "ended"
         /\ \E k \in {"ok", "failed", "aborted"}, f \in BOOLEAN :
              /\ k # "failed" => tx[t].result = k
              /\ Moves(t, Reported(t, k, f), "finish")
  <1>1. tx[t] \in TxType /\ now \in Nat
    BY DEF TypeOK, TxType
  <1>2. CompletelyWithinMeasurement(tx[t].start, now) \in BOOLEAN
    BY DEF CompletelyWithinMeasurement
  <1>3. \A k \in {"ok", "failed", "aborted"}, f \in BOOLEAN : Reported(t, k, f) \in TxType
    BY <1>1, <1>2, RecordType DEF Reported
  <1>4. /\ pc[t] = "ended" /\ Goto(t, "finish")
        /\ UNCHANGED <<now, phase, rampStart, main, tickAt, exitCode, signalled>>
    BY DEF RecordReported, RecordError, At, mainVars
  <1>5. CASE RecordReported(t)
    <2> DEFINE k == IF tx[t].result = "false" THEN "failed" ELSE tx[t].result
               o == [kind |-> k, measured |-> CompletelyWithinMeasurement(tx[t].start, now)]
    <2>1. k \in {"ok", "failed", "aborted"} /\ (k # "failed" => tx[t].result = k)
      BY <1>5 DEF RecordReported
    <2>2. tx' = [tx EXCEPT ![t] = [tx[t] EXCEPT !.outcomes = Append(@, o)]]
      BY <1>5 DEF RecordReported, Record
    <2>3. [tx[t] EXCEPT !.outcomes = Append(@, o)] = Reported(t, k, tx[t].fatal)
      <3> HIDE DEF o
      <3>1. tx[t] = [tx[t] EXCEPT !.fatal = tx[t].fatal]
        BY <1>1 DEF TxType
      <3>2. [tx[t] EXCEPT !.outcomes = Append(@, o)]
              = [tx[t] EXCEPT !.fatal = tx[t].fatal, !.outcomes = Append(tx[t].outcomes, o)]
        BY <1>1 DEF TxType
      <3> QED BY <3>2 DEF Reported, o
    <2>4. tx[t].fatal \in BOOLEAN
      BY <1>1 DEF TxType
    <2> HIDE DEF k
    <2> QED BY <1>3, <1>4, <2>1, <2>2, <2>3, <2>4, MovesShape DEF PcLabel
  <1>6. CASE RecordError(t)
    <2> DEFINE f == tx[t].result = "Integrity"
    <2>1. tx' = [tx EXCEPT ![t] = Reported(t, "failed", f)]
      BY <1>6 DEF RecordError, Reported
    <2> HIDE DEF f
    <2>2. f \in BOOLEAN
      BY DEF f
    <2> QED BY <1>3, <1>4, <2>1, <2>2, MovesShape DEF PcLabel
  <1> QED BY <1>5, <1>6

\* The next attempt; the one before was not the last.
LEMMA NextAttemptShape ==
  ASSUME TypeInv, NEW t \in Terminal, NextAttempt(t)
  PROVE  /\ pc[t] = "backoff"
         /\ Moves(t, [tx[t] EXCEPT !.attempt = tx[t].attempt + 1, !.result = "none"], "session")
  <1>1. TypeOK /\ tx[t] \in TxType /\ pc[t] = "backoff"
    BY DEF TypeInv, TypeOK, TxType, NextAttempt, At
  <1>2. tx[t].attempt + 1 < RetryMaxAttempts
    BY <1>1 DEF TypeInv, AttemptInv
  <1>3. [tx[t] EXCEPT !.attempt = tx[t].attempt + 1, !.result = "none"] \in TxType
    <2>1. \A n \in 0 .. RetryMaxAttempts - 1 :
             [tx[t] EXCEPT !.attempt = n, !.result = "none"] \in TxType
      BY <1>1 DEF TxType, Result
    <2>2. tx[t].attempt \in Nat
      BY <1>1, ConstantFacts DEF TxType
    <2>3. tx[t].attempt + 1 \in 0 .. RetryMaxAttempts - 1
      BY <1>2, <2>2, ConstantFacts
    <2> QED BY <2>1, <2>3
  <1> QED BY <1>1, <1>3, MovesShape DEF NextAttempt, mainVars, PcLabel

\* The terminal leaves the transaction and forgets all of it but the inputs.
LEMMA FinishShape ==
  ASSUME TypeOK, NEW t \in Terminal, Finish(t)
  PROVE  /\ pc[t] = "finish"
         /\ \E label \in {"loop", "think", "done"} :
              Moves(t, [NoTx EXCEPT !.inputs = tx[t].inputs], label)
  <1>1. tx[t] \in TxType
    BY DEF TypeOK, TxType
  <1>2. [NoTx EXCEPT !.inputs = tx[t].inputs] \in TxType
    BY <1>1, NoTxType DEF TxType
  <1> QED BY <1>2, MovesShape DEF Finish, At, mainVars, PcLabel

\* Every step of a terminal is one of these.
LEMMA TerminalSteps ==
  ASSUME NEW t \in Terminal, RunTerminal(t) \/ Adapter(t)
  PROVE  \/ Walk(t) \/ ChooseTransaction(t) \/ KeyingOver(t) \/ Admit(t) \/ Endings(t)
         \/ StartWorkflow(t) \/ CommitApplied(t) \/ RecordReported(t) \/ RecordError(t)
         \/ NextAttempt(t) \/ Finish(t)
  BY DEF RunTerminal, Adapter, Walk, Endings

\* No step of another part touches a terminal.
LEMMA OtherSteps ==
  ASSUME Main \/ InterruptHandler \/ Clock \/ UNCHANGED vars
  PROVE  UNCHANGED <<pc, tx, holding>>
  BY DEF Main, Prepared, StartAtReached, MainTick, MainDrain, Join, InterruptHandler, Clock,
         vars, mainVars

------------------------------------------------------------------------------
(* Types.                                                                    *)

\* The initial state is well typed.
LEMMA TypeInvInit == Init => TypeInv
  <1> SUFFICES ASSUME Init PROVE TypeInv
    OBVIOUS
  <1>1. tx \in [Terminal -> TxType] /\ pc \in [Terminal -> PcLabel]
    BY NoTxType DEF Init, PcLabel
  <1>2. /\ now \in Nat /\ rampStart \in Nat /\ tickAt \in Nat /\ exitCode \in 0 .. 2
        /\ phase \in Phase /\ main \in MainLabel /\ holding \in SUBSET Terminal
    BY DEF Init, Phase, MainLabel
  <1>4. /\ signalled \in BOOLEAN /\ integrity \in {"none", "met", "handled"}
        /\ stop \in BOOLEAN /\ error \in BOOLEAN
    BY DEF Init
  <1>3. AttemptInv
    BY DEF Init, AttemptInv
  <1> QED BY <1>1, <1>2, <1>3, <1>4 DEF TypeInv, TypeOK, TxType

\* A step of a terminal moves it and its transaction only.
LEMMA FrameStep ==
  ASSUME TypeInv, NEW t \in Terminal, RunTerminal(t) \/ Adapter(t)
  PROVE  Frame(t)
  <1>1. TypeOK
    BY DEF TypeInv
  <1> QED BY <1>1, TerminalSteps, WalkShape, ChooseShape, AdmitShape, EndsShape, StartShape,
             CommitShape, RecordShape, NextAttemptShape, FinishShape DEF Moves

\* It goes to "backoff" only with an attempt left.
LEMMA AttemptStep ==
  ASSUME TypeInv, NEW t \in Terminal, RunTerminal(t) \/ Adapter(t)
  PROVE  AttemptInv'
  <1>1. TypeOK /\ Frame(t)
    BY FrameStep DEF TypeInv
  <1>2. \A s \in Terminal \ {t} : pc'[s] = pc[s] /\ tx'[s] = tx[s]
    BY <1>1 DEF Frame
  <1>3. pc'[t] = "backoff" => tx'[t].attempt + 1 < RetryMaxAttempts
    <2>1. CASE Walk(t)
      BY <2>1, <1>1, WalkShape DEF RetryError, AttemptsRemain
    <2>2. CASE ~Walk(t)
      <3>1. pc'[t] # "backoff"
        BY <2>2, <1>1, TerminalSteps, ChooseShape, AdmitShape, EndsShape, StartShape,
           CommitShape, RecordShape, NextAttemptShape, FinishShape DEF Moves
      <3> QED BY <3>1
    <2> QED BY <2>1, <2>2
  <1> QED BY <1>2, <1>3 DEF TypeInv, AttemptInv

\* What the terminals do to the slots and the run.
LEMMA TerminalRun ==
  ASSUME TypeInv, NEW t \in Terminal, RunTerminal(t) \/ Adapter(t)
  PROVE  /\ holding' \in SUBSET Terminal
         /\ integrity' \in {"none", "met", "handled"}
         /\ UNCHANGED <<stop, error>> \/ (stop' = TRUE /\ error' = TRUE)
         /\ main # "exited"
  <1> USE DEF TypeInv, TypeOK, At, RunTerminal, Adapter, mainVars
  <1>1. main # "exited"
    BY DEF LeaveLoop, ChooseTransaction, AdmissionRefused, WaitInPrepare, KeyingOver,
           IncInflight, TooLate, Admit, PollOver, RecordReported, DropError, RetryError,
           RecordError, NextAttempt, BackoffInterrupted, Finish, ThinkOver, SessionGranted,
           SessionUnavailable, BeginFails, StartWorkflow, OperationFails, CommitApplied,
           CommitFails, UserAborts, ReplacementFails
  <1>2. holding' \in SUBSET Terminal
    BY DEF LeaveLoop, ChooseTransaction, AdmissionRefused, WaitInPrepare, KeyingOver,
           IncInflight, TooLate, Admit, PollOver, RecordReported, DropError, RetryError,
           RecordError, NextAttempt, BackoffInterrupted, Finish, ThinkOver, SessionGranted,
           SessionUnavailable, BeginFails, StartWorkflow, OperationFails, CommitApplied,
           CommitFails, UserAborts, ReplacementFails, Gate!Acquire, Gate!Release
  <1>3. integrity' \in {"none", "met", "handled"}
    BY DEF LeaveLoop, ChooseTransaction, AdmissionRefused, WaitInPrepare, KeyingOver,
           IncInflight, TooLate, Admit, PollOver, RecordReported, DropError, RetryError,
           RecordError, NextAttempt, BackoffInterrupted, Finish, ThinkOver, SessionGranted,
           SessionUnavailable, BeginFails, StartWorkflow, OperationFails, CommitApplied,
           CommitFails, UserAborts, ReplacementFails, Meets, Handles
  <1>4. UNCHANGED <<stop, error>> \/ (stop' = TRUE /\ error' = TRUE)
    BY DEF LeaveLoop, ChooseTransaction, AdmissionRefused, WaitInPrepare, KeyingOver,
           IncInflight, TooLate, Admit, PollOver, RecordReported, DropError, RetryError,
           RecordError, NextAttempt, BackoffInterrupted, Finish, ThinkOver, SessionGranted,
           SessionUnavailable, BeginFails, StartWorkflow, OperationFails, CommitApplied,
           CommitFails, UserAborts, ReplacementFails, RequestStopWithError
  <1> QED BY <1>1, <1>2, <1>3, <1>4

\* The main thread, the signal handler and the clock keep the types.
LEMMA OtherType ==
  ASSUME TypeOK, Main \/ InterruptHandler \/ Clock \/ UNCHANGED vars
  PROVE  TypeOK'
  <1>1. UNCHANGED <<pc, tx, holding>>
    BY OtherSteps
  <1>2. /\ now' \in Nat /\ rampStart' \in Nat /\ tickAt' \in Nat /\ exitCode' \in 0 .. 2
        /\ phase' \in Phase /\ main' \in MainLabel
        /\ signalled' \in BOOLEAN /\ integrity' \in {"none", "met", "handled"}
        /\ stop' \in BOOLEAN /\ error' \in BOOLEAN
    <2> USE DEF TypeOK, Phase, MainLabel
    <2>1. CASE Prepared
      BY <2>1 DEF Prepared, BeginRun, RequestStopWithError
    <2>2. CASE StartAtReached
      BY <2>2, ConstantFacts DEF StartAtReached, BeginRun
    <2>3. CASE MainTick
      BY <2>3 DEF MainTick, StopTerminals, Tick
    <2>4. CASE MainDrain
      BY <2>4 DEF MainDrain, StopTerminals
    <2>5. CASE Join
      BY <2>5 DEF Join
    <2>6. CASE InterruptHandler
      BY <2>6 DEF InterruptHandler
    <2>7. CASE Clock \/ UNCHANGED vars
      BY <2>7 DEF Clock, vars, mainVars
    <2> QED BY <2>1, <2>2, <2>3, <2>4, <2>5, <2>6, <2>7 DEF Main
  <1> QED BY <1>1, <1>2 DEF TypeOK

\* Every step keeps the types and the attempts.
LEMMA TypeInvStep == TypeInv /\ [Next]_vars => TypeInv'
  <1> SUFFICES ASSUME TypeInv, [Next]_vars PROVE TypeInv'
    OBVIOUS
  <1>1. ASSUME NEW t \in Terminal, RunTerminal(t) \/ Adapter(t) PROVE TypeInv'
    <2>1. Frame(t) /\ AttemptInv'
      BY <1>1, FrameStep, AttemptStep
    <2>2. /\ holding' \in SUBSET Terminal /\ integrity' \in {"none", "met", "handled"}
          /\ UNCHANGED <<stop, error>> \/ (stop' = TRUE /\ error' = TRUE)
      BY <1>1, TerminalRun
    <2>3. TypeOK'
      BY <2>1, <2>2 DEF Frame, TypeInv, TypeOK, TxType
    <2> QED BY <2>1, <2>3 DEF TypeInv
  <1>2. CASE Main \/ InterruptHandler \/ Clock \/ UNCHANGED vars
    <2>1. TypeOK' /\ UNCHANGED <<pc, tx>>
      BY <1>2, OtherType, OtherSteps DEF TypeInv
    <2> QED BY <2>1 DEF TypeInv, AttemptInv
  <1> QED BY <1>1, <1>2 DEF Next

\* Every reachable state is well typed; in particular no business transaction
\* is ever attempted more than retry.max_attempts times.
THEOREM TypeCorrect == Spec => []TypeOK
  <1>1. TypeInv => TypeOK
    BY DEF TypeInv
  <1> QED BY <1>1, TypeInvInit, TypeInvStep, PTL DEF Spec

------------------------------------------------------------------------------
(* Slots.                                                                    *)

Slotted == InTransaction \cup {"admitted"}

\* A step of a terminal changes its place and its slot together.
LEMMA SlotStep ==
  ASSUME TypeInv, SlotDiscipline, NEW t \in Terminal, RunTerminal(t) \/ Adapter(t)
  PROVE  SlotDiscipline'
  <1>1. TypeOK /\ \A s \in Terminal \ {t} : pc'[s] = pc[s]
    BY FrameStep DEF TypeInv, Frame
  <1>2. t \in holding <=> pc[t] \in Slotted
    BY DEF SlotDiscipline, Slotted
  <1>3. \A s \in Terminal \ {t} : s \in holding' <=> s \in holding
    BY DEF LeaveLoop, ChooseTransaction, AdmissionRefused, WaitInPrepare, KeyingOver,
           IncInflight, TooLate, Admit, PollOver, RecordReported, DropError, RetryError,
           RecordError, NextAttempt, BackoffInterrupted, Finish, ThinkOver, SessionGranted,
           SessionUnavailable, BeginFails, StartWorkflow, OperationFails, CommitApplied,
           CommitFails, UserAborts, ReplacementFails, Gate!Acquire, Gate!Release,
           RunTerminal, Adapter
  <1>4. t \in holding' <=> pc'[t] \in Slotted
    <2> USE DEF Slotted, InTransaction
    <2>1. CASE IncInflight(t)
      BY <2>1, <1>1, GotoShape DEF IncInflight, Gate!Acquire, PcLabel
    <2>2. CASE TooLate(t)
      BY <2>2, <1>1, GotoShape DEF TooLate, Gate!Release, PcLabel
    <2>3. CASE Finish(t)
      BY <2>3, <1>1, FinishShape DEF Finish, Gate!Release, Moves
    <2>4. CASE ~IncInflight(t) /\ ~TooLate(t) /\ ~Finish(t)
      <3>1. holding' = holding
        BY <2>4 DEF LeaveLoop, ChooseTransaction, AdmissionRefused, WaitInPrepare, KeyingOver,
           Admit, PollOver, RecordReported, DropError, RetryError,
           RecordError, NextAttempt, BackoffInterrupted, ThinkOver, SessionGranted,
           SessionUnavailable, BeginFails, StartWorkflow, OperationFails, CommitApplied,
           CommitFails, UserAborts, ReplacementFails, RunTerminal, Adapter
      <3>2. pc[t] \in Slotted <=> pc'[t] \in Slotted
        <4>1. CASE Walk(t)
          <5>1. CASE pc' = pc
            BY <5>1
          <5>2. CASE pc' # pc
            BY <4>1, <2>4, <1>1, <5>2, GotoShape
            DEF Walk, LeaveLoop, AdmissionRefused, WaitInPrepare, PollOver, DropError,
                RetryError, BackoffInterrupted, ThinkOver, SessionGranted,
                SessionUnavailable, ReplacementFails, At, PcLabel
          <5> QED BY <5>1, <5>2
        <4>2. CASE ChooseTransaction(t) \/ KeyingOver(t)
          BY <4>2, <1>1, ChooseShape DEF Moves
        <4>3. CASE Admit(t) \/ Endings(t) \/ StartWorkflow(t)
          BY <4>3, <1>1, AdmitShape, EndsShape, StartShape DEF Moves
        <4>4. CASE CommitApplied(t) \/ RecordReported(t) \/ RecordError(t) \/ NextAttempt(t)
          BY <4>4, <1>1, CommitShape, RecordShape, NextAttemptShape DEF Moves
        <4> QED BY <2>4, <4>1, <4>2, <4>3, <4>4, TerminalSteps
      <3> QED BY <3>1, <3>2, <1>2
    <2> QED BY <2>1, <2>2, <2>3, <2>4
  <1>5. holding' \in SUBSET Terminal
    BY TerminalRun
  <1> QED BY <1>1, <1>2, <1>3, <1>4, <1>5 DEF SlotDiscipline, Slotted

\* Whatever happens to a business transaction, the slot it ran in is released
\* exactly once, and nothing runs without a slot.
THEOREM SlotsAccounted == Spec => []SlotDiscipline
  <1>1. Init => SlotDiscipline
    BY DEF Init, SlotDiscipline, InTransaction
  <1>2. TypeInv /\ SlotDiscipline /\ [Next]_vars => SlotDiscipline'
    <2> SUFFICES ASSUME TypeInv, SlotDiscipline, [Next]_vars PROVE SlotDiscipline'
      OBVIOUS
    <2>1. CASE Main \/ InterruptHandler \/ Clock \/ UNCHANGED vars
      <3>1. UNCHANGED <<pc, holding>>
        BY <2>1, OtherSteps
      <3> QED BY <3>1 DEF SlotDiscipline
    <2> QED BY <2>1, SlotStep DEF Next
  <1> QED BY <1>1, <1>2, TypeInvInit, TypeInvStep, PTL DEF Spec

------------------------------------------------------------------------------
(* The run: phases, stop and exit code.                                      *)

\* The part of a step of a terminal that the run sees.
LEMMA RunStepTerminal ==
  ASSUME TypeInv, RunInv, NEW t \in Terminal, RunTerminal(t) \/ Adapter(t)
  PROVE  RunInv'
  <1>1. /\ UNCHANGED <<now, phase, rampStart, main>>
        /\ TypeOK /\ \A s \in Terminal \ {t} : pc'[s] = pc[s]
    BY FrameStep DEF TypeInv, Frame
  <1>2. ASSUME main \in Starting PROVE pc'[t] \in {"loop", "refused", "done"}
    <2>1. phase = "Prepare" /\ ~MayAdmit /\ pc[t] \in {"loop", "refused", "done"}
      BY <1>2 DEF RunInv, MayAdmit
    <2>2. LeaveLoop(t) \/ AdmissionRefused(t) \/ WaitInPrepare(t)
      BY <2>1 DEF RunTerminal, Adapter, At, ChooseTransaction, KeyingOver, IncInflight,
         TooLate, Admit, PollOver, RecordReported, DropError, RetryError, RecordError,
         NextAttempt, BackoffInterrupted, Finish, ThinkOver, SessionGranted,
         SessionUnavailable, BeginFails, StartWorkflow, OperationFails, CommitApplied,
         CommitFails, UserAborts, ReplacementFails
    <2> QED BY <2>2, <1>1, GotoShape DEF LeaveLoop, AdmissionRefused, WaitInPrepare, PcLabel
  <1>3. main \in Starting => \A s \in Terminal : pc'[s] \in {"loop", "refused", "done"}
    BY <1>1, <1>2 DEF RunInv
  <1> QED BY <1>1, <1>3 DEF RunInv, MeasurementEnd, MeasurementStart

\* The steps of the main thread, the signal handler and the clock.
LEMMA RunStepOther ==
  ASSUME TypeInv, RunInv, Main \/ InterruptHandler \/ Clock \/ UNCHANGED vars
  PROVE  RunInv'
  <1>1. UNCHANGED pc /\ TypeOK
    BY OtherSteps DEF TypeInv
  <1>2. /\ now \in Nat /\ rampStart \in Nat /\ StartAt \in Nat /\ RampUp \in Nat
        /\ Measurement \in Nat
    BY <1>1, ConstantFacts DEF TypeOK
  <1> USE DEF Starting, MeasurementEnd, MeasurementStart
  <1>3. CASE Prepared
    BY <1>1, <1>2, <1>3 DEF Prepared, BeginRun, RequestStopWithError, RunInv
  <1>4. CASE StartAtReached
    BY <1>1, <1>2, <1>4 DEF StartAtReached, BeginRun, RunInv
  <1>5. CASE MainTick
    BY <1>1, <1>2, <1>5 DEF MainTick, StopTerminals, Tick, RunInv
  <1>6. CASE MainDrain
    BY <1>1, <1>2, <1>6 DEF MainDrain, StopTerminals, RunInv
  <1>7. CASE Join
    BY <1>1, <1>2, <1>7 DEF Join, RunInv
  <1>8. CASE InterruptHandler \/ Clock \/ UNCHANGED vars
    BY <1>1, <1>2, <1>8 DEF InterruptHandler, Clock, vars, mainVars, RunInv
  <1> QED BY <1>3, <1>4, <1>5, <1>6, <1>7, <1>8 DEF Main

\* The phase and the main thread stay together.
LEMMA RunInvHolds == Spec => [](TypeInv /\ RunInv)
  <1>1. Init => RunInv
    BY ConstantFacts DEF Init, RunInv, Starting, MeasurementEnd, MeasurementStart
  <1>2. TypeInv /\ RunInv /\ [Next]_vars => RunInv'
    BY RunStepTerminal, RunStepOther DEF Next
  <1> QED BY <1>1, <1>2, TypeInvInit, TypeInvStep, PTL DEF Spec

\* Whoever stops the run leaves a trace.
LEMMA StopStep == TypeInv /\ RunInv /\ StopInv /\ [Next]_vars => StopInv'
  <1> SUFFICES ASSUME TypeInv, RunInv, StopInv, [Next]_vars PROVE StopInv'
    OBVIOUS
  <1> USE DEF MeasurementEnd, MeasurementStart
  <1>1. /\ now \in Nat /\ rampStart \in Nat /\ StartAt \in Nat /\ RampUp \in Nat
        /\ Measurement \in Nat /\ stop \in BOOLEAN /\ error \in BOOLEAN
        /\ signalled \in BOOLEAN
    BY ConstantFacts DEF TypeInv, TypeOK
  <1>2. ASSUME NEW t \in Terminal, RunTerminal(t) \/ Adapter(t) PROVE StopInv'
    <2>1. /\ UNCHANGED <<now, phase, rampStart, main, exitCode, signalled>>
          /\ UNCHANGED <<stop, error>> \/ (stop' = TRUE /\ error' = TRUE)
          /\ main # "exited"
      BY <1>2, FrameStep, TerminalRun DEF Frame
    <2> QED BY <2>1 DEF StopInv
  <1>3. CASE Prepared
    BY <1>1, <1>3 DEF Prepared, BeginRun, RequestStopWithError, StopInv
  <1>4. CASE StartAtReached
    BY <1>1, <1>4 DEF StartAtReached, BeginRun, StopInv
  <1>5. CASE MainTick
    BY <1>1, <1>5 DEF MainTick, StopTerminals, StopInv
  <1>6. CASE MainDrain
    BY <1>1, <1>6 DEF MainDrain, StopTerminals, StopInv, RunInv
  <1>7. CASE Join
    BY <1>1, <1>7 DEF Join, StopInv
  <1>8. CASE InterruptHandler \/ Clock \/ UNCHANGED vars
    BY <1>1, <1>8 DEF InterruptHandler, Clock, vars, mainVars, StopInv
  <1> QED BY <1>2, <1>3, <1>4, <1>5, <1>6, <1>7, <1>8 DEF Next, Main

\* The part of a step of a terminal that a handled integrity error sees.
LEMMA HandledStepTerminal ==
  ASSUME TypeInv, HandledInv, NEW t \in Terminal, RunTerminal(t) \/ Adapter(t)
  PROVE  HandledInv'
  <1>1. /\ TypeOK /\ Frame(t)
        /\ UNCHANGED <<stop, error>> \/ (stop' = TRUE /\ error' = TRUE)
    BY FrameStep, TerminalRun DEF TypeInv
  <1>2. \A s \in Terminal \ {t} : pc'[s] = pc[s] /\ tx'[s] = tx[s]
    BY <1>1 DEF Frame
  <1>3. CASE OperationFails(t)
    <2>1. pc[t] # "finish" /\ (integrity' = "handled" => integrity = "handled" \/ error')
      BY <1>3 DEF OperationFails, Handles, RequestStopWithError, At
    <2> QED BY <1>1, <1>2, <2>1 DEF HandledInv
  <1>4. CASE RecordError(t)
    <2>1. pc[t] = "ended" /\ pc'[t] = "finish"
      BY <1>1, <1>4, RecordShape DEF Moves
    <2>2. tx[t].result = "Integrity" => tx'[t].fatal
      BY <1>1, <1>4 DEF RecordError, TypeOK, TxType
    <2>3. integrity' = "handled" => integrity = "handled" \/ tx[t].result = "Integrity"
      BY <1>4 DEF RecordError, Handles
    <2>4. integrity = "handled" => error' \/ \E s \in Terminal \ {t} : pc[s] = "finish" /\ tx[s].fatal
      BY <1>1, <2>1 DEF HandledInv
    <2>5. ASSUME NEW s \in Terminal \ {t}, pc[s] = "finish" /\ tx[s].fatal PROVE HandledInv'
      BY <1>2, <2>5 DEF HandledInv
    <2> QED BY <2>1, <2>2, <2>3, <2>4, <2>5 DEF HandledInv
  <1>5. CASE Finish(t)
    <2>1. UNCHANGED integrity /\ (tx[t].fatal => error')
      BY <1>5 DEF Finish, RequestStopWithError
    <2> QED BY <1>1, <1>2, <2>1 DEF HandledInv
  <1>6. CASE ~OperationFails(t) /\ ~RecordError(t) /\ ~Finish(t)
    <2>1. pc[t] # "finish"
      BY <1>1, <1>6, TerminalSteps, WalkShape, ChooseShape, AdmitShape, EndsShape, StartShape,
         CommitShape, RecordShape, NextAttemptShape
    <2>2. integrity' = "handled" => integrity = "handled"
      BY <1>6 DEF RunTerminal, Adapter, LeaveLoop, ChooseTransaction, AdmissionRefused,
         WaitInPrepare, KeyingOver, IncInflight, TooLate, Admit, PollOver, RecordReported,
         DropError, RetryError, NextAttempt, BackoffInterrupted, ThinkOver, SessionGranted,
         SessionUnavailable, BeginFails, StartWorkflow, CommitApplied, CommitFails,
         UserAborts, ReplacementFails, Meets
    <2> QED BY <1>1, <1>2, <2>1, <2>2 DEF HandledInv
  <1> QED BY <1>3, <1>4, <1>5, <1>6

\* The main thread reads the error flag after the terminals have raised it.
LEMMA HandledStep ==
  TypeInv /\ StopInv /\ HandledInv /\ CodeInv /\ [Next]_vars => HandledInv' /\ CodeInv'
  <1> SUFFICES ASSUME TypeInv, StopInv, HandledInv, CodeInv, [Next]_vars
               PROVE  HandledInv' /\ CodeInv'
    OBVIOUS
  <1>1. ASSUME NEW t \in Terminal, RunTerminal(t) \/ Adapter(t)
        PROVE  HandledInv' /\ CodeInv'
    <2>1. main # "exited" /\ exitCode' = exitCode
      BY <1>1, TerminalRun, FrameStep DEF Frame
    <2> QED BY <1>1, <2>1, HandledStepTerminal DEF StopInv, CodeInv
  <1>2. CASE Join
    <2>1. UNCHANGED <<pc, tx, integrity, error>> /\ \A t \in Terminal : pc[t] # "finish"
      BY <1>2 DEF Join
    <2>2. exitCode' = 0 => ~error
      BY <1>2 DEF Join
    <2> QED BY <2>1, <2>2 DEF HandledInv, CodeInv
  <1>3. CASE Prepared \/ StartAtReached \/ MainTick \/ MainDrain \/ InterruptHandler
             \/ Clock \/ UNCHANGED vars
    <2>1. /\ UNCHANGED <<pc, tx, integrity, exitCode>> /\ (error => error')
      BY <1>3 DEF Prepared, StartAtReached, MainTick, MainDrain, InterruptHandler, Clock,
         RequestStopWithError, vars, mainVars
    <2> QED BY <2>1 DEF HandledInv, CodeInv
  <1> QED BY <1>1, <1>2, <1>3 DEF Next, Main

\* Exit code 0 is never the end of a run that missed its start or was cut short by
\* anything but a signal, nor of one in which a workflow or a terminal handled an
\* integrity error, however close to the end of the run that was.  (One that no
\* terminal is resumed with any more is not handled: IntegrityFailsRun, which
\* TLC refutes.)
THEOREM ExitCodeTrue == Spec => []CleanExit
  <1>1. Init => StopInv /\ HandledInv /\ CodeInv
    BY DEF Init, StopInv, HandledInv, CodeInv
  <1>2. StopInv /\ CodeInv => CleanExit
    BY DEF StopInv, CodeInv, CleanExit
  <1> QED BY <1>1, <1>2, RunInvHolds, StopStep, HandledStep, PTL DEF Spec

\* No business transaction starts outside the admission window, whatever the
\* terminal waited for and however late the main thread publishes the phase.
THEOREM WindowKept == Spec => AdmissionWindow
  <1>1. TypeInv /\ RunInv /\ [Next]_vars =>
           [\A t \in Terminal :
              pc[t] = "admitted" /\ pc'[t] = "session" =>
                 /\ main \in {"loop", "drain", "stopping"}
                 /\ rampStart <= now /\ now < MeasurementEnd]_vars
    <2> SUFFICES ASSUME TypeInv, RunInv, [Next]_vars, NEW t \in Terminal,
                        pc[t] = "admitted", pc'[t] = "session"
                 PROVE  /\ main \in {"loop", "drain", "stopping"}
                        /\ rampStart <= now /\ now < MeasurementEnd
      OBVIOUS
    <2>1. PICK s \in Terminal : RunTerminal(s) \/ Adapter(s)
      <3>1. pc' # pc
        OBVIOUS
      <3> QED BY <3>1, OtherSteps DEF Next
    <2>2. s = t
      BY <2>1, FrameStep DEF Frame
    <2>3. TypeOK
      BY DEF TypeInv
    <2>4. MayAdmit
      <3>1. CASE TooLate(t)
        BY <3>1, <2>3, GotoShape DEF TooLate, PcLabel
      <3>2. CASE Admit(t)
        BY <3>2 DEF Admit
      <3>3. TooLate(t) \/ Admit(t)
        BY <2>1, <2>2 DEF RunTerminal, Adapter, At, ChooseTransaction, KeyingOver, IncInflight,
         LeaveLoop, AdmissionRefused, WaitInPrepare,
         PollOver, RecordReported, DropError, RetryError, RecordError,
         NextAttempt, BackoffInterrupted, Finish, ThinkOver, SessionGranted,
         SessionUnavailable, BeginFails, StartWorkflow, OperationFails, CommitApplied,
         CommitFails, UserAborts, ReplacementFails
      <3> QED BY <3>1, <3>2, <3>3
    <2> QED BY <2>3, <2>4 DEF MayAdmit, RunInv, TypeOK, MainLabel, Starting
  <1> QED BY <1>1, RunInvHolds, PTL DEF Spec, AdmissionWindow

------------------------------------------------------------------------------
(* Inputs, commits and reports of a business transaction.                    *)

\* Each attempt of a business transaction runs with the inputs of the first.
LEMMA UsedStep == TypeInv /\ UsedInv /\ [Next]_vars => UsedInv'
  <1> SUFFICES ASSUME TypeInv, UsedInv, [Next]_vars PROVE UsedInv'
    OBVIOUS
  <1>1. CASE Main \/ InterruptHandler \/ Clock \/ UNCHANGED vars
    BY <1>1, OtherSteps DEF UsedInv, UsedOK
  <1>2. ASSUME NEW t \in Terminal, RunTerminal(t) \/ Adapter(t) PROVE UsedInv'
    <2>1. TypeOK /\ UsedOK(t) /\ tx[t] \in TxType /\ pc[t] \in PcLabel
          /\ pc'[t] \in PcLabel
          /\ \A s \in Terminal \ {t} : pc'[s] = pc[s] /\ tx'[s] = tx[s]
      BY <1>2, FrameStep DEF Frame, TypeInv, TypeOK, TxType, UsedInv
    <2>2. UsedOK(t)'
      <3> USE DEF Before, InTransaction, PcLabel
      <3>1. CASE Walk(t)
        <4>1. tx'[t] = tx[t] /\ (pc[t] \in Before <=> pc'[t] \in Before)
          BY <3>1, <2>1, WalkShape
        <4> QED BY <4>1, <2>1 DEF UsedOK
      <3>2. CASE ChooseTransaction(t) \/ KeyingOver(t)
        <4>1. /\ pc[t] \in Before /\ pc'[t] \in Before
              /\ tx'[t].used = tx[t].used
          <5>1. PICK x \in {tx[t], [tx[t] EXCEPT !.start = now]},
                     label \in {"loop", "keying", "queue", "done"} : Moves(t, x, label)
            BY <3>2, <2>1, ChooseShape
          <5>2. pc[t] \in {"loop", "keying"} /\ tx'[t] = x /\ pc'[t] = label
            BY <3>2, <2>1, <5>1, ChooseShape DEF Moves
          <5> QED BY <2>1, <5>2 DEF TxType
        <4> QED BY <4>1, <2>1 DEF UsedOK
      <3>3. CASE Admit(t)
        <4>1. /\ pc[t] \in Before /\ pc'[t] = "session"
              /\ tx'[t].used = tx[t].used /\ tx'[t].inputs = NoInputs
          BY <3>3, <2>1, AdmitShape DEF Moves, TxType
        <4> QED BY <4>1, <2>1 DEF UsedOK
      <3>4. CASE Endings(t)
        <4>1. /\ pc[t] \in InTransaction /\ pc'[t] = "ended"
              /\ tx'[t].used = tx[t].used /\ tx'[t].inputs = tx[t].inputs
          <5>1. PICK r \in Result : Moves(t, [tx[t] EXCEPT !.result = r], "ended")
            BY <3>4, <2>1, EndsShape
          <5>2. pc[t] \in InTransaction
            BY <3>4, <2>1, EndsShape DEF InTransaction
          <5> QED BY <2>1, <5>1, <5>2 DEF Moves, TxType
        <4> QED BY <4>1, <2>1 DEF UsedOK
      <3>5. CASE StartWorkflow(t)
        <4>1. PICK in \in Inputs :
              /\ tx[t].inputs = NoInputs \/ in = tx[t].inputs
              /\ pc[t] = "begin" /\ pc'[t] = "work"
              /\ tx'[t].used = tx[t].used \cup {in} /\ tx'[t].inputs = in
          <5>1. PICK in \in Inputs :
                  /\ tx[t].inputs = NoInputs \/ in = tx[t].inputs
                  /\ Moves(t, [tx[t] EXCEPT !.inputs = in, !.used = tx[t].used \cup {in}], "work")
            BY <3>5, <2>1, StartShape
          <5>2. pc[t] = "begin"
            BY <3>5, <2>1, StartShape
          <5>3. /\ pc'[t] = "work"
                /\ tx'[t].used = tx[t].used \cup {in} /\ tx'[t].inputs = in
            BY <2>1, <5>1 DEF Moves, TxType
          <5> QED BY <5>1, <5>2, <5>3
        <4>2. tx[t].used \subseteq {in}
          BY <4>1, <2>1 DEF UsedOK
        <4> QED BY <4>1, <4>2, ConstantFacts DEF UsedOK
      <3>6. CASE CommitApplied(t)
        <4>1. /\ pc[t] = "work" /\ pc'[t] = "ended"
              /\ tx'[t].used = tx[t].used /\ tx'[t].inputs = tx[t].inputs
          <5>1. PICK r \in {"ok", "AmbiguousCommit", "Permanent"} :
                  Moves(t, [tx[t] EXCEPT !.result = r, !.commits = tx[t].commits + 1,
                                         !.commitAt = now], "ended")
            BY <3>6, <2>1, CommitShape
          <5>2. pc[t] = "work"
            BY <3>6, <2>1, CommitShape
          <5> QED BY <2>1, <5>1, <5>2 DEF Moves, TxType
        <4> QED BY <4>1, <2>1 DEF UsedOK
      <3>7. CASE RecordReported(t) \/ RecordError(t)
        <4>1. /\ pc[t] = "ended" /\ pc'[t] = "finish"
              /\ tx'[t].used = tx[t].used /\ tx'[t].inputs = tx[t].inputs
          <5>1. PICK k \in {"ok", "failed", "aborted"}, f \in BOOLEAN :
                   Moves(t, Reported(t, k, f), "finish")
            BY <3>7, <2>1, RecordShape
          <5>2. pc[t] = "ended"
            BY <3>7, <2>1, RecordShape
          <5> QED BY <2>1, <5>1, <5>2 DEF Moves, TxType, Reported
        <4> QED BY <4>1, <2>1 DEF UsedOK
      <3>8. CASE NextAttempt(t)
        <4>1. /\ pc[t] = "backoff" /\ pc'[t] = "session"
              /\ tx'[t].used = tx[t].used /\ tx'[t].inputs = tx[t].inputs
          BY <3>8, <2>1, NextAttemptShape DEF Moves, TxType
        <4> QED BY <4>1, <2>1 DEF UsedOK
      <3>9. CASE Finish(t)
        <4>1. pc'[t] \in Before /\ tx'[t].used = {}
          <5>1. PICK label \in {"loop", "think", "done"} :
                  Moves(t, [NoTx EXCEPT !.inputs = tx[t].inputs], label)
            BY <3>9, <2>1, FinishShape
          <5>2. pc'[t] \in Before
            BY <5>1 DEF Moves, Before
          <5> QED BY <5>1, <5>2, NoTxType DEF Moves, TxType
        <4> QED BY <4>1 DEF UsedOK
      <3> QED BY <1>2, <3>1, <3>2, <3>3, <3>4, <3>5, <3>6, <3>7, <3>8, <3>9, TerminalSteps
    <2> QED BY <2>1, <2>2 DEF UsedInv, UsedOK
  <1> QED BY <1>1, <1>2 DEF Next

\* Retries repeat the transaction they retry: all attempts of a business
\* transaction use one set of inputs, never those of an earlier one.
THEOREM SameInputs == Spec => []InputsFixed
  <1>1. Init => UsedInv
    BY NoTxType DEF Init, UsedInv, UsedOK, Before, InTransaction
  <1>2. UsedInv => InputsFixed
    <2> SUFFICES ASSUME UsedInv, NEW t \in Terminal, pc[t] \in InTransaction
                 PROVE  /\ Cardinality(tx[t].used) <= 1
                        /\ tx[t].inputs # NoInputs => tx[t].used = {tx[t].inputs}
      BY DEF InputsFixed
    <2>1. tx[t].used = IF tx[t].inputs = NoInputs THEN {} ELSE {tx[t].inputs}
      BY DEF UsedInv, UsedOK
    <2>2. Cardinality({}) = 0 /\ Cardinality({tx[t].inputs}) = 1
      BY FS_EmptySet, FS_Singleton
    <2> QED BY <2>1, <2>2
  <1> QED BY <1>1, <1>2, TypeInvInit, TypeInvStep, UsedStep, PTL DEF Spec

\* A commit is applied once, unless the configuration allows to retry it.
LEMMA CommitStep == TypeInv /\ CommitInv /\ [Next]_vars => CommitInv'
  <1> SUFFICES ASSUME TypeInv, CommitInv, [Next]_vars PROVE CommitInv'
    OBVIOUS
  <1>1. CASE Main \/ InterruptHandler \/ Clock \/ UNCHANGED vars
    <2>1. UNCHANGED <<pc, tx>> /\ now \in Nat /\ now' \in Nat /\ now <= now'
      BY <1>1, OtherSteps DEF TypeInv, TypeOK, Main, Prepared, StartAtReached, MainTick,
         MainDrain, Join, InterruptHandler, Clock, vars
    <2>2. SUFFICES ASSUME NEW t \in Terminal PROVE CommitOK(t)'
      BY DEF CommitInv
    <2>3. tx[t].start \in Nat /\ tx[t].commitAt \in Nat /\ CommitOK(t)
      BY DEF TypeInv, TypeOK, CommitInv
    <2> QED BY <2>1, <2>3 DEF CommitOK
  <1>2. ASSUME NEW t \in Terminal, RunTerminal(t) \/ Adapter(t) PROVE CommitInv'
    <2>1. TypeOK /\ CommitOK(t) /\ tx[t] \in TxType /\ pc[t] \in PcLabel
          /\ pc'[t] \in PcLabel /\ now' = now
          /\ \A s \in Terminal \ {t} : pc'[s] = pc[s] /\ tx'[s] = tx[s]
      BY <1>2, FrameStep DEF Frame, TypeInv, TypeOK, TxType, CommitInv
    <2>2. /\ now \in Nat /\ tx[t].start \in Nat /\ tx[t].commits \in Nat
          /\ tx[t].commitAt \in Nat
      BY <2>1 DEF TypeOK, TxType
    <2>3. CommitOK(t)'
      <3> USE DEF Before, PcLabel
      <3>1. CASE Walk(t)
        <4>1. /\ tx'[t] = tx[t] /\ (pc[t] \in Before <=> pc'[t] \in Before)
              /\ pc[t] # "finish"
              /\ pc'[t] = "backoff" => RetryError(t)
              /\ pc'[t] = "ended" => pc[t] = "ended"
              /\ pc[t] = "ended" => pc'[t] \in {"ended", "finish", "backoff"}
          BY <3>1, <2>1, WalkShape
        <4>2. ASSUME ~RetryAmbiguousCommit, pc'[t] = "backoff" PROVE tx[t].commits # 1
          BY <4>1, <4>2, <2>1
          DEF CommitOK, RetryError, ShouldRetryClass, MayBlindRetry, At, EErrorClass
        <4> QED BY <4>1, <4>2, <2>1, <2>2 DEF CommitOK
      <3>2. CASE ChooseTransaction(t) \/ KeyingOver(t)
        <4>1. /\ pc[t] \in Before /\ pc'[t] \in Before
              /\ tx'[t].commits = tx[t].commits
              /\ tx'[t].start = tx[t].start \/ tx'[t].start = now
          <5>1. PICK x \in {tx[t], [tx[t] EXCEPT !.start = now]},
                     label \in {"loop", "keying", "queue", "done"} : Moves(t, x, label)
            BY <3>2, <2>1, ChooseShape
          <5>2. pc[t] \in {"loop", "keying"} /\ tx'[t] = x /\ pc'[t] = label
            BY <3>2, <2>1, <5>1, ChooseShape DEF Moves
          <5> QED BY <2>1, <5>2 DEF TxType
        <4> QED BY <4>1, <2>1, <2>2 DEF CommitOK
      <3>3. CASE Admit(t)
        <4>1. /\ pc[t] \in Before /\ pc'[t] = "session" /\ tx'[t].start = tx[t].start
              /\ tx'[t].commits = tx[t].commits /\ tx'[t].commitAt = tx[t].commitAt
          BY <3>3, <2>1, AdmitShape DEF Moves, TxType
        <4> QED BY <4>1, <2>1, <2>2 DEF CommitOK
      <3>4. CASE Endings(t)
        <4>1. /\ pc[t] \in {"session", "begin", "work"} /\ pc'[t] = "ended"
              /\ tx'[t].start = tx[t].start /\ tx'[t].result # "ok"
              /\ tx'[t].commits = tx[t].commits /\ tx'[t].commitAt = tx[t].commitAt
          <5>1. PICK r \in Result \ {"ok"} : Moves(t, [tx[t] EXCEPT !.result = r], "ended")
            BY <3>4, <2>1, EndsShape
          <5>2. pc[t] \in {"session", "begin", "work"}
            BY <3>4, <2>1, EndsShape
          <5> QED BY <2>1, <5>1, <5>2 DEF Moves, TxType
        <4> QED BY <4>1, <2>1, <2>2 DEF CommitOK
      <3>5. CASE StartWorkflow(t)
        <4>1. /\ pc[t] = "begin" /\ pc'[t] = "work" /\ tx'[t].start = tx[t].start
              /\ tx'[t].commits = tx[t].commits /\ tx'[t].commitAt = tx[t].commitAt
          <5>1. PICK in \in Inputs :
                  Moves(t, [tx[t] EXCEPT !.inputs = in, !.used = tx[t].used \cup {in}], "work")
            BY <3>5, <2>1, StartShape
          <5>2. pc[t] = "begin"
            BY <3>5, <2>1, StartShape
          <5> QED BY <2>1, <5>1, <5>2 DEF Moves, TxType
        <4> QED BY <4>1, <2>1, <2>2 DEF CommitOK
      <3>6. CASE CommitApplied(t)
        <4>1. /\ pc[t] = "work" /\ pc'[t] = "ended" /\ tx'[t].start = tx[t].start
              /\ tx'[t].result \in {"ok", "AmbiguousCommit", "Permanent"}
              /\ tx'[t].commits = tx[t].commits + 1 /\ tx'[t].commitAt = now
          <5>1. PICK r \in {"ok", "AmbiguousCommit", "Permanent"} :
                   Moves(t, [tx[t] EXCEPT !.result = r, !.commits = tx[t].commits + 1,
                                          !.commitAt = now], "ended")
            BY <3>6, <2>1, CommitShape
          <5>2. pc[t] = "work"
            BY <3>6, <2>1, CommitShape
          <5> QED BY <2>1, <5>1, <5>2 DEF Moves, TxType
        <4>2. ~RetryAmbiguousCommit => tx[t].commits = 0
          BY <4>1, <2>1, <2>2 DEF CommitOK
        <4> QED BY <4>1, <4>2, <2>1, <2>2 DEF CommitOK
      <3>7. CASE RecordReported(t) \/ RecordError(t)
        <4>1. /\ pc[t] = "ended" /\ pc'[t] = "finish" /\ tx'[t].start = tx[t].start
              /\ tx'[t].commits = tx[t].commits /\ tx'[t].commitAt = tx[t].commitAt
          <5>1. PICK k \in {"ok", "failed", "aborted"}, f \in BOOLEAN :
                   Moves(t, Reported(t, k, f), "finish")
            BY <3>7, <2>1, RecordShape
          <5>2. pc[t] = "ended"
            BY <3>7, <2>1, RecordShape
          <5> QED BY <2>1, <5>1, <5>2 DEF Moves, TxType, Reported
        <4> QED BY <4>1, <2>1, <2>2 DEF CommitOK
      <3>8. CASE NextAttempt(t)
        <4>1. /\ pc[t] = "backoff" /\ pc'[t] = "session" /\ tx'[t].start = tx[t].start
              /\ tx'[t].commits = tx[t].commits /\ tx'[t].commitAt = tx[t].commitAt
          BY <3>8, <2>1, NextAttemptShape DEF Moves, TxType
        <4> QED BY <4>1, <2>1, <2>2 DEF CommitOK
      <3>9. CASE Finish(t)
        <4>1. pc'[t] \in Before /\ tx'[t].commits = 0 /\ tx'[t].start = 0
          <5>1. PICK label \in {"loop", "think", "done"} :
                  Moves(t, [NoTx EXCEPT !.inputs = tx[t].inputs], label)
            BY <3>9, <2>1, FinishShape
          <5>2. pc'[t] \in Before
            BY <5>1 DEF Moves, Before
          <5> QED BY <5>1, <5>2, NoTxType DEF Moves, TxType
        <4> QED BY <4>1, <2>1, <2>2 DEF CommitOK
      <3> QED BY <1>2, <3>1, <3>2, <3>3, <3>4, <3>5, <3>6, <3>7, <3>8, <3>9, TerminalSteps
    <2> QED BY <2>1, <2>3 DEF CommitInv, CommitOK
  <1> QED BY <1>1, <1>2 DEF Next

\* Initially nothing is committed.
LEMMA CommitInit == Init => CommitInv
  BY NoTxType DEF Init, CommitInv, CommitOK

\* No blind retry: unless retry.ambiguous_commit is set no business transaction
\* is applied twice, whatever its attempts reported.
THEOREM NoBlindRetry == Spec => []AppliedOnce
  <1>1. CommitInv => AppliedOnce
    BY DEF CommitInv, CommitOK, AppliedOnce
  <1> QED BY <1>1, CommitInit, TypeInvInit, TypeInvStep, CommitStep, PTL DEF Spec

\* Except at the end of a transaction nothing is reported and nothing is said.
LEMMA NothingReported ==
  ASSUME NEW t \in Terminal, tx[t].outcomes = <<>> PROVE ReportOK(t)
  BY DEF ReportOK

\* What a step other than a report does to the outcomes.
LEMMA QuietReports ==
  ASSUME TypeInv, NEW t \in Terminal, RunTerminal(t) \/ Adapter(t), ReportOK(t),
         ~RecordReported(t), ~RecordError(t)
  PROVE  tx'[t].outcomes = <<>>
  <1>1. TypeOK /\ tx[t] \in TxType
    BY DEF TypeInv, TypeOK, TxType
  <1>2. CASE Finish(t)
    <2>1. tx'[t] = [NoTx EXCEPT !.inputs = tx[t].inputs]
      BY <1>1, <1>2, FinishShape DEF Moves
    <2> QED BY <2>1, NoTxType DEF TxType
  <1>3. CASE ~Finish(t)
    <2>1. pc[t] # "finish" /\ tx'[t].outcomes = tx[t].outcomes
      <3>1. CASE Walk(t)
        BY <3>1, <1>1, WalkShape
      <3>2. CASE ChooseTransaction(t) \/ KeyingOver(t)
        <4>1. PICK x \in {tx[t], [tx[t] EXCEPT !.start = now]},
                   label \in {"loop", "keying", "queue", "done"} : Moves(t, x, label)
          BY <3>2, <1>1, ChooseShape
        <4>2. pc[t] \in {"loop", "keying"} /\ tx'[t] = x
          BY <3>2, <1>1, <4>1, ChooseShape DEF Moves
        <4> QED BY <1>1, <4>2 DEF TxType
      <3>3. CASE Admit(t)
        <4>1. pc[t] = "admitted" /\ tx'[t] = [tx[t] EXCEPT !.inputs = NoInputs]
          BY <3>3, <1>1, AdmitShape DEF Moves
        <4> QED BY <1>1, <4>1 DEF TxType
      <3>4. CASE Endings(t)
        <4>1. PICK r \in Result : tx'[t] = [tx[t] EXCEPT !.result = r]
          BY <3>4, <1>1, EndsShape DEF Moves
        <4>2. pc[t] \in {"session", "begin", "work"}
          BY <3>4, <1>1, EndsShape
        <4> QED BY <1>1, <4>1, <4>2 DEF TxType
      <3>5. CASE StartWorkflow(t)
        <4>1. PICK in \in Inputs : tx'[t] =
                 [tx[t] EXCEPT !.inputs = in, !.used = tx[t].used \cup {in}]
          BY <3>5, <1>1, StartShape DEF Moves
        <4>2. pc[t] = "begin"
          BY <3>5, <1>1, StartShape
        <4> QED BY <1>1, <4>1, <4>2 DEF TxType
      <3>6. CASE CommitApplied(t)
        <4>1. PICK r \in {"ok", "AmbiguousCommit", "Permanent"} : tx'[t] =
                 [tx[t] EXCEPT !.result = r, !.commits = tx[t].commits + 1,
                               !.commitAt = now]
          BY <3>6, <1>1, CommitShape DEF Moves
        <4>2. pc[t] = "work"
          BY <3>6, <1>1, CommitShape
        <4> QED BY <1>1, <4>1, <4>2 DEF TxType
      <3>7. CASE NextAttempt(t)
        <4>1. pc[t] = "backoff" /\ tx'[t] =
                 [tx[t] EXCEPT !.attempt = tx[t].attempt + 1, !.result = "none"]
          BY <3>7, NextAttemptShape DEF Moves
        <4> QED BY <1>1, <4>1 DEF TxType
      <3> QED BY <1>3, <3>1, <3>2, <3>3, <3>4, <3>5, <3>6, <3>7, TerminalSteps
    <2> QED BY <2>1 DEF ReportOK
  <1> QED BY <1>2, <1>3

\* A report says what happened to the transaction.
LEMMA TrueReport ==
  ASSUME TypeInv, NEW t \in Terminal, CommitOK(t), ReportOK(t),
         RecordReported(t) \/ RecordError(t)
  PROVE  ReportOK(t)'
  <1>1. /\ TypeOK /\ tx[t] \in TxType
        /\ now \in Nat /\ rampStart \in Nat /\ RampUp \in Nat /\ Measurement \in Nat
    BY ConstantFacts DEF TypeInv, TypeOK, TxType
  <1>2. PICK k \in {"ok", "failed", "aborted"}, f \in BOOLEAN :
          /\ k # "failed" => tx[t].result = k
          /\ Moves(t, Reported(t, k, f), "finish")
    BY <1>1, RecordShape
  <1>3. pc[t] = "ended" /\ UNCHANGED <<now, rampStart>> /\ pc'[t] = "finish"
    BY <1>1, <1>2, RecordShape DEF Moves, Frame
  <1> DEFINE m == CompletelyWithinMeasurement(tx[t].start, now)
             o == [kind |-> k, measured |-> m]
  <1>4. /\ tx'[t].outcomes = Append(tx[t].outcomes, o)
        /\ tx'[t].commits = tx[t].commits /\ tx'[t].commitAt = tx[t].commitAt
    BY <1>1, <1>2 DEF Moves, TxType, Reported
  <1>5. tx[t].outcomes = <<>>
    BY <1>3 DEF ReportOK
  <1>6. m \in BOOLEAN
    BY DEF CompletelyWithinMeasurement
  <1>7. o.kind = k /\ o.measured = m
    OBVIOUS
  <1>8. /\ tx[t].start \in Nat /\ tx[t].commits \in Nat /\ tx[t].commitAt \in Nat
    BY <1>1 DEF TxType
  <1>9. k = "aborted" => RetryAmbiguousCommit \/ tx[t].commits = 0
    BY <1>2, <1>3, <1>8 DEF CommitOK
  <1>10. k = "ok" => tx[t].commits > 0
    BY <1>2, <1>3, <1>8 DEF CommitOK
  <1>11. k = "ok" /\ m => MeasurementStart <= tx[t].commitAt /\ tx[t].commitAt <= MeasurementEnd
    BY <1>1, <1>8, <1>10
    DEF CommitOK, CompletelyWithinMeasurement, MeasurementStart, MeasurementEnd
  <1>12. MeasurementStart' = MeasurementStart /\ MeasurementEnd' = MeasurementEnd
    BY <1>3 DEF MeasurementStart, MeasurementEnd
  <1> HIDE DEF o, m
  <1>13. Len(tx'[t].outcomes) = 1 /\ tx'[t].outcomes[1] = o /\ DOMAIN tx'[t].outcomes = {1}
    BY <1>4, <1>5
  <1> QED BY <1>3, <1>4, <1>7, <1>9, <1>10, <1>11, <1>12, <1>13 DEF ReportOK

\* Every report is true when it is made, and stays so.
LEMMA ReportStep ==
  TypeInv /\ RunInv /\ CommitInv /\ ReportInv /\ [Next]_vars => ReportInv'
  <1> SUFFICES ASSUME TypeInv, RunInv, CommitInv, ReportInv, [Next]_vars,
                      NEW t \in Terminal
               PROVE  ReportOK(t)'
    BY DEF ReportInv
  <1>1. CommitOK(t) /\ ReportOK(t)
    BY DEF CommitInv, ReportInv
  <1>2. ASSUME UNCHANGED rampStart, pc'[t] = pc[t], tx'[t] = tx[t] PROVE ReportOK(t)'
    <2>1. MeasurementStart' = MeasurementStart /\ MeasurementEnd' = MeasurementEnd
      BY <1>2 DEF MeasurementStart, MeasurementEnd
    <2> QED BY <1>1, <1>2, <2>1 DEF ReportOK
  <1>3. CASE Main \/ InterruptHandler \/ Clock \/ UNCHANGED vars
    <2>1. UNCHANGED <<pc, tx>>
      BY <1>3, OtherSteps
    <2>2. CASE main \in Starting
      <3>1. tx'[t].outcomes = <<>>
        BY <1>1, <2>1, <2>2 DEF RunInv, ReportOK
      <3> QED BY <3>1 DEF ReportOK
    <2>3. CASE main \notin Starting
      <3>1. UNCHANGED rampStart
        BY <1>3, <2>3 DEF Main, Prepared, StartAtReached, MainTick, MainDrain, Join,
           InterruptHandler, Clock, vars, mainVars, Starting
      <3> QED BY <3>1, <2>1, <1>2
    <2> QED BY <2>2, <2>3
  <1>4. ASSUME NEW s \in Terminal, RunTerminal(s) \/ Adapter(s) PROVE ReportOK(t)'
    <2>1. UNCHANGED rampStart /\ (s # t => pc'[t] = pc[t] /\ tx'[t] = tx[t])
      BY <1>4, FrameStep DEF Frame
    <2>2. CASE s # t
      BY <2>1, <2>2, <1>2
    <2>3. CASE s = t /\ (RecordReported(t) \/ RecordError(t))
      BY <2>3, <1>1, TrueReport
    <2>4. CASE s = t /\ ~RecordReported(t) /\ ~RecordError(t)
      <3>1. tx'[t].outcomes = <<>>
        BY <1>4, <2>4, <1>1, QuietReports
      <3> QED BY <3>1 DEF ReportOK
    <2> QED BY <2>2, <2>3, <2>4
  <1> QED BY <1>3, <1>4 DEF Next

\* The metrics tell the truth: what counts as a measured success was committed
\* in the measurement interval, and once unless ambiguous commits are retried.
THEOREM MetricsTrue == Spec => []MeasuredCommits
  <1>1. Init => ReportInv
    BY NoTxType, NothingReported DEF Init, ReportInv
  <1>2. TypeInv /\ CommitInv /\ ReportInv => MeasuredCommits
    <2> SUFFICES ASSUME TypeInv, CommitInv, ReportInv, NEW t \in Terminal
                 PROVE
      /\ Len(tx[t].outcomes) <= 1
      /\ \A i \in DOMAIN tx[t].outcomes :
           LET o == tx[t].outcomes[i] IN
             /\ o.kind = "aborted" => RetryAmbiguousCommit \/ tx[t].commits = 0
             /\ o.kind = "ok" /\ o.measured =>
                  /\ tx[t].commits > 0
                  /\ RetryAmbiguousCommit \/ tx[t].commits = 1
                  /\ MeasurementStart <= tx[t].commitAt /\ tx[t].commitAt <= MeasurementEnd
      BY DEF MeasuredCommits
    <2>1. tx[t].commits \in Nat
      BY DEF TypeInv, TypeOK
    <2>2. ReportOK(t) /\ (~RetryAmbiguousCommit => tx[t].commits <= 1)
      BY DEF ReportInv, CommitInv, CommitOK
    <2> QED BY <2>1, <2>2 DEF ReportOK
  <1> QED BY <1>1, <1>2, RunInvHolds, CommitInit, TypeInvInit, TypeInvStep, CommitStep,
             ReportStep, PTL DEF Spec
==============================================================================
