------------------------------- MODULE Worker -------------------------------
(***************************************************************************)
(* A benchmark worker: the terminals (tpcc/harness/terminal.cpp), the      *)
(* phase controller (runtime/phase_controller.h), the runner's main thread *)
(* (dbms/pgsql/runner.cpp, harness/run_loop.cpp) and its exit code.        *)
(*                                                                         *)
(* The scheduler appears as the InflightGate that TaskQueue implements, and *)
(* as the freedom to suspend a terminal for any time between two steps; a  *)
(* step of a terminal is what it does between two suspensions, split where *)
(* it reads the published phase twice.  The DBMS appears as the outcomes   *)
(* an adapter reports for an attempt.  now is the wall clock of the host.  *)
(*                                                                         *)
(* A definition FaultX is a plausible bug in X.  No specification uses it:  *)
(* it replaces X to show that a property notices the difference.           *)
(***************************************************************************)
EXTENDS Naturals, Sequences, FiniteSets

CONSTANTS
  Terminal,             \* terminals of this worker
  MaxInflight,          \* max_inflight
  RetryMaxAttempts,     \* attempts per business transaction
  RetryAmbiguousCommit, \* BOOLEAN: retry.ambiguous_commit
  NoDelays,             \* BOOLEAN: no keying and think time
  HasStartAt,           \* BOOLEAN: --start-at given
  StartAt,              \* its instant; without it, latest instant of the start
  RampUp, Measurement, TransactionDrain,  \* phase durations
  Inputs,               \* logical inputs a workflow may generate
  NoInputs              \* FixedInputs is null

ASSUME InflightAssumption == MaxInflight \in Nat \ {0}
ASSUME AttemptsAssumption == RetryMaxAttempts \in Nat \ {0}
ASSUME PolicyAssumption ==
  /\ RetryAmbiguousCommit \in BOOLEAN
  /\ NoDelays \in BOOLEAN
  /\ HasStartAt \in BOOLEAN
ASSUME ScheduleAssumption ==
  /\ StartAt \in Nat /\ RampUp \in Nat
  /\ Measurement \in Nat /\ TransactionDrain \in Nat
ASSUME InputsAssumption == NoInputs \notin Inputs

VARIABLES
  now,        \* system_clock
  phase,      \* Phase_, published by the main thread
  rampStart,  \* Schedule_.RampStart once the schedule is set
  stop,       \* the global interrupt source
  error,      \* the global error variable
  main,       \* where the main thread is in RunSync
  tickAt,     \* wallNow of the iteration of the drain loop being executed
  exitCode,   \* of the process; 2 while it runs
  pc,         \* where each terminal is in TTerminal::Run
  tx,         \* the business transaction each terminal is executing
  holding,    \* terminals between IncInflight and DecInflight
  signalled,  \* history: SIGINT or SIGTERM arrived
  integrity   \* history: an integrity error was "met" (a statement or a commit
              \* reported it), "handled" (a workflow or a terminal acted on it)

mainVars == <<phase, rampStart, stop, error, main, tickAt, exitCode>>
vars == <<now, mainVars, pc, tx, holding, signalled, integrity>>

Phase == {"Prepare", "Ramp", "Measure", "Drain", "Stop"}
MainLabel == {"prepared", "waiting", "loop", "drain", "stopping", "exited"}
\* "ended": the workflow's future is complete, the terminal not yet resumed.
PcLabel == {"loop", "refused", "keying", "queue", "admitted", "session", "poll",
            "begin", "work", "ended", "backoff", "finish", "think", "done"}
EErrorClass == {"RetryableAbort", "NotCommitted", "AmbiguousCommit", "Permanent",
                "Integrity", "Cancelled"}
\* What co_await of the workflow yields: true, false, TUserAbortedException or
\* an error of one of the classes.
Result == EErrorClass \cup {"none", "ok", "false", "aborted"}
Outcome == [kind : {"ok", "failed", "aborted"}, measured : BOOLEAN]

\* The state of TTerminal::Run that belongs to one business transaction; used,
\* commits, commitAt and outcomes are its history.
NoTx == [start |-> 0, attempt |-> 0, inputs |-> NoInputs, result |-> "none",
         fatal |-> FALSE, used |-> {}, commits |-> 0, commitAt |-> 0,
         outcomes |-> <<>>]

MeasurementStart == rampStart + RampUp
MeasurementEnd   == MeasurementStart + Measurement
DrainDeadline    == MeasurementEnd + TransactionDrain

TypeOK ==
  /\ now \in Nat
  /\ phase \in Phase
  /\ rampStart \in Nat
  /\ stop \in BOOLEAN
  /\ error \in BOOLEAN
  /\ main \in MainLabel
  /\ tickAt \in Nat
  /\ exitCode \in 0 .. 2
  /\ pc \in [Terminal -> PcLabel]
  /\ tx \in [Terminal -> [start : Nat, attempt : 0 .. RetryMaxAttempts - 1,
                          inputs : Inputs \cup {NoInputs}, result : Result,
                          fatal : BOOLEAN, used : SUBSET Inputs,
                          commits : Nat, commitAt : Nat, outcomes : Seq(Outcome)]]
  /\ holding \in SUBSET Terminal
  /\ signalled \in BOOLEAN
  /\ integrity \in {"none", "met", "handled"}

\* Terminals started, phase Prepare, the main thread about to look at the clock.
Init ==
  /\ now = 0
  /\ phase = "Prepare"
  /\ rampStart = 0
  /\ stop = FALSE
  /\ error = FALSE
  /\ main = "prepared"
  /\ tickAt = 0
  /\ exitCode = 2
  /\ pc = [t \in Terminal |-> "loop"]
  /\ tx = [t \in Terminal |-> NoTx]
  /\ holding = {}
  /\ signalled = FALSE
  /\ integrity = "none"

Gate == INSTANCE InflightGate WITH Client <- Terminal, Slots <- MaxInflight

------------------------------------------------------------------------------
(* The phase controller and the retry policy.                                *)

FaultMayAdmit == phase \in {"Ramp", "Measure"}
MayAdmit == phase \in {"Ramp", "Measure"} /\ now < MeasurementEnd

\* TPC-C 5.4.2: response time starts and ends inside the measurement interval.
FaultCompletelyWithinMeasurement(start, end) == start >= MeasurementStart /\ end >= start
CompletelyWithinMeasurement(start, end) ==
  start >= MeasurementStart /\ end <= MeasurementEnd /\ end >= start

\* The phase that TPhaseController::Tick publishes at wall-clock time w.
Tick(w) ==
  CASE phase \in {"Ramp", "Measure"} /\ w >= MeasurementEnd -> "Drain"
    [] phase = "Ramp" /\ MeasurementStart <= w /\ w < MeasurementEnd -> "Measure"
    [] OTHER -> phase

MayBlindRetry(cls) == cls \in {"RetryableAbort", "NotCommitted"}

FaultShouldRetryClass(cls) == MayBlindRetry(cls) \/ cls = "AmbiguousCommit"
ShouldRetryClass(cls) ==
  MayBlindRetry(cls) \/ (cls = "AmbiguousCommit" /\ RetryAmbiguousCommit)

FaultAttemptsRemain(t) == tx[t].attempt < RetryMaxAttempts
AttemptsRemain(t) == tx[t].attempt + 1 < RetryMaxAttempts

\* TransactionsInflight: workflow coroutines between construction and
\* destruction of their TTransactionInflightGuard.
TransactionsInflight == Cardinality({t \in Terminal : pc[t] = "work"})

FaultRequestStopWithError == stop' = TRUE /\ UNCHANGED error
RequestStopWithError == stop' = TRUE /\ error' = TRUE

\* The scheduler may resume terminal t at this point.
At(t, label) == pc[t] = label /\ main # "exited"
Goto(t, label) == pc' = [pc EXCEPT ![t] = label]

\* recordOk, recordFailed, recordUserAborted: always into the progress counters,
\* into the measurement metrics only when the interval allows it.
Record(t, kind) ==
  tx' = [tx EXCEPT ![t].outcomes = Append(@,
           [kind |-> kind,
            measured |-> CompletelyWithinMeasurement(tx[t].start, now)])]

------------------------------------------------------------------------------
(* TTerminal::Run.                                                           *)

LeaveLoop(t) ==
  /\ At(t, "loop") /\ stop
  /\ Goto(t, "done")
  /\ UNCHANGED <<now, mainVars, tx, holding, signalled, integrity>>

\* Top of the loop with MayAdmit true: keying time, or straight to the gate.
ChooseTransaction(t) ==
  /\ At(t, "loop") /\ ~stop /\ MayAdmit
  /\ \/ /\ ~NoDelays
        /\ Goto(t, "keying")
        /\ UNCHANGED tx
     \/ /\ NoDelays
        /\ Goto(t, "queue")
        /\ tx' = [tx EXCEPT ![t].start = now]
  /\ UNCHANGED <<now, mainVars, holding, signalled, integrity>>

\* MayAdmit was false ...
AdmissionRefused(t) ==
  /\ At(t, "loop") /\ ~stop /\ ~MayAdmit
  /\ Goto(t, "refused")
  /\ UNCHANGED <<now, mainVars, tx, holding, signalled, integrity>>

\* ... and the phase is read a second time: sleep and retry, or leave.
WaitInPrepare(t) ==
  /\ At(t, "refused")
  /\ Goto(t, IF phase = "Prepare" THEN "loop" ELSE "done")
  /\ UNCHANGED <<now, mainVars, tx, holding, signalled, integrity>>

\* After the keying sleep: startWall is taken before the wait for a slot.
KeyingOver(t) ==
  /\ At(t, "keying")
  /\ \/ /\ stop
        /\ Goto(t, "done")
        /\ UNCHANGED tx
     \/ /\ ~stop /\ ~MayAdmit
        /\ Goto(t, "loop")
        /\ UNCHANGED tx
     \/ /\ ~stop /\ MayAdmit
        /\ Goto(t, "queue")
        /\ tx' = [tx EXCEPT ![t].start = now]
  /\ UNCHANGED <<now, mainVars, holding, signalled, integrity>>

\* TTaskHasInflight.
IncInflight(t) ==
  /\ At(t, "queue")
  /\ Gate!Acquire(t)
  /\ Goto(t, "admitted")
  /\ UNCHANGED <<now, mainVars, tx, signalled, integrity>>

\* The wait may have outlived the measurement interval: look again.
FaultTooLate(t) ==
  /\ At(t, "admitted")
  /\ stop \/ ~MayAdmit
  /\ Goto(t, "done")
  /\ UNCHANGED <<now, mainVars, tx, holding, signalled, integrity>>
TooLate(t) ==
  /\ At(t, "admitted")
  /\ stop \/ ~MayAdmit
  /\ Gate!Release(t)
  /\ Goto(t, "done")
  /\ UNCHANGED <<now, mainVars, tx, signalled, integrity>>

FaultAdmit(t) ==
  /\ At(t, "admitted")
  /\ ~stop /\ MayAdmit
  /\ Goto(t, "session")
  /\ UNCHANGED <<now, mainVars, tx, holding, signalled, integrity>>
Admit(t) ==
  /\ At(t, "admitted")
  /\ ~stop /\ MayAdmit
  /\ tx' = [tx EXCEPT ![t].inputs = NoInputs]
  /\ Goto(t, "session")
  /\ UNCHANGED <<now, mainVars, holding, signalled, integrity>>

\* WaitCreateSession resolved with a session.
SessionGranted(t) ==
  /\ At(t, "session")
  /\ Goto(t, "begin")
  /\ UNCHANGED <<now, mainVars, tx, holding, signalled, integrity>>

\* WaitCreateSession resolved with nullptr: poll again, or give up.
SessionUnavailable(t) ==
  /\ At(t, "session")
  /\ Goto(t, IF stop \/ ~MayAdmit THEN "finish" ELSE "poll")
  /\ UNCHANGED <<now, mainVars, tx, holding, signalled, integrity>>

PollOver(t) ==
  /\ At(t, "poll")
  /\ Goto(t, "session")
  /\ UNCHANGED <<now, mainVars, tx, holding, signalled, integrity>>

\* The attempt has a result for its terminal, which is not resumed yet.
Ends(t, result) == Goto(t, "ended") /\ tx' = [tx EXCEPT ![t].result = result]
Meets(cls) ==
  integrity' = IF cls = "Integrity" /\ integrity = "none" THEN "met" ELSE integrity
Handles(cls) == integrity' = IF cls = "Integrity" THEN "handled" ELSE integrity

\* WaitCreateSession or Begin completes with an exception.
BeginFails(t) ==
  /\ At(t, "session") \/ At(t, "begin")
  /\ \E cls \in EErrorClass : Ends(t, cls)
  /\ UNCHANGED <<now, mainVars, holding, signalled, integrity>>

\* Begin succeeded; the workflow starts: inflight guard, FixedTransactionInputs.
StartWorkflow(t) ==
  /\ At(t, "begin")
  /\ Goto(t, "work")
  /\ \E in \in Inputs :
       /\ tx[t].inputs = NoInputs \/ in = tx[t].inputs
       /\ tx' = [tx EXCEPT ![t] = [@ EXCEPT !.inputs = in, !.used = tx[t].used \cup {in}]]
  /\ UNCHANGED <<now, mainVars, holding, signalled, integrity>>

\* A semantic operation fails: ThrowIfRetryable throws, or FailPermanent makes
\* the workflow return false, stopping the run for an integrity error.
OperationFails(t) ==
  /\ At(t, "work")
  /\ \E cls \in EErrorClass :
       /\ Ends(t, IF MayBlindRetry(cls) \/ cls = "AmbiguousCommit" THEN cls ELSE "false")
       /\ Handles(cls)
       /\ IF cls = "Integrity" THEN RequestStopWithError ELSE UNCHANGED <<stop, error>>
  /\ UNCHANGED <<now, phase, rampStart, main, tickAt, exitCode, holding, signalled>>

\* Commit applied.  The client may not learn it: a connection lost during
\* COMMIT is AmbiguousCommit, or Permanent when libpqxx reports it as
\* in_doubt_error, which the PostgreSQL classifier does not know.
CommitApplied(t) ==
  /\ At(t, "work")
  /\ Goto(t, "ended")
  /\ \E result \in {"ok", "AmbiguousCommit", "Permanent"} :
       tx' = [tx EXCEPT ![t] =
               [@ EXCEPT !.result = result, !.commits = tx[t].commits + 1,
                         !.commitAt = now]]
  /\ UNCHANGED <<now, mainVars, holding, signalled, integrity>>

\* Commit, or the rollback of the unused-item profile, fails: any class thrown.
CommitFails(t) ==
  /\ At(t, "work")
  /\ \E cls \in EErrorClass : Ends(t, cls) /\ Meets(cls)
  /\ UNCHANGED <<now, mainVars, holding, signalled>>

\* Unused item, rollback confirmed: TUserAbortedException.
UserAborts(t) ==
  /\ At(t, "work")
  /\ Ends(t, "aborted")
  /\ UNCHANGED <<now, mainVars, holding, signalled, integrity>>

\* The terminal is resumed with true, false or TUserAbortedException.
RecordReported(t) ==
  /\ At(t, "ended") /\ tx[t].result \in {"ok", "false", "aborted"}
  /\ Record(t, IF tx[t].result = "false" THEN "failed" ELSE tx[t].result)
  /\ Goto(t, "finish")
  /\ UNCHANGED <<now, mainVars, holding, signalled, integrity>>

\* An error during shutdown, or Cancelled: nothing is recorded.
DropError(t) ==
  /\ At(t, "ended") /\ tx[t].result \in EErrorClass
  /\ stop \/ tx[t].result = "Cancelled"
  /\ Goto(t, "finish")
  /\ UNCHANGED <<now, mainVars, tx, holding, signalled, integrity>>

RetryError(t) ==
  /\ At(t, "ended") /\ tx[t].result \in EErrorClass /\ ~stop
  /\ ShouldRetryClass(tx[t].result) /\ AttemptsRemain(t)
  /\ Goto(t, "backoff")
  /\ UNCHANGED <<now, mainVars, tx, holding, signalled, integrity>>

\* Every other error is a failure; AbortsRun makes Integrity fatal.
RecordError(t) ==
  /\ At(t, "ended") /\ tx[t].result \in EErrorClass \ {"Cancelled"} /\ ~stop
  /\ ~(ShouldRetryClass(tx[t].result) /\ AttemptsRemain(t))
  /\ tx' = [tx EXCEPT ![t] = [@ EXCEPT
       !.fatal = tx[t].result = "Integrity",
       !.outcomes = Append(tx[t].outcomes,
          [kind |-> "failed",
           measured |-> CompletelyWithinMeasurement(tx[t].start, now)])]]
  /\ Goto(t, "finish")
  /\ Handles(tx[t].result)
  /\ UNCHANGED <<now, mainVars, holding, signalled>>

\* RetryDelay over, or zero (full jitter): the next attempt.
NextAttempt(t) ==
  /\ At(t, "backoff")
  /\ tx' = [tx EXCEPT ![t] = [@ EXCEPT !.attempt = tx[t].attempt + 1, !.result = "none"]]
  /\ Goto(t, "session")
  /\ UNCHANGED <<now, mainVars, holding, signalled, integrity>>

\* Stop is looked at only after a non-zero delay.
BackoffInterrupted(t) ==
  /\ At(t, "backoff") /\ stop
  /\ Goto(t, "finish")
  /\ UNCHANGED <<now, mainVars, tx, holding, signalled, integrity>>

\* DecInflight; then a fatal error stops the run, or think time follows.
Finish(t) ==
  /\ At(t, "finish")
  /\ Gate!Release(t)
  /\ tx' = [tx EXCEPT ![t] = [NoTx EXCEPT !.inputs = tx[t].inputs]]
  /\ \/ /\ tx[t].fatal
        /\ RequestStopWithError
        /\ Goto(t, "done")
     \/ /\ ~tx[t].fatal
        /\ Goto(t, IF ~NoDelays /\ MayAdmit THEN "think" ELSE "loop")
        /\ UNCHANGED <<stop, error>>
  /\ UNCHANGED <<now, phase, rampStart, main, tickAt, exitCode, signalled, integrity>>

ThinkOver(t) ==
  /\ At(t, "think")
  /\ Goto(t, "loop")
  /\ UNCHANGED <<now, mainVars, tx, holding, signalled, integrity>>

\* Releasing the session of a failed attempt: the pool cannot replace a broken
\* connection and stops the run.
ReplacementFails(t) ==
  /\ At(t, "ended") /\ tx[t].result \in EErrorClass
  /\ RequestStopWithError
  /\ UNCHANGED <<now, phase, rampStart, main, tickAt, exitCode, pc, tx, holding,
                 signalled, integrity>>

\* What the terminal does by itself, and what needs an answer of the adapter.
RunTerminal(t) ==
  \/ LeaveLoop(t) \/ ChooseTransaction(t) \/ AdmissionRefused(t) \/ WaitInPrepare(t)
  \/ KeyingOver(t) \/ IncInflight(t) \/ TooLate(t) \/ Admit(t) \/ PollOver(t)
  \/ RecordReported(t) \/ DropError(t) \/ RetryError(t) \/ RecordError(t)
  \/ NextAttempt(t) \/ BackoffInterrupted(t) \/ Finish(t) \/ ThinkOver(t)
Adapter(t) ==
  \/ SessionGranted(t) \/ SessionUnavailable(t) \/ BeginFails(t) \/ StartWorkflow(t)
  \/ OperationFails(t) \/ CommitApplied(t) \/ CommitFails(t) \/ UserAborts(t)
  \/ ReplacementFails(t)

------------------------------------------------------------------------------
(* The main thread, RunSync.                                                 *)

\* BuildPhaseSchedule, SetSchedule, SetPhase.
BeginRun(start) ==
  /\ rampStart' = start
  /\ phase' = IF RampUp = 0 THEN "Measure" ELSE "Ramp"
  /\ main' = "loop"

\* Terminals are started: missed --start-at, wait for it, or start now.
Prepared ==
  /\ main = "prepared"
  /\ \/ /\ HasStartAt /\ now >= StartAt
        /\ RequestStopWithError
        /\ main' = "stopping"
        /\ UNCHANGED <<phase, rampStart>>
     \/ /\ HasStartAt /\ now < StartAt
        /\ main' = "waiting"
        /\ UNCHANGED <<phase, rampStart, stop, error>>
     \/ /\ ~HasStartAt
        /\ BeginRun(now)
        /\ UNCHANGED <<stop, error>>
  /\ UNCHANGED <<now, tickAt, exitCode, pc, tx, holding, signalled, integrity>>

\* WaitUntilStartAt returns.
StartAtReached ==
  /\ main = "waiting"
  /\ \/ /\ stop
        /\ phase' = "Stop"
        /\ main' = "stopping"
        /\ UNCHANGED rampStart
     \/ /\ ~stop /\ now >= StartAt
        /\ BeginRun(StartAt)
  /\ UNCHANGED <<now, stop, error, tickAt, exitCode, pc, tx, holding, signalled,
                 integrity>>

\* Leaving RunMeasurementDrainLoop: SetPhase(Stop), request_stop.
StopTerminals == phase' = "Stop" /\ stop' = TRUE /\ main' = "stopping"

\* One iteration of RunMeasurementDrainLoop: publish the phase ...
MainTick ==
  /\ main = "loop"
  /\ \/ /\ stop
        /\ StopTerminals
        /\ UNCHANGED tickAt
     \/ /\ ~stop
        /\ phase' = Tick(now)
        /\ IF phase' \in {"Drain", "Stop"}
           THEN main' = "drain" /\ tickAt' = now
           ELSE UNCHANGED <<main, tickAt>>
        /\ UNCHANGED stop
  /\ UNCHANGED <<now, rampStart, error, exitCode, pc, tx, holding, signalled, integrity>>

FaultDrainOver == TransactionsInflight = 0
DrainOver == TransactionsInflight = 0 \/ tickAt >= DrainDeadline

\* ... and in Drain read TransactionsInflight.
MainDrain ==
  /\ main = "drain"
  /\ \/ DrainOver /\ StopTerminals
     \/ ~DrainOver /\ main' = "loop" /\ UNCHANGED <<phase, stop>>
  /\ tickAt' = 0
  /\ UNCHANGED <<now, rampStart, error, exitCode, pc, tx, holding, signalled, integrity>>

\* Join: no terminal is between two suspensions any more, the rest are dropped.
Join ==
  /\ main = "stopping"
  /\ \A t \in Terminal : pc[t] \notin {"refused", "finish"}
  /\ main' = "exited"
  /\ exitCode' = IF error THEN 1 ELSE 0
  /\ UNCHANGED <<now, phase, rampStart, stop, error, tickAt, pc, tx, holding, signalled,
                 integrity>>

\* SIGINT, SIGTERM.
InterruptHandler ==
  /\ main # "exited" /\ ~signalled
  /\ stop' = TRUE
  /\ signalled' = TRUE
  /\ UNCHANGED <<now, phase, rampStart, error, main, tickAt, exitCode, pc, tx, holding,
                 integrity>>

\* Last instant of the clock that matters: bound of the model.
LastInstant == IF main \in {"prepared", "waiting"} THEN StartAt ELSE DrainDeadline

Clock ==
  /\ main # "exited" /\ now < LastInstant
  /\ now' = now + 1
  /\ UNCHANGED <<mainVars, pc, tx, holding, signalled, integrity>>

Main == Prepared \/ StartAtReached \/ MainTick \/ MainDrain \/ Join

Next ==
  \/ \E t \in Terminal : RunTerminal(t) \/ Adapter(t)
  \/ Main \/ InterruptHandler \/ Clock

\* The scheduler runs the terminals, the main thread runs and the clock
\* advances; no assumption is made about the DBMS.
Fairness ==
  /\ \A t \in Terminal : WF_vars(RunTerminal(t))
  /\ WF_vars(Main)
  /\ WF_vars(Clock)

Spec == Init /\ [][Next]_vars
FairSpec == Spec /\ Fairness

------------------------------------------------------------------------------
(* Properties.                                                               *)

InTransaction == {"session", "poll", "begin", "work", "ended", "backoff", "finish"}

\* Admission window: a business transaction starts only between --start-at (or
\* the start of the run) and MeasurementEnd, however late Tick publishes Drain
\* and however long the terminal waited for keying time and for a slot.
AdmissionWindow ==
  [][\A t \in Terminal :
       pc[t] = "admitted" /\ pc'[t] = "session" =>
         /\ main \in {"loop", "drain", "stopping"}
         /\ rampStart <= now /\ now < MeasurementEnd]_vars

\* Every path out of a business transaction releases its slot, and nothing is
\* executed without one: a slot is held exactly from IncInflight to DecInflight.
SlotDiscipline ==
  holding = {t \in Terminal : pc[t] \in InTransaction \cup {"admitted"}}

\* No blind retry: unless retry.ambiguous_commit is set, a business transaction
\* is applied to the database at most once, whatever the attempts reported.
AppliedOnce == RetryAmbiguousCommit \/ \A t \in Terminal : tx[t].commits <= 1

\* The metrics tell the truth: a business transaction is reported at most once,
\* and one counted OK in the measurement was committed inside the measurement
\* interval, although the decision is taken from the clock when the terminal is
\* resumed.  Unless retry.ambiguous_commit is set it was committed exactly once,
\* and one reported as rolled back was not committed at all.
MeasuredCommits ==
  \A t \in Terminal :
    /\ Len(tx[t].outcomes) <= 1
    /\ \A i \in DOMAIN tx[t].outcomes :
         LET o == tx[t].outcomes[i] IN
           /\ o.kind = "aborted" => RetryAmbiguousCommit \/ tx[t].commits = 0
           /\ o.kind = "ok" /\ o.measured =>
                /\ tx[t].commits > 0
                /\ RetryAmbiguousCommit \/ tx[t].commits = 1
                /\ MeasurementStart <= tx[t].commitAt /\ tx[t].commitAt <= MeasurementEnd

\* Logical inputs are generated once per business transaction: every attempt
\* uses the same, and none uses those of an earlier transaction.
InputsFixed ==
  \A t \in Terminal :
    pc[t] \in InTransaction =>
      /\ Cardinality(tx[t].used) <= 1
      /\ tx[t].inputs # NoInputs => tx[t].used = {tx[t].inputs}

\* Exit code 0 means that somebody interrupted the run or that it was stopped
\* after the end of its measurement interval (it did not miss --start-at, and no
\* failed replacement of a connection cut it short), and that no integrity
\* error was handled: the flag that a terminal raises only after DecInflight is
\* raised before Join lets the exit code be read.  It does not say that none was
\* met: see IntegrityFailsRun.
CleanExit ==
  exitCode = 0 =>
    /\ signalled \/ (MeasurementEnd <= now /\ phase = "Stop")
    /\ integrity # "handled"

\* The run ends: not even a DBMS that does not answer keeps the drain loop going
\* past its deadline.  (CancelAll then ends the calls the pool waits for.)
RunTerminates == <>(main = "exited")

\* "Only Prepare waits for ramp_start. Past MeasurementEnd (absolute), Drain, or
\* Stop must exit": a terminal leaves a run that nobody stopped only then.
TerminalsStay ==
  \A t \in Terminal :
    pc[t] = "done" /\ ~stop => phase \in {"Drain", "Stop"} \/ now >= MeasurementEnd

\* "integrity: Fail the run": a run that ended by itself and in which a statement
\* or a commit met an integrity error does not exit with 0.
IntegrityFailsRun == exitCode = 0 /\ ~signalled => integrity = "none"
==============================================================================
