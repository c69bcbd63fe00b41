----------------------------- MODULE ControlHost -----------------------------
(***************************************************************************)
(* The mind-tpcc commands of one control host, run concurrently by several *)
(* operators against one state directory: how a command finds its run, the *)
(* two lock files that serialise commands, the run directory with its      *)
(* run-config.json, profile.sha256 and run-state.json, and the pipeline of *)
(* stages, each of which loads the run state, changes it and saves it.     *)
(*                                                                         *)
(* A command may be killed at any point: its lock files and whatever it    *)
(* has written stay.  Nothing in the code removes a lock file left behind; *)
(* an operator does, once the command that made it is dead.                *)
(*                                                                         *)
(* Source: src/mind/internal/state/state.go,                               *)
(* src/mind/internal/cli/cli.go and                                        *)
(* src/mind/internal/orchestrator/orchestrator.go.                         *)
(*                                                                         *)
(* A profile stands for the bytes of a profile file together with the      *)
(* overrides of the command line: a run is continued, and its existing     *)
(* configuration accepted, only when both agree with the run's own.  (drop *)
(* and cleanup compare the bytes alone; a run they take although its       *)
(* overrides differ is not modelled.)  Two profiles may carry the same     *)
(* metadata.name and then share a lock.                                    *)
(***************************************************************************)
EXTENDS RunState, Sequences, FiniteSets

CONSTANTS
    Invocations,   \* the command invocations of a behaviour, each used once
    Requests,      \* the command lines they may be: command, profile, the value
                   \* of --run-id (NoRun when omitted), steps `run` is to skip
    Profiles,      \* profile contents, see above
    NameOf,        \* [Profiles -> names]: metadata.name
    RunIds,        \* run identifiers
    IdsOf,         \* [names -> Seq(RunIds)]: the ids uniqueRunID tries, in order
    FailFast,      \* checks.fail_fast of the profile
    MaxLive,       \* bound: how many commands are alive at a time
    NoRun, NoProfile, NoLock

Names == {NameOf[p] : p \in Profiles}
Steps == {"deploy", "schema", "load", "indexes", "check_after_import", "test",
          "check_after_test", "collect", "consolidate"}
RecordedCommands == {"cleanup", "drop"}
\* consolidate_force is consolidate --force.
ConsolidateCommands == {"consolidate", "consolidate_force"}
AllCommands == {"plan", "schema", "load", "indexes", "check", "debug", "test",
                "collect", "stop", "run"} \cup RecordedCommands \cup ConsolidateCommands

ASSUME NamesAssumption == NameOf \in [Profiles -> Names]
ASSUME IdsAssumption == IdsOf \in [Names -> Seq(RunIds)]
ASSUME NullsAssumption ==
    /\ NoRun \notin RunIds /\ NoProfile \notin Profiles
    /\ NoLock \notin [owner : RunIds, by : Invocations]
ASSUME RequestsAssumption ==
    Requests \subseteq [cmd : AllCommands, profile : Profiles,
                        explicit : RunIds \cup {NoRun}, skip : SUBSET Steps]
ASSUME BoundsAssumption ==
    /\ FailFast \in BOOLEAN
    /\ MaxLive \in Nat

VARIABLES
    dir,          \* RunIds -> the run's directories on the control host
    recent,       \* run ids with a directory, oldest UpdatedAt first
    profileLock,  \* Names -> lock file: NoLock or its text and its creator
    runLock,      \* RunIds -> lock file
    inv           \* Invocations -> where the command is and what it holds

vars == <<dir, recent, profileLock, runLock, inv>>

AbsentDir == [made |-> FALSE, config |-> NoProfile, sha |-> NoProfile,
              state |-> "none", skipped |-> {}, collected |-> FALSE]

Idle == [pc |-> "new", cmd |-> "plan", profile |-> NoProfile,
         skip |-> {}, run |-> NoRun, ip |-> 1,
         seen |-> [state |-> "planned", skipped |-> {}]]

Init ==
    /\ dir = [r \in RunIds |-> AbsentDir]
    /\ recent = <<>>
    /\ profileLock = [n \in Names |-> NoLock]
    /\ runLock = [r \in RunIds |-> NoLock]
    /\ inv = [i \in Invocations |-> Idle]

-----------------------------------------------------------------------------
(* The store.                                                              *)

\* Load: a missing run-state.json reads as a planned run.
Load(r) == IF dir[r].state = "none"
           THEN [state |-> "planned", skipped |-> {}]
           ELSE [state |-> dir[r].state, skipped |-> dir[r].skipped]

\* recent without a run, which it lists at most once.
Without(r) ==
    IF \E k \in DOMAIN recent : recent[k] = r
    THEN LET k == CHOOSE k \in DOMAIN recent : recent[k] = r
         IN  SubSeq(recent, 1, k - 1) \o SubSeq(recent, k + 1, Len(recent))
    ELSE recent

\* UpdatedAt moves a run behind every other one.
Touched(r) == Append(Without(r), r)

\* Save renames a complete file into place and stamps UpdatedAt.
Save(r, file) ==
    /\ dir' = [dir EXCEPT ![r] = [@ EXCEPT !.made = TRUE, !.state = file.state,
                                           !.skipped = file.skipped]]
    /\ recent' = Touched(r)

Newest(s) == IF s = <<>> THEN NoRun ELSE s[Len(s)]

LatestRunID == Newest(recent)

LatestContinuableRunID(p) ==
    LET r == LatestRunID IN
    IF r # NoRun /\ ~IsTerminal(Load(r).state) /\ dir[r].sha = p
    THEN r ELSE NoRun

LatestCleanupRunID(p) ==
    Newest(SelectSeq(recent, LAMBDA r : dir[r].sha = p /\ dir[r].config # NoProfile))

UniqueRunID(p) ==
    Newest(LET free == SelectSeq(IdsOf[NameOf[p]], LAMBDA r : ~dir[r].made)
           IN  SubSeq(free, 1, IF free = <<>> THEN 0 ELSE 1))

\* consolidate --force accepts a profile edited since the run was made, as long
\* as it still names the same database, hosts and directories; the name of the
\* profile stands for all that is compared.
VerifyConsolidateIdentity(r, p) ==
    /\ dir[r].config # NoProfile /\ dir[r].sha # NoProfile
    /\ NameOf[dir[r].config] = NameOf[p]

LatestForceConsolidateRunID(p) ==
    LET r == Newest(SelectSeq(recent, LAMBDA x : VerifyConsolidateIdentity(x, p)))
    IN  IF r # NoRun /\ IsTerminal(Load(r).state) THEN NoRun ELSE r

VerifyRunProfileSHA(r, p) == dir[r].config # NoProfile /\ dir[r].sha = p

-----------------------------------------------------------------------------
(* What each command does with its run, as a sequence of operations:       *)
(*   move    Transition whose error ends the command                       *)
(*   try     Transition whose error is ignored; a step of the test stage   *)
(*           that may also come too late and be passed over                *)
(*   upsert  UpsertProcess, or the start_at that test records              *)
(*   skip    RecordSkip                                                    *)
(*   guard   a phase guard that reads the state and may refuse             *)
(*   work    everything done on the hosts: may fail or be interrupted      *)
(*   pull    collectArtifacts, which writes collection-manifest.json       *)
(*   remove  removal of the run's local directories                        *)

Op(op, to) == [op |-> op, to |-> to, step |-> "stage"]
Launch == <<Op("upsert", "none"), Op("work", "none")>>

CollectOps == <<Op("move", "collecting"), Op("pull", "none")>>
ConsolidateOps == <<Op("move", "consolidating"), Op("work", "none")>>
TestOps ==
    <<Op("move", "preparing"), Op("upsert", "none"), Op("try", "arming"),
      Op("try", "ramping"), Op("try", "measuring"), Op("work", "none"),
      Op("move", "draining")>>

StageOps(cmd) ==
    CASE cmd = "plan" -> <<>>
      [] cmd = "schema" -> <<Op("move", "schema")>> \o Launch
      [] cmd = "load" -> <<Op("move", "loading")>> \o Launch
      [] cmd = "indexes" -> <<Op("move", "indexing")>> \o Launch
      [] cmd = "check" -> <<Op("guard", "check")>> \o Launch
      [] cmd = "debug" -> <<Op("guard", "debug")>> \o Launch
      [] cmd = "test" -> TestOps
      [] cmd = "collect" -> CollectOps
      [] cmd \in ConsolidateCommands ->
            <<Op("guard", "consolidate")>> \o CollectOps \o ConsolidateOps
      [] cmd = "stop" -> <<Op("move", "stopping"), Op("work", "none")>>
      [] cmd \in {"drop", "drop_materialized"} -> Launch
      [] cmd = "cleanup" -> <<Op("work", "none"), Op("remove", "none")>>

CheckSteps == {"check_after_import", "check_after_test"}

\* One step of `run`: its operations, or the record that it was skipped.
PipelineStep(name, ops, skip) ==
    LET body == IF name \in skip THEN <<Op("skip", name)>> ELSE ops
    IN  [k \in DOMAIN body |-> [body[k] EXCEPT !.step = name]]

PipelineOps(skip) ==
    PipelineStep("deploy", <<Op("work", "none")>>, skip)
    \o PipelineStep("schema", StageOps("schema"), skip)
    \o PipelineStep("load", StageOps("load"), skip)
    \o PipelineStep("indexes", StageOps("indexes"), skip)
    \o PipelineStep("check_after_import", StageOps("check"), skip)
    \o PipelineStep("test", StageOps("test"), skip)
    \o PipelineStep("check_after_test", StageOps("check"), skip)
    \o PipelineStep("collect", CollectOps, skip)
    \o PipelineStep("consolidate", ConsolidateOps, skip)
    \o PipelineStep("completed", <<Op("move", "completed")>>, skip)

OpsOf(c) == IF c.cmd = "run" THEN PipelineOps(c.skip) ELSE StageOps(c.cmd)

AtOp(c, kinds) ==
    c.pc = "body" /\ c.ip <= Len(OpsOf(c)) /\ OpsOf(c)[c.ip].op \in kinds

-----------------------------------------------------------------------------
(* The commands.                                                           *)

Goto(i, pc) == inv' = [inv EXCEPT ![i].pc = pc]
\* The process is gone, and with it all it knew.
Exit(i) == inv' = [inv EXCEPT ![i] = [Idle EXCEPT !.pc = "done"]]
NextOp(i) == inv' = [inv EXCEPT ![i].pc = "body", ![i].ip = @ + 1,
                                ![i].seen = Idle.seen]

\* An error ends a command.  `run` first records it with Fail, except for a
\* failed check that checks.fail_fast does not make fatal, after which it goes
\* on with the next step, and for the final move to completed.
Failed(i) ==
    LET c == inv[i]
        ops == OpsOf(c)
        step == ops[c.ip].step
    IN  IF c.cmd = "run" /\ step \in CheckSteps /\ ~FailFast
        THEN inv' = [inv EXCEPT ![i].ip =
                 @ + Cardinality({k \in c.ip..Len(ops) : ops[k].step = step})]
        ELSE Goto(i, IF c.cmd = "run" /\ step # "completed" THEN "fload" ELSE "unlockRun")

Started(i, q, r, pc) ==
    inv' = [inv EXCEPT ![i] = [Idle EXCEPT !.cmd = q.cmd, !.profile = q.profile,
                                           !.skip = q.skip, !.run = r, !.pc = pc]]

\* The id is chosen before any lock is taken: --run-id, else the latest run if
\* it can be continued, else a new one.
ChosenRunID(q) ==
    IF q.explicit # NoRun THEN q.explicit
    ELSE IF LatestContinuableRunID(q.profile) # NoRun
    THEN LatestContinuableRunID(q.profile)
    ELSE UniqueRunID(q.profile)

\* withMaterializedProfileLock and Run.
ResolveRunID(i, q) ==
    /\ q.cmd \notin ConsolidateCommands \cup RecordedCommands
    /\ IF ChosenRunID(q) \in RunIds
       THEN Started(i, q, ChosenRunID(q), "lockProfile")
       ELSE Exit(i)

\* withConsolidateLock: only a recorded run that has finished its test, and
\* only the run lock.
ResolveConsolidateRunID(i, q) ==
    LET force == q.cmd = "consolidate_force"
        r == IF q.explicit # NoRun THEN q.explicit
             ELSE IF force THEN LatestForceConsolidateRunID(q.profile)
             ELSE LatestContinuableRunID(q.profile)
    IN
    /\ q.cmd \in ConsolidateCommands
    /\ IF /\ r \in RunIds /\ dir[r].state # "none" /\ ConsolidateAllowed(Load(r).state)
          /\ force => VerifyConsolidateIdentity(r, q.profile)
       THEN Started(i, q, r, "lockRun")
       ELSE Exit(i)

\* withRecordedRun: cleanup and drop use a run that exists.  Without one, drop
\* falls back to materializing a run the way schema does ("drop_materialized").
ResolveRecordedRunID(i, q) ==
    LET r == IF q.explicit # NoRun THEN q.explicit
             ELSE LatestCleanupRunID(q.profile)
        none == r \notin RunIds \/ dir[r].config = NoProfile
        fresh == ChosenRunID(q)
    IN
    /\ q.cmd \in RecordedCommands
    /\ IF ~none /\ VerifyRunProfileSHA(r, q.profile)
       THEN Started(i, q, r, "lockProfile")
       ELSE IF none /\ q.cmd = "drop" /\ fresh \in RunIds
       THEN Started(i, [q EXCEPT !.cmd = "drop_materialized"], fresh, "lockProfile")
       ELSE Exit(i)

\* acquireLockFile creates the file with O_EXCL and writes the run id into it.
LockFile(i) == [owner |-> inv[i].run, by |-> i]

AcquireProfileLock(i) ==
    LET n == NameOf[inv[i].profile] IN
    /\ inv[i].pc = "lockProfile"
    /\ IF profileLock[n] = NoLock
       THEN /\ profileLock' = [profileLock EXCEPT ![n] = LockFile(i)]
            /\ Goto(i, "lockRun")
       ELSE /\ Exit(i)
            /\ UNCHANGED profileLock
    /\ UNCHANGED <<dir, recent, runLock>>

FaultAcquireRunLock(i) ==
    LET r == inv[i].run IN
    /\ inv[i].pc = "lockRun"
    /\ IF runLock[r] = NoLock
       THEN /\ runLock' = [runLock EXCEPT ![r] = LockFile(i)]
            /\ Goto(i, "config")
       ELSE /\ IF inv[i].cmd \in ConsolidateCommands THEN Exit(i) ELSE Goto(i, "unlockRun")
            /\ UNCHANGED runLock
    /\ UNCHANGED <<dir, recent, profileLock>>

FaultAcquireRunLockOpen(i) ==
    LET r == inv[i].run IN
    /\ inv[i].pc = "lockRun"
    /\ runLock' = [runLock EXCEPT ![r] = LockFile(i)]
    /\ Goto(i, "config")
    /\ UNCHANGED <<dir, recent, profileLock>>

FaultAcquireRunLockLeak(i) ==
    LET r == inv[i].run IN
    /\ inv[i].pc = "lockRun"
    /\ IF runLock[r] = NoLock
       THEN /\ runLock' = [runLock EXCEPT ![r] = LockFile(i)]
            /\ Goto(i, "config")
       ELSE /\ Exit(i)
            /\ UNCHANGED runLock
    /\ UNCHANGED <<dir, recent, profileLock>>

\* When the run lock is taken the profile lock is given back.
AcquireRunLock(i) ==
    LET r == inv[i].run IN
    /\ inv[i].pc = "lockRun"
    /\ IF runLock[r] = NoLock
       THEN /\ runLock' = [runLock EXCEPT ![r] = LockFile(i)]
            /\ Goto(i, "config")
       ELSE /\ IF inv[i].cmd \in ConsolidateCommands THEN Exit(i) ELSE Goto(i, "unlockProfile")
            /\ UNCHANGED runLock
    /\ UNCHANGED <<dir, recent, profileLock>>

FaultMaterialize(i) ==
    LET r == inv[i].run
        p == inv[i].profile
    IN
    /\ inv[i].pc = "config"
    /\ inv[i].cmd # "consolidate_force"
    /\ IF dir[r].config = NoProfile
       THEN IF inv[i].cmd \in RecordedCommands
            THEN /\ Goto(i, "unlockRun")
                 /\ UNCHANGED <<dir, recent>>
            ELSE /\ dir' = [dir EXCEPT ![r] = [@ EXCEPT !.made = TRUE, !.config = p]]
                 /\ recent' = IF dir[r].made THEN recent ELSE Touched(r)
                 /\ Goto(i, "sha")
       ELSE /\ Goto(i, IF dir[r].sha \notin {p, NoProfile} THEN "unlockRun"
                       ELSE IF inv[i].cmd \in RecordedCommands THEN "body"
                       ELSE "mload")
            /\ UNCHANGED <<dir, recent>>
    /\ UNCHANGED <<profileLock, runLock>>

\* Materialize, first half: an existing run-config.json must carry the sha256
\* of this profile; otherwise the configuration is built and written, and then
\* profile.sha256.  Cleanup and drop only verify.
Materialize(i) ==
    LET r == inv[i].run
        p == inv[i].profile
    IN
    /\ inv[i].pc = "config"
    /\ inv[i].cmd # "consolidate_force"
    /\ IF dir[r].config = NoProfile
       THEN IF inv[i].cmd \in RecordedCommands
            THEN /\ Goto(i, "unlockRun")
                 /\ UNCHANGED <<dir, recent>>
            ELSE /\ dir' = [dir EXCEPT ![r] = [@ EXCEPT !.made = TRUE, !.config = p]]
                 /\ recent' = IF dir[r].made THEN recent ELSE Touched(r)
                 /\ Goto(i, "sha")
       ELSE /\ Goto(i, IF dir[r].sha # p THEN "unlockRun"
                       ELSE IF inv[i].cmd \in RecordedCommands THEN "body"
                       ELSE "mload")
            /\ UNCHANGED <<dir, recent>>
    /\ UNCHANGED <<profileLock, runLock>>

\* consolidate --force reads the run as it is and writes none of its files.
LoadConsolidateContext(i) ==
    /\ inv[i].pc = "config"
    /\ inv[i].cmd = "consolidate_force"
    /\ Goto(i, IF VerifyConsolidateIdentity(inv[i].run, inv[i].profile)
               THEN "body" ELSE "unlockRun")
    /\ UNCHANGED <<dir, recent, profileLock, runLock>>

\* profile.sha256 and, right after it, the redacted copy of the profile, as one
\* step: of a run killed between the two, consolidate --force accepts here what
\* the code refuses for want of the copy.
WriteProfileSHA(i) ==
    /\ inv[i].pc = "sha"
    /\ dir' = [dir EXCEPT ![inv[i].run].sha = inv[i].profile]
    /\ Goto(i, "mload")
    /\ UNCHANGED <<recent, profileLock, runLock>>

\* Every update of run-state.json is a Load and, later, a Save of the whole
\* file.  The second half of Materialize leaves the state as it is.
LoadForUpdate(i, from, to) ==
    /\ inv[i].pc = from
    /\ inv' = [inv EXCEPT ![i].pc = to, ![i].seen = Load(inv[i].run)]
    /\ UNCHANGED <<dir, recent, profileLock, runLock>>

MaterializeLoad(i) == LoadForUpdate(i, "mload", "msave")

MaterializeSave(i) ==
    /\ inv[i].pc = "msave"
    /\ Save(inv[i].run, inv[i].seen)
    /\ inv' = [inv EXCEPT ![i].pc = "body", ![i].seen = Idle.seen]
    /\ UNCHANGED <<profileLock, runLock>>

\* Transition, UpsertProcess, RecordSkip: the load and the validation ...
BeginUpdate(i) ==
    LET c == inv[i]
        op == OpsOf(c)[c.ip]
        file == Load(c.run)
        refused == op.op \in {"move", "try"} /\ ~ValidTransition(file.state, op.to)
    IN
    /\ AtOp(c, {"move", "try", "upsert", "skip"})
    /\ IF refused THEN IF op.op = "try" THEN NextOp(i) ELSE Failed(i)
       ELSE inv' = [inv EXCEPT ![i].pc = "save", ![i].seen = file]
    /\ UNCHANGED <<dir, recent, profileLock, runLock>>

FaultEndUpdate(i) ==
    LET c == inv[i]
        op == OpsOf(c)[c.ip]
    IN
    /\ c.pc = "save"
    /\ Save(c.run,
            [state |-> IF op.op # "upsert" THEN op.to ELSE c.seen.state,
             skipped |-> c.seen.skipped])
    /\ NextOp(i)
    /\ UNCHANGED <<profileLock, runLock>>

\* ... and the save.
EndUpdate(i) ==
    LET c == inv[i]
        op == OpsOf(c)[c.ip]
    IN
    /\ c.pc = "save"
    /\ Save(c.run,
            [state |-> IF op.op \in {"move", "try"} THEN op.to ELSE c.seen.state,
             skipped |-> IF op.op = "skip" THEN c.seen.skipped \cup {op.to}
                         ELSE c.seen.skipped])
    /\ NextOp(i)
    /\ UNCHANGED <<profileLock, runLock>>

\* The wall clock has already passed the moment this state stands for.
PassOver(i) ==
    /\ AtOp(inv[i], {"try"})
    /\ NextOp(i)
    /\ UNCHANGED <<dir, recent, profileLock, runLock>>

FaultGuard(i) ==
    LET c == inv[i]
        file == Load(c.run)
        what == OpsOf(c)[c.ip].to
        ok == CASE what = "check" -> CheckAllowed(file.state, file.skipped)
                [] what = "debug" -> DebugAllowed(file.state)
                [] what = "consolidate" -> dir[c.run].state # "none"
    IN
    /\ AtOp(c, {"guard"})
    /\ IF ~ok THEN Failed(i)
       ELSE inv' = [inv EXCEPT ![i].ip =
                @ + 1 + IF what = "consolidate" /\ dir[c.run].collected
                        THEN Len(CollectOps) ELSE 0]
    /\ UNCHANGED <<dir, recent, profileLock, runLock>>

\* requireCheckPhase, requireDebugPhase and, under the run lock this time,
\* refuseConsolidateWithoutTest; consolidate then collects only when there is
\* no collection manifest.
Guard(i) ==
    LET c == inv[i]
        file == Load(c.run)
        what == OpsOf(c)[c.ip].to
        ok == CASE what = "check" -> CheckAllowed(file.state, file.skipped)
                [] what = "debug" -> DebugAllowed(file.state)
                [] what = "consolidate" ->
                      dir[c.run].state # "none" /\ ConsolidateAllowed(file.state)
    IN
    /\ AtOp(c, {"guard"})
    /\ IF ~ok THEN Failed(i)
       ELSE inv' = [inv EXCEPT ![i].ip =
                @ + 1 + IF what = "consolidate" /\ dir[c.run].collected
                        THEN Len(CollectOps) ELSE 0]
    /\ UNCHANGED <<dir, recent, profileLock, runLock>>

Work(i) ==
    /\ AtOp(inv[i], {"work", "pull"})
    /\ NextOp(i)
    /\ dir' = IF AtOp(inv[i], {"pull"})
              THEN [dir EXCEPT ![inv[i].run].collected = TRUE] ELSE dir
    /\ UNCHANGED <<recent, profileLock, runLock>>

\* A host fails, a role exits with an error, a wait times out or the operator
\* interrupts the command.
WorkFails(i) ==
    /\ AtOp(inv[i], {"work", "pull"})
    /\ Failed(i)
    /\ UNCHANGED <<dir, recent, profileLock, runLock>>

\* Cleanup removes the results, then the files of the run directory in no
\* particular order, then the directory.
RemoveRun(i) ==
    LET r == inv[i].run
        d == dir[r]
    IN
    /\ AtOp(inv[i], {"remove"})
    /\ \/ d.collected /\ dir' = [dir EXCEPT ![r].collected = FALSE] /\ UNCHANGED <<recent, inv>>
       \/ /\ ~d.collected
          /\ \/ d.config # NoProfile /\ dir' = [dir EXCEPT ![r].config = NoProfile]
             \/ d.sha # NoProfile /\ dir' = [dir EXCEPT ![r].sha = NoProfile]
             \/ d.state # "none" /\ dir' = [dir EXCEPT ![r] = [@ EXCEPT !.state = "none", !.skipped = {}]]
          /\ UNCHANGED <<recent, inv>>
       \/ /\ d = [AbsentDir EXCEPT !.made = d.made]
          /\ dir' = [dir EXCEPT ![r] = AbsentDir]
          /\ recent' = Without(r)
          /\ NextOp(i)
    /\ UNCHANGED <<profileLock, runLock>>

\* Fail sets the state without asking whether the move is valid.
FailLoad(i) == LoadForUpdate(i, "fload", "fsave")

FailSave(i) ==
    /\ inv[i].pc = "fsave"
    /\ Save(inv[i].run, [inv[i].seen EXCEPT !.state = "failed"])
    /\ Goto(i, "unlockRun")
    /\ UNCHANGED <<profileLock, runLock>>

Finish(i) ==
    /\ inv[i].pc = "body"
    /\ inv[i].ip > Len(OpsOf(inv[i]))
    /\ Goto(i, "unlockRun")
    /\ UNCHANGED <<dir, recent, profileLock, runLock>>

\* releaseLockFile removes the file if its text is this run's id.
Released(lock, r) == IF lock # NoLock /\ lock.owner = r THEN NoLock ELSE lock

ReleaseRunLock(i) ==
    LET r == inv[i].run IN
    /\ inv[i].pc = "unlockRun"
    /\ runLock' = [runLock EXCEPT ![r] = Released(@, r)]
    /\ IF inv[i].cmd \in ConsolidateCommands THEN Exit(i) ELSE Goto(i, "unlockProfile")
    /\ UNCHANGED <<dir, recent, profileLock>>

ReleaseProfileLock(i) ==
    LET n == NameOf[inv[i].profile] IN
    /\ inv[i].pc = "unlockProfile"
    /\ profileLock' = [profileLock EXCEPT ![n] = Released(@, inv[i].run)]
    /\ Exit(i)
    /\ UNCHANGED <<dir, recent, runLock>>

Ended == {"new", "done", "crashed"}

\* SIGKILL, or the loss of the control host.
Crash(i) ==
    /\ inv[i].pc \notin Ended
    /\ inv' = [inv EXCEPT ![i] = [Idle EXCEPT !.pc = "crashed", !.cmd = inv[i].cmd,
                                    !.profile = inv[i].profile, !.run = inv[i].run]]
    /\ UNCHANGED <<dir, recent, profileLock, runLock>>

\* An operator deletes a lock file once the command that made it is dead.
Stale(lock) == lock # NoLock /\ inv[lock.by].pc \in Ended

RemoveStaleLock ==
    /\ \/ \E n \in Names : /\ Stale(profileLock[n])
                           /\ profileLock' = [profileLock EXCEPT ![n] = NoLock]
                           /\ UNCHANGED runLock
       \/ \E r \in RunIds : /\ Stale(runLock[r])
                            /\ runLock' = [runLock EXCEPT ![r] = NoLock]
                            /\ UNCHANGED profileLock
    /\ UNCHANGED <<dir, recent, inv>>

Begin(i) ==
    /\ inv[i].pc = "new"
    /\ Cardinality({j \in Invocations : inv[j].pc \notin Ended}) < MaxLive
    /\ \E q \in Requests : \/ ResolveRunID(i, q)
                           \/ ResolveConsolidateRunID(i, q)
                           \/ ResolveRecordedRunID(i, q)
    /\ UNCHANGED <<dir, recent, profileLock, runLock>>

Continue(i) ==
    \/ AcquireProfileLock(i) \/ AcquireRunLock(i)
    \/ Materialize(i) \/ LoadConsolidateContext(i) \/ WriteProfileSHA(i)
    \/ MaterializeLoad(i) \/ MaterializeSave(i)
    \/ BeginUpdate(i) \/ EndUpdate(i) \/ PassOver(i) \/ Guard(i)
    \/ Work(i) \/ WorkFails(i) \/ RemoveRun(i)
    \/ FailLoad(i) \/ FailSave(i) \/ Finish(i)
    \/ ReleaseRunLock(i) \/ ReleaseProfileLock(i)

Next ==
    \/ \E i \in Invocations : Begin(i) \/ Continue(i) \/ Crash(i)
    \/ RemoveStaleLock

Spec == Init /\ [][Next]_vars

-----------------------------------------------------------------------------
(* Properties.                                                             *)

Pcs == {"lockProfile", "lockRun", "config", "sha", "mload", "msave", "body",
        "save", "fload", "fsave", "unlockRun", "unlockProfile"} \cup Ended

StateFile == [state : States, skipped : SUBSET Steps]

\* Every variable has the shape the code gives it, and a command that runs
\* knows its run and its profile.
TypeOK ==
    /\ dir \in [RunIds -> [made : BOOLEAN, config : Profiles \cup {NoProfile},
                          sha : Profiles \cup {NoProfile},
                          state : States \cup {"none"}, skipped : SUBSET Steps,
                          collected : BOOLEAN]]
    /\ recent \in Seq(RunIds)
    /\ profileLock \in [Names -> [owner : RunIds, by : Invocations] \cup {NoLock}]
    /\ runLock \in [RunIds -> [owner : RunIds, by : Invocations] \cup {NoLock}]
    /\ inv \in [Invocations ->
                  [pc : Pcs, cmd : AllCommands \cup {"drop_materialized"},
                   profile : Profiles \cup {NoProfile}, skip : SUBSET Steps,
                   run : RunIds \cup {NoRun}, ip : Nat \ {0}, seen : StateFile]]
    /\ \A i \in Invocations : inv[i].pc \notin {"new", "done"} =>
          inv[i].run \in RunIds /\ inv[i].profile \in Profiles

\* A command works on its run between taking the run lock and giving it back.
WorksOnRun(i) ==
    inv[i].pc \in {"config", "sha", "mload", "msave", "body", "save",
                   "fload", "fsave", "unlockRun"}
\* Every command but consolidate holds the profile as well.
HoldsProfile(i) ==
    /\ inv[i].cmd \notin ConsolidateCommands
    /\ WorksOnRun(i) \/ inv[i].pc \in {"lockRun", "unlockProfile"}

\* No two commands are at work on the same run, and no two that may touch the
\* database on the same profile name, whatever was killed and whichever lock
\* files were left behind and removed in the meantime.
Exclusive ==
    \A i, j \in Invocations : i # j =>
       /\ WorksOnRun(i) /\ WorksOnRun(j) => inv[i].run # inv[j].run
       /\ HoldsProfile(i) /\ HoldsProfile(j) =>
             NameOf[inv[i].profile] # NameOf[inv[j].profile]

\* run-state.json is read, changed and written back without a lock of its own:
\* what a command is about to overwrite is exactly what it read, so that no
\* transition, process record or skip is lost.
UpdatesSerialized ==
    \A i \in Invocations :
       inv[i].pc \in {"msave", "save", "fsave"} => inv[i].seen = Load(inv[i].run)

\* A command that exits, by whatever path, leaves no lock file: each one there
\* is belongs to a command that still needs it or that was killed.
LocksHaveHolders ==
    /\ \A r \in RunIds : runLock[r] # NoLock =>
          LET i == runLock[r].by IN
          (WorksOnRun(i) \/ inv[i].pc = "crashed") /\ inv[i].run = r
    /\ \A n \in Names : profileLock[n] # NoLock =>
          LET i == profileLock[n].by IN
          (HoldsProfile(i) \/ inv[i].pc = "crashed") /\ NameOf[inv[i].profile] = n

\* What profile.sha256 cannot tell: a cleanup of one profile was killed after it
\* had removed run-config.json and before profile.sha256, and the command that
\* then rebuilt the run from another profile was killed between writing the two.
InterruptedRebuild(r) ==
    \E i, j \in Invocations :
       /\ inv[i].pc = "crashed" /\ inv[i].run = r /\ inv[i].profile = dir[r].sha
       /\ inv[i].cmd = "cleanup"
       /\ inv[j].pc = "crashed" /\ inv[j].run = r /\ inv[j].profile = dir[r].config
       /\ inv[j].cmd \notin RecordedCommands \cup {"consolidate_force"}

\* A stage runs only on a configuration built from its own profile (with --force:
\* from one of the same identity), even when the run was named on the command
\* line, was left half made by a command that was killed, or was removed and
\* made again after its id was resolved; the one way it can go wrong takes a
\* killed cleanup and a killed rebuild.
RunOfOneProfile ==
    \A i \in Invocations :
       inv[i].pc \in {"body", "save", "fload", "fsave"} /\ inv[i].cmd # "cleanup"
       => \/ dir[inv[i].run].config = inv[i].profile
          \/ InterruptedRebuild(inv[i].run)
          \/ /\ inv[i].cmd = "consolidate_force"
             /\ dir[inv[i].run].config # NoProfile
             /\ NameOf[dir[inv[i].run].config] = NameOf[inv[i].profile]

\* Standalone consolidate looks at the run before it takes the lock.  However
\* the run has moved by the time it has the lock, a recorded state that comes
\* before draining is never changed while consolidate is the one at work on it.
UntestedRunUnchanged ==
    [][\A i \in Invocations :
          LET r == inv[i].run IN
          inv[i].cmd \in ConsolidateCommands /\ WorksOnRun(i)
             /\ dir[r].state \in DOMAIN PipelineOrder
             /\ ~Reached(dir[r].state, "draining")
          => dir'[r].state = dir[r].state]_vars
=============================================================================
