-------------------------- MODULE ControlHostProofs --------------------------
(***************************************************************************)
(* Machine-checked proofs about the commands of a control host, for every  *)
(* number of commands, runs and profiles.                                  *)
(***************************************************************************)
EXTENDS ControlHost, SequenceTheorems, FiniteSetTheorems, TLAPS

-----------------------------------------------------------------------------
(* The inductive invariants.                                               *)

\* A command that needs a lock file has made the one that is there, and only a
\* command that locks profiles ever comes near a profile lock.
LocksHeld ==
    \A i \in Invocations :
       /\ WorksOnRun(i) => runLock[inv[i].run] = LockFile(i)
       /\ HoldsProfile(i) => profileLock[NameOf[inv[i].profile]] = LockFile(i)
       /\ inv[i].pc \in {"lockProfile", "unlockProfile"} =>
             inv[i].cmd \notin ConsolidateCommands

\* Only run records a failure, and what is being saved is an update.
UpdateOps == {"move", "try", "upsert", "skip"}
StepInv ==
    \A i \in Invocations :
       /\ inv[i].pc \in {"fload", "fsave"} => inv[i].cmd = "run"
       /\ inv[i].pc = "save" => /\ inv[i].ip <= Len(OpsOf(inv[i]))
                                /\ OpsOf(inv[i])[inv[i].ip].op \in UpdateOps

\* A command that has not come to its operations will start with the first.
StartInv ==
    \A i \in Invocations :
       inv[i].pc \in {"lockProfile", "lockRun", "config", "sha", "mload", "msave"} =>
          inv[i].ip = 1

\* Consolidate past its guard works on a run that has finished its test.
TestedInv ==
    \A i \in Invocations :
       /\ inv[i].cmd \in ConsolidateCommands
       /\ inv[i].pc \in {"body", "save"}
       /\ inv[i].ip # 1
       => ConsolidateAllowed(dir[inv[i].run].state)

\* What profile.sha256 says of the run a command is at work on.
FilePcs == {"mload", "msave", "body", "save", "fload", "fsave"}
ShaOK(i) ==
    LET d == dir[inv[i].run]
        p == inv[i].profile
    IN
    /\ inv[i].pc = "sha" =>
          d.config = p /\ inv[i].cmd \notin RecordedCommands \cup {"consolidate_force"}
    /\ inv[i].pc \in {"mload", "msave"} =>
          inv[i].cmd \notin RecordedCommands \cup {"consolidate_force"}
    /\ inv[i].pc \in FilePcs =>
          /\ inv[i].cmd = "cleanup" => d.sha \in {p, NoProfile}
          /\ inv[i].cmd = "consolidate_force" =>
                d.config # NoProfile /\ NameOf[d.config] = NameOf[p]
          /\ inv[i].cmd \notin {"cleanup", "consolidate_force"} =>
                d.config # NoProfile /\ d.sha = p
ShaInv == \A i \in Invocations : ShaOK(i)

\* A profile.sha256 without its run-config.json is what a cleanup of that
\* profile leaves while it removes the run, or when it is killed.
KilledCleanup(r) ==
    \E i \in Invocations :
       /\ inv[i].cmd = "cleanup" /\ inv[i].run = r /\ inv[i].profile = dir[r].sha
       /\ inv[i].pc = "crashed"
Removing(r) ==
    \E i \in Invocations :
       /\ inv[i].cmd = "cleanup" /\ inv[i].run = r /\ inv[i].pc = "body" /\ inv[i].ip = 2
Rebuilding(r) ==
    \E i \in Invocations : inv[i].run = r /\ inv[i].pc = "sha"

\* The two files disagree only while, or because, a rebuild is or was cut short.
FilesOK(r) ==
    /\ dir[r].config = NoProfile /\ dir[r].sha # NoProfile =>
          KilledCleanup(r) \/ Removing(r)
    /\ /\ dir[r].config # NoProfile /\ dir[r].sha # NoProfile
       /\ dir[r].config # dir[r].sha
       => InterruptedRebuild(r) \/ (Rebuilding(r) /\ KilledCleanup(r))
FilesInv == \A r \in RunIds : FilesOK(r)

-----------------------------------------------------------------------------
(* The operations of a command.                                            *)

OpKinds == {"move", "try", "upsert", "skip", "guard", "work", "pull", "remove"}
StepNames == Steps \cup {"stage", "completed"}
Targets == States \cup Steps \cup {"none", "check", "debug"}
OpSet ==
    {o \in [op : OpKinds, to : Targets, step : StepNames] :
        /\ o.op \in {"move", "try"} => o.to \in States
        /\ o.op = "skip" => o.to \in Steps}
KeepOps == {o \in OpSet : o.op # "remove"}

InvType ==
    [pc : Pcs, cmd : AllCommands \cup {"drop_materialized"},
     profile : Profiles \cup {NoProfile}, skip : SUBSET Steps,
     run : RunIds \cup {NoRun}, ip : Nat \ {0}, seen : StateFile]

\* The states that carry a place in pipelineOrder.
LEMMA PipelineStates ==
    DOMAIN PipelineOrder =
      {"planned", "deploying", "schema", "loading", "indexing", "checking_import",
       "preparing", "arming", "ramping", "measuring", "draining",
       "checking_result", "collecting", "consolidating", "completed"}
  BY DEF PipelineOrder

\* One operation, well formed; only cleanup removes.
LEMMA OpType ==
  /\ \A k \in {"upsert", "guard", "work", "pull"}, to \in Targets :
        Op(k, to) \in KeepOps
  /\ \A k \in {"move", "try"}, to \in States : Op(k, to) \in KeepOps
  /\ \A to \in Steps : Op("skip", to) \in KeepOps
  <1>1. ASSUME NEW k \in OpKinds, NEW to \in Targets
        PROVE  /\ Op(k, to) \in [op : OpKinds, to : Targets, step : StepNames]
               /\ Op(k, to).op = k /\ Op(k, to).to = to
    BY DEF Op, StepNames
  <1> QED BY <1>1 DEF KeepOps, OpSet, OpKinds, Targets

\* The operations that the stages are made of.
LEMMA NamedOps ==
  /\ Op("work", "none") \in KeepOps /\ Op("upsert", "none") \in KeepOps
  /\ Op("pull", "none") \in KeepOps
  /\ Op("guard", "check") \in KeepOps /\ Op("guard", "debug") \in KeepOps
  /\ Op("guard", "consolidate") \in KeepOps
  /\ \A to \in {"schema", "loading", "indexing", "preparing", "draining",
                "collecting", "consolidating", "stopping", "completed"} :
        Op("move", to) \in KeepOps
  /\ \A to \in {"arming", "ramping", "measuring"} : Op("try", to) \in KeepOps
  <1>1. {"none", "check", "debug", "consolidate"} \subseteq Targets
    BY DEF Targets, Steps
  <1>2. {"schema", "loading", "indexing", "preparing", "draining",
         "collecting", "consolidating", "stopping", "completed",
         "arming", "ramping", "measuring"} \subseteq States
    BY PipelineStates DEF States
  <1> QED BY <1>1, <1>2, OpType

\* Short sequences of well formed operations.
LEMMA ShortOps ==
  /\ <<>> \in Seq(KeepOps)
  /\ \A o1 \in KeepOps : <<o1>> \in Seq(KeepOps)
  /\ \A o1, o2 \in KeepOps : <<o1, o2>> \in Seq(KeepOps)
  /\ \A s, t \in Seq(KeepOps) : s \o t \in Seq(KeepOps)
  BY ConcatProperties

\* The operations of a stage are well formed.
LEMMA StageOpsType ==
  ASSUME NEW cmd \in (AllCommands \ {"run", "cleanup"}) \cup {"drop_materialized"}
  PROVE  StageOps(cmd) \in Seq(KeepOps)
  <1>1. Launch \in Seq(KeepOps)
    BY NamedOps, ShortOps DEF Launch
  <1>2. CollectOps \in Seq(KeepOps) /\ ConsolidateOps \in Seq(KeepOps)
    BY NamedOps, ShortOps DEF CollectOps, ConsolidateOps
  <1>3. TestOps \in Seq(KeepOps)
    BY NamedOps DEF TestOps
  <1>4. ASSUME NEW to \in {"schema", "loading", "indexing"}
        PROVE  <<Op("move", to)>> \o Launch \in Seq(KeepOps)
    BY NamedOps, ShortOps, <1>1
  <1>5. ASSUME NEW to \in {"check", "debug"}
        PROVE  <<Op("guard", to)>> \o Launch \in Seq(KeepOps)
    BY NamedOps, ShortOps, <1>1
  <1>6. <<Op("guard", "consolidate")>> \o CollectOps \o ConsolidateOps \in Seq(KeepOps)
    BY NamedOps, ShortOps, <1>2
  <1>7. <<Op("move", "stopping"), Op("work", "none")>> \in Seq(KeepOps)
    BY NamedOps, ShortOps
  <1> QED
    BY <1>1, <1>2, <1>3, <1>4, <1>5, <1>6, <1>7, ShortOps
    DEF StageOps, AllCommands, RecordedCommands, ConsolidateCommands

\* The operations of one step of `run` are well formed.
LEMMA PipelineStepType ==
  ASSUME NEW name \in StepNames, NEW ops \in Seq(KeepOps), NEW skip \in SUBSET Steps
  PROVE  PipelineStep(name, ops, skip) \in Seq(KeepOps)
  <1> DEFINE body == IF name \in skip THEN <<Op("skip", name)>> ELSE ops
  <1>1. body \in Seq(KeepOps)
    BY OpType, ShortOps
  <1> HIDE DEF body
  <1>2. \A k \in 1..Len(body) : [body[k] EXCEPT !.step = name] \in KeepOps
    BY <1>1 DEF KeepOps, OpSet
  <1>3. DOMAIN body = 1..Len(body) /\ Len(body) \in Nat
    BY <1>1
  <1>4. [k \in DOMAIN body |-> [body[k] EXCEPT !.step = name]] \in Seq(KeepOps)
    BY <1>2, <1>3
  <1> QED BY <1>4 DEF PipelineStep, body

\* The operations of a command are well formed.
LEMMA OpsType ==
  ASSUME NEW c \in InvType
  PROVE  /\ OpsOf(c) \in Seq(OpSet)
         /\ \A k \in Nat \ {0} : k <= Len(OpsOf(c)) => OpsOf(c)[k] \in OpSet
         /\ \A k \in Nat \ {0} : k <= Len(OpsOf(c)) /\ OpsOf(c)[k].op = "remove" =>
               c.cmd = "cleanup" /\ k = 2
  <1>1. c.skip \in SUBSET Steps /\ c.cmd \in AllCommands \cup {"drop_materialized"}
    BY DEF InvType
  <1>2. PipelineOps(c.skip) \in Seq(KeepOps)
    <2>1. /\ StageOps("schema") \in Seq(KeepOps) /\ StageOps("load") \in Seq(KeepOps)
          /\ StageOps("indexes") \in Seq(KeepOps) /\ StageOps("check") \in Seq(KeepOps)
          /\ StageOps("test") \in Seq(KeepOps)
      BY StageOpsType DEF AllCommands
    <2>2. /\ CollectOps \in Seq(KeepOps) /\ ConsolidateOps \in Seq(KeepOps)
          /\ <<Op("work", "none")>> \in Seq(KeepOps)
          /\ <<Op("move", "completed")>> \in Seq(KeepOps)
      BY NamedOps, ShortOps DEF CollectOps, ConsolidateOps
    <2>3. ASSUME NEW name \in StepNames, NEW ops \in Seq(KeepOps)
          PROVE  PipelineStep(name, ops, c.skip) \in Seq(KeepOps)
      BY <1>1, PipelineStepType
    <2>4. {"deploy", "schema", "load", "indexes", "check_after_import", "test",
           "check_after_test", "collect", "consolidate", "completed"} \subseteq StepNames
      BY DEF StepNames, Steps
    <2> QED BY <2>1, <2>2, <2>3, <2>4, ShortOps DEF PipelineOps
  <1>3. CASE c.cmd # "cleanup"
    <2>1. OpsOf(c) \in Seq(KeepOps)
      BY <1>1, <1>2, <1>3, StageOpsType DEF OpsOf
    <2> QED BY <2>1 DEF KeepOps
  <1>4. CASE c.cmd = "cleanup"
    <2>1. OpsOf(c) = <<Op("work", "none"), Op("remove", "none")>>
      BY <1>4 DEF OpsOf, StageOps, ConsolidateCommands
    <2>2. /\ Op("work", "none") \in OpSet /\ Op("remove", "none") \in OpSet
          /\ Op("work", "none").op = "work"
      BY DEF Op, OpSet, OpKinds, Targets, StepNames
    <2> QED BY <2>1, <2>2, <1>4
  <1> QED BY <1>3, <1>4

\* consolidate guards, collects and consolidates; cleanup works and removes.
LEMMA ShortCommands ==
  ASSUME NEW c \in InvType
  PROVE  /\ c.cmd \in ConsolidateCommands =>
              /\ Len(OpsOf(c)) = 5
              /\ OpsOf(c)[1] = Op("guard", "consolidate")
              /\ OpsOf(c)[2] = Op("move", "collecting")
              /\ OpsOf(c)[3] = Op("pull", "none")
              /\ OpsOf(c)[4] = Op("move", "consolidating")
              /\ OpsOf(c)[5] = Op("work", "none")
         /\ c.cmd = "cleanup" =>
              /\ Len(OpsOf(c)) = 2
              /\ OpsOf(c)[1] = Op("work", "none")
              /\ OpsOf(c)[2] = Op("remove", "none")
  <1>1. ASSUME c.cmd \in ConsolidateCommands
        PROVE  OpsOf(c) = <<Op("guard", "consolidate")>> \o CollectOps \o ConsolidateOps
    BY <1>1 DEF OpsOf, StageOps, ConsolidateCommands
  <1>2. ASSUME c.cmd = "cleanup"
        PROVE  OpsOf(c) = <<Op("work", "none"), Op("remove", "none")>>
    BY <1>2 DEF OpsOf, StageOps, ConsolidateCommands
  <1> QED BY <1>1, <1>2, NamedOps, ShortOps DEF CollectOps, ConsolidateOps

-----------------------------------------------------------------------------
(* Type correctness.                                                       *)

\* Idle commands, and those that have ended, are commands.
LEMMA IdleType ==
  /\ Idle \in InvType
  /\ [Idle EXCEPT !.pc = "done"] \in InvType
  /\ \A c \in InvType : [Idle EXCEPT !.pc = "crashed", !.cmd = c.cmd,
                             !.profile = c.profile, !.run = c.run] \in InvType
  <1>1. "planned" \in States
    BY PipelineStates DEF States
  <1>2. Idle \in InvType
    BY <1>1 DEF Idle, InvType, Pcs, Ended, AllCommands, StateFile
  <1>3. [Idle EXCEPT !.pc = "done"] \in InvType
    BY <1>2 DEF InvType, Pcs, Ended
  <1>4. ASSUME NEW c \in InvType
        PROVE  [Idle EXCEPT !.pc = "crashed", !.cmd = c.cmd,
                            !.profile = c.profile, !.run = c.run] \in InvType
    BY <1>2 DEF InvType, Pcs, Ended
  <1> QED BY <1>2, <1>3, <1>4

\* What the code reads from run-state.json.
LEMMA LoadType == ASSUME TypeOK, NEW r \in RunIds PROVE Load(r) \in StateFile
  <1>1. "planned" \in States
    BY PipelineStates DEF States
  <1> QED BY <1>1 DEF Load, TypeOK, StateFile
\* The commands as TypeOK has them.
InvOK(f) ==
    /\ f \in [Invocations -> InvType]
    /\ \A i \in Invocations : f[i].pc \notin {"new", "done"} =>
          f[i].run \in RunIds /\ f[i].profile \in Profiles
DirType ==
    [made : BOOLEAN, config : Profiles \cup {NoProfile},
     sha : Profiles \cup {NoProfile}, state : States \cup {"none"},
     skipped : SUBSET Steps, collected : BOOLEAN]
LockType == [owner : RunIds, by : Invocations] \cup {NoLock}

\* The parts of TypeOK, one command and one run at a time.
LEMMA TypeParts ==
  TypeOK <=> /\ dir \in [RunIds -> DirType] /\ recent \in Seq(RunIds)
             /\ profileLock \in [Names -> LockType]
             /\ runLock \in [RunIds -> LockType]
             /\ InvOK(inv)
  BY DEF TypeOK, DirType, LockType, InvOK, InvType

\* The same in the next state.
LEMMA TypePartsPrimed ==
  TypeOK' <=> /\ dir' \in [RunIds -> DirType] /\ recent' \in Seq(RunIds)
              /\ profileLock' \in [Names -> LockType]
              /\ runLock' \in [RunIds -> LockType]
              /\ InvOK(inv')
  BY DEF TypeOK, DirType, LockType, InvOK, InvType

\* A command that goes on, or ends, keeps its shape.
LEMMA GotoType ==
  ASSUME TypeOK, NEW i \in Invocations, inv[i].pc \notin {"new", "done"},
         NEW pc \in Pcs, Goto(i, pc)
  PROVE  InvOK(inv')
  <1>1. InvOK(inv)
    BY TypeParts
  <1> QED BY <1>1 DEF Goto, InvOK, InvType

\* A command that exits keeps its shape.
LEMMA ExitType ==
  ASSUME TypeOK, NEW i \in Invocations, Exit(i)
  PROVE  InvOK(inv') /\ inv'[i].pc = "done" /\ inv'[i].ip = 1
  <1>1. InvOK(inv)
    BY TypeParts
  <1>2. [Idle EXCEPT !.pc = "done"].pc = "done" /\ [Idle EXCEPT !.pc = "done"].ip = 1
    BY DEF Idle
  <1> QED BY <1>1, <1>2, IdleType DEF Exit, InvOK

\* So does one that moves to its next operation.
LEMMA NextOpType ==
  ASSUME TypeOK, NEW i \in Invocations, inv[i].pc \notin {"new", "done"}, NextOp(i)
  PROVE  InvOK(inv')
  <1>1. InvOK(inv)
    BY TypeParts
  <1>2. Idle.seen \in StateFile
    BY IdleType DEF InvType
  <1>3. "body" \in Pcs
    BY DEF Pcs
  <1> QED BY <1>1, <1>2, <1>3 DEF NextOp, InvOK, InvType

\* An error leaves the command at a later operation, or on its way out.
LEMMA FailedType ==
  ASSUME TypeOK, NEW i \in Invocations, inv[i].pc = "body", Failed(i)
  PROVE  /\ InvOK(inv')
         /\ inv'[i].pc \in {"body", "fload", "unlockRun"}
         /\ inv'[i].pc \in {"body", "fload"} => inv[i].cmd = "run"
         /\ inv'[i].cmd = inv[i].cmd /\ inv'[i].run = inv[i].run
         /\ inv'[i].profile = inv[i].profile
         /\ \A j \in Invocations \ {i} : inv'[j] = inv[j]
  <1> DEFINE c == inv[i]
             ops == OpsOf(c)
             step == ops[c.ip].step
             n == Cardinality({k \in c.ip..Len(ops) : ops[k].step = step})
  <1>1. InvOK(inv) /\ c \in InvType /\ c.ip \in Nat \ {0}
    BY TypeParts DEF InvOK, InvType
  <1>2. n \in Nat
    <2>1. Len(ops) \in Nat
      BY OpsType, <1>1
    <2>2. IsFiniteSet(c.ip..Len(ops))
      BY <1>1, <2>1, FS_Interval
    <2>3. IsFiniteSet({k \in c.ip..Len(ops) : ops[k].step = step})
      BY <2>2, FS_Subset
    <2> QED BY <2>3, FS_CardinalityType
  <1>3. CASE c.cmd = "run" /\ step \in CheckSteps /\ ~FailFast
    <2>1. inv' = [inv EXCEPT ![i].ip = @ + n]
      BY <1>3 DEF Failed
    <2> HIDE DEF n
    <2> QED BY <2>1, <1>1, <1>2, <1>3 DEF InvOK, InvType
  <1>4. CASE ~(c.cmd = "run" /\ step \in CheckSteps /\ ~FailFast)
    <2>1. PICK pc \in {"fload", "unlockRun"} :
             Goto(i, pc) /\ (pc = "fload" => c.cmd = "run")
      BY <1>4 DEF Failed
    <2>2. pc \in Pcs
      BY DEF Pcs
    <2>3. InvOK(inv')
      BY <2>1, <2>2, GotoType
    <2> QED BY <2>1, <2>3, <1>1 DEF Goto, InvOK, InvType
  <1> QED BY <1>3, <1>4

\* Moving a run to the end of the list, or taking it out of it.
LEMMA RecentType ==
  ASSUME TypeOK, NEW r \in RunIds
  PROVE  Without(r) \in Seq(RunIds) /\ Touched(r) \in Seq(RunIds)
  <1>1. recent \in Seq(RunIds)
    BY DEF TypeOK
  <1>2. ASSUME NEW k \in DOMAIN recent
        PROVE  SubSeq(recent, 1, k - 1) \o SubSeq(recent, k + 1, Len(recent)) \in Seq(RunIds)
    <2>1. k \in 1..Len(recent)
      BY <1>1
    <2>2. SubSeq(recent, 1, k - 1) \in Seq(RunIds)
      BY <1>1, <2>1, SubSeqProperties
    <2>3. SubSeq(recent, k + 1, Len(recent)) \in Seq(RunIds)
      BY <1>1, <2>1, SubSeqProperties
    <2>4. \A s, t \in Seq(RunIds) : s \o t \in Seq(RunIds)
      BY ConcatProperties
    <2> QED BY <2>2, <2>3, <2>4
  <1>3. Without(r) \in Seq(RunIds)
    BY <1>1, <1>2 DEF Without
  <1>4. Append(Without(r), r) \in Seq(RunIds)
    BY <1>3, AppendProperties
  <1> QED BY <1>3, <1>4 DEF Touched

\* Save leaves a well formed directory and list of runs.
LEMMA SaveType ==
  ASSUME TypeOK, NEW r \in RunIds, NEW file \in StateFile, Save(r, file)
  PROVE  dir' \in [RunIds -> DirType] /\ recent' \in Seq(RunIds)
  <1>1. dir \in [RunIds -> DirType]
    BY TypeParts
  <1>2. recent' \in Seq(RunIds)
    BY RecentType DEF Save
  <1>3. file.state \in States /\ file.skipped \in SUBSET Steps
    BY DEF StateFile
  <1>4. [dir[r] EXCEPT !.made = TRUE, !.state = file.state,
                       !.skipped = file.skipped] \in DirType
    BY <1>1, <1>3 DEF DirType
  <1> QED BY <1>1, <1>2, <1>4 DEF Save

\* Every step of a command keeps the shape of the state.
LEMMA ContinueType ==
  ASSUME TypeOK, StepInv, NEW i \in Invocations, Continue(i)
  PROVE  TypeOK'
  <1> USE TypeParts, TypePartsPrimed
  <1>1. /\ dir \in [RunIds -> DirType] /\ recent \in Seq(RunIds)
        /\ profileLock \in [Names -> LockType] /\ runLock \in [RunIds -> LockType]
        /\ InvOK(inv) /\ inv[i] \in InvType
    BY DEF InvOK
  <1>2. inv[i].pc \notin {"new", "done"} =>
           /\ inv[i].run \in RunIds /\ inv[i].profile \in Profiles
           /\ NameOf[inv[i].profile] \in Names /\ LockFile(i) \in LockType
    BY <1>1, NamesAssumption DEF InvOK, LockFile, LockType
  <1>3. {"lockRun", "config", "sha", "mload", "msave", "body", "save", "fload",
         "fsave", "unlockRun", "unlockProfile"} \subseteq Pcs
    BY DEF Pcs
  <1>4. CASE AcquireProfileLock(i)
    BY <1>4, <1>1, <1>2, <1>3, GotoType, ExitType DEF AcquireProfileLock
  <1>5. CASE AcquireRunLock(i)
    BY <1>5, <1>1, <1>2, <1>3, GotoType, ExitType DEF AcquireRunLock
  <1>6. CASE Materialize(i)
    <2>1. InvOK(inv')
      BY <1>6, <1>3, GotoType DEF Materialize
    <2>2. dir' \in [RunIds -> DirType]
      <3>1. [dir[inv[i].run] EXCEPT !.made = TRUE, !.config = inv[i].profile] \in DirType
        BY <1>6, <1>1, <1>2 DEF Materialize, DirType
      <3> QED BY <3>1, <1>6, <1>1 DEF Materialize
    <2>3. recent' \in Seq(RunIds)
      BY <1>6, <1>1, <1>2, RecentType DEF Materialize
    <2> QED BY <2>1, <2>2, <2>3, <1>6, <1>1 DEF Materialize
  <1>7. CASE LoadConsolidateContext(i)
    BY <1>7, <1>1, <1>3, GotoType DEF LoadConsolidateContext
  <1>8. CASE WriteProfileSHA(i)
    <2>1. [dir EXCEPT ![inv[i].run].sha = inv[i].profile] \in [RunIds -> DirType]
      BY <1>8, <1>1, <1>2 DEF WriteProfileSHA, DirType
    <2> QED BY <2>1, <1>8, <1>1, <1>3, GotoType DEF WriteProfileSHA
  <1>9. ASSUME NEW from \in {"mload", "fload"}, NEW to \in {"msave", "fsave"},
               LoadForUpdate(i, from, to)
        PROVE  TypeOK'
    <2>1. Load(inv[i].run) \in StateFile
      BY <1>9, <1>2, LoadType DEF LoadForUpdate
    <2>2. InvOK(inv')
      BY <2>1, <1>9, <1>1, <1>3 DEF LoadForUpdate, InvOK, InvType
    <2> QED BY <2>2, <1>1, <1>9 DEF LoadForUpdate
  <1>10. CASE MaterializeLoad(i) \/ FailLoad(i)
    BY <1>9, <1>10 DEF MaterializeLoad, FailLoad
  <1>11. CASE MaterializeSave(i)
    <2>1. inv[i].seen \in StateFile /\ Idle.seen \in StateFile
      BY <1>1, IdleType DEF InvType
    <2>2. InvOK(inv')
      BY <2>1, <1>11, <1>1, <1>3 DEF MaterializeSave, InvOK, InvType
    <2> QED BY <2>1, <2>2, <1>11, <1>1, <1>2, SaveType DEF MaterializeSave
  <1>12. CASE BeginUpdate(i)
    <2>1. inv[i].pc = "body" /\ Load(inv[i].run) \in StateFile
      BY <1>12, <1>2, LoadType DEF BeginUpdate, AtOp
    <2>2. CASE NextOp(i)
      BY <2>2, <2>1, <1>12, <1>1, NextOpType DEF BeginUpdate
    <2>3. CASE Failed(i)
      BY <2>3, <2>1, <1>12, <1>1, FailedType DEF BeginUpdate
    <2>4. CASE inv' = [inv EXCEPT ![i].pc = "save", ![i].seen = Load(inv[i].run)]
      <3>1. InvOK(inv')
        BY <2>4, <2>1, <1>1, <1>3 DEF InvOK, InvType
      <3> QED BY <3>1, <1>12, <1>1 DEF BeginUpdate
    <2> QED BY <2>2, <2>3, <2>4, <1>12 DEF BeginUpdate
  <1>13. CASE PassOver(i)
    BY <1>13, <1>1, NextOpType DEF PassOver, AtOp
  <1>14. CASE Guard(i)
    <2>1. inv[i].pc = "body"
      BY <1>14 DEF Guard, AtOp
    <2>2. CASE Failed(i)
      BY <2>2, <2>1, <1>14, <1>1, FailedType DEF Guard
    <2>3. CASE ~Failed(i)
      <3> DEFINE n == IF OpsOf(inv[i])[inv[i].ip].to = "consolidate" /\ dir[inv[i].run].collected
                      THEN Len(CollectOps) ELSE 0
      <3>1. inv' = [inv EXCEPT ![i].ip = @ + 1 + n]
        BY <2>3, <1>14 DEF Guard
      <3>2. n \in Nat
        BY DEF CollectOps
      <3> HIDE DEF n
      <3>3. inv[i].ip + 1 + n \in Nat \ {0}
        BY <3>2, <1>1 DEF InvType
      <3>4. InvOK(inv')
        BY <3>1, <3>3, <2>1, <1>1 DEF InvOK, InvType
      <3> QED BY <3>4, <1>14, <1>1 DEF Guard
    <2> QED BY <2>2, <2>3
  <1>15. CASE Work(i)
    <2>1. inv[i].pc = "body" /\ InvOK(inv')
      BY <1>15, NextOpType DEF Work, AtOp
    <2>2. [dir EXCEPT ![inv[i].run].collected = TRUE] \in [RunIds -> DirType]
      BY <2>1, <1>1, <1>2 DEF DirType
    <2> QED BY <2>1, <2>2, <1>15, <1>1 DEF Work
  <1>16. CASE WorkFails(i)
    BY <1>16, <1>1, FailedType DEF WorkFails, AtOp
  <1>17. CASE Finish(i)
    BY <1>17, <1>1, <1>3, GotoType DEF Finish
  <1>18. CASE ReleaseRunLock(i)
    <2>1. Released(runLock[inv[i].run], inv[i].run) \in LockType
      BY <1>18, <1>1, <1>2 DEF Released, LockType, ReleaseRunLock
    <2> QED BY <2>1, <1>18, <1>1, <1>2, <1>3, GotoType, ExitType DEF ReleaseRunLock
  <1>19. CASE ReleaseProfileLock(i)
    <2>1. Released(profileLock[NameOf[inv[i].profile]], inv[i].run) \in LockType
      BY <1>19, <1>1, <1>2 DEF Released, LockType, ReleaseProfileLock
    <2> QED BY <2>1, <1>19, <1>1, <1>2, <1>3, ExitType DEF ReleaseProfileLock
  <1>20. CASE EndUpdate(i)
    <2> DEFINE c == inv[i]
               op == OpsOf(c)[c.ip]
               file == [state |-> IF op.op \in {"move", "try"} THEN op.to ELSE c.seen.state,
                        skipped |-> IF op.op = "skip" THEN c.seen.skipped \cup {op.to}
                                    ELSE c.seen.skipped]
    <2>1. op \in OpSet
      BY <1>20, <1>1, OpsType DEF EndUpdate, StepInv, InvType
    <2>2. c.seen \in StateFile
      BY <1>1 DEF InvType
    <2>3. file \in StateFile
      BY <2>1, <2>2 DEF OpSet, StateFile
    <2>4. Save(c.run, file) /\ c.pc = "save"
      BY <1>20 DEF EndUpdate
    <2> HIDE DEF op, file
    <2> QED BY <2>3, <2>4, <1>20, <1>1, <1>2, SaveType, NextOpType DEF EndUpdate
  <1>21. CASE RemoveRun(i)
    <2> DEFINE r == inv[i].run
               d == dir[r]
    <2>1. inv[i].pc = "body" /\ r \in RunIds /\ d \in DirType /\ AbsentDir \in DirType
      BY <1>21, <1>1, <1>2 DEF RemoveRun, AtOp, AbsentDir, DirType
    <2>2. InvOK(inv')
      BY <1>21, <2>1, <1>1, NextOpType DEF RemoveRun
    <2>3. recent' \in Seq(RunIds)
      BY <1>21, <2>1, <1>1, RecentType DEF RemoveRun
    <2>4. dir' \in [RunIds -> DirType]
      <3>1. /\ [d EXCEPT !.collected = FALSE] \in DirType
            /\ [d EXCEPT !.config = NoProfile] \in DirType
            /\ [d EXCEPT !.sha = NoProfile] \in DirType
            /\ [d EXCEPT !.state = "none", !.skipped = {}] \in DirType
        BY <2>1 DEF DirType
      <3> QED BY <1>21, <2>1, <3>1, <1>1 DEF RemoveRun
    <2> QED BY <2>2, <2>3, <2>4, <1>21, <1>1 DEF RemoveRun
  <1>22. CASE FailSave(i)
    <2>1. [inv[i].seen EXCEPT !.state = "failed"] \in StateFile
      BY <1>1 DEF InvType, StateFile, States
    <2> QED BY <2>1, <1>22, <1>1, <1>2, <1>3, GotoType, SaveType DEF FailSave
  <1> QED
    BY <1>4, <1>5, <1>6, <1>7, <1>8, <1>10, <1>11, <1>12, <1>13, <1>14, <1>15,
       <1>16, <1>17, <1>18, <1>19, <1>20, <1>21, <1>22
    DEF Continue

\* So does the start of a command.
LEMMA BeginType ==
  ASSUME TypeOK, NEW i \in Invocations, Begin(i)
  PROVE  /\ TypeOK'
         /\ inv'[i].pc \in {"done", "lockProfile", "lockRun"}
         /\ inv'[i].pc = "lockProfile" => inv'[i].cmd \notin ConsolidateCommands
         /\ inv'[i].pc = "lockRun" => inv'[i].cmd \in ConsolidateCommands
         /\ inv'[i].ip = 1
         /\ \A j \in Invocations \ {i} : inv'[j] = inv[j]
  <1>1. PICK q \in Requests : \/ ResolveRunID(i, q)
                              \/ ResolveConsolidateRunID(i, q)
                              \/ ResolveRecordedRunID(i, q)
    BY DEF Begin
  <1>2. /\ q.cmd \in AllCommands /\ q.profile \in Profiles /\ q.skip \in SUBSET Steps
        /\ q \in [cmd : AllCommands, profile : Profiles,
                  explicit : RunIds \cup {NoRun}, skip : SUBSET Steps]
    BY RequestsAssumption
  <1>3. InvOK(inv) /\ inv \in [Invocations -> InvType]
    BY TypeParts DEF InvOK
  <1>4. ASSUME NEW p \in [cmd : AllCommands \cup {"drop_materialized"}, profile : Profiles,
                         explicit : RunIds \cup {NoRun}, skip : SUBSET Steps],
               NEW r \in RunIds, NEW pc \in {"lockProfile", "lockRun"}, Started(i, p, r, pc)
        PROVE  /\ InvOK(inv')
               /\ inv'[i].pc = pc /\ inv'[i].cmd = p.cmd /\ inv'[i].ip = 1
               /\ \A j \in Invocations \ {i} : inv'[j] = inv[j]
    <2> DEFINE c == [Idle EXCEPT !.cmd = p.cmd, !.profile = p.profile,
                                 !.skip = p.skip, !.run = r, !.pc = pc]
    <2>1. /\ c \in InvType /\ c.run = r /\ c.profile = p.profile /\ c.pc = pc
          /\ c.cmd = p.cmd /\ c.ip = 1
      <3>1. "lockProfile" \in Pcs /\ "lockRun" \in Pcs
        BY DEF Pcs
      <3>2. Idle.ip = 1
        BY DEF Idle
      <3> QED BY <3>1, <3>2, IdleType DEF InvType
    <2>2. inv' = [inv EXCEPT ![i] = c]
      BY <1>4 DEF Started
    <2> HIDE DEF c
    <2> QED BY <2>1, <2>2, <1>3 DEF InvOK
  <1>5. CASE Exit(i)
    <2>1. InvOK(inv') /\ inv'[i].pc = "done" /\ inv'[i].ip = 1
      BY <1>5, ExitType
    <2>2. \A j \in Invocations \ {i} : inv'[j] = inv[j]
      BY <1>5, <1>3 DEF Exit
    <2> QED BY <2>1, <2>2, TypeParts, TypePartsPrimed DEF Begin
  <1>6. ASSUME NEW r \in RunIds, q.cmd \notin ConsolidateCommands,
               Started(i, q, r, "lockProfile")
        PROVE  /\ InvOK(inv') /\ inv'[i].pc = "lockProfile" /\ inv'[i].ip = 1
               /\ inv'[i].cmd \notin ConsolidateCommands
               /\ \A j \in Invocations \ {i} : inv'[j] = inv[j]
    <2>1. q \in [cmd : AllCommands \cup {"drop_materialized"}, profile : Profiles,
                explicit : RunIds \cup {NoRun}, skip : SUBSET Steps]
      BY <1>2
    <2> QED BY <2>1, <1>4, <1>6
  <1>7. ASSUME NEW r \in RunIds, q.cmd \in ConsolidateCommands,
               Started(i, q, r, "lockRun")
        PROVE  /\ InvOK(inv') /\ inv'[i].pc = "lockRun" /\ inv'[i].ip = 1
               /\ inv'[i].cmd \in ConsolidateCommands
               /\ \A j \in Invocations \ {i} : inv'[j] = inv[j]
    <2>1. q \in [cmd : AllCommands \cup {"drop_materialized"}, profile : Profiles,
                explicit : RunIds \cup {NoRun}, skip : SUBSET Steps]
      BY <1>2
    <2> QED BY <2>1, <1>4, <1>7
  <1>8. ASSUME NEW r \in RunIds,
               Started(i, [q EXCEPT !.cmd = "drop_materialized"], r, "lockProfile")
        PROVE  /\ InvOK(inv') /\ inv'[i].pc = "lockProfile" /\ inv'[i].ip = 1
               /\ inv'[i].cmd \notin ConsolidateCommands
               /\ \A j \in Invocations \ {i} : inv'[j] = inv[j]
    <2> DEFINE p == [q EXCEPT !.cmd = "drop_materialized"]
    <2>1. p \in [cmd : AllCommands \cup {"drop_materialized"}, profile : Profiles,
                explicit : RunIds \cup {NoRun}, skip : SUBSET Steps]
          /\ p.cmd = "drop_materialized"
      BY <1>2
    <2>2. Started(i, p, r, "lockProfile")
      BY <1>8
    <2> HIDE DEF p
    <2> QED BY <2>1, <2>2, <1>4 DEF ConsolidateCommands
  <1>9. /\ ResolveRunID(i, q) =>
             \/ Exit(i)
             \/ /\ q.cmd \notin ConsolidateCommands
                /\ \E r \in RunIds : Started(i, q, r, "lockProfile")
        /\ ResolveConsolidateRunID(i, q) =>
             \/ Exit(i)
             \/ /\ q.cmd \in ConsolidateCommands
                /\ \E r \in RunIds : Started(i, q, r, "lockRun")
        /\ ResolveRecordedRunID(i, q) =>
             \/ Exit(i)
             \/ /\ q.cmd \notin ConsolidateCommands
                /\ \E r \in RunIds : Started(i, q, r, "lockProfile")
             \/ \E r \in RunIds :
                   Started(i, [q EXCEPT !.cmd = "drop_materialized"], r, "lockProfile")
    BY DEF ResolveRunID, ResolveConsolidateRunID, ResolveRecordedRunID,
           RecordedCommands, ConsolidateCommands
  <1> QED
    BY <1>1, <1>5, <1>6, <1>7, <1>8, <1>9, TypeParts, TypePartsPrimed DEF Begin

\* Other steps.
LEMMA CrashShape ==
  ASSUME TypeOK, NEW i \in Invocations, Crash(i)
  PROVE  /\ TypeOK'
         /\ inv[i].pc \notin Ended /\ inv'[i].pc = "crashed"
         /\ inv'[i].cmd = inv[i].cmd /\ inv'[i].run = inv[i].run
         /\ inv'[i].profile = inv[i].profile
         /\ \A j \in Invocations \ {i} : inv'[j] = inv[j]
  <1> DEFINE c == [Idle EXCEPT !.pc = "crashed", !.cmd = inv[i].cmd,
                               !.profile = inv[i].profile, !.run = inv[i].run]
  <1>1. InvOK(inv) /\ inv \in [Invocations -> InvType]
    BY TypeParts DEF InvOK
  <1>2. c \in InvType
    BY <1>1, IdleType
  <1>3. c.pc = "crashed" /\ c.cmd = inv[i].cmd /\ c.run = inv[i].run
        /\ c.profile = inv[i].profile
    BY IdleType DEF InvType
  <1>4. inv' = [inv EXCEPT ![i] = c] /\ inv[i].pc \notin Ended
    BY DEF Crash
  <1> HIDE DEF c
  <1>5. InvOK(inv')
    BY <1>1, <1>2, <1>3, <1>4 DEF InvOK, Ended
  <1> QED BY <1>1, <1>3, <1>4, <1>5, TypeParts, TypePartsPrimed DEF Crash

\* Removing a lock file by hand keeps the shape of the state.
LEMMA RemoveStaleLockType == ASSUME TypeOK, RemoveStaleLock PROVE TypeOK'
  <1>1. NoLock \in LockType
    BY DEF LockType
  <1> QED BY <1>1, TypeParts, TypePartsPrimed DEF RemoveStaleLock

-----------------------------------------------------------------------------
(* The steps between taking the run lock and giving it back.               *)

WorkStep(i) ==
    \/ Materialize(i) \/ LoadConsolidateContext(i) \/ WriteProfileSHA(i)
    \/ MaterializeLoad(i) \/ MaterializeSave(i)
    \/ BeginUpdate(i) \/ EndUpdate(i) \/ PassOver(i) \/ Guard(i)
    \/ Work(i) \/ WorkFails(i) \/ RemoveRun(i)
    \/ FailLoad(i) \/ FailSave(i) \/ Finish(i)

WorkPcs == {"config", "sha", "mload", "msave", "body", "save",
            "fload", "fsave", "unlockRun"}

\* The command stays the same and at work; only its record moves.
SameCommand(i) ==
    /\ inv'[i].cmd = inv[i].cmd /\ inv'[i].run = inv[i].run
    /\ inv'[i].profile = inv[i].profile /\ inv'[i].skip = inv[i].skip
    /\ \A j \in Invocations \ {i} : inv'[j] = inv[j]

\* Going on, in the forms the actions use.
LEMMA GotoShape ==
  ASSUME TypeOK, NEW i \in Invocations
  PROVE  /\ \A pc : Goto(i, pc) =>
              /\ SameCommand(i) /\ inv'[i].pc = pc
              /\ inv'[i].ip = inv[i].ip /\ inv'[i].seen = inv[i].seen
         /\ NextOp(i) => SameCommand(i) /\ inv'[i].pc = "body" /\ inv'[i].ip = inv[i].ip + 1
         /\ \A pc, f : inv' = [inv EXCEPT ![i].pc = pc, ![i].seen = f] =>
              /\ SameCommand(i) /\ inv'[i].pc = pc
              /\ inv'[i].ip = inv[i].ip /\ inv'[i].seen = f
         /\ \A k : inv' = [inv EXCEPT ![i].ip = k] =>
              SameCommand(i) /\ inv'[i].pc = inv[i].pc /\ inv'[i].ip = k
         /\ inv' = inv => SameCommand(i)
  <1>1. inv \in [Invocations -> InvType] /\ inv[i] \in InvType
    BY TypeParts DEF InvOK
  <1> QED BY <1>1 DEF Goto, NextOp, SameCommand, InvType

\* An error keeps the command at work; only run goes on or records it.
LEMMA FailedShape ==
  ASSUME TypeOK, NEW i \in Invocations, inv[i].pc = "body", Failed(i)
  PROVE  /\ SameCommand(i)
         /\ inv'[i].pc \in {"body", "fload", "unlockRun"}
         /\ inv'[i].pc \in {"body", "fload"} => inv[i].cmd = "run"
  <1>1. inv'[i].skip = inv[i].skip
    <2>1. inv \in [Invocations -> InvType] /\ inv[i] \in InvType
      BY TypeParts DEF InvOK
    <2>2. \/ \E k : inv' = [inv EXCEPT ![i].ip = k]
          \/ \E pc : Goto(i, pc)
      BY DEF Failed
    <2> QED BY <2>2, GotoShape DEF SameCommand
  <1> QED BY <1>1, FailedType DEF SameCommand

\* A passed guard moves past itself, over the collection if there is one.
LEMMA GuardShape ==
  ASSUME TypeOK, NEW i \in Invocations, Guard(i)
  PROVE  /\ inv[i].pc = "body" /\ UNCHANGED <<dir, recent, profileLock, runLock>>
         /\ \/ Failed(i)
            \/ SameCommand(i) /\ inv'[i].pc = "body"
  <1>1. CASE Failed(i)
    BY <1>1 DEF Guard, AtOp
  <1>2. CASE ~Failed(i)
    <2> DEFINE n == IF OpsOf(inv[i])[inv[i].ip].to = "consolidate" /\ dir[inv[i].run].collected
                    THEN Len(CollectOps) ELSE 0
    <2>1. inv' = [inv EXCEPT ![i].ip = @ + 1 + n]
      BY <1>2 DEF Guard
    <2> HIDE DEF n
    <2>2. SameCommand(i) /\ inv'[i].pc = inv[i].pc
      BY <2>1, GotoShape
    <2> QED BY <2>2 DEF Guard, AtOp
  <1> QED BY <1>1, <1>2

\* What every such step does and leaves alone.
LEMMA WorkShape ==
  ASSUME TypeOK, StepInv, NEW i \in Invocations, WorkStep(i)
  PROVE  /\ SameCommand(i)
         /\ inv[i].pc \in WorkPcs \ {"unlockRun"} /\ inv'[i].pc \in WorkPcs \ {"config"}
         /\ inv'[i].pc \in {"fload", "fsave"} => inv[i].cmd = "run"
         /\ inv'[i].pc \in {"sha", "mload", "msave"} =>
              inv[i].pc \in {"config", "sha", "mload"} /\ inv'[i].ip = inv[i].ip
         /\ inv'[i].pc \in {"msave", "save", "fsave"} =>
              UNCHANGED dir /\ inv'[i].seen = Load(inv[i].run)
         /\ inv'[i].pc = "save" =>
              /\ BeginUpdate(i)
              /\ inv' = [inv EXCEPT ![i].pc = "save", ![i].seen = Load(inv[i].run)]
         /\ UNCHANGED <<profileLock, runLock>>
         /\ \A r \in RunIds : r # inv[i].run => dir'[r] = dir[r]
  <1> USE DEF WorkPcs
  <1>1. dir \in [RunIds -> DirType]
    BY TypeParts
  <1>2. CASE Materialize(i)
    BY <1>2, <1>1, GotoShape DEF Materialize
  <1>3. CASE LoadConsolidateContext(i)
    BY <1>3, GotoShape DEF LoadConsolidateContext
  <1>4. CASE WriteProfileSHA(i)
    BY <1>4, <1>1, GotoShape DEF WriteProfileSHA
  <1>5. CASE MaterializeLoad(i) \/ FailLoad(i)
    <2>1. PICK from \in {"mload", "fload"}, to \in {"msave", "fsave"} :
             /\ LoadForUpdate(i, from, to)
             /\ from = "fload" <=> to = "fsave"
      BY <1>5 DEF MaterializeLoad, FailLoad
    <2>2. inv' = [inv EXCEPT ![i].pc = to, ![i].seen = Load(inv[i].run)]
      BY <2>1 DEF LoadForUpdate
    <2>3. /\ SameCommand(i) /\ inv'[i].pc = to
          /\ inv'[i].ip = inv[i].ip /\ inv'[i].seen = Load(inv[i].run)
      BY <2>2, GotoShape
    <2> QED BY <2>1, <2>3 DEF LoadForUpdate, StepInv
  <1>6. CASE MaterializeSave(i)
    <2>1. inv' = [inv EXCEPT ![i].pc = "body", ![i].seen = Idle.seen]
      BY <1>6 DEF MaterializeSave
    <2>2. SameCommand(i) /\ inv'[i].pc = "body"
      BY <2>1, GotoShape
    <2> QED BY <2>2, <1>6, <1>1 DEF MaterializeSave, Save
  <1>7. CASE BeginUpdate(i)
    <2>1. inv[i].pc = "body" /\ UNCHANGED <<dir, profileLock, runLock>>
      BY <1>7 DEF BeginUpdate, AtOp
    <2>2. CASE inv' = [inv EXCEPT ![i].pc = "save", ![i].seen = Load(inv[i].run)]
      <3>1. PICK f : f = Load(inv[i].run)
        OBVIOUS
      <3>2. inv' = [inv EXCEPT ![i].pc = "save", ![i].seen = f]
        BY <2>2, <3>1
      <3>3. inv \in [Invocations -> InvType] /\ inv[i] \in InvType
        BY TypeParts DEF InvOK
      <3>4. SameCommand(i) /\ inv'[i].pc = "save" /\ inv'[i].seen = f
        BY <3>2, <3>3 DEF InvType, SameCommand
      <3> QED BY <3>1, <3>4, <2>1, <2>2, <1>7
    <2>3. CASE NextOp(i) \/ Failed(i)
      BY <2>1, <2>3, GotoShape, FailedShape
    <2> QED BY <2>2, <2>3, <1>7 DEF BeginUpdate
  <1>8. CASE EndUpdate(i)
    BY <1>8, <1>1, GotoShape DEF EndUpdate, Save
  <1>9. CASE PassOver(i)
    BY <1>9, GotoShape DEF PassOver, AtOp
  <1>10. CASE Guard(i)
    BY <1>10, GuardShape, FailedShape
  <1>11. CASE Work(i)
    BY <1>11, <1>1, GotoShape DEF Work, AtOp
  <1>12. CASE WorkFails(i)
    BY <1>12, FailedShape DEF WorkFails, AtOp
  <1>13. CASE RemoveRun(i)
    <2>1. inv[i].pc = "body" /\ UNCHANGED <<profileLock, runLock>>
      BY <1>13 DEF RemoveRun, AtOp
    <2>2. UNCHANGED inv \/ NextOp(i)
      BY <1>13 DEF RemoveRun
    <2>3. SameCommand(i) /\ inv'[i].pc = "body"
      BY <2>1, <2>2, GotoShape
    <2>4. \A r \in RunIds : r # inv[i].run => dir'[r] = dir[r]
      BY <1>13, <1>1 DEF RemoveRun
    <2> QED BY <2>1, <2>3, <2>4
  <1>14. CASE FailSave(i)
    BY <1>14, <1>1, GotoShape DEF FailSave, Save
  <1>15. CASE Finish(i)
    BY <1>15, GotoShape DEF Finish
  <1> QED
    BY <1>2, <1>3, <1>4, <1>5, <1>6, <1>7, <1>8, <1>9, <1>10, <1>11, <1>12,
       <1>13, <1>14, <1>15 DEF WorkStep

\* TypeOK and what a command at "save" is about, together, are inductive.
LEMMA StepInvStep ==
  ASSUME TypeOK, StepInv, NEW i \in Invocations, Continue(i)
  PROVE  StepInv'
  <1>1. inv \in [Invocations -> InvType] /\ inv[i] \in InvType
    BY TypeParts DEF InvOK
  <1>2. ASSUME NEW pc, pc \notin {"fload", "fsave", "save"},
               \/ Goto(i, pc)
               \/ Exit(i)
        PROVE  StepInv'
    <2>1. /\ \A j \in Invocations \ {i} : inv'[j] = inv[j]
          /\ inv'[i].pc \in {pc, "done"}
      BY <1>1, <1>2, GotoShape, ExitType DEF Exit, SameCommand
    <2> QED BY <2>1, <1>2 DEF StepInv
  <1>3. CASE AcquireProfileLock(i)
    BY <1>2, <1>3 DEF AcquireProfileLock
  <1>4. CASE AcquireRunLock(i)
    BY <1>2, <1>4 DEF AcquireRunLock
  <1>5. CASE ReleaseRunLock(i)
    BY <1>2, <1>5 DEF ReleaseRunLock
  <1>6. CASE ReleaseProfileLock(i)
    BY <1>2, <1>6 DEF ReleaseProfileLock
  <1>7. CASE WorkStep(i)
    <2>1. CASE inv'[i].pc # "save"
      <3>1. SameCommand(i) /\ (inv'[i].pc \in {"fload", "fsave"} => inv[i].cmd = "run")
        BY <1>7, WorkShape
      <3> QED BY <2>1, <3>1 DEF StepInv, SameCommand
    <2>2. CASE inv'[i].pc = "save"
      <3>1. /\ BeginUpdate(i) /\ SameCommand(i)
            /\ inv' = [inv EXCEPT ![i].pc = "save", ![i].seen = Load(inv[i].run)]
        BY <1>7, <2>2, WorkShape
      <3>2. inv'[i].ip = inv[i].ip
        BY <3>1, GotoShape
      <3>3. OpsOf(inv[i])' = OpsOf(inv[i])
        BY <3>1 DEF SameCommand, OpsOf
      <3>4. /\ inv[i].ip <= Len(OpsOf(inv[i]))
            /\ OpsOf(inv[i])[inv[i].ip].op \in UpdateOps
        BY <3>1 DEF BeginUpdate, AtOp, UpdateOps
      <3>5. /\ inv'[i].ip <= Len(OpsOf(inv[i])')
            /\ OpsOf(inv[i])'[inv'[i].ip].op \in UpdateOps
        BY <3>2, <3>3, <3>4
      <3> QED BY <2>2, <3>1, <3>5 DEF StepInv, SameCommand
    <2> QED BY <2>1, <2>2
  <1> QED BY <1>3, <1>4, <1>5, <1>6, <1>7 DEF Continue, WorkStep

TypeInv == TypeOK /\ StepInv
LockInv == TypeInv /\ LocksHeld /\ LocksHaveHolders

\* The initial state has the types and the places.
LEMMA TypeInvInit == Init => TypeInv
  <1> SUFFICES ASSUME Init PROVE TypeInv
    OBVIOUS
  <1>1. AbsentDir \in DirType
    BY DEF AbsentDir, DirType
  <1>2. \A i \in Invocations : inv[i] = Idle /\ inv[i].pc = "new"
    BY DEF Init, Idle
  <1>3. TypeOK
    <2>1. dir \in [RunIds -> DirType] /\ recent \in Seq(RunIds)
      BY <1>1 DEF Init
    <2>2. profileLock \in [Names -> LockType] /\ runLock \in [RunIds -> LockType]
      BY DEF Init, LockType
    <2>3. InvOK(inv)
      BY <1>2, IdleType DEF Init, InvOK
    <2> QED BY <2>1, <2>2, <2>3, TypeParts
  <1> QED BY <1>2, <1>3 DEF TypeInv, StepInv

\* Every step keeps them.
LEMMA TypeInvStep == TypeInv /\ [Next]_vars => TypeInv'
  <1> SUFFICES ASSUME TypeOK, StepInv, [Next]_vars PROVE TypeOK' /\ StepInv'
    BY DEF TypeInv
  <1>1. ASSUME NEW i \in Invocations, Begin(i) PROVE TypeOK' /\ StepInv'
    BY <1>1, BeginType DEF StepInv
  <1>2. ASSUME NEW i \in Invocations, Continue(i) PROVE TypeOK' /\ StepInv'
    BY <1>2, ContinueType, StepInvStep
  <1>3. ASSUME NEW i \in Invocations, Crash(i) PROVE TypeOK' /\ StepInv'
    BY <1>3, CrashShape DEF StepInv
  <1>4. CASE RemoveStaleLock
    BY <1>4, RemoveStaleLockType DEF RemoveStaleLock, StepInv
  <1>5. CASE UNCHANGED vars
    BY <1>5 DEF vars, TypeOK, StepInv
  <1> QED BY <1>1, <1>2, <1>3, <1>4, <1>5 DEF Next

\* Every variable has the shape the code gives it, in every state: in
\* particular what Transition and RecordSkip write is a state of the pipeline
\* and the name of a step.
THEOREM TypeCorrect == Spec => []TypeOK
  <1>1. TypeInv => TypeOK
    BY DEF TypeInv
  <1> QED BY <1>1, TypeInvInit, TypeInvStep, PTL DEF Spec

-----------------------------------------------------------------------------
(* The lock files.                                                         *)

\* A step that leaves the lock files alone and its command at work.
LEMMA WorkLocks ==
  ASSUME TypeOK, StepInv, LocksHeld, LocksHaveHolders,
         NEW i \in Invocations, WorkStep(i)
  PROVE  LocksHeld' /\ LocksHaveHolders'
  <1>1. /\ SameCommand(i) /\ WorksOnRun(i) /\ WorksOnRun(i)'
        /\ inv'[i].pc \notin {"lockProfile", "unlockProfile", "crashed"}
        /\ UNCHANGED <<profileLock, runLock>>
    BY WorkShape DEF WorksOnRun, WorkPcs
  <1>2. \A j \in Invocations :
          /\ WorksOnRun(j)' <=> WorksOnRun(j)
          /\ HoldsProfile(j)' <=> HoldsProfile(j)
          /\ inv'[j].run = inv[j].run /\ inv'[j].profile = inv[j].profile
          /\ inv[j].pc = "crashed" <=> inv'[j].pc = "crashed"
    BY <1>1 DEF SameCommand, WorksOnRun, HoldsProfile
  <1>3. /\ \A r \in RunIds : runLock[r] # NoLock => runLock[r].by \in Invocations
        /\ \A n \in Names : profileLock[n] # NoLock => profileLock[n].by \in Invocations
    BY DEF TypeOK
  <1>4. LocksHeld'
    BY <1>1, <1>2 DEF LocksHeld, LockFile, SameCommand
  <1>5. LocksHaveHolders'
    BY <1>1, <1>2, <1>3 DEF LocksHaveHolders
  <1> QED BY <1>4, <1>5

\* What the four steps on lock files, and the end of a command, rest on.
LEMMA LockFacts ==
  ASSUME TypeOK
  PROVE  /\ \A r \in RunIds : runLock[r] # NoLock => runLock[r].by \in Invocations
         /\ \A n \in Names : profileLock[n] # NoLock => profileLock[n].by \in Invocations
         /\ \A j \in Invocations :
               WorksOnRun(j) \/ HoldsProfile(j) \/ inv[j].pc = "lockProfile" \/ inv[j].pc = "lockRun" =>
                 /\ inv[j].run \in RunIds /\ inv[j].profile \in Profiles
                 /\ NameOf[inv[j].profile] \in Names
                 /\ LockFile(j) # NoLock
                 /\ LockFile(j).owner = inv[j].run /\ LockFile(j).by = j
  <1>1. /\ \A r \in RunIds : runLock[r] # NoLock => runLock[r].by \in Invocations
        /\ \A n \in Names : profileLock[n] # NoLock => profileLock[n].by \in Invocations
    BY DEF TypeOK
  <1>2. ASSUME NEW j \in Invocations,
               WorksOnRun(j) \/ HoldsProfile(j) \/ inv[j].pc = "lockProfile" \/ inv[j].pc = "lockRun"
        PROVE  inv[j].run \in RunIds /\ inv[j].profile \in Profiles
    BY <1>2 DEF TypeOK, WorksOnRun, HoldsProfile
  <1>3. ASSUME NEW j \in Invocations, inv[j].run \in RunIds
        PROVE  /\ LockFile(j) # NoLock
               /\ LockFile(j).owner = inv[j].run /\ LockFile(j).by = j
    BY <1>3, NullsAssumption DEF LockFile
  <1> QED BY <1>1, <1>2, <1>3, NamesAssumption

\* A command that holds no lock file and ends, or is killed holding some.
LEMMA LeaveLocks ==
  ASSUME TypeOK, LocksHeld, LocksHaveHolders, NEW i \in Invocations,
         UNCHANGED <<profileLock, runLock>>,
         \A j \in Invocations \ {i} : inv'[j] = inv[j],
         \/ /\ ~WorksOnRun(i) /\ ~HoldsProfile(i) /\ inv[i].pc # "crashed"
            /\ inv'[i].pc \in {"done", "lockProfile", "lockRun"}
            /\ inv'[i].pc = "lockProfile" => inv'[i].cmd \notin ConsolidateCommands
            /\ inv'[i].pc = "lockRun" => inv'[i].cmd \in ConsolidateCommands
         \/ /\ inv'[i].pc = "crashed" /\ inv[i].pc \notin Ended
            /\ inv'[i].run = inv[i].run /\ inv'[i].profile = inv[i].profile
  PROVE  LocksHeld' /\ LocksHaveHolders'
  <1>1. ~WorksOnRun(i)' /\ ~HoldsProfile(i)'
        /\ (inv'[i].pc \in {"lockProfile", "unlockProfile"} =>
               inv'[i].cmd \notin ConsolidateCommands)
    BY DEF WorksOnRun, HoldsProfile
  <1>2. ASSUME NEW j \in Invocations \ {i}
        PROVE  /\ WorksOnRun(j)' <=> WorksOnRun(j)
               /\ HoldsProfile(j)' <=> HoldsProfile(j)
               /\ LockFile(j)' = LockFile(j)
    BY DEF WorksOnRun, HoldsProfile, LockFile
  <1>3. LocksHeld'
    BY <1>1, <1>2 DEF LocksHeld
  <1>4. LocksHaveHolders'
    BY <1>1, <1>2, LockFacts DEF LocksHaveHolders, Ended
  <1> QED BY <1>3, <1>4

\* Taking the profile lock: whoever takes it is recorded, nobody loses one.
LEMMA AcquireProfileLocks ==
  ASSUME TypeOK, LocksHeld, LocksHaveHolders,
         NEW i \in Invocations, AcquireProfileLock(i)
  PROVE  LocksHeld' /\ LocksHaveHolders'
  <1> DEFINE n == NameOf[inv[i].profile]
  <1>1. /\ inv[i].pc = "lockProfile" /\ inv[i].cmd \notin ConsolidateCommands
        /\ ~WorksOnRun(i) /\ ~HoldsProfile(i)
    BY DEF AcquireProfileLock, LocksHeld, WorksOnRun, HoldsProfile
  <1>2. inv \in [Invocations -> InvType] /\ n \in Names
        /\ profileLock \in [Names -> LockType]
    BY <1>1, LockFacts, TypeParts DEF InvOK
  <1>3. CASE profileLock[n] = NoLock
    <2>1. /\ profileLock' = [profileLock EXCEPT ![n] = LockFile(i)]
          /\ Goto(i, "lockRun") /\ UNCHANGED runLock
      BY <1>3 DEF AcquireProfileLock
    <2>2. SameCommand(i) /\ inv'[i].pc = "lockRun"
      BY <2>1, GotoShape
    <2>3. /\ \A j \in Invocations : WorksOnRun(j)' <=> WorksOnRun(j)
          /\ \A j \in Invocations \ {i} : HoldsProfile(j)' <=> HoldsProfile(j)
          /\ HoldsProfile(i)'
          /\ \A j \in Invocations : LockFile(j)' = LockFile(j)
      BY <1>1, <2>2 DEF SameCommand, WorksOnRun, HoldsProfile, LockFile
    <2>4. profileLock'[n] = LockFile(i) /\ LockFile(i).by = i /\ LockFile(i) # NoLock
      BY <2>1, <1>1, <1>2, LockFacts
    <2>5. \A m \in Names \ {n} : profileLock'[m] = profileLock[m]
      BY <2>1, <1>2
    <2>6. LocksHeld'
      <3>1. ASSUME NEW j \in Invocations \ {i}, HoldsProfile(j)
            PROVE  NameOf[inv[j].profile] \in Names \ {n}
        BY <3>1, <1>3, LockFacts DEF LocksHeld
      <3> QED BY <3>1, <2>1, <2>2, <2>3, <2>4, <2>5 DEF LocksHeld, SameCommand
    <2>7. LocksHaveHolders'
      BY <2>1, <2>2, <2>3, <2>4, <2>5, <1>1, LockFacts DEF LocksHaveHolders, SameCommand
    <2> QED BY <2>6, <2>7
  <1>4. CASE profileLock[n] # NoLock
    <2>1. Exit(i) /\ UNCHANGED <<profileLock, runLock>>
      BY <1>4 DEF AcquireProfileLock
    <2>2. inv'[i].pc = "done" /\ \A j \in Invocations \ {i} : inv'[j] = inv[j]
      BY <2>1, <1>2, ExitType DEF Exit
    <2> QED BY <2>1, <2>2, <1>1, LeaveLocks
  <1> QED BY <1>3, <1>4

\* Taking the run lock.
LEMMA AcquireRunLocks ==
  ASSUME TypeOK, LocksHeld, LocksHaveHolders,
         NEW i \in Invocations, AcquireRunLock(i)
  PROVE  LocksHeld' /\ LocksHaveHolders'
  <1> DEFINE r == inv[i].run
  <1>1. inv[i].pc = "lockRun" /\ ~WorksOnRun(i)
    BY DEF AcquireRunLock, WorksOnRun
  <1>2. inv \in [Invocations -> InvType] /\ r \in RunIds
        /\ runLock \in [RunIds -> LockType]
    BY <1>1, LockFacts, TypeParts DEF InvOK
  <1>3. CASE runLock[r] = NoLock
    <2>1. /\ runLock' = [runLock EXCEPT ![r] = LockFile(i)]
          /\ Goto(i, "config") /\ UNCHANGED profileLock
      BY <1>3 DEF AcquireRunLock
    <2>2. SameCommand(i) /\ inv'[i].pc = "config"
      BY <2>1, GotoShape
    <2>3. /\ \A j \in Invocations : HoldsProfile(j)' <=> HoldsProfile(j)
          /\ \A j \in Invocations \ {i} : WorksOnRun(j)' <=> WorksOnRun(j)
          /\ WorksOnRun(i)'
          /\ \A j \in Invocations : LockFile(j)' = LockFile(j)
      BY <1>1, <2>2 DEF SameCommand, WorksOnRun, HoldsProfile, LockFile
    <2>4. runLock'[r] = LockFile(i) /\ LockFile(i).by = i /\ LockFile(i) # NoLock
      BY <2>1, <1>1, <1>2, LockFacts
    <2>5. \A m \in RunIds \ {r} : runLock'[m] = runLock[m]
      BY <2>1, <1>2
    <2>6. LocksHeld'
      <3>1. ASSUME NEW j \in Invocations \ {i}, WorksOnRun(j)
            PROVE  inv[j].run \in RunIds \ {r}
        BY <3>1, <1>3, LockFacts DEF LocksHeld
      <3> QED BY <3>1, <2>1, <2>2, <2>3, <2>4, <2>5 DEF LocksHeld, SameCommand
    <2>7. LocksHaveHolders'
      BY <2>1, <2>2, <2>3, <2>4, <2>5, <1>1, LockFacts DEF LocksHaveHolders, SameCommand
    <2> QED BY <2>6, <2>7
  <1>4. CASE runLock[r] # NoLock /\ inv[i].cmd \in ConsolidateCommands
    <2>1. Exit(i) /\ UNCHANGED <<profileLock, runLock>>
      BY <1>4 DEF AcquireRunLock
    <2>2. inv'[i].pc = "done" /\ \A j \in Invocations \ {i} : inv'[j] = inv[j]
      BY <2>1, <1>2, ExitType DEF Exit
    <2>3. ~HoldsProfile(i)
      BY <1>4 DEF HoldsProfile
    <2> QED BY <2>1, <2>2, <2>3, <1>1, LeaveLocks
  <1>5. CASE runLock[r] # NoLock /\ inv[i].cmd \notin ConsolidateCommands
    <2>1. Goto(i, "unlockProfile") /\ UNCHANGED <<profileLock, runLock>>
      BY <1>5 DEF AcquireRunLock
    <2>2. SameCommand(i) /\ inv'[i].pc = "unlockProfile"
      BY <2>1, GotoShape
    <2>3. \A j \in Invocations :
            /\ WorksOnRun(j)' <=> WorksOnRun(j)
            /\ HoldsProfile(j)' <=> HoldsProfile(j)
            /\ LockFile(j)' = LockFile(j)
      BY <1>1, <1>5, <2>2 DEF SameCommand, WorksOnRun, HoldsProfile, LockFile
    <2>4. LocksHeld'
      BY <1>5, <2>1, <2>2, <2>3 DEF LocksHeld, SameCommand
    <2>5. LocksHaveHolders'
      BY <2>1, <2>2, <2>3, <1>1, LockFacts DEF LocksHaveHolders, SameCommand
    <2> QED BY <2>4, <2>5
  <1> QED BY <1>3, <1>4, <1>5

\* Giving up the run lock removes the file of the command itself only.
LEMMA ReleaseRunLocks ==
  ASSUME TypeOK, LocksHeld, LocksHaveHolders,
         NEW i \in Invocations, ReleaseRunLock(i)
  PROVE  LocksHeld' /\ LocksHaveHolders'
  <1> DEFINE r == inv[i].run
  <1>1. inv[i].pc = "unlockRun" /\ WorksOnRun(i)
    BY DEF ReleaseRunLock, WorksOnRun
  <1>2. inv \in [Invocations -> InvType] /\ r \in RunIds
        /\ runLock \in [RunIds -> LockType]
    BY <1>1, LockFacts, TypeParts DEF InvOK
  <1>3. runLock[r] = LockFile(i) /\ Released(runLock[r], r) = NoLock
    BY <1>1, LockFacts DEF LocksHeld, Released
  <1>4. runLock' = [runLock EXCEPT ![r] = NoLock] /\ UNCHANGED profileLock
    BY <1>2, <1>3 DEF ReleaseRunLock
  <1>5. runLock'[r] = NoLock /\ \A m \in RunIds \ {r} : runLock'[m] = runLock[m]
    BY <1>4, <1>2
  <1>6. /\ ~WorksOnRun(i)'
        /\ inv'[i].pc = "unlockProfile" => inv[i].cmd \notin ConsolidateCommands
        /\ inv'[i].pc \in {"unlockProfile", "done"}
        /\ inv'[i].pc = "done" => inv[i].cmd \in ConsolidateCommands
        /\ inv'[i].pc = "unlockProfile" => SameCommand(i)
        /\ \A j \in Invocations \ {i} : inv'[j] = inv[j]
    BY <1>2, GotoShape, ExitType DEF ReleaseRunLock, Exit, SameCommand, WorksOnRun
  <1>7. \A j \in Invocations \ {i} :
          /\ WorksOnRun(j)' <=> WorksOnRun(j)
          /\ HoldsProfile(j)' <=> HoldsProfile(j)
          /\ LockFile(j)' = LockFile(j)
    BY <1>6 DEF WorksOnRun, HoldsProfile, LockFile
  <1>8. HoldsProfile(i)' <=> HoldsProfile(i)
    BY <1>1, <1>6 DEF SameCommand, WorksOnRun, HoldsProfile
  <1>9. HoldsProfile(i) => /\ LockFile(i)' = LockFile(i)
                           /\ inv'[i].profile = inv[i].profile
    BY <1>6 DEF HoldsProfile, SameCommand, LockFile
  <1>10. LocksHeld'
    <2>1. ASSUME NEW j \in Invocations \ {i}, WorksOnRun(j)
          PROVE  inv[j].run \in RunIds \ {r}
      <3>1. LockFile(j).by = j /\ LockFile(i).by = i /\ inv[j].run \in RunIds
        BY <2>1, <1>1, LockFacts
      <3>2. runLock[inv[j].run] = LockFile(j)
        BY <2>1 DEF LocksHeld
      <3> QED BY <3>1, <3>2, <1>3
    <2> QED BY <2>1, <1>4, <1>5, <1>6, <1>7, <1>8, <1>9 DEF LocksHeld, SameCommand
  <1>11. LocksHaveHolders'
    <2>1. ASSUME NEW m \in RunIds, runLock'[m] # NoLock
          PROVE  (LET j == runLock[m].by IN
                  (WorksOnRun(j) \/ inv[j].pc = "crashed") /\ inv[j].run = m)'
      <3>1. m # r /\ runLock'[m] = runLock[m] /\ runLock[m] # NoLock
        BY <2>1, <1>5
      <3>2. PICK j \in Invocations : j = runLock[m].by
        BY <3>1, LockFacts
      <3>3. (WorksOnRun(j) \/ inv[j].pc = "crashed") /\ inv[j].run = m
        BY <3>1, <3>2 DEF LocksHaveHolders
      <3>4. j # i
        BY <3>1, <3>3
      <3>5. (WorksOnRun(j) \/ inv[j].pc = "crashed")' /\ inv'[j].run = m
        BY <3>3, <3>4, <1>6, <1>7
      <3> QED BY <3>1, <3>2, <3>5
    <2>2. ASSUME NEW m \in Names, profileLock'[m] # NoLock
          PROVE  (LET j == profileLock[m].by IN
                  (HoldsProfile(j) \/ inv[j].pc = "crashed") /\ NameOf[inv[j].profile] = m)'
      <3>1. profileLock'[m] = profileLock[m] /\ profileLock[m] # NoLock
        BY <2>2, <1>4
      <3>2. PICK j \in Invocations : j = profileLock[m].by
        BY <3>1, LockFacts
      <3>3. (HoldsProfile(j) \/ inv[j].pc = "crashed") /\ NameOf[inv[j].profile] = m
        BY <3>1, <3>2 DEF LocksHaveHolders
      <3>4. (HoldsProfile(j) \/ inv[j].pc = "crashed")' /\ NameOf[inv'[j].profile] = m
        BY <3>3, <1>1, <1>6, <1>7, <1>8, <1>9
      <3> QED BY <3>1, <3>2, <3>4
    <2> QED BY <2>1, <2>2 DEF LocksHaveHolders
  <1> QED BY <1>10, <1>11

\* Giving up the profile lock, likewise.
LEMMA ReleaseProfileLocks ==
  ASSUME TypeOK, LocksHeld, LocksHaveHolders,
         NEW i \in Invocations, ReleaseProfileLock(i)
  PROVE  LocksHeld' /\ LocksHaveHolders'
  <1> DEFINE n == NameOf[inv[i].profile]
  <1>1. inv[i].pc = "unlockProfile" /\ HoldsProfile(i) /\ ~WorksOnRun(i)
    BY DEF ReleaseProfileLock, LocksHeld, WorksOnRun, HoldsProfile
  <1>2. inv \in [Invocations -> InvType] /\ n \in Names
        /\ profileLock \in [Names -> LockType]
    BY <1>1, LockFacts, TypeParts DEF InvOK
  <1>3. profileLock[n] = LockFile(i) /\ Released(profileLock[n], inv[i].run) = NoLock
    BY <1>1, LockFacts DEF LocksHeld, Released
  <1>4. profileLock' = [profileLock EXCEPT ![n] = NoLock] /\ UNCHANGED runLock
    BY <1>2, <1>3 DEF ReleaseProfileLock
  <1>5. profileLock'[n] = NoLock /\ \A m \in Names \ {n} : profileLock'[m] = profileLock[m]
    BY <1>4, <1>2
  <1>6. /\ inv'[i].pc = "done"
        /\ \A j \in Invocations \ {i} : inv'[j] = inv[j]
    BY <1>2, ExitType DEF ReleaseProfileLock, Exit
  <1>7. /\ ~WorksOnRun(i)' /\ ~HoldsProfile(i)'
        /\ \A j \in Invocations \ {i} :
             /\ WorksOnRun(j)' <=> WorksOnRun(j)
             /\ HoldsProfile(j)' <=> HoldsProfile(j)
             /\ LockFile(j)' = LockFile(j)
    BY <1>6 DEF WorksOnRun, HoldsProfile, LockFile
  <1>8. LocksHeld'
    <2>1. ASSUME NEW j \in Invocations \ {i}, HoldsProfile(j)
          PROVE  NameOf[inv[j].profile] \in Names \ {n}
      <3>1. LockFile(j).by = j /\ LockFile(i).by = i /\ NameOf[inv[j].profile] \in Names
        BY <2>1, <1>1, LockFacts
      <3>2. profileLock[NameOf[inv[j].profile]] = LockFile(j)
        BY <2>1 DEF LocksHeld
      <3> QED BY <3>1, <3>2, <1>3
    <2> QED BY <2>1, <1>4, <1>5, <1>6, <1>7 DEF LocksHeld
  <1>9. LocksHaveHolders'
    <2>1. ASSUME NEW m \in Names, profileLock'[m] # NoLock
          PROVE  (LET j == profileLock[m].by IN
                  (HoldsProfile(j) \/ inv[j].pc = "crashed") /\ NameOf[inv[j].profile] = m)'
      <3>1. m # n /\ profileLock'[m] = profileLock[m] /\ profileLock[m] # NoLock
        BY <2>1, <1>5
      <3>2. PICK j \in Invocations : j = profileLock[m].by
        BY <3>1, LockFacts
      <3>3. (HoldsProfile(j) \/ inv[j].pc = "crashed") /\ NameOf[inv[j].profile] = m
        BY <3>1, <3>2 DEF LocksHaveHolders
      <3>4. j # i
        BY <3>1, <3>3
      <3>5. (HoldsProfile(j) \/ inv[j].pc = "crashed")' /\ NameOf[inv'[j].profile] = m
        BY <3>3, <3>4, <1>6, <1>7
      <3> QED BY <3>1, <3>2, <3>5
    <2>2. ASSUME NEW m \in RunIds, runLock'[m] # NoLock
          PROVE  (LET j == runLock[m].by IN
                  (WorksOnRun(j) \/ inv[j].pc = "crashed") /\ inv[j].run = m)'
      <3>1. runLock'[m] = runLock[m] /\ runLock[m] # NoLock
        BY <2>2, <1>4
      <3>2. PICK j \in Invocations : j = runLock[m].by
        BY <3>1, LockFacts
      <3>3. (WorksOnRun(j) \/ inv[j].pc = "crashed") /\ inv[j].run = m
        BY <3>1, <3>2 DEF LocksHaveHolders
      <3>4. j # i
        BY <3>3, <1>1
      <3>5. (WorksOnRun(j) \/ inv[j].pc = "crashed")' /\ inv'[j].run = m
        BY <3>3, <3>4, <1>6, <1>7
      <3> QED BY <3>1, <3>2, <3>5
    <2> QED BY <2>1, <2>2 DEF LocksHaveHolders
  <1> QED BY <1>8, <1>9

\* An operator removes only lock files that nobody needs.
LEMMA StaleLocks ==
  ASSUME TypeOK, LocksHeld, LocksHaveHolders, RemoveStaleLock
  PROVE  LocksHeld' /\ LocksHaveHolders'
  <1>1. UNCHANGED inv
    BY DEF RemoveStaleLock
  <1>2. \A j \in Invocations :
          /\ WorksOnRun(j)' <=> WorksOnRun(j)
          /\ HoldsProfile(j)' <=> HoldsProfile(j)
          /\ LockFile(j)' = LockFile(j)
    BY <1>1 DEF WorksOnRun, HoldsProfile, LockFile
  <1>3. ASSUME NEW j \in Invocations, inv[j].pc \in Ended
        PROVE  ~WorksOnRun(j) /\ ~HoldsProfile(j)
    BY <1>3 DEF Ended, WorksOnRun, HoldsProfile
  <1>4. profileLock \in [Names -> LockType] /\ runLock \in [RunIds -> LockType]
    BY TypeParts
  <1>5. CASE \E n \in Names : /\ Stale(profileLock[n])
                              /\ profileLock' = [profileLock EXCEPT ![n] = NoLock]
                              /\ UNCHANGED runLock
    <2>1. PICK n \in Names : /\ Stale(profileLock[n])
                             /\ profileLock' = [profileLock EXCEPT ![n] = NoLock]
                             /\ UNCHANGED runLock
      BY <1>5
    <2>2. profileLock'[n] = NoLock /\ \A m \in Names \ {n} : profileLock'[m] = profileLock[m]
      BY <2>1, <1>4
    <2>3. ASSUME NEW j \in Invocations, HoldsProfile(j)
          PROVE  NameOf[inv[j].profile] \in Names \ {n}
      <3>1. LockFile(j).by = j /\ NameOf[inv[j].profile] \in Names
        BY <2>3, LockFacts
      <3>2. profileLock[NameOf[inv[j].profile]] = LockFile(j)
        BY <2>3 DEF LocksHeld
      <3> QED BY <3>1, <3>2, <2>1, <2>3, <1>3 DEF Stale
    <2>4. LocksHeld'
      BY <2>1, <2>2, <2>3, <1>1, <1>2 DEF LocksHeld
    <2>5. LocksHaveHolders'
      BY <2>1, <2>2, <1>1, <1>2, LockFacts DEF LocksHaveHolders
    <2> QED BY <2>4, <2>5
  <1>6. CASE \E r \in RunIds : /\ Stale(runLock[r])
                               /\ runLock' = [runLock EXCEPT ![r] = NoLock]
                               /\ UNCHANGED profileLock
    <2>1. PICK r \in RunIds : /\ Stale(runLock[r])
                              /\ runLock' = [runLock EXCEPT ![r] = NoLock]
                              /\ UNCHANGED profileLock
      BY <1>6
    <2>2. runLock'[r] = NoLock /\ \A m \in RunIds \ {r} : runLock'[m] = runLock[m]
      BY <2>1, <1>4
    <2>3. ASSUME NEW j \in Invocations, WorksOnRun(j)
          PROVE  inv[j].run \in RunIds \ {r}
      <3>1. LockFile(j).by = j /\ inv[j].run \in RunIds
        BY <2>3, LockFacts
      <3>2. runLock[inv[j].run] = LockFile(j)
        BY <2>3 DEF LocksHeld
      <3> QED BY <3>1, <3>2, <2>1, <2>3, <1>3 DEF Stale
    <2>4. LocksHeld'
      BY <2>1, <2>2, <2>3, <1>1, <1>2 DEF LocksHeld
    <2>5. LocksHaveHolders'
      BY <2>1, <2>2, <1>1, <1>2, LockFacts DEF LocksHaveHolders
    <2> QED BY <2>4, <2>5
  <1> QED BY <1>5, <1>6 DEF RemoveStaleLock

\* Initially there is no lock and no holder.
LEMMA LockInvInit == Init => LockInv
  <1> SUFFICES ASSUME Init PROVE LocksHeld /\ LocksHaveHolders
    BY TypeInvInit DEF LockInv
  <1>1. \A i \in Invocations : inv[i].pc = "new"
    BY DEF Init, Idle
  <1>2. LocksHeld
    BY <1>1 DEF LocksHeld, WorksOnRun, HoldsProfile
  <1>3. LocksHaveHolders
    BY DEF Init, LocksHaveHolders
  <1> QED BY <1>2, <1>3

\* Every step keeps the lock files and their holders in agreement.
LEMMA LockInvStep == LockInv /\ [Next]_vars => LockInv'
  <1> SUFFICES ASSUME LockInv, [Next]_vars PROVE LocksHeld' /\ LocksHaveHolders'
    BY TypeInvStep DEF LockInv
  <1> USE DEF LockInv, TypeInv
  <1>1. ASSUME NEW i \in Invocations, Begin(i) PROVE LocksHeld' /\ LocksHaveHolders'
    <2>1. ~WorksOnRun(i) /\ ~HoldsProfile(i) /\ inv[i].pc # "crashed"
          /\ UNCHANGED <<profileLock, runLock>>
      BY <1>1 DEF Begin, WorksOnRun, HoldsProfile
    <2> QED BY <1>1, <2>1, BeginType, LeaveLocks
  <1>2. ASSUME NEW i \in Invocations, Continue(i) PROVE LocksHeld' /\ LocksHaveHolders'
    BY <1>2, AcquireProfileLocks, AcquireRunLocks, ReleaseRunLocks, ReleaseProfileLocks,
       WorkLocks DEF Continue, WorkStep
  <1>3. ASSUME NEW i \in Invocations, Crash(i) PROVE LocksHeld' /\ LocksHaveHolders'
    BY <1>3, CrashShape, LeaveLocks DEF Crash
  <1>4. CASE RemoveStaleLock
    BY <1>4, StaleLocks
  <1>5. CASE UNCHANGED vars
    BY <1>5 DEF vars, LocksHeld, LocksHaveHolders, WorksOnRun, HoldsProfile, LockFile
  <1> QED BY <1>1, <1>2, <1>3, <1>4, <1>5 DEF Next

\* Two commands that hold the same lock file are one.
LEMMA HoldersAreAlone == LockInv => Exclusive
  <1> SUFFICES ASSUME LockInv, NEW i \in Invocations, NEW j \in Invocations, i # j
               PROVE  /\ WorksOnRun(i) /\ WorksOnRun(j) => inv[i].run # inv[j].run
                      /\ HoldsProfile(i) /\ HoldsProfile(j) =>
                            NameOf[inv[i].profile] # NameOf[inv[j].profile]
    BY DEF Exclusive
  <1>1. LockFile(i) # LockFile(j)
    BY DEF LockFile
  <1> QED BY <1>1 DEF LockInv, LocksHeld

\* The lock files exclude: whatever is killed, and whichever stale lock files
\* are removed, no two commands are at work on a run or on a profile name.
THEOREM MutualExclusion == Spec => []Exclusive
  BY HoldersAreAlone, LockInvInit, LockInvStep, PTL DEF Spec

\* No path through a command leaves a lock file behind, short of a kill.
THEOREM NoLeakedLock == Spec => []LocksHaveHolders
  <1>1. LockInv => LocksHaveHolders
    BY DEF LockInv
  <1> QED BY <1>1, LockInvInit, LockInvStep, PTL DEF Spec

-----------------------------------------------------------------------------
(* Every other step leaves the run directories alone.                      *)

QuietFrom == {"new", "lockProfile", "lockRun", "unlockRun", "unlockProfile"}
QuietTo == {"done", "lockProfile", "lockRun", "config", "unlockProfile"}
Quiet ==
    /\ UNCHANGED dir
    /\ \A j \in Invocations :
         \/ inv'[j] = inv[j]
         \/ /\ inv[j].pc \in QuietFrom /\ inv'[j].pc \in QuietTo
            /\ \/ inv'[j].ip = 1
               \/ inv[j].pc \in {"lockProfile", "lockRun"} /\ inv'[j].ip = inv[j].ip
               \/ inv'[j].pc = "unlockProfile"
         \/ /\ inv[j].pc \notin Ended /\ inv'[j].pc = "crashed"
            /\ inv'[j].cmd = inv[j].cmd /\ inv'[j].run = inv[j].run
            /\ inv'[j].profile = inv[j].profile

\* A step works on one run under its lock, or leaves every run directory alone.
LEMMA WorkOrQuiet ==
  ASSUME TypeOK, [Next]_vars
  PROVE  (\E i \in Invocations : WorkStep(i)) \/ Quiet
  <1> USE DEF QuietFrom, QuietTo
  <1>1. inv \in [Invocations -> InvType]
    BY TypeParts DEF InvOK
  <1>2. ASSUME NEW i \in Invocations, Begin(i) PROVE Quiet
    BY <1>2, BeginType DEF Begin, Quiet
  <1>3. ASSUME NEW i \in Invocations, Crash(i) PROVE Quiet
    BY <1>3, CrashShape DEF Crash, Quiet
  <1>4. CASE RemoveStaleLock \/ UNCHANGED vars
    BY <1>4 DEF RemoveStaleLock, vars, Quiet
  <1>5. ASSUME NEW i \in Invocations,
               \/ AcquireProfileLock(i) \/ AcquireRunLock(i)
               \/ ReleaseRunLock(i) \/ ReleaseProfileLock(i)
        PROVE  Quiet
    <2>1. /\ inv[i].pc \in QuietFrom /\ UNCHANGED dir
          /\ Exit(i) \/ Goto(i, "lockRun") \/ Goto(i, "config") \/ Goto(i, "unlockProfile")
          /\ Goto(i, "lockRun") \/ Goto(i, "config") => inv[i].pc \in {"lockProfile", "lockRun"}
      BY <1>5, <1>1, ExitType, GotoShape
      DEF AcquireProfileLock, AcquireRunLock, ReleaseRunLock, ReleaseProfileLock
    <2>2. CASE Exit(i)
      BY <2>1, <2>2, <1>1, ExitType DEF Exit, Quiet
    <2>3. ASSUME NEW pc \in {"lockRun", "config", "unlockProfile"}, Goto(i, pc) PROVE Quiet
      BY <2>1, <2>3, GotoShape DEF SameCommand, Quiet
    <2> QED BY <2>1, <2>2, <2>3
  <1> QED BY <1>2, <1>3, <1>4, <1>5 DEF Next, Continue, WorkStep

-----------------------------------------------------------------------------
(* Updates of run-state.json.                                              *)

\* A command that is not the one at work on it leaves a run's directory alone.
LEMMA OtherRunKept ==
  ASSUME LockInv, NEW i \in Invocations, WorkStep(i), NEW j \in Invocations \ {i},
         WorksOnRun(j)
  PROVE  inv'[j] = inv[j] /\ dir'[inv[j].run] = dir[inv[j].run] /\ inv[j].run \in RunIds
  <1>1. TypeOK /\ StepInv /\ Exclusive
    BY HoldersAreAlone DEF LockInv, TypeInv
  <1>2. inv[j].run \in RunIds
    BY <1>1, LockFacts
  <1>3. /\ inv[i].pc \in WorkPcs \ {"unlockRun"} /\ SameCommand(i)
        /\ \A r \in RunIds : r # inv[i].run => dir'[r] = dir[r]
    BY <1>1, WorkShape
  <1>4. inv[i].run # inv[j].run
    BY <1>1, <1>3 DEF Exclusive, WorksOnRun, WorkPcs
  <1> QED BY <1>2, <1>3, <1>4 DEF SameCommand

\* The state a consolidation is about to write is still the one on disk.
LEMMA UpdatesStep == LockInv /\ UpdatesSerialized /\ [Next]_vars => UpdatesSerialized'
  <1> SUFFICES ASSUME LockInv, UpdatesSerialized, [Next]_vars,
                      NEW j \in Invocations, inv'[j].pc \in {"msave", "save", "fsave"}
               PROVE  inv'[j].seen = Load(inv[j].run)'
    BY DEF UpdatesSerialized
  <1>1. TypeOK /\ StepInv
    BY DEF LockInv, TypeInv
  <1>2. ASSUME Quiet PROVE inv'[j].seen = Load(inv[j].run)'
    <2>1. inv'[j] = inv[j] /\ UNCHANGED dir
      BY <1>2 DEF Quiet, QuietTo
    <2> QED BY <2>1 DEF UpdatesSerialized, Load
  <1>3. ASSUME NEW i \in Invocations, WorkStep(i) PROVE inv'[j].seen = Load(inv[j].run)'
    <2>1. CASE j = i
      <3>1. UNCHANGED dir /\ inv'[i].seen = Load(inv[i].run) /\ inv'[i].run = inv[i].run
        BY <1>1, <1>3, <2>1, WorkShape DEF SameCommand
      <3> QED BY <3>1, <2>1 DEF Load
    <2>2. CASE j # i
      <3>1. inv'[j] = inv[j]
        BY <1>1, <1>3, <2>2, WorkShape DEF SameCommand
      <3>2. dir'[inv[j].run] = dir[inv[j].run]
        BY <1>3, <2>2, <3>1, OtherRunKept DEF WorksOnRun
      <3> QED BY <3>1, <3>2 DEF UpdatesSerialized, Load
    <2> QED BY <2>1, <2>2
  <1> QED BY <1>1, <1>2, <1>3, WorkOrQuiet

\* Initially no consolidation is under way.
LEMMA UpdatesInit == Init => UpdatesSerialized
  BY DEF Init, Idle, UpdatesSerialized

\* No update of run-state.json is lost: what a command overwrites is what it
\* read, although the file is read and written without a lock of its own.
THEOREM NoLostUpdate == Spec => []UpdatesSerialized
  BY LockInvInit, LockInvStep, UpdatesInit, UpdatesStep, PTL DEF Spec

-----------------------------------------------------------------------------
(* consolidate and the runs that have not been tested.                     *)

\* A consolidation starts from the state it read.
LEMMA StartStep ==
  ASSUME TypeOK, StepInv, StartInv, [Next]_vars
  PROVE  StartInv'
  <1>1. ASSUME Quiet PROVE StartInv'
    BY <1>1 DEF Quiet, QuietTo, QuietFrom, StartInv
  <1>2. ASSUME NEW i \in Invocations, WorkStep(i) PROVE StartInv'
    <2>1. /\ \A j \in Invocations \ {i} : inv'[j] = inv[j]
          /\ inv'[i].pc \in WorkPcs \ {"config"}
          /\ inv'[i].pc \in {"sha", "mload", "msave"} =>
               inv[i].pc \in {"config", "sha", "mload"} /\ inv'[i].ip = inv[i].ip
      BY <1>2, WorkShape DEF SameCommand
    <2> QED BY <2>1 DEF WorkPcs, StartInv
  <1> QED BY <1>1, <1>2, WorkOrQuiet

\* What a step of consolidate, past its guard, finds and leaves.
LEMMA ConsolidateStep ==
  ASSUME TypeOK, StepInv, StartInv, TestedInv, NEW i \in Invocations, WorkStep(i),
         inv[i].cmd \in ConsolidateCommands, inv'[i].pc \in {"body", "save"},
         inv'[i].ip # 1
  PROVE  ConsolidateAllowed(dir'[inv[i].run].state)
  <1> DEFINE c == inv[i]
             r == inv[i].run
  <1>1. /\ c \in InvType /\ c.ip \in Nat \ {0} /\ r \in RunIds
        /\ dir \in [RunIds -> DirType] /\ dir[r] \in DirType
    <2>1. c \in InvType /\ inv[i].pc \notin {"new", "done"}
      BY TypeParts, WorkShape DEF InvOK, WorkPcs
    <2> QED BY <2>1, TypeParts DEF InvOK, InvType
  <1>2. /\ Len(OpsOf(c)) = 5 /\ OpsOf(c)[1].op = "guard"
        /\ OpsOf(c)[1].to = "consolidate"
        /\ OpsOf(c)[2].op = "move" /\ OpsOf(c)[2].to = "collecting"
        /\ OpsOf(c)[3].op = "pull"
        /\ OpsOf(c)[4].op = "move" /\ OpsOf(c)[4].to = "consolidating"
        /\ OpsOf(c)[5].op = "work"
    BY <1>1, ShortCommands DEF Op
  <1>3. \A k \in Nat \ {0} : k <= 5 => k \in {1, 2, 3, 4, 5}
    OBVIOUS
  <1>4. c.cmd # "run" /\ c.cmd # "cleanup"
    BY DEF ConsolidateCommands
  <1>5. ~Failed(i) \/ c.pc # "body"
    BY <1>4, FailedShape
  <1>6. CASE Materialize(i) \/ WriteProfileSHA(i) \/ MaterializeLoad(i) \/ FailLoad(i)
             \/ FailSave(i) \/ Finish(i) \/ WorkFails(i)
    BY <1>6, <1>5, <1>4, GotoShape
    DEF Materialize, WriteProfileSHA, MaterializeLoad, FailLoad, FailSave, Finish,
        WorkFails, AtOp, LoadForUpdate, StepInv, ConsolidateCommands, RecordedCommands
  <1>7. CASE LoadConsolidateContext(i) \/ MaterializeSave(i)
    <2>1. c.ip = 1 /\ inv'[i].ip = c.ip
      BY <1>7, GotoShape DEF LoadConsolidateContext, MaterializeSave, StartInv
    <2> QED BY <2>1
  <1>8. CASE BeginUpdate(i) \/ PassOver(i)
    <2>1. /\ UNCHANGED dir /\ c.pc = "body" /\ c.ip <= 5
          /\ OpsOf(c)[c.ip].op \in UpdateOps
      BY <1>8, <1>2 DEF BeginUpdate, PassOver, AtOp, UpdateOps
    <2>2. c.ip # 1
      BY <2>1, <1>2 DEF UpdateOps
    <2> QED BY <2>1, <2>2 DEF TestedInv
  <1>9. CASE EndUpdate(i)
    <2>1. c.pc = "save" /\ c.ip <= 5 /\ OpsOf(c)[c.ip].op \in UpdateOps
      BY <1>9, <1>2 DEF EndUpdate, StepInv
    <2>2. c.ip \in {2, 4}
      BY <2>1, <1>1, <1>2, <1>3 DEF UpdateOps
    <2>3. /\ OpsOf(c)[c.ip].op = "move"
          /\ OpsOf(c)[c.ip].to \in {"collecting", "consolidating"}
      BY <2>2, <1>2
    <2>4. dir'[r].state = OpsOf(c)[c.ip].to
      BY <2>3, <1>1, <1>9 DEF EndUpdate, Save, DirType
    <2> QED BY <2>3, <2>4 DEF ConsolidateAllowed, ConsolidateReady
  <1>10. CASE Guard(i)
    <2>1. c.pc = "body" /\ ~Failed(i) /\ UNCHANGED dir /\ c.ip <= 5
          /\ OpsOf(c)[c.ip].op = "guard"
      BY <1>10, <1>5, <1>2 DEF Guard, AtOp
    <2>2. c.ip = 1
      BY <2>1, <1>1, <1>2, <1>3
    <2>3. dir[r].state # "none" /\ ConsolidateAllowed(Load(r).state)
      BY <2>1, <2>2, <1>2, <1>10 DEF Guard
    <2> QED BY <2>1, <2>3 DEF Load
  <1>11. CASE Work(i)
    <2>1. c.pc = "body" /\ c.ip <= 5 /\ OpsOf(c)[c.ip].op \in {"work", "pull"}
          /\ dir'[r].state = dir[r].state
      BY <1>11, <1>1, <1>2 DEF Work, AtOp, DirType
    <2>2. c.ip # 1
      BY <2>1, <1>2
    <2> QED BY <2>1, <2>2 DEF TestedInv
  <1>12. CASE RemoveRun(i)
    BY <1>12, <1>1, <1>4, OpsType DEF RemoveRun, AtOp
  <1> QED BY <1>6, <1>7, <1>8, <1>9, <1>10, <1>11, <1>12 DEF WorkStep

\* A run once tested stays tested as long as its directory does.
LEMMA TestedStep ==
  ASSUME LockInv, StartInv, TestedInv, [Next]_vars
  PROVE  TestedInv'
  <1> SUFFICES ASSUME NEW j \in Invocations, inv'[j].cmd \in ConsolidateCommands,
                      inv'[j].pc \in {"body", "save"}, inv'[j].ip # 1
               PROVE  ConsolidateAllowed(dir'[inv'[j].run].state)
    BY DEF TestedInv
  <1>1. TypeOK /\ StepInv
    BY DEF LockInv, TypeInv
  <1>2. CASE Quiet
    <2>1. inv'[j] = inv[j] /\ UNCHANGED dir
      BY <1>2 DEF Quiet, QuietTo
    <2> QED BY <2>1 DEF TestedInv
  <1>3. ASSUME NEW i \in Invocations, WorkStep(i)
        PROVE  ConsolidateAllowed(dir'[inv'[j].run].state)
    <2>1. SameCommand(i)
      BY <1>1, <1>3, WorkShape
    <2>2. CASE j = i
      BY <1>1, <1>3, <2>1, <2>2, ConsolidateStep DEF SameCommand
    <2>3. CASE j # i
      <3>1. inv'[j] = inv[j]
        BY <2>1, <2>3 DEF SameCommand
      <3>2. dir'[inv[j].run] = dir[inv[j].run]
        BY <1>3, <2>3, <3>1, OtherRunKept DEF WorksOnRun
      <3> QED BY <3>1, <3>2 DEF TestedInv
    <2> QED BY <2>2, <2>3
  <1> QED BY <1>1, <1>2, <1>3, WorkOrQuiet

ConsolidateInv == LockInv /\ UpdatesSerialized /\ StartInv /\ TestedInv

\* The invariant of consolidation holds initially.
LEMMA ConsolidateInvInit == Init => ConsolidateInv
  <1>1. Init => StartInv /\ TestedInv
    BY DEF Init, Idle, StartInv, TestedInv
  <1> QED BY <1>1, LockInvInit, UpdatesInit DEF ConsolidateInv

\* Every step keeps it.
LEMMA ConsolidateInvStep == ConsolidateInv /\ [Next]_vars => ConsolidateInv'
  BY LockInvStep, UpdatesStep, StartStep, TestedStep DEF ConsolidateInv, LockInv, TypeInv

\* A run that consolidate may go on with has been tested.
LEMMA AllowedIsTested ==
  ASSUME NEW st, ConsolidateAllowed(st), st \in DOMAIN PipelineOrder
  PROVE  Reached(st, "draining")
  <1>1. st \in {"draining", "checking_result", "collecting", "consolidating", "completed"}
    BY PipelineStates DEF ConsolidateAllowed, ConsolidateReady, IsTerminal
  <1>2. /\ PipelineOrder["draining"] = 10 /\ PipelineOrder["checking_result"] = 11
        /\ PipelineOrder["collecting"] = 12 /\ PipelineOrder["consolidating"] = 13
        /\ PipelineOrder["completed"] = 14
    BY DEF PipelineOrder
  <1> QED BY <1>1, <1>2 DEF Reached

\* A step of a consolidation does not touch a run without a test.
LEMMA UntestedKept ==
  ASSUME ConsolidateInv, [Next]_vars, NEW i \in Invocations,
         inv[i].cmd \in ConsolidateCommands, WorksOnRun(i),
         dir[inv[i].run].state \in DOMAIN PipelineOrder,
         ~Reached(dir[inv[i].run].state, "draining")
  PROVE  dir'[inv[i].run].state = dir[inv[i].run].state
  <1> DEFINE c == inv[i]
             r == inv[i].run
  <1>1. LockInv /\ TypeOK /\ StepInv /\ StartInv /\ TestedInv /\ UpdatesSerialized
    BY DEF ConsolidateInv, LockInv, TypeInv
  <1>2. /\ c \in InvType /\ c.ip \in Nat \ {0} /\ r \in RunIds
        /\ dir \in [RunIds -> DirType] /\ dir[r] \in DirType
    BY <1>1, LockFacts, TypeParts DEF InvOK, InvType
  <1>3. CASE Quiet
    BY <1>3 DEF Quiet
  <1>4. ASSUME NEW k \in Invocations \ {i}, WorkStep(k)
        PROVE  dir'[r].state = dir[r].state
    BY <1>1, <1>4, OtherRunKept
  <1>5. ASSUME WorkStep(i) PROVE dir'[r].state = dir[r].state
    <2>1. c.cmd # "run" /\ c.cmd # "cleanup"
      BY DEF ConsolidateCommands
    <2>2. CASE LoadConsolidateContext(i) \/ MaterializeLoad(i) \/ FailLoad(i)
               \/ BeginUpdate(i) \/ PassOver(i) \/ Guard(i) \/ WorkFails(i) \/ Finish(i)
      <3>1. UNCHANGED dir
        BY <2>2
        DEF LoadConsolidateContext, MaterializeLoad, FailLoad, LoadForUpdate,
            BeginUpdate, PassOver, Guard, WorkFails, Finish
      <3> QED BY <3>1
    <2>7. CASE Materialize(i)
      <3>1. \/ UNCHANGED dir
            \/ \E p : dir' = [dir EXCEPT ![r] = [@ EXCEPT !.made = TRUE, !.config = p]]
        BY <2>7 DEF Materialize
      <3>2. ASSUME NEW p, dir' = [dir EXCEPT ![r] = [@ EXCEPT !.made = TRUE, !.config = p]]
            PROVE  dir'[r].state = dir[r].state
        <4>1. dir'[r] = [dir[r] EXCEPT !.made = TRUE, !.config = p]
          BY <3>2, <1>2
        <4> QED BY <4>1, <1>2 DEF DirType
      <3> QED BY <3>1, <3>2
    <2>8. CASE WriteProfileSHA(i)
      BY <2>8, <1>2 DEF WriteProfileSHA, DirType
    <2>9. CASE Work(i)
      BY <2>9, <1>2 DEF Work, DirType
    <2>3. CASE MaterializeSave(i)
      <3>1. c.seen = Load(r) /\ dir[r].state # "none"
        BY <2>3, <1>1, PipelineStates DEF MaterializeSave, UpdatesSerialized
      <3>2. dir'[r].state = c.seen.state
        BY <2>3, <1>2 DEF MaterializeSave, Save, DirType
      <3> QED BY <3>1, <3>2 DEF Load
    <2>4. CASE EndUpdate(i)
      <3>1. c.pc = "save" /\ OpsOf(c)[c.ip].op \in UpdateOps
        BY <2>4, <1>1 DEF EndUpdate, StepInv
      <3>2. OpsOf(c)[1].op = "guard"
        BY <1>2, ShortCommands DEF Op
      <3>3. ConsolidateAllowed(dir[r].state)
        BY <3>1, <3>2, <1>1 DEF UpdateOps, TestedInv
      <3> QED BY <3>3, AllowedIsTested
    <2>5. CASE RemoveRun(i)
      BY <2>5, <2>1, <1>2, OpsType DEF RemoveRun, AtOp
    <2>6. CASE FailSave(i)
      BY <2>6, <2>1, <1>1 DEF FailSave, StepInv
    <2> QED BY <1>5, <2>2, <2>3, <2>4, <2>5, <2>6, <2>7, <2>8, <2>9 DEF WorkStep
  <1> QED BY <1>1, <1>3, <1>4, <1>5, WorkOrQuiet

\* consolidate never changes the state of a run that has not finished its test,
\* although it looks at the run before it holds any lock.
THEOREM UntestedRunsSafe == Spec => UntestedRunUnchanged
  <1>1. ConsolidateInv /\ [Next]_vars =>
          [\A i \in Invocations :
             LET r == inv[i].run IN
             inv[i].cmd \in ConsolidateCommands /\ WorksOnRun(i)
                /\ dir[r].state \in DOMAIN PipelineOrder
                /\ ~Reached(dir[r].state, "draining")
             => dir'[r].state = dir[r].state]_vars
    BY UntestedKept
  <1> QED
    BY <1>1, ConsolidateInvInit, ConsolidateInvStep, PTL DEF Spec, UntestedRunUnchanged

-----------------------------------------------------------------------------
(* The profile a run was made from.                                        *)

\* The steps that leave run-config.json and profile.sha256 alone.
LEMMA FilesKept ==
  ASSUME TypeOK, StepInv, NEW i \in Invocations, WorkStep(i),
         ~Materialize(i), ~LoadConsolidateContext(i), ~WriteProfileSHA(i), ~RemoveRun(i)
  PROVE  /\ \A r \in RunIds : dir'[r].config = dir[r].config /\ dir'[r].sha = dir[r].sha
         /\ inv[i].pc \in FilePcs /\ inv'[i].pc \in FilePcs \cup {"unlockRun"}
         /\ inv'[i].pc \in {"mload", "msave"} => inv[i].pc \in {"mload", "msave"}
         /\ ~(inv[i].cmd = "cleanup" /\ inv[i].pc = "body" /\ inv[i].ip = 2)
  <1>1. /\ inv[i] \in InvType /\ inv[i].run \in RunIds
        /\ dir \in [RunIds -> DirType]
    <2>1. inv[i].pc \notin {"new", "done"}
      BY WorkShape DEF WorkPcs
    <2> QED BY <2>1, TypeParts DEF InvOK
  <1>2. inv[i].cmd = "cleanup" /\ inv[i].ip = 2 =>
          /\ ~AtOp(inv[i], {"work", "pull"}) /\ ~AtOp(inv[i], {"guard"})
          /\ ~AtOp(inv[i], UpdateOps) /\ ~AtOp(inv[i], {"try"})
          /\ Len(OpsOf(inv[i])) = 2
    BY <1>1, ShortCommands DEF AtOp, UpdateOps, Op
  <1>3. ASSUME NEW r \in RunIds, NEW file, Save(r, file)
        PROVE  \A x \in RunIds : dir'[x].config = dir[x].config /\ dir'[x].sha = dir[x].sha
    BY <1>1, <1>3 DEF Save, DirType
  <1>4. CASE MaterializeLoad(i) \/ FailLoad(i)
    BY <1>4, GotoShape DEF MaterializeLoad, FailLoad, LoadForUpdate, FilePcs
  <1>5. CASE MaterializeSave(i) \/ EndUpdate(i) \/ FailSave(i)
    <2>1. \E file : Save(inv[i].run, file)
      BY <1>5 DEF MaterializeSave, EndUpdate, FailSave
    <2>2. inv[i].pc \in {"msave", "save", "fsave"}
      BY <1>5 DEF MaterializeSave, EndUpdate, FailSave
    <2>3. inv'[i].pc \in {"body", "unlockRun"}
      <3>1. CASE MaterializeSave(i)
        BY <3>1, <1>1, TypeParts DEF MaterializeSave, InvOK, InvType
      <3> QED BY <1>5, <3>1, GotoShape DEF EndUpdate, FailSave
    <2> QED BY <2>1, <2>2, <2>3, <1>1, <1>3 DEF FilePcs
  <1>6. CASE BeginUpdate(i)
    <2>1. AtOp(inv[i], UpdateOps) /\ UNCHANGED dir /\ inv[i].pc = "body"
      BY <1>6 DEF BeginUpdate, UpdateOps, AtOp
    <2>2. inv'[i].pc \in {"save", "body", "fload", "unlockRun"}
      BY <1>6, <2>1, GotoShape, FailedShape DEF BeginUpdate
    <2> QED BY <2>1, <2>2, <1>2 DEF FilePcs
  <1>7. CASE PassOver(i)
    BY <1>7, <1>2, GotoShape DEF PassOver, AtOp, FilePcs
  <1>8. CASE Guard(i)
    <2>1. AtOp(inv[i], {"guard"}) /\ UNCHANGED dir /\ inv[i].pc = "body"
      BY <1>8 DEF Guard, AtOp
    <2>2. inv'[i].pc \in {"body", "fload", "unlockRun"}
      BY <1>8, <2>1, GuardShape, FailedShape
    <2> QED BY <2>1, <2>2, <1>2 DEF FilePcs
  <1>9. CASE Work(i)
    <2>1. AtOp(inv[i], {"work", "pull"}) /\ inv[i].pc = "body" /\ inv'[i].pc = "body"
      BY <1>9, GotoShape DEF Work, AtOp
    <2>2. \A x \in RunIds : dir'[x].config = dir[x].config /\ dir'[x].sha = dir[x].sha
      BY <1>9, <1>1 DEF Work, DirType
    <2> QED BY <2>1, <2>2, <1>2 DEF FilePcs
  <1>10. CASE WorkFails(i)
    <2>1. AtOp(inv[i], {"work", "pull"}) /\ UNCHANGED dir /\ inv[i].pc = "body"
      BY <1>10 DEF WorkFails, AtOp
    <2> QED BY <2>1, <1>10, <1>2, FailedShape DEF WorkFails, FilePcs
  <1>11. CASE Finish(i)
    <2>1. /\ UNCHANGED dir /\ inv[i].pc = "body" /\ inv'[i].pc = "unlockRun"
          /\ inv[i].ip > Len(OpsOf(inv[i]))
      BY <1>11, GotoShape DEF Finish
    <2>2. ASSUME inv[i].cmd = "cleanup", inv[i].ip = 2 PROVE FALSE
      <3>1. Len(OpsOf(inv[i])) = 2
        BY <2>2, <1>2
      <3>2. 2 > 2
        BY <3>1, <2>1, <2>2
      <3> QED BY <3>2
    <2> QED BY <2>1, <2>2 DEF FilePcs
  <1> QED BY <1>4, <1>5, <1>6, <1>7, <1>8, <1>9, <1>10, <1>11 DEF WorkStep

\* What Materialize does to the two files, by the way it goes on.
LEMMA MaterializeShape ==
  ASSUME TypeOK, NEW i \in Invocations, Materialize(i)
  PROVE  LET r == inv[i].run
             p == inv[i].profile
             recorded == inv[i].cmd \in RecordedCommands
         IN
         /\ inv[i].pc = "config" /\ inv[i].cmd # "consolidate_force" /\ SameCommand(i)
         /\ r \in RunIds /\ p \in Profiles
         /\ \/ UNCHANGED dir /\ inv'[i].pc = "unlockRun"
            \/ /\ UNCHANGED dir /\ dir[r].config # NoProfile /\ dir[r].sha = p
               /\ inv'[i].pc = IF recorded THEN "body" ELSE "mload"
            \/ /\ dir[r].config = NoProfile /\ ~recorded /\ inv'[i].pc = "sha"
               /\ dir'[r].config = p /\ dir'[r].sha = dir[r].sha
               /\ \A x \in RunIds \ {r} : dir'[x] = dir[x]
  <1> DEFINE r == inv[i].run
             p == inv[i].profile
  <1>1. inv[i].pc = "config" /\ inv[i].cmd # "consolidate_force"
    BY DEF Materialize
  <1>2. r \in RunIds /\ p \in Profiles /\ dir \in [RunIds -> DirType]
    BY <1>1, TypeParts DEF InvOK
  <1>3. CASE dir[r].config = NoProfile /\ inv[i].cmd \notin RecordedCommands
    <2>1. /\ dir' = [dir EXCEPT ![r] = [@ EXCEPT !.made = TRUE, !.config = p]]
          /\ Goto(i, "sha")
      BY <1>3 DEF Materialize
    <2>2. dir'[r] = [dir[r] EXCEPT !.made = TRUE, !.config = p]
      BY <2>1, <1>2
    <2>3. dir'[r].config = p /\ dir'[r].sha = dir[r].sha
      BY <2>2, <1>2 DEF DirType
    <2>4. \A x \in RunIds \ {r} : dir'[x] = dir[x]
      BY <2>1, <1>2
    <2> QED BY <2>1, <2>3, <2>4, <1>1, <1>2, <1>3, GotoShape
  <1>4. CASE dir[r].config = NoProfile /\ inv[i].cmd \in RecordedCommands
    BY <1>1, <1>2, <1>4, GotoShape DEF Materialize
  <1>5. CASE dir[r].config # NoProfile
    <2>1. /\ UNCHANGED dir
          /\ Goto(i, IF dir[r].sha # p THEN "unlockRun"
                     ELSE IF inv[i].cmd \in RecordedCommands THEN "body"
                     ELSE "mload")
      BY <1>5 DEF Materialize
    <2> QED BY <2>1, <1>1, <1>2, <1>5, GotoShape
  <1> QED BY <1>3, <1>4, <1>5

\* What a step of cleanup that removes a file leaves.
LEMMA RemoveShape ==
  ASSUME TypeOK, NEW i \in Invocations, RemoveRun(i)
  PROVE  LET r == inv[i].run IN
         /\ inv[i].cmd = "cleanup" /\ inv[i].pc = "body" /\ inv[i].ip = 2
         /\ r \in RunIds /\ SameCommand(i) /\ inv'[i].pc = "body"
         /\ dir'[r].sha \in {dir[r].sha, NoProfile}
         /\ dir'[r].config \in {dir[r].config, NoProfile}
         /\ dir'[r].sha # NoProfile => inv' = inv
         /\ \A x \in RunIds \ {r} : dir'[x] = dir[x]
  <1> DEFINE r == inv[i].run
             d == dir[r]
  <1>1. AtOp(inv[i], {"remove"}) /\ inv[i].pc = "body"
    BY DEF RemoveRun, AtOp
  <1>2. inv[i] \in InvType /\ r \in RunIds /\ dir \in [RunIds -> DirType] /\ d \in DirType
    BY <1>1, TypeParts DEF InvOK
  <1>3. inv[i].cmd = "cleanup" /\ inv[i].ip = 2
    BY <1>1, <1>2, OpsType DEF AtOp, InvType
  <1>4. SameCommand(i) /\ inv'[i].pc = "body"
    <2>1. UNCHANGED inv \/ NextOp(i)
      BY DEF RemoveRun
    <2> QED BY <2>1, <1>1, GotoShape
  <1>5. \/ /\ UNCHANGED inv
           /\ \/ dir' = [dir EXCEPT ![r].collected = FALSE]
              \/ dir' = [dir EXCEPT ![r].config = NoProfile]
              \/ dir' = [dir EXCEPT ![r].sha = NoProfile]
              \/ dir' = [dir EXCEPT ![r] = [@ EXCEPT !.state = "none", !.skipped = {}]]
        \/ dir' = [dir EXCEPT ![r] = AbsentDir]
    BY DEF RemoveRun
  <1>6. \A x \in RunIds \ {r} : dir'[x] = dir[x]
    BY <1>5, <1>2
  <1>7. /\ dir'[r].sha \in {d.sha, NoProfile} /\ dir'[r].config \in {d.config, NoProfile}
        /\ dir'[r].sha # NoProfile => inv' = inv
    <2>1. CASE dir' = [dir EXCEPT ![r] = AbsentDir]
      BY <2>1, <1>2 DEF AbsentDir
    <2>2. CASE dir' = [dir EXCEPT ![r].collected = FALSE] /\ UNCHANGED inv
      BY <2>2, <1>2 DEF DirType
    <2>3. CASE dir' = [dir EXCEPT ![r].config = NoProfile] /\ UNCHANGED inv
      BY <2>3, <1>2 DEF DirType
    <2>4. CASE dir' = [dir EXCEPT ![r].sha = NoProfile] /\ UNCHANGED inv
      BY <2>4, <1>2 DEF DirType
    <2>5. CASE dir' = [dir EXCEPT ![r] = [@ EXCEPT !.state = "none", !.skipped = {}]]
               /\ UNCHANGED inv
      <3>1. dir'[r] = [d EXCEPT !.state = "none", !.skipped = {}]
        BY <2>5, <1>2
      <3> QED BY <3>1, <2>5, <1>2 DEF DirType
    <2> QED BY <1>5, <2>1, <2>2, <2>3, <2>4, <2>5
  <1> QED BY <1>1, <1>2, <1>3, <1>4, <1>6, <1>7

\* What writing profile.sha256 changes.
LEMMA WriteProfileSHAShape ==
  ASSUME TypeOK, NEW i \in Invocations, WriteProfileSHA(i)
  PROVE  LET r == inv[i].run IN
         /\ inv[i].pc = "sha" /\ inv'[i].pc = "mload" /\ SameCommand(i)
         /\ r \in RunIds /\ inv[i].profile \in Profiles
         /\ dir'[r].sha = inv[i].profile /\ dir'[r].config = dir[r].config
         /\ \A x \in RunIds \ {r} : dir'[x] = dir[x]
  <1>1. inv[i].pc = "sha" /\ Goto(i, "mload")
    BY DEF WriteProfileSHA
  <1>2. inv[i].run \in RunIds /\ inv[i].profile \in Profiles /\ dir \in [RunIds -> DirType]
    BY <1>1, TypeParts DEF InvOK
  <1>3. /\ dir'[inv[i].run].sha = inv[i].profile
        /\ dir'[inv[i].run].config = dir[inv[i].run].config
        /\ \A x \in RunIds \ {inv[i].run} : dir'[x] = dir[x]
    BY <1>2 DEF WriteProfileSHA, DirType
  <1> QED BY <1>1, <1>2, <1>3, GotoShape

\* A command past the profile check works on a run recorded with its profile.
LEMMA ShaStep ==
  ASSUME LockInv, ShaInv, [Next]_vars
  PROVE  ShaInv'
  <1> SUFFICES ASSUME NEW j \in Invocations PROVE ShaOK(j)'
    BY DEF ShaInv
  <1>1. TypeOK /\ StepInv /\ ShaOK(j)
    BY DEF LockInv, TypeInv, ShaInv
  <1>2. CASE Quiet
    <2>1. \/ inv'[j] = inv[j] /\ UNCHANGED dir
          \/ inv'[j].pc \notin FilePcs \cup {"sha"}
      BY <1>2 DEF Quiet, QuietTo, FilePcs
    <2> QED BY <2>1, <1>1 DEF ShaOK, FilePcs
  <1>3. ASSUME NEW i \in Invocations, WorkStep(i) PROVE ShaOK(j)'
    <2>1. SameCommand(i)
      BY <1>1, <1>3, WorkShape
    <2>2. CASE j # i
      <3>1. inv'[j] = inv[j]
        BY <2>1, <2>2 DEF SameCommand
      <3>2. CASE WorksOnRun(j)
        <4>1. dir'[inv[j].run] = dir[inv[j].run]
          BY <1>3, <2>2, <3>2, OtherRunKept
        <4> QED BY <3>1, <4>1, <1>1 DEF ShaOK
      <3>3. CASE ~WorksOnRun(j)
        BY <3>1, <3>3 DEF ShaOK, WorksOnRun, FilePcs
      <3> QED BY <3>2, <3>3
    <2>3. CASE j = i
      <3>1. /\ inv'[i].cmd = inv[i].cmd /\ inv'[i].run = inv[i].run
            /\ inv'[i].profile = inv[i].profile /\ ShaOK(i)
        BY <2>1, <2>3, <1>1 DEF SameCommand
      <3>2. CASE Materialize(i)
        <4>1. \/ inv'[i].pc = "unlockRun"
              \/ /\ UNCHANGED dir /\ dir[inv[i].run].config # NoProfile
                 /\ dir[inv[i].run].sha = inv[i].profile
                 /\ inv'[i].pc = IF inv[i].cmd \in RecordedCommands THEN "body" ELSE "mload"
              \/ /\ inv[i].cmd \notin RecordedCommands /\ inv'[i].pc = "sha"
                 /\ dir'[inv[i].run].config = inv[i].profile
          BY <3>2, <1>1, MaterializeShape
        <4>2. inv[i].cmd # "consolidate_force"
          BY <3>2 DEF Materialize
        <4> QED BY <4>1, <4>2, <3>1, <2>3 DEF ShaOK, FilePcs, RecordedCommands
      <3>3. CASE LoadConsolidateContext(i)
        <4>1. /\ UNCHANGED dir /\ inv[i].cmd = "consolidate_force"
              /\ \/ inv'[i].pc = "unlockRun"
                 \/ /\ inv'[i].pc = "body" /\ dir[inv[i].run].config # NoProfile
                    /\ NameOf[dir[inv[i].run].config] = NameOf[inv[i].profile]
          BY <3>3, <1>1, GotoShape DEF LoadConsolidateContext, VerifyConsolidateIdentity
        <4> QED BY <4>1, <3>1, <2>3 DEF ShaOK, FilePcs
      <3>4. CASE WriteProfileSHA(i)
        <4>1. /\ inv[i].pc = "sha" /\ inv'[i].pc = "mload" /\ inv[i].profile \in Profiles
              /\ dir'[inv[i].run].sha = inv[i].profile
              /\ dir'[inv[i].run].config = dir[inv[i].run].config
          BY <3>4, <1>1, WriteProfileSHAShape
        <4>2. inv[i].profile # NoProfile
          BY <4>1, NullsAssumption
        <4> QED BY <4>1, <4>2, <3>1, <2>3 DEF ShaOK, FilePcs, RecordedCommands
      <3>5. CASE RemoveRun(i)
        <4>1. /\ inv[i].cmd = "cleanup" /\ inv[i].pc = "body" /\ inv'[i].pc = "body"
              /\ dir'[inv[i].run].sha \in {dir[inv[i].run].sha, NoProfile}
          BY <3>5, <1>1, RemoveShape
        <4> QED BY <4>1, <3>1, <2>3 DEF ShaOK, FilePcs
      <3>6. CASE ~Materialize(i) /\ ~LoadConsolidateContext(i) /\ ~WriteProfileSHA(i)
                 /\ ~RemoveRun(i)
        <4>1. inv[i].run \in RunIds
          BY <1>1, <1>3, WorkShape, TypeParts DEF InvOK, WorkPcs
        <4>2. /\ dir'[inv[i].run].config = dir[inv[i].run].config
              /\ dir'[inv[i].run].sha = dir[inv[i].run].sha
              /\ inv[i].pc \in FilePcs /\ inv'[i].pc \in FilePcs \cup {"unlockRun"}
              /\ inv'[i].pc \in {"mload", "msave"} => inv[i].pc \in {"mload", "msave"}
          BY <3>6, <4>1, <1>1, <1>3, FilesKept
        <4> QED BY <4>2, <3>1, <2>3 DEF ShaOK, FilePcs
      <3> QED BY <3>2, <3>3, <3>4, <3>5, <3>6
    <2> QED BY <2>2, <2>3
  <1> QED BY <1>1, <1>2, <1>3, WorkOrQuiet

\* What a killed command has left is still there while the files are.
LEMMA KilledStays ==
  ASSUME NEW r \in RunIds, dir'[r].sha = dir[r].sha,
         \A j \in Invocations : inv[j].pc = "crashed" => inv'[j] = inv[j]
  PROVE  /\ KilledCleanup(r) => KilledCleanup(r)'
         /\ dir'[r].config = dir[r].config /\ InterruptedRebuild(r) => InterruptedRebuild(r)'
  <1>1. ASSUME KilledCleanup(r) PROVE KilledCleanup(r)'
    BY <1>1 DEF KilledCleanup
  <1>2. ASSUME dir'[r].config = dir[r].config, InterruptedRebuild(r)
        PROVE  InterruptedRebuild(r)'
    BY <1>2 DEF InterruptedRebuild
  <1> QED BY <1>1, <1>2

\* A step that touches no directory keeps the two files in agreement.
LEMMA FilesQuiet ==
  ASSUME TypeOK, ShaInv, Quiet, NEW r \in RunIds, FilesOK(r)
  PROVE  FilesOK(r)'
  <1>1. UNCHANGED dir /\ \A j \in Invocations : inv[j].pc = "crashed" => inv'[j] = inv[j]
    BY DEF Quiet, QuietFrom, Ended
  <1>2. /\ KilledCleanup(r) => KilledCleanup(r)'
        /\ InterruptedRebuild(r) => InterruptedRebuild(r)'
    BY <1>1, KilledStays
  <1>3. ASSUME Removing(r), dir[r].sha # NoProfile
        PROVE  Removing(r)' \/ KilledCleanup(r)'
    <2>1. PICK j \in Invocations : /\ inv[j].cmd = "cleanup" /\ inv[j].run = r
                                   /\ inv[j].pc = "body" /\ inv[j].ip = 2
      BY <1>3 DEF Removing
    <2>2. inv[j].profile = dir[r].sha
      BY <1>3, <2>1 DEF ShaInv, ShaOK, FilePcs
    <2>3. CASE inv'[j] = inv[j]
      BY <2>1, <2>3 DEF Removing
    <2>4. CASE inv'[j] # inv[j]
      BY <1>1, <2>1, <2>2, <2>4 DEF Quiet, QuietFrom, KilledCleanup
    <2> QED BY <2>3, <2>4
  <1>4. ASSUME Rebuilding(r), KilledCleanup(r)
        PROVE  Rebuilding(r)' \/ InterruptedRebuild(r)'
    <2>1. PICK j \in Invocations : inv[j].run = r /\ inv[j].pc = "sha"
      BY <1>4 DEF Rebuilding
    <2>2. /\ inv[j].profile = dir[r].config
          /\ inv[j].cmd \notin RecordedCommands \cup {"consolidate_force"}
      BY <2>1 DEF ShaInv, ShaOK
    <2>3. CASE inv'[j] = inv[j]
      BY <2>1, <2>3 DEF Rebuilding
    <2>4. CASE inv'[j] # inv[j]
      <3>1. /\ inv'[j].pc = "crashed" /\ inv'[j].cmd = inv[j].cmd
            /\ inv'[j].run = inv[j].run /\ inv'[j].profile = inv[j].profile
        BY <2>1, <2>4 DEF Quiet, QuietFrom
      <3> QED BY <1>1, <1>2, <1>4, <2>1, <2>2, <3>1 DEF KilledCleanup, InterruptedRebuild
    <2> QED BY <2>3, <2>4
  <1> QED BY <1>1, <1>2, <1>3, <1>4 DEF FilesOK

\* So does a step of the command that holds the lock of the run.
LEMMA FilesWork ==
  ASSUME LockInv, ShaInv, NEW i \in Invocations, WorkStep(i), NEW r \in RunIds, FilesOK(r)
  PROVE  FilesOK(r)'
  <1>1. TypeOK /\ StepInv /\ Exclusive
    BY HoldersAreAlone DEF LockInv, TypeInv
  <1>2. /\ SameCommand(i)
        /\ inv[i].pc \in WorkPcs \ {"unlockRun"} /\ inv'[i].pc \in WorkPcs \ {"config"}
        /\ \A x \in RunIds : x # inv[i].run => dir'[x] = dir[x]
    BY <1>1, WorkShape
  <1>3. /\ \A j \in Invocations \ {i} : inv'[j] = inv[j]
        /\ \A j \in Invocations : inv[j].pc = "crashed" => inv'[j] = inv[j]
    BY <1>2 DEF SameCommand, WorkPcs
  <1>4. CASE r # inv[i].run
    <2>1. dir'[r] = dir[r]
      BY <1>2, <1>4
    <2>2. /\ KilledCleanup(r) => KilledCleanup(r)'
          /\ InterruptedRebuild(r) => InterruptedRebuild(r)'
      BY <2>1, <1>3, KilledStays
    <2>3. Removing(r) => Removing(r)'
      BY <1>3, <1>4 DEF Removing
    <2>4. Rebuilding(r) => Rebuilding(r)'
      BY <1>3, <1>4 DEF Rebuilding
    <2> QED BY <2>1, <2>2, <2>3, <2>4 DEF FilesOK
  <1>5. CASE r = inv[i].run
    <2>1. ASSUME NEW j \in Invocations \ {i}, inv[j].run = r PROVE ~WorksOnRun(j)
      BY <1>1, <1>2, <1>5, <2>1 DEF Exclusive, WorksOnRun, WorkPcs
    <2>2. Removing(r) => inv[i].cmd = "cleanup" /\ inv[i].pc = "body" /\ inv[i].ip = 2
      BY <2>1 DEF Removing, WorksOnRun
    <2>3. Rebuilding(r) => inv[i].pc = "sha"
      BY <2>1 DEF Rebuilding, WorksOnRun
    <2>4. CASE Materialize(i)
      <3>1. inv[i].pc = "config" /\ ~Removing(r) /\ ~Rebuilding(r)
        BY <2>2, <2>3, <2>4 DEF Materialize
      <3>2. CASE UNCHANGED dir
        <4>1. /\ KilledCleanup(r) => KilledCleanup(r)'
              /\ InterruptedRebuild(r) => InterruptedRebuild(r)'
          BY <3>2, <1>3, KilledStays
        <4> QED BY <4>1, <3>1, <3>2 DEF FilesOK
      <3>3. CASE /\ dir[r].config = NoProfile /\ inv'[i].pc = "sha"
                 /\ dir'[r].config = inv[i].profile /\ dir'[r].sha = dir[r].sha
                 /\ inv[i].profile \in Profiles
        <4>1. KilledCleanup(r) => KilledCleanup(r)'
          BY <3>3, <1>3, KilledStays
        <4>2. Rebuilding(r)'
          BY <3>3, <1>2, <1>5 DEF Rebuilding, SameCommand
        <4>3. dir'[r].config # NoProfile
          BY <3>3, NullsAssumption
        <4> QED BY <4>1, <4>2, <4>3, <3>1, <3>3 DEF FilesOK
      <3> QED BY <2>4, <3>2, <3>3, <1>1, <1>5, MaterializeShape
    <2>5. CASE WriteProfileSHA(i)
      <3>1. /\ dir'[r].sha = inv[i].profile /\ dir'[r].config = dir[r].config
            /\ inv[i].profile \in Profiles /\ inv[i].pc = "sha"
        BY <2>5, <1>1, <1>5, WriteProfileSHAShape
      <3>2. dir[r].config = inv[i].profile
        BY <3>1, <1>5 DEF ShaInv, ShaOK
      <3> QED BY <3>1, <3>2, NullsAssumption DEF FilesOK
    <2>6. CASE RemoveRun(i)
      <3>1. /\ inv[i].cmd = "cleanup" /\ inv[i].pc = "body" /\ inv[i].ip = 2
            /\ dir'[r].sha \in {dir[r].sha, NoProfile}
            /\ dir'[r].config \in {dir[r].config, NoProfile}
            /\ dir'[r].sha # NoProfile => inv' = inv
        BY <2>6, <1>1, <1>5, RemoveShape
      <3>2. CASE dir'[r].sha = NoProfile
        BY <3>2 DEF FilesOK
      <3>3. CASE dir'[r].sha # NoProfile
        <4>1. dir'[r].sha = dir[r].sha /\ inv' = inv
          BY <3>1, <3>3
        <4>2. Removing(r)'
          BY <3>1, <4>1, <1>5 DEF Removing
        <4>3. dir'[r].config = dir[r].config /\ InterruptedRebuild(r) => InterruptedRebuild(r)'
          BY <4>1, <1>3, KilledStays
        <4>4. ~Rebuilding(r)
          BY <2>3, <3>1
        <4> QED BY <3>1, <4>1, <4>2, <4>3, <4>4 DEF FilesOK
      <3> QED BY <3>2, <3>3
    <2>7. CASE LoadConsolidateContext(i)
      <3>1. inv[i].pc = "config" /\ UNCHANGED dir /\ ~Removing(r) /\ ~Rebuilding(r)
        BY <2>2, <2>3, <2>7 DEF LoadConsolidateContext
      <3>2. /\ KilledCleanup(r) => KilledCleanup(r)'
            /\ InterruptedRebuild(r) => InterruptedRebuild(r)'
        BY <3>1, <1>3, KilledStays
      <3> QED BY <3>1, <3>2 DEF FilesOK
    <2>8. CASE ~Materialize(i) /\ ~LoadConsolidateContext(i) /\ ~WriteProfileSHA(i)
               /\ ~RemoveRun(i)
      <3>1. /\ dir'[r].config = dir[r].config /\ dir'[r].sha = dir[r].sha
            /\ inv[i].pc \in FilePcs
            /\ ~(inv[i].cmd = "cleanup" /\ inv[i].pc = "body" /\ inv[i].ip = 2)
        BY <2>8, <1>1, FilesKept
      <3>2. ~Removing(r) /\ ~Rebuilding(r)
        BY <2>2, <2>3, <3>1 DEF FilePcs
      <3>3. /\ KilledCleanup(r) => KilledCleanup(r)'
            /\ InterruptedRebuild(r) => InterruptedRebuild(r)'
        BY <3>1, <1>3, KilledStays
      <3> QED BY <3>1, <3>2, <3>3 DEF FilesOK
    <2> QED BY <2>4, <2>5, <2>6, <2>7, <2>8
  <1> QED BY <1>4, <1>5

ProfileInv == LockInv /\ ShaInv /\ FilesInv

\* The invariant about the two profile files holds initially.
LEMMA ProfileInvInit == Init => ProfileInv
  <1> SUFFICES ASSUME Init PROVE ShaInv /\ FilesInv
    BY LockInvInit DEF ProfileInv
  <1>1. ShaInv
    BY DEF Init, Idle, ShaInv, ShaOK, FilePcs
  <1>2. FilesInv
    BY DEF Init, AbsentDir, FilesInv, FilesOK
  <1> QED BY <1>1, <1>2

\* Every step keeps it.
LEMMA ProfileInvStep == ProfileInv /\ [Next]_vars => ProfileInv'
  <1> SUFFICES ASSUME ProfileInv, [Next]_vars PROVE FilesInv'
    BY LockInvStep, ShaStep DEF ProfileInv
  <1>1. LockInv /\ TypeOK /\ ShaInv /\ FilesInv
    BY DEF ProfileInv, LockInv, TypeInv
  <1> QED BY <1>1, FilesQuiet, FilesWork, WorkOrQuiet DEF FilesInv

\* It implies that a command works on a run of its own profile.
LEMMA ProfileInvSuffices == ProfileInv => RunOfOneProfile
  <1> SUFFICES ASSUME ProfileInv, NEW i \in Invocations,
                      inv[i].pc \in {"body", "save", "fload", "fsave"}, inv[i].cmd # "cleanup",
                      inv[i].cmd # "consolidate_force"
               PROVE  dir[inv[i].run].config = inv[i].profile \/ InterruptedRebuild(inv[i].run)
    BY DEF ProfileInv, RunOfOneProfile, ShaInv, ShaOK, FilePcs
  <1> DEFINE r == inv[i].run
  <1>1. TypeOK /\ Exclusive
    BY HoldersAreAlone DEF ProfileInv, LockInv, TypeInv
  <1>2. WorksOnRun(i) /\ r \in RunIds /\ inv[i].profile # NoProfile
    BY <1>1, LockFacts, NullsAssumption DEF WorksOnRun
  <1>3. dir[r].config # NoProfile /\ dir[r].sha = inv[i].profile
    BY DEF ProfileInv, ShaInv, ShaOK, FilePcs
  <1>4. ~Rebuilding(r)
    BY <1>1, <1>2 DEF Rebuilding, Exclusive, WorksOnRun
  <1> QED BY <1>2, <1>3, <1>4 DEF ProfileInv, FilesInv, FilesOK

\* profile.sha256 keeps the stages of one profile off the runs of another, but
\* for a run whose cleanup and whose rebuild were both killed half way.
THEOREM OneProfile == Spec => []RunOfOneProfile
  BY ProfileInvInit, ProfileInvStep, ProfileInvSuffices, PTL DEF Spec

=============================================================================
