----------------------------- MODULE Measurement -----------------------------
(***************************************************************************)
(* How one run gets its result: `test` launches a worker process for every *)
(* worker instance and supervises it, the processes leave their artifacts  *)
(* in their instance directory, `collect` pulls them, and `consolidate`    *)
(* checks and merges them into aggregate.json.  Commands may fail, be      *)
(* interrupted or be killed at any point, and workers may die, hang or     *)
(* outlive the command that launched them and then share an instance       *)
(* directory with their successor.                                         *)
(*                                                                         *)
(* Source: src/mind/internal/orchestrator/drive.go and orchestrator.go,    *)
(* src/mind/internal/collect/collect.go,                                   *)
(* src/mind/internal/consolidate/consolidate.go,                           *)
(* src/tpcc/harness/orchestrated_roles.cpp and artifacts.cpp.              *)
(*                                                                         *)
(* Commands on one run follow one another (ControlHost, Exclusive).        *)
(* The nonce of a launch also stands for its pid, which is not reused.     *)
(* Signals arrive, and hosts answer: a request that fails is a failure of  *)
(* the step that makes it, or, where a launch clears its directory, goes   *)
(* unheeded.                                                               *)
(***************************************************************************)
EXTENDS RunState, FiniteSets

CONSTANTS
    WorkerCount,     \* worker instances of the run
    LeaveProcesses,  \* --leave-processes
    MaxLaunches,     \* bound: processes ever started
    MaxCommands      \* bound: commands ever begun

ASSUME WorkerAssumption == WorkerCount \in Nat \ {0}
ASSUME OptionAssumption == LeaveProcesses \in BOOLEAN
ASSUME BoundAssumption == MaxLaunches \in Nat /\ MaxCommands \in Nat

Workers == 1..WorkerCount
Nonces == 1..MaxLaunches
None == 0

VARIABLES
    state,      \* the state in run-state.json
    recorded,   \* Workers -> the process recorded in run-state.json
    files,      \* Workers -> instance directory: whose process.json, ready.json
                \* and result.json are there, and the artifact manifest
    proc,       \* Nonces -> worker process
    launches,   \* processes started so far
    cmd,        \* the command at work
    commands,   \* commands begun so far
    raw,        \* Workers -> collected artifacts under results/<run>/raw
    collected,  \* collection-manifest.json exists
    aggregate,  \* Workers -> artifacts merged into aggregate.json
    tested      \* history: a test of the run has completed

control == <<state, recorded, cmd, commands>>
results == <<raw, collected, aggregate, tested>>
hosts == <<files, proc, launches>>
vars == <<control, results, hosts>>

\* The payloads of an instance: whose process.json, ready.json and result.json
\* they are (None: the file is not there).  A manifest has the hashes of those it
\* found and the nonce of the process that wrote it.
NoPayloads == [process |-> None, ready |-> None, result |-> None]
NoManifest == [hash |-> NoPayloads, by |-> None]
NoFiles == [process |-> None, ready |-> None, result |-> None, manifest |-> NoManifest]

\* fresh, a history field: when the process was started no process.json of an
\* older one was in its directory, nor any older one about to write it.
NoProc == [worker |-> None, pc |-> "unborn", exit |-> 0, tracked |-> FALSE, fresh |-> FALSE]

\* launch, own: LaunchPID, as the start of the process returned it, and PID with
\* InstanceNonce, overwritten by what process.json says.
Idle == [name |-> "none", pc |-> "idle", at |-> 1, late |-> FALSE,
         launch |-> [w \in Workers |-> None], own |-> [w \in Workers |-> None],
         remaining |-> {}, seen |-> None, manifest |-> NoManifest]

Init ==
    /\ state = "indexing"
    /\ recorded = [w \in Workers |-> [pid |-> None, launch |-> None, st |-> "none"]]
    /\ files = [w \in Workers |-> NoFiles]
    /\ proc = [n \in Nonces |-> NoProc]
    /\ launches = 0
    /\ cmd = Idle
    /\ commands = 0
    /\ raw = [w \in Workers |-> NoPayloads]
    /\ collected = FALSE
    /\ aggregate = [w \in Workers |-> NoPayloads]
    /\ tested = FALSE

-----------------------------------------------------------------------------
(* The worker process.                                                     *)

Alive(n) == proc[n].pc \notin {"unborn", "dead"}
At(n, pc) == proc[n].pc = pc
Step(n, pc) == proc' = [proc EXCEPT ![n].pc = pc]

WriteProcessJson(n) ==
    /\ At(n, "starting")
    /\ files' = [files EXCEPT ![proc[n].worker].process = n]
    /\ Step(n, "calibrating")

\* A clock too far off ends the process with status 1, with a result.
WriteReadyJson(n) ==
    /\ At(n, "calibrating")
    /\ files' = [files EXCEPT ![proc[n].worker].ready = n]
    /\ \/ Step(n, "running")
       \/ proc' = [proc EXCEPT ![n] = [@ EXCEPT !.pc = "ended", !.exit = 1]]

\* The run ends: at the end of its measurement, on a fatal error, or early and
\* with status 0 on a SIGTERM, whoever sends it.
RunEnds(n) ==
    /\ At(n, "running")
    /\ \E exit \in {0, 1} :
          proc' = [proc EXCEPT ![n] = [@ EXCEPT !.pc = "ended", !.exit = exit]]
    /\ UNCHANGED files

WriteWorkerResultJson(n) ==
    /\ At(n, "ended")
    /\ files' = [files EXCEPT ![proc[n].worker].result = n]
    /\ Step(n, "resulted")

\* The manifest hashes whatever payloads are in the directory at that moment.
WriteArtifactManifest(n) ==
    LET w == proc[n].worker
        f == files[w]
    IN
    /\ At(n, "resulted")
    /\ files' = [files EXCEPT ![w].manifest =
                    [hash |-> [process |-> f.process, ready |-> f.ready, result |-> f.result],
                     by |-> n]]
    /\ Step(n, "exiting")

\* The process exits, or dies before its time.
Dies(n) ==
    /\ Alive(n)
    /\ Step(n, "dead")
    /\ UNCHANGED files

Process(n) ==
    /\ \/ WriteProcessJson(n) \/ WriteReadyJson(n)
       \/ RunEnds(n)
       \/ WriteWorkerResultJson(n) \/ WriteArtifactManifest(n)
       \/ Dies(n)
    /\ UNCHANGED <<control, results, launches>>

\* SIGTERM is fatal until the run has installed its handler, and then may end
\* the run (RunEnds).
Term(pids) ==
    proc' = [n \in Nonces |-> IF n \in pids /\ proc[n].pc \in {"starting", "calibrating"}
                              THEN [proc[n] EXCEPT !.pc = "dead"] ELSE proc[n]]

Kill(pids) ==
    proc' = [n \in Nonces |-> IF n \in pids /\ Alive(n)
                              THEN [proc[n] EXCEPT !.pc = "dead"] ELSE proc[n]]

-----------------------------------------------------------------------------
(* `test`.                                                                 *)

\* The pids of a worker: the shell-reported one and the one in process.json.
Pids(w) == {cmd.launch[w], cmd.own[w]} \ {None}
Goto(pc) == cmd' = [cmd EXCEPT !.pc = pc]
Record(w, pid, launch, st) ==
    recorded' = [recorded EXCEPT ![w] = [pid |-> pid, launch |-> launch, st |-> st]]

\* An error, a timeout or an interrupt: the peers are stopped.
Fails == Goto("stopPeers")

BeginTest ==
    /\ launches + WorkerCount <= MaxLaunches
    /\ ValidTransition(state, "preparing")
    /\ state' = "preparing"
    /\ cmd' = [Idle EXCEPT !.name = "test", !.pc = "launch"]

\* clearStaleInstanceMetadata: a file that cannot be removed is left with a warning.
Leftover(f) == [process : {None, f.process}, ready : {None, f.ready},
                result : {None, f.result}, manifest : {NoManifest, f.manifest}]

\* launchRole up to the first record: leftovers of a previous attempt are
\* cleared and the process is started.  Its pid may not come back in time, and
\* then it is neither tracked nor recorded.
LaunchRole ==
    LET w == cmd.at
        n == launches + 1
        tracked == [cmd EXCEPT !.pc = "meta", !.launch = [cmd.launch EXCEPT ![w] = n],
                               !.own = [cmd.own EXCEPT ![w] = n]]
        Starting == {m \in Nonces : proc[m].worker = w /\ At(m, "starting")}
    IN
    /\ cmd.pc = "launch"
    /\ launches' = n
    /\ \E f \in Leftover(files[w]), ok \in BOOLEAN :
          /\ files' = [files EXCEPT ![w] = f]
          /\ proc' = [proc EXCEPT ![n] =
                [worker |-> w, pc |-> "starting", exit |-> 0, tracked |-> ok,
                 fresh |-> (f.process = None /\ Starting = {})]]
          /\ IF ok THEN cmd' = tracked /\ Record(w, n, n, "running")
             ELSE Fails /\ UNCHANGED recorded
    /\ UNCHANGED <<state, commands, results>>

\* No binary, or the run files cannot be uploaded: before anything is cleared.
LaunchRefused ==
    /\ cmd.pc = "launch"
    /\ Fails
    /\ UNCHANGED <<state, recorded, commands, results, hosts>>

FaultLoadProcessMetadata ==
    LET w == cmd.at
        n == files[w].process
    IN
    /\ cmd.pc = "meta"
    /\ n # None
    /\ Record(w, n, cmd.launch[w], "running")
    /\ cmd' = [cmd EXCEPT !.pc = IF w > WorkerCount THEN "arm" ELSE "launch",
                          !.at = w + 1, !.own = [cmd.own EXCEPT ![w] = n]]
    /\ UNCHANGED <<state, commands, results, hosts>>

\* waitProcessMetadata takes the nonce and the pid from process.json.
LoadProcessMetadata ==
    LET w == cmd.at
        n == files[w].process
    IN
    /\ cmd.pc = "meta"
    /\ n # None
    /\ Record(w, n, cmd.launch[w], "running")
    /\ cmd' = [cmd EXCEPT !.pc = IF w = WorkerCount THEN "arm" ELSE "launch",
                          !.at = w + 1, !.own = [cmd.own EXCEPT ![w] = n]]
    /\ UNCHANGED <<state, commands, results, hosts>>

\* The file does not come in time, cannot be read, or the operator interrupts.
MetadataFails ==
    LET w == cmd.at IN
    /\ cmd.pc = "meta"
    /\ Term(Pids(w))
    /\ Record(w, cmd.own[w], cmd.launch[w], "failed")
    /\ Fails
    /\ UNCHANGED <<state, commands, results, files, launches>>

\* superviseWorkers until the measurement starts.
Arming ==
    /\ cmd.pc = "arm"
    /\ \E st \in {"arming", "ramping"} : ValidTransition(state, st) /\ state' = st
    /\ UNCHANGED <<recorded, cmd, commands, results, hosts>>

FailedBeforeMeasurement(w) ==
    LET m == files[w].manifest IN
    IF m.by = None THEN ~Alive(cmd.own[w]) ELSE proc[m.by].exit # 0

ArmingFails ==
    /\ cmd.pc = "arm"
    /\ \E w \in Workers : FailedBeforeMeasurement(w)
    /\ Fails
    /\ UNCHANGED <<state, recorded, commands, results, hosts>>

MeasurementStarts ==
    /\ cmd.pc = "arm"
    /\ state' = IF ValidTransition(state, "measuring") THEN "measuring" ELSE state
    /\ cmd' = [cmd EXCEPT !.pc = "wait", !.remaining = Workers]
    /\ UNCHANGED <<recorded, commands, results, hosts>>

\* The operator interrupts; the deadline of the wait passes.
Interrupt ==
    /\ cmd.pc \in {"arm", "wait"}
    /\ Fails
    /\ UNCHANGED <<state, recorded, commands, results, hosts>>

Deadline ==
    /\ cmd.pc \in {"wait", "alive"} /\ ~cmd.late
    /\ cmd' = [cmd EXCEPT !.late = TRUE]
    /\ UNCHANGED <<state, recorded, commands, results, hosts>>

FaultWaitTimesOut ==
    /\ cmd.pc = "wait" /\ cmd.late
    /\ \A w \in cmd.remaining, n \in Nonces : n \in Pids(w) => ~Alive(n)
    /\ Fails
    /\ UNCHANGED <<state, recorded, commands, results, hosts>>

WaitTimesOut ==
    /\ cmd.pc = "wait" /\ cmd.late
    /\ Fails
    /\ UNCHANGED <<state, recorded, commands, results, hosts>>

FaultLookForManifest(w) ==
    LET m == files[w].manifest
        n == cmd.own[w]
    IN
    /\ cmd.pc = "wait" /\ ~cmd.late /\ w \in cmd.remaining
    /\ IF m.by # None
       THEN /\ Record(w, n, cmd.launch[w], IF proc[m.by].exit = 0 THEN "exited" ELSE "failed")
            /\ cmd' = [cmd EXCEPT !.remaining = @ \ {w},
                                  !.pc = IF proc[m.by].exit = 0 THEN "wait" ELSE "stopPeers"]
       ELSE /\ cmd' = [cmd EXCEPT !.pc = "alive", !.seen = w]
            /\ UNCHANGED recorded
    /\ UNCHANGED <<state, commands, results, hosts>>

\* waitProcesses looks for a worker's manifest; unless that is there with the
\* nonce taken from process.json, it then asks whether the process is alive.
LookForManifest(w) ==
    LET m == files[w].manifest
        n == cmd.own[w]
        ok == proc[n].exit = 0
    IN
    /\ cmd.pc = "wait" /\ ~cmd.late /\ w \in cmd.remaining
    /\ IF m.by = n
       THEN /\ Record(w, n, cmd.launch[w], IF ok THEN "exited" ELSE "failed")
            /\ cmd' = [cmd EXCEPT !.remaining = @ \ {w},
                                  !.pc = IF ok THEN "wait" ELSE "stopPeers"]
       ELSE /\ cmd' = [cmd EXCEPT !.pc = "alive", !.seen = w]
            /\ UNCHANGED recorded
    /\ UNCHANGED <<state, commands, results, hosts>>

LookWhetherAlive ==
    LET w == cmd.seen IN
    /\ cmd.pc = "alive"
    /\ IF \E n \in Pids(w) : Alive(n) THEN Goto("wait") /\ UNCHANGED recorded
       ELSE Record(w, cmd.own[w], cmd.launch[w], "failed") /\ Fails
    /\ UNCHANGED <<state, commands, results, hosts>>

TestCompletes ==
    /\ cmd.pc = "wait" /\ cmd.remaining = {}
    /\ state' = IF ValidTransition(state, "draining") THEN "draining" ELSE state
    /\ Goto("reap")
    /\ tested' = TRUE
    /\ UNCHANGED <<recorded, commands, raw, collected, aggregate, hosts>>

-----------------------------------------------------------------------------
(* Stopping: stopPeers, also of `stop`, and reapLaunched.                   *)

RecordedPids(ws) == {recorded[w].pid : w \in ws} \cup {recorded[w].launch : w \in ws}

StopPeers ==
    /\ cmd.pc = "stopPeers"
    /\ Term(RecordedPids({w \in Workers : recorded[w].st = "running"}))
    /\ recorded' = [w \in Workers |-> IF recorded[w].st = "running"
                                      THEN [recorded[w] EXCEPT !.st = "stopping"]
                                      ELSE recorded[w]]
    /\ Goto("killPeers")
    /\ UNCHANGED <<state, commands, results, files, launches>>

\* After the grace period every recorded process still alive is killed.
KillPeers ==
    /\ cmd.pc = "killPeers"
    /\ Kill(RecordedPids(Workers))
    /\ IF cmd.name = "stop" THEN cmd' = Idle ELSE Goto("reap")
    /\ UNCHANGED <<state, recorded, commands, results, files, launches>>

\* The launched workers of which either pid is alive, and their pids.
AliveLaunched == {w \in Workers : \E n \in Pids(w) : Alive(n)}
LaunchedPids(ws) == UNION {Pids(w) : w \in ws}

ReapLaunched ==
    /\ cmd.pc = "reap"
    /\ IF AliveLaunched = {} \/ LeaveProcesses
       THEN cmd' = Idle /\ UNCHANGED <<proc, recorded>>
       ELSE /\ Term(LaunchedPids(AliveLaunched))
            /\ recorded' = [w \in Workers |->
                 IF w \in AliveLaunched
                 THEN [pid |-> cmd.own[w], launch |-> cmd.launch[w], st |-> "stopping"]
                 ELSE recorded[w]]
            /\ Goto("reapKill")
    /\ UNCHANGED <<state, commands, results, files, launches>>

FaultReapKill ==
    /\ cmd.pc = "reapKill"
    /\ cmd' = Idle
    /\ UNCHANGED <<state, recorded, commands, results, hosts>>

\* All are gone, or the grace period is over.
ReapKill ==
    /\ cmd.pc = "reapKill"
    /\ Kill(LaunchedPids(AliveLaunched))
    /\ cmd' = Idle
    /\ UNCHANGED <<state, recorded, commands, results, files, launches>>

BeginStop ==
    /\ ValidTransition(state, "stopping")
    /\ state' = "stopping"
    /\ cmd' = [Idle EXCEPT !.name = "stop", !.pc = "stopPeers"]

-----------------------------------------------------------------------------
(* `collect` and `consolidate`.                                            *)

BeginCollect ==
    /\ ValidTransition(state, "collecting")
    /\ state' = "collecting"
    /\ cmd' = [Idle EXCEPT !.name = "collect", !.pc = "collect"]

\* Standalone consolidate collects only when nothing has been collected yet.
BeginConsolidate ==
    /\ ConsolidateAllowed(state)
    /\ IF collected
       THEN /\ ValidTransition(state, "consolidating")
            /\ cmd' = [Idle EXCEPT !.name = "consolidate", !.pc = "merge"]
            /\ UNCHANGED state
       ELSE /\ ValidTransition(state, "collecting")
            /\ state' = "collecting"
            /\ cmd' = [Idle EXCEPT !.name = "consolidate", !.pc = "collect"]

ReadManifest ==
    LET m == files[cmd.at].manifest IN
    /\ cmd.pc = "collect"
    /\ cmd' = IF m.by = None THEN Idle ELSE [cmd EXCEPT !.pc = "download", !.manifest = m]
    /\ UNCHANGED <<state, recorded, commands, results, hosts>>

\* A payload that the manifest lists must still have its hash.
Intact(h, f) ==
    /\ h.process # None => f.process = h.process
    /\ h.ready # None => f.ready = h.ready
    /\ h.result # None => f.result = h.result

\* The payloads the manifest lists are downloaded and checked; the manifest
\* itself is not kept.  collection-manifest.json is written last.
CollectInstance ==
    LET w == cmd.at
        h == cmd.manifest.hash
        last == w = WorkerCount
    IN
    /\ cmd.pc = "download"
    /\ IF Intact(h, files[w])
       THEN /\ raw' = [raw EXCEPT ![w] = h]
            /\ collected' = (collected \/ last)
            /\ cmd' = IF ~last THEN [cmd EXCEPT !.pc = "collect", !.at = w + 1]
                      ELSE IF cmd.name = "collect" THEN Idle
                      ELSE [cmd EXCEPT !.pc = "merge"]
       ELSE cmd' = Idle /\ UNCHANGED <<raw, collected>>
    /\ UNCHANGED <<state, recorded, commands, aggregate, tested, hosts>>

\* validateWorkerNonceConsistency: result.json against whichever of the other
\* files were collected.  artifact-manifest.json never is among them.
NonceConsistent(b) ==
    \A n \in {b.ready, b.process} : n # None => n = b.result

FaultMergeable(b) ==
    b.result # None /\ proc[b.result].exit = 0

Mergeable(b) ==
    /\ b.result # None
    /\ NonceConsistent(b)
    /\ proc[b.result].exit = 0

Consolidate ==
    /\ cmd.pc = "merge"
    /\ ValidTransition(state, "consolidating")
    /\ state' = "consolidating"
    /\ aggregate' = IF \A w \in Workers : Mergeable(raw[w]) THEN raw ELSE aggregate
    /\ cmd' = Idle
    /\ UNCHANGED <<recorded, commands, raw, collected, tested, hosts>>

\* indexes may be repeated after a test, and a test after indexes.
BeginIndexes ==
    /\ ValidTransition(state, "indexing")
    /\ state' = "indexing"
    /\ cmd' = Idle

-----------------------------------------------------------------------------

Begin ==
    /\ cmd.pc = "idle" /\ commands < MaxCommands
    /\ commands' = commands + 1
    /\ \/ BeginTest \/ BeginStop \/ BeginCollect \/ BeginConsolidate \/ BeginIndexes
    /\ UNCHANGED <<recorded, results, hosts>>

Command ==
    \/ LaunchRole \/ LoadProcessMetadata \/ MetadataFails
    \/ Arming \/ ArmingFails \/ MeasurementStarts
    \/ WaitTimesOut \/ (\E w \in Workers : LookForManifest(w)) \/ LookWhetherAlive
    \/ TestCompletes
    \/ StopPeers \/ KillPeers \/ ReapLaunched \/ ReapKill
    \/ ReadManifest \/ CollectInstance \/ Consolidate

\* The command is killed; what it launched runs on.
Crash ==
    /\ cmd.pc # "idle"
    /\ cmd' = Idle
    /\ proc' = [n \in Nonces |->
                  [proc[n] EXCEPT !.tracked = @ /\ \A w \in Workers : n # cmd.launch[w]]]
    /\ UNCHANGED <<state, recorded, commands, results, files, launches>>

Next ==
    \/ Begin \/ Command \/ LaunchRefused \/ Interrupt \/ Deadline \/ Crash
    \/ \E n \in Nonces : Process(n)

Spec == Init /\ [][Next]_vars

\* A command goes on as long as it is neither killed nor done, and the clock
\* reaches every deadline.  Nothing is assumed of the workers.
FairSpec == Spec /\ WF_vars(Command) /\ WF_vars(Deadline)

-----------------------------------------------------------------------------
(* Properties.                                                             *)

Payloads == [process : {None} \cup Nonces, ready : {None} \cup Nonces,
             result : {None} \cup Nonces]
Manifests == [hash : Payloads, by : {None} \cup Nonces]
Directory == [process : {None} \cup Nonces, ready : {None} \cup Nonces,
              result : {None} \cup Nonces, manifest : Manifests]
Processes == [worker : {None} \cup Workers,
              pc : {"unborn", "starting", "calibrating", "running", "ended",
                    "resulted", "exiting", "dead"},
              exit : {0, 1}, tracked : BOOLEAN, fresh : BOOLEAN]
Entries == [pid : {None} \cup Nonces, launch : {None} \cup Nonces,
            st : {"none", "running", "failed", "exited", "stopping"}]
Commands == [name : {"none", "test", "stop", "collect", "consolidate"},
             pc : {"idle", "launch", "meta", "arm", "wait", "alive", "stopPeers",
                   "killPeers", "reap", "reapKill", "collect", "download", "merge"},
             at : 1..WorkerCount + 1, late : BOOLEAN,
             launch : [Workers -> {None} \cup Nonces],
             own : [Workers -> {None} \cup Nonces], remaining : SUBSET Workers,
             seen : {None} \cup Workers, manifest : Manifests]

\* Every variable has the shape the code gives it, and a command that launches
\* or collects is at one of the workers.
TypeOK ==
    /\ state \in States
    /\ recorded \in [Workers -> Entries]
    /\ files \in [Workers -> Directory]
    /\ proc \in [Nonces -> Processes]
    /\ launches \in 0..MaxLaunches
    /\ cmd \in Commands
    /\ commands \in 0..MaxCommands
    /\ raw \in [Workers -> Payloads]
    /\ collected \in BOOLEAN
    /\ aggregate \in [Workers -> Payloads]
    /\ tested \in BOOLEAN
    /\ cmd.pc \in {"launch", "meta", "collect", "download"} => cmd.at \in Workers

\* However the files of two launches of a worker came to lie in one directory,
\* whichever of them the next launch could not clear and whoever wrote the
\* manifest, the result.json merged into aggregate.json was written by a process
\* of that worker that ended with status 0, and no process.json or ready.json of
\* another process was collected with it.
AggregateUnmixed ==
    \A w \in Workers : aggregate[w] # NoPayloads =>
       LET b == aggregate[w]
           n == b.result
       IN  /\ n \in Nonces /\ proc[n].worker = w /\ proc[n].exit = 0
           /\ b.process \in {None, n} /\ b.ready \in {None, n}

\* A test completes only if, for every worker, the process whose process.json it
\* took ended with status 0 and left its manifest, whatever older processes still
\* write.  That process is the one the test launched itself, whatever other
\* leftovers could not be cleared, as long as no process.json of an older one was
\* in its directory at the launch, nor any older process about to write it.
CompletedOnOwnWord ==
    [][cmd.pc = "wait" /\ cmd'.pc = "reap" =>
          \A w \in Workers :
             LET n == cmd.own[w] IN
             /\ proc[n].exit = 0 /\ proc[n].pc \in {"exiting", "dead"}
             /\ proc[cmd.launch[w]].fresh => n = cmd.launch[w]]_vars

\* When a command is over, by success, failure, timeout or interrupt, none of
\* the workers it was keeping track of is left running on the hosts.
NoStrayWorkers ==
    cmd.pc = "idle" /\ ~LeaveProcesses =>
       \A n \in Nonces : ~(Alive(n) /\ proc[n].tracked)

\* A test ends even if its workers hang.
TestEnds == cmd.name = "test" ~> cmd.name = "none"

\* consolidate leaves a run that has not finished its test alone: there is no
\* aggregate before a test of the run has completed.
AggregateOfFinishedTest ==
    (\E w \in Workers : aggregate[w] # NoPayloads) => tested
=============================================================================
