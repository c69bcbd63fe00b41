-------------------------- MODULE MeasurementProofs --------------------------
(***************************************************************************)
(* Proofs about how a run gets its result, for every number of workers and *)
(* of launches, and every sequence of commands, crashes and failures.      *)
(***************************************************************************)
EXTENDS Measurement, TLAPS

-----------------------------------------------------------------------------
(* The inductive invariants.                                               *)

Supervising == {"launch", "meta", "arm", "wait", "alive"}

\* A command between two others has no memory; one that launches has room for
\* what it still has to launch, and knows what it has launched so far.
CommandInv ==
    /\ cmd.pc = "idle" => cmd = Idle
    /\ cmd.pc = "launch" => launches + WorkerCount + 1 <= MaxLaunches + cmd.at
    /\ cmd.pc = "meta" => launches + WorkerCount <= MaxLaunches + cmd.at
    /\ cmd.pc = "alive" => cmd.seen \in Workers
    /\ cmd.pc \in Supervising \cup {"reap", "reapKill"} => cmd.name = "test"
    /\ cmd.pc \in {"stopPeers", "killPeers"} => cmd.name \in {"test", "stop"}
    /\ cmd.pc \in {"collect", "download", "merge"} => cmd.name # "test"
    /\ cmd.pc = "launch" => \A w \in Workers : cmd.launch[w] # None <=> w < cmd.at
    /\ cmd.pc = "meta" => \A w \in Workers : cmd.launch[w] # None <=> w <= cmd.at
    /\ cmd.pc \in {"arm", "wait", "alive"} =>
          \A w \in Workers : cmd.launch[w] # None /\ cmd.own[w] # None
    /\ \A w \in Workers : cmd.launch[w] # None => cmd.own[w] # None

\* A process belongs to one worker.
Born(n) == proc[n].pc # "unborn"
ProcessInv ==
    \A n \in Nonces :
       /\ Born(n) <=> n <= launches
       /\ ~Born(n) => proc[n] = NoProc
       /\ Born(n) => proc[n].worker \in Workers

\* What a command has launched for a worker is a process of that worker; the
\* process whose word it takes for it is that one, if it was launched fresh.
LaunchInv ==
    \A w \in Workers :
       LET n == cmd.launch[w] IN
       n # None => /\ Born(n) /\ proc[n].worker = w
                   /\ proc[n].fresh => cmd.own[w] = n

\* process.json of a worker launched fresh is not, and will not be, an older one.
MetaInv ==
    LET n == cmd.launch[cmd.at] IN
    cmd.pc = "meta" /\ proc[n].fresh =>
       /\ files[cmd.at].process \in {None, n}
       /\ \A m \in Nonces : At(m, "starting") /\ proc[m].worker = cmd.at => m = n

\* A process that has written its result, its manifest.
Resulted(n) == proc[n].pc \in {"resulted", "exiting", "dead"}
Closed(n) == proc[n].pc \in {"exiting", "dead"}

PayloadsOK(b, w) ==
    b.result # None => proc[b.result].worker = w /\ Resulted(b.result)
ManifestOK(m, w) ==
    /\ m.by # None => Closed(m.by)
    /\ PayloadsOK(m.hash, w)

FilesInv ==
    /\ \A w \in Workers :
          /\ PayloadsOK(files[w], w) /\ ManifestOK(files[w].manifest, w)
          /\ PayloadsOK(raw[w], w)
          /\ PayloadsOK(aggregate[w], w)
    /\ cmd.pc = "download" => ManifestOK(cmd.manifest, cmd.at)

\* What was merged passed the checks of consolidate.
MergedInv == \A w \in Workers : aggregate[w] = NoPayloads \/ Mergeable(aggregate[w])

\* A worker that is no longer waited for ended well and closed its files.
WaitInv ==
    cmd.pc \in {"wait", "alive"} =>
       \A w \in Workers \ cmd.remaining :
          LET n == cmd.own[w] IN Closed(n) /\ proc[n].exit = 0

\* Who is tracked was launched by the command at work.
Held(n) == \E w \in Workers : n = cmd.launch[w]
TrackInv ==
    ~LeaveProcesses =>
       \A n \in Nonces : Alive(n) /\ proc[n].tracked => cmd.name = "test" /\ Held(n)
-----------------------------------------------------------------------------
(* Shapes: what a step does to processes and to the command.               *)

TypeInv == TypeOK /\ CommandInv /\ ProcessInv

\* How a process may change: whose it is never, its result only until it is
\* written, and nothing at all before it is started.
Evolves(p, q) ==
    /\ q.worker = p.worker /\ q.fresh = p.fresh
    /\ p = NoProc => q = NoProc
    /\ p.pc # "unborn" => q.pc # "unborn"
    /\ p.pc = "dead" => q.pc = "dead"
    /\ q.pc = "starting" => p.pc = "starting"
    /\ p.pc \in {"exiting", "dead"} => q.pc \in {"exiting", "dead"}
    /\ p.pc \in {"resulted", "exiting", "dead"} =>
          q.pc \in {"resulted", "exiting", "dead"} /\ q.exit = p.exit
    /\ q.tracked => p.tracked
Evolve == proc' \in [Nonces -> Processes] /\ \A n \in Nonces : Evolves(proc[n], proc'[n])

\* The command stays what it is, but for its program counter.
SameCommand ==
    /\ cmd' \in Commands
    /\ cmd'.name = cmd.name /\ cmd'.at = cmd.at
    /\ cmd'.launch = cmd.launch /\ cmd'.own = cmd.own
    /\ cmd'.remaining = cmd.remaining /\ cmd'.seen = cmd.seen
    /\ cmd'.manifest = cmd.manifest /\ cmd'.late = cmd.late

\* The empty records.
LEMMA Blank ==
    /\ NoPayloads \in Payloads /\ NoPayloads.result = None
    /\ NoManifest \in Manifests /\ NoManifest.by = None /\ NoManifest.hash = NoPayloads
    /\ NoFiles \in Directory /\ NoFiles.result = None /\ NoFiles.manifest = NoManifest
  BY DEF NoPayloads, Payloads, NoManifest, Manifests, NoFiles, Directory, None

\* The process that has not been started.
LEMMA BlankProcess ==
    NoProc \in Processes /\ NoProc.pc = "unborn" /\ ~NoProc.tracked
  BY DEF NoProc, Processes, None

\* The command that is not there.
LEMMA IdleFields ==
    /\ Idle \in Commands /\ Idle.name = "none" /\ Idle.pc = "idle" /\ Idle.at = 1
    /\ Idle.launch = [w \in Workers |-> None] /\ Idle.own = [w \in Workers |-> None]
    /\ Idle.remaining = {} /\ Idle.manifest = NoManifest
  BY Blank, WorkerAssumption DEF Idle, Commands, Workers, None

\* A command moves on.
LEMMA GotoShape ==
  ASSUME cmd \in Commands, NEW pc,
         pc \in {"idle", "launch", "meta", "arm", "wait", "alive", "stopPeers",
                 "killPeers", "reap", "reapKill", "collect", "download", "merge"},
         Goto(pc)
  PROVE  SameCommand /\ cmd'.pc = pc
  BY DEF Goto, SameCommand, Commands

\* A process that is left alone.
LEMMA Unmoved ==
  ASSUME NEW p \in Processes
  PROVE  Evolves(p, p)
  BY DEF Evolves

\* A step that touches no process.
LEMMA UnmovedAll ==
  ASSUME proc \in [Nonces -> Processes], UNCHANGED proc
  PROVE  Evolve
  BY Unmoved DEF Evolve

\* Death.
LEMMA Signalled ==
  ASSUME NEW p \in Processes, p.pc # "unborn"
  PROVE  /\ [p EXCEPT !.pc = "dead"] \in Processes
         /\ Evolves(p, [p EXCEPT !.pc = "dead"])
  BY BlankProcess DEF Processes, Evolves

\* SIGTERM.
LEMMA TermShape ==
  ASSUME proc \in [Nonces -> Processes], NEW pids, Term(pids)
  PROVE  Evolve
  <1>1. ASSUME NEW n \in Nonces
        PROVE  proc'[n] \in Processes /\ Evolves(proc[n], proc'[n])
    <2>1. proc[n] \in Processes
      OBVIOUS
    <2>2. \/ proc'[n] = proc[n]
          \/ proc[n].pc # "unborn" /\ proc'[n] = [proc[n] EXCEPT !.pc = "dead"]
      BY DEF Term
    <2> QED BY <2>1, <2>2, Signalled, Unmoved
  <1>2. proc' = [n \in Nonces |-> proc'[n]]
    BY DEF Term
  <1> QED BY <1>1, <1>2 DEF Evolve

\* SIGKILL: afterwards none of the processes is alive.
LEMMA KillShape ==
  ASSUME proc \in [Nonces -> Processes], NEW pids, Kill(pids)
  PROVE  /\ Evolve
         /\ \A n \in Nonces : n \in pids => proc'[n].pc \in {"unborn", "dead"}
  <1>1. ASSUME NEW n \in Nonces
        PROVE  /\ proc'[n] \in Processes /\ Evolves(proc[n], proc'[n])
               /\ n \in pids => proc'[n].pc \in {"unborn", "dead"}
    <2>1. proc[n] \in Processes
      OBVIOUS
    <2>2. CASE n \in pids /\ Alive(n)
      <3>1. proc'[n] = [proc[n] EXCEPT !.pc = "dead"] /\ proc[n].pc # "unborn"
        BY <2>2 DEF Kill, Alive
      <3>2. [proc[n] EXCEPT !.pc = "dead"].pc = "dead"
        BY <2>1 DEF Processes
      <3> QED BY <2>1, <3>1, <3>2, Signalled
    <2>3. CASE ~(n \in pids /\ Alive(n))
      <3>1. proc'[n] = proc[n]
        BY <2>3 DEF Kill
      <3> QED BY <2>1, <2>3, <3>1, Unmoved DEF Alive
    <2> QED BY <2>2, <2>3
  <1>2. proc' = [n \in Nonces |-> proc'[n]]
    BY DEF Kill
  <1> QED BY <1>1, <1>2 DEF Evolve

\* Steps of the process itself.
LEMMA ProcessShape ==
  ASSUME proc \in [Nonces -> Processes], NEW n \in Nonces, Process(n)
  PROVE  Evolve /\ Alive(n)
  <1> DEFINE p == proc[n]
  <1>1. p \in Processes
    OBVIOUS
  <1>2. PICK q : proc' = [proc EXCEPT ![n] = q] /\ q \in Processes /\ Evolves(p, q)
                 /\ Alive(n)
    <2>1. CASE WriteProcessJson(n)
      <3>1. proc' = [proc EXCEPT ![n] = [p EXCEPT !.pc = "calibrating"]]
        BY <2>1 DEF WriteProcessJson, Step
      <3> QED BY <1>1, <2>1, <3>1, BlankProcess
              DEF WriteProcessJson, At, Processes, Evolves, Alive
    <2>2. CASE WriteReadyJson(n)
      <3>1. PICK q : proc' = [proc EXCEPT ![n] = q]
                     /\ \/ q = [p EXCEPT !.pc = "running"]
                        \/ q = [p EXCEPT !.pc = "ended", !.exit = 1]
        BY <2>2 DEF WriteReadyJson, Step
      <3>2. p.pc = "calibrating"
        BY <2>2 DEF WriteReadyJson, At
      <3>3. q \in Processes /\ Evolves(p, q) /\ Alive(n)
        <4>1. CASE q = [p EXCEPT !.pc = "running"]
          BY <1>1, <3>2, <4>1, BlankProcess DEF Processes, Evolves, Alive
        <4>2. CASE q = [p EXCEPT !.pc = "ended", !.exit = 1]
          <5>1. q \in Processes /\ q.pc = "ended" /\ q.exit = 1 /\ q.worker = p.worker
                /\ q.fresh = p.fresh /\ q.tracked = p.tracked
            BY <1>1, <4>2 DEF Processes
          <5> QED BY <3>2, <5>1, BlankProcess DEF Evolves, Alive
        <4> QED BY <3>1, <4>1, <4>2
      <3> QED BY <3>1, <3>3
    <2>3. CASE RunEnds(n)
      <3>1. PICK e \in {0, 1} : proc' = [proc EXCEPT ![n] =
                                          [p EXCEPT !.pc = "ended", !.exit = e]]
        BY <2>3 DEF RunEnds
      <3>2. p.pc = "running"
        BY <2>3 DEF RunEnds, At
      <3> DEFINE q == [p EXCEPT !.pc = "ended", !.exit = e]
      <3>3. q \in Processes /\ q.pc = "ended" /\ q.worker = p.worker
            /\ q.fresh = p.fresh /\ q.tracked = p.tracked
        BY <1>1 DEF Processes
      <3>4. Evolves(p, q) /\ Alive(n)
        BY <3>2, <3>3, BlankProcess DEF Evolves, Alive
      <3> QED BY <3>1, <3>3, <3>4
    <2>5. CASE WriteWorkerResultJson(n)
      <3>1. proc' = [proc EXCEPT ![n] = [p EXCEPT !.pc = "resulted"]]
        BY <2>5 DEF WriteWorkerResultJson, Step
      <3> QED BY <1>1, <2>5, <3>1, BlankProcess
              DEF WriteWorkerResultJson, At, Processes, Evolves, Alive
    <2>6. CASE WriteArtifactManifest(n)
      <3>1. proc' = [proc EXCEPT ![n] = [p EXCEPT !.pc = "exiting"]]
        BY <2>6 DEF WriteArtifactManifest, Step
      <3> QED BY <1>1, <2>6, <3>1, BlankProcess
              DEF WriteArtifactManifest, At, Processes, Evolves, Alive
    <2>7. CASE Dies(n)
      <3>1. proc' = [proc EXCEPT ![n] = [p EXCEPT !.pc = "dead"]]
        BY <2>7 DEF Dies, Step
      <3> QED BY <1>1, <2>7, <3>1, BlankProcess
              DEF Dies, At, Processes, Evolves, Alive
    <2> QED BY <2>1, <2>2, <2>3, <2>5, <2>6, <2>7 DEF Process
  <1>3. \A m \in Nonces : m # n => proc'[m] = proc[m]
    BY <1>2
  <1> QED BY <1>2, <1>3, Unmoved DEF Evolve

\* The command is killed: what it tracked is tracked no longer.
LEMMA CrashShape ==
  ASSUME proc \in [Nonces -> Processes], Crash
  PROVE  /\ Evolve /\ cmd' = Idle
         /\ \A n \in Nonces : Held(n) => ~proc'[n].tracked
  <1>1. ASSUME NEW n \in Nonces
        PROVE  /\ proc'[n] \in Processes /\ Evolves(proc[n], proc'[n])
               /\ Held(n) => ~proc'[n].tracked
    <2>1. proc[n] \in Processes
      OBVIOUS
    <2>2. proc'[n] = [proc[n] EXCEPT !.tracked = proc[n].tracked
                                         /\ \A w \in Workers : n # cmd.launch[w]]
      BY DEF Crash
    <2>3. PICK b \in BOOLEAN : b = (proc[n].tracked /\ \A w \in Workers : n # cmd.launch[w])
      OBVIOUS
    <2>4. b => proc[n].tracked /\ ~Held(n)
      BY <2>3 DEF Held
    <2>5. proc'[n] = [proc[n] EXCEPT !.tracked = b]
      BY <2>2, <2>3
    <2> DEFINE q == [proc[n] EXCEPT !.tracked = b]
    <2>6. q \in Processes /\ q.pc = proc[n].pc /\ q.exit = proc[n].exit
          /\ q.worker = proc[n].worker /\ q.fresh = proc[n].fresh
      BY <2>1 DEF Processes
    <2>7. q.tracked = b
      BY <2>1 DEF Processes
    <2>8. q.tracked => proc[n].tracked /\ ~Held(n)
      BY <2>4, <2>7
    <2>9. proc[n] = NoProc => q = NoProc
      <3> SUFFICES ASSUME proc[n] = NoProc PROVE q = NoProc
        OBVIOUS
      <3>1. ~proc[n].tracked
        BY BlankProcess
      <3>2. b = FALSE /\ proc[n].tracked = FALSE
        BY <2>1, <2>4, <3>1 DEF Processes
      <3> QED BY <2>1, <3>2 DEF Processes
    <2> HIDE DEF q
    <2>10. proc'[n] = q
      BY <2>5 DEF q
    <2> QED BY <2>6, <2>8, <2>9, <2>10 DEF Evolves
  <1>2. proc' = [n \in Nonces |-> proc'[n]]
    BY DEF Crash
  <1>3. cmd' = Idle
    BY DEF Crash
  <1> QED BY <1>1, <1>2, <1>3 DEF Evolve
-----------------------------------------------------------------------------
(* Types.                                                                  *)

AtOK == cmd.pc \in {"launch", "meta", "collect", "download"} => cmd.at \in Workers
CommandOK == cmd \in Commands /\ AtOK /\ CommandInv

\* Processes that evolve stay whose they are.
LEMMA ProcessesKept ==
  ASSUME TypeInv, Evolve, UNCHANGED launches
  PROVE  proc' \in [Nonces -> Processes] /\ ProcessInv'
  <1>1. ASSUME NEW n \in Nonces
        PROVE  /\ (Born(n) <=> n <= launches)'
               /\ (~Born(n) => proc[n] = NoProc)'
               /\ (Born(n) => proc[n].worker \in Workers)'
    <2>1. proc[n] \in Processes /\ proc'[n] \in Processes /\ Evolves(proc[n], proc'[n])
      BY DEF TypeInv, TypeOK, Evolve
    <2>2. /\ Born(n) <=> n <= launches
          /\ ~Born(n) => proc[n] = NoProc
          /\ Born(n) => proc[n].worker \in Workers
      BY DEF TypeInv, ProcessInv
    <2> QED BY <2>1, <2>2, BlankProcess DEF Evolves, Born
  <1> QED BY <1>1 DEF Evolve, ProcessInv

\* A command that is over.
LEMMA OverOK ==
  ASSUME cmd' = Idle
  PROVE  CommandOK'
  BY IdleFields DEF CommandOK, AtOK, CommandInv, Supervising

\* A command that begins to stop processes.
LEMMA StoppingOK ==
  ASSUME TypeInv, SameCommand,
         \/ cmd'.pc \in {"stopPeers", "killPeers"} /\ cmd.name \in {"test", "stop"}
         \/ cmd'.pc \in {"reap", "reapKill"} /\ cmd.name = "test"
  PROVE  CommandOK'
  BY DEF SameCommand, CommandOK, AtOK, CommandInv, Supervising, TypeInv

\* An error of a test: the peers are stopped.
LEMMA FailsOK ==
  ASSUME TypeInv, cmd.pc \in Supervising, Fails
  PROVE  SameCommand /\ cmd'.pc = "stopPeers" /\ CommandOK'
  <1>1. SameCommand /\ cmd'.pc = "stopPeers"
    BY GotoShape DEF Fails, TypeInv, TypeOK
  <1>2. cmd.name = "test"
    BY DEF TypeInv, CommandInv
  <1> QED BY <1>1, <1>2, StoppingOK

\* Entries of run-state.json.
LEMMA RecordOK ==
  ASSUME TypeInv, NEW w \in Workers, NEW n \in {None} \cup Nonces,
         NEW l \in {None} \cup Nonces,
         NEW st, st \in {"none", "running", "failed", "exited", "stopping"},
         Record(w, n, l, st)
  PROVE  recorded' \in [Workers -> Entries]
  BY DEF TypeInv, TypeOK, Record, Entries

\* What process n leaves in the directory of its worker.
Written(n, d) ==
    LET f == files[proc[n].worker] IN
    /\ d \in Directory
    /\ files' = [files EXCEPT ![proc[n].worker] = d]
    /\ \/ d.process = f.process
       \/ d.process = n /\ At(n, "starting")
    /\ \/ d.result = f.result
       \/ d.result = n /\ At(n, "ended") /\ proc'[n].pc = "resulted"
    /\ \/ d.manifest = f.manifest
       \/ /\ At(n, "resulted") /\ proc'[n].pc = "exiting"
          /\ d.manifest.by = n /\ d.manifest.hash.result = f.result

\* The files a process writes are its own.
LEMMA FilesTyped ==
  ASSUME TypeInv, NEW n \in Nonces, Process(n)
  PROVE  /\ proc[n].worker \in Workers /\ files' \in [Workers -> Directory]
         /\ \A w \in Workers \ {proc[n].worker} : files'[w] = files[w]
         /\ Written(n, files'[proc[n].worker])
  <1> DEFINE w == proc[n].worker
  <1> DEFINE f == files[w]
  <1>1. w \in Workers
    BY ProcessShape DEF TypeInv, TypeOK, ProcessInv, Alive, Born
  <1>2. f \in Directory
    BY <1>1 DEF TypeInv, TypeOK
  <1>3. \E d \in Directory : Written(n, d)
    <2>0. ASSUME UNCHANGED files PROVE Written(n, f)
      <3>1. files' = [files EXCEPT ![w] = f]
        BY <1>1, <2>0 DEF TypeInv, TypeOK
      <3> QED BY <1>2, <3>1 DEF Written
    <2>1. CASE WriteProcessJson(n)
      <3> DEFINE d == [f EXCEPT !.process = n]
      <3>1. files' = [files EXCEPT ![w] = d] /\ At(n, "starting")
        BY <2>1 DEF WriteProcessJson
      <3>2. d \in Directory /\ d.process = n /\ d.result = f.result
            /\ d.manifest = f.manifest
        BY <1>2 DEF Directory
      <3> HIDE DEF d
      <3>3. Written(n, d)
        BY <3>1, <3>2 DEF Written
      <3> QED BY <3>2, <3>3
    <2>2. CASE WriteReadyJson(n)
      <3> DEFINE d == [f EXCEPT !.ready = n]
      <3>1. files' = [files EXCEPT ![w] = d]
        BY <2>2 DEF WriteReadyJson
      <3>2. d \in Directory /\ d.process = f.process /\ d.result = f.result
            /\ d.manifest = f.manifest
        BY <1>2 DEF Directory
      <3> HIDE DEF d
      <3>3. Written(n, d)
        BY <3>1, <3>2 DEF Written
      <3> QED BY <3>2, <3>3
    <2>3. CASE RunEnds(n) \/ Dies(n)
      <3>1. UNCHANGED files
        BY <2>3 DEF RunEnds, Dies
      <3> QED BY <1>2, <2>0, <3>1
    <2>5. CASE WriteWorkerResultJson(n)
      <3> DEFINE d == [f EXCEPT !.result = n]
      <3>1. files' = [files EXCEPT ![w] = d] /\ At(n, "ended")
        BY <2>5 DEF WriteWorkerResultJson
      <3>2. d \in Directory /\ d.process = f.process /\ d.result = n
            /\ d.manifest = f.manifest
        BY <1>2 DEF Directory
      <3>3. proc'[n].pc = "resulted"
        BY <2>5 DEF WriteWorkerResultJson, Step, TypeInv, TypeOK, Processes
      <3> HIDE DEF d
      <3>4. Written(n, d)
        BY <3>1, <3>2, <3>3 DEF Written
      <3> QED BY <3>2, <3>4
    <2>6. CASE WriteArtifactManifest(n)
      <3> DEFINE h == [process |-> f.process, ready |-> f.ready, result |-> f.result]
      <3> DEFINE m == [hash |-> h, by |-> n]
      <3>0. h \in Payloads /\ h.result = f.result
        BY <1>2 DEF Directory, Payloads
      <3> HIDE DEF h
      <3>1. m \in Manifests /\ m.by = n /\ m.hash.result = f.result
        BY <3>0 DEF Manifests
      <3>2. files' = [files EXCEPT ![w].manifest = m] /\ At(n, "resulted")
        BY <2>6 DEF WriteArtifactManifest, h
      <3> HIDE DEF m
      <3> DEFINE d == [f EXCEPT !.manifest = m]
      <3>3. d \in Directory /\ d.process = f.process /\ d.result = f.result
            /\ d.manifest = m
        BY <1>2, <3>1 DEF Directory
      <3>4. proc'[n].pc = "exiting"
        BY <2>6 DEF WriteArtifactManifest, Step, TypeInv, TypeOK, Processes
      <3>5. files' = [files EXCEPT ![w] = d]
        BY <3>2
      <3> HIDE DEF d
      <3>6. Written(n, d)
        BY <3>1, <3>2, <3>3, <3>4, <3>5 DEF Written
      <3> QED BY <3>3, <3>6
    <2> QED BY <2>1, <2>2, <2>3, <2>5, <2>6 DEF Process
  <1>4. PICK d \in Directory : Written(n, d)
    BY <1>3
  <1>5. files' = [files EXCEPT ![w] = d]
    BY <1>4 DEF Written
  <1>6. files' \in [Workers -> Directory] /\ files'[w] = d
        /\ \A v \in Workers \ {w} : files'[v] = files[v]
    BY <1>1, <1>5 DEF TypeInv, TypeOK
  <1> QED BY <1>1, <1>4, <1>6
\* launchRole starts process launches + 1 for the worker the command is at.
Launched(w, n) ==
    /\ cmd.pc = "launch" /\ w = cmd.at /\ n = launches + 1
    /\ w \in Workers /\ n \in Nonces /\ ~Born(n) /\ cmd.launch[w] = None
    /\ launches' = n /\ UNCHANGED <<state, commands, results>>
    /\ files' \in [Workers -> Directory] /\ \A v \in Workers \ {w} : files'[v] = files[v]
    /\ files'[w] \in Leftover(files[w])
    /\ proc' \in [Nonces -> Processes] /\ \A m \in Nonces \ {n} : proc'[m] = proc[m]
    /\ proc'[n].worker = w /\ proc'[n].pc = "starting"
    /\ proc'[n].fresh => /\ files'[w].process = None
                         /\ \A m \in Nonces : ~(proc[m].worker = w /\ At(m, "starting"))
    /\ cmd' \in Commands /\ cmd'.name = cmd.name /\ cmd'.at = w
    /\ cmd'.remaining = cmd.remaining /\ cmd'.seen = cmd.seen
    /\ cmd'.manifest = cmd.manifest
    /\ \/ /\ cmd'.pc = "meta" /\ cmd'.launch = [cmd.launch EXCEPT ![w] = n]
          /\ cmd'.own = [cmd.own EXCEPT ![w] = n]
          /\ Record(w, n, n, "running")
       \/ /\ cmd'.pc = "stopPeers" /\ cmd'.launch = cmd.launch /\ cmd'.own = cmd.own
          /\ UNCHANGED recorded /\ proc'[n].tracked = FALSE

\* A directory some of whose files could not be removed is one.
LEMMA LeftoverTyped ==
  ASSUME NEW d \in Directory, NEW f \in Leftover(d)
  PROVE  f \in Directory
  BY Blank DEF Leftover, Directory

\* What LaunchRole does, under the types: there is room for the launch.
LEMMA LaunchShape ==
  ASSUME TypeInv, LaunchRole
  PROVE  Launched(cmd.at, launches + 1)
  <1> DEFINE w == cmd.at
  <1> DEFINE n == launches + 1
  <1> DEFINE Starting == {m \in Nonces : proc[m].worker = w /\ At(m, "starting")}
  <1>1. cmd.pc = "launch" /\ w \in Workers /\ launches \in Nat
    BY BoundAssumption DEF LaunchRole, TypeInv, TypeOK
  <1>2. n <= MaxLaunches /\ n \in Nat \ {0}
    BY <1>1, WorkerAssumption, BoundAssumption DEF TypeInv, CommandInv, Workers
  <1>3. n \in Nonces
    BY <1>2, BoundAssumption DEF Nonces
  <1>4. ~Born(n)
    BY <1>1, <1>3 DEF TypeInv, ProcessInv, Nonces
  <1>5. cmd.launch[w] = None
    BY <1>1, WorkerAssumption DEF TypeInv, CommandInv, Workers
  <1>6. launches' = n /\ UNCHANGED <<state, commands, results>>
    BY DEF LaunchRole
  <1>7. PICK f \in Leftover(files[w]), ok \in BOOLEAN :
          /\ files' = [files EXCEPT ![w] = f]
          /\ proc' = [proc EXCEPT ![n] =
                [worker |-> w, pc |-> "starting", exit |-> 0, tracked |-> ok,
                 fresh |-> (f.process = None /\ Starting = {})]]
          /\ IF ok THEN /\ cmd' = [cmd EXCEPT !.pc = "meta",
                                              !.launch = [cmd.launch EXCEPT ![w] = n],
                                              !.own = [cmd.own EXCEPT ![w] = n]]
                        /\ Record(w, n, n, "running")
             ELSE Fails /\ UNCHANGED recorded
    BY DEF LaunchRole
  <1>8. PICK fresh \in BOOLEAN : fresh = (f.process = None /\ Starting = {})
    OBVIOUS
  <1>9. fresh => f.process = None
                 /\ \A m \in Nonces : ~(proc[m].worker = w /\ At(m, "starting"))
    BY <1>8
  <1> HIDE DEF w, n, Starting
  <1> DEFINE q == [worker |-> w, pc |-> "starting", exit |-> 0, tracked |-> ok,
                   fresh |-> fresh]
  <1>10. q \in Processes /\ q.worker = w /\ q.pc = "starting" /\ q.tracked = ok
         /\ q.fresh = fresh
    BY <1>1 DEF Processes
  <1> HIDE DEF q
  <1>11. proc' = [proc EXCEPT ![n] = q]
    BY <1>7, <1>8 DEF q
  <1>12. proc' \in [Nonces -> Processes] /\ proc'[n] = q
         /\ \A m \in Nonces \ {n} : proc'[m] = proc[m]
    BY <1>3, <1>10, <1>11 DEF TypeInv, TypeOK
  <1>13. files' \in [Workers -> Directory] /\ files'[w] = f
         /\ \A v \in Workers \ {w} : files'[v] = files[v]
    <2>1. files \in [Workers -> Directory] /\ files[w] \in Directory
      BY <1>1 DEF TypeInv, TypeOK
    <2>2. f \in Directory
      BY <1>7, <2>1, LeftoverTyped
    <2> QED BY <1>1, <1>7, <2>1, <2>2
  <1>14. /\ cmd' \in Commands /\ cmd'.name = cmd.name /\ cmd'.at = w
         /\ cmd'.remaining = cmd.remaining /\ cmd'.seen = cmd.seen
         /\ cmd'.manifest = cmd.manifest
         /\ \/ /\ cmd'.pc = "meta" /\ cmd'.launch = [cmd.launch EXCEPT ![w] = n]
               /\ cmd'.own = [cmd.own EXCEPT ![w] = n]
               /\ Record(w, n, n, "running")
            \/ /\ cmd'.pc = "stopPeers" /\ cmd'.launch = cmd.launch /\ cmd'.own = cmd.own
               /\ UNCHANGED recorded /\ proc'[n].tracked = FALSE
    <2>1. CASE ok
      <3>1. PICK o, l : o = [cmd.own EXCEPT ![w] = n] /\ l = [cmd.launch EXCEPT ![w] = n]
        OBVIOUS
      <3>2. cmd \in Commands
        BY DEF TypeInv, TypeOK
      <3>3. o \in [Workers -> {None} \cup Nonces] /\ l \in [Workers -> {None} \cup Nonces]
        BY <1>3, <3>1, <3>2 DEF Commands
      <3>4. cmd' = [cmd EXCEPT !.pc = "meta", !.launch = l, !.own = o]
            /\ Record(w, n, n, "running")
        BY <1>7, <2>1, <3>1
      <3>5. cmd' \in Commands /\ cmd'.pc = "meta" /\ cmd'.own = o /\ cmd'.launch = l
            /\ cmd'.name = cmd.name
            /\ cmd'.at = cmd.at /\ cmd'.remaining = cmd.remaining
            /\ cmd'.seen = cmd.seen /\ cmd'.manifest = cmd.manifest
        BY <3>2, <3>3, <3>4 DEF Commands
      <3> QED BY <3>1, <3>4, <3>5 DEF w
    <2>2. CASE ~ok
      <3>1. Fails /\ UNCHANGED recorded /\ cmd.pc \in Supervising
        BY <1>1, <1>7, <2>2 DEF Supervising
      <3>2. SameCommand /\ cmd'.pc = "stopPeers"
        BY <3>1, FailsOK
      <3>3. proc'[n].tracked = FALSE
        BY <1>10, <1>12, <2>2
      <3> QED BY <3>1, <3>2, <3>3 DEF SameCommand, w
    <2> QED BY <2>1, <2>2
  <1> QED BY <1>1, <1>3, <1>4, <1>5, <1>6, <1>7, <1>9, <1>10, <1>12, <1>13, <1>14
          DEF Launched, w, n

\* A launch keeps types.
LEMMA LaunchOK ==
  ASSUME TypeInv, LaunchRole
  PROVE  TypeInv'
  <1> DEFINE w == cmd.at
  <1> DEFINE n == launches + 1
  <1>1. Launched(w, n) /\ launches \in Nat /\ launches + 1 = n
    BY LaunchShape, BoundAssumption DEF TypeInv, TypeOK
  <1> HIDE DEF n
  <1>2. ProcessInv'
    <2>1. ASSUME NEW m \in Nonces
          PROVE  /\ (Born(m) <=> m <= launches)'
                 /\ (~Born(m) => proc[m] = NoProc)'
                 /\ (Born(m) => proc[m].worker \in Workers)'
      <3>1. CASE m = n
        BY <1>1, <3>1, BoundAssumption DEF Launched, Born, Nonces, TypeInv, TypeOK
      <3>2. CASE m # n
        BY <1>1, <3>2 DEF Launched, Born, Nonces, TypeInv, ProcessInv
      <3> QED BY <3>1, <3>2
    <2> QED BY <2>1 DEF ProcessInv
  <1>3. CommandOK'
    <2>1. CASE cmd'.pc = "stopPeers"
      BY <1>1, <2>1 DEF Launched, CommandOK, AtOK, CommandInv, Supervising, TypeInv
    <2>2. CASE cmd'.pc = "meta"
      <3>1. cmd'.launch = [cmd.launch EXCEPT ![w] = n] /\ cmd'.own = [cmd.own EXCEPT ![w] = n]
            /\ cmd'.at = w /\ w = cmd.at /\ w \in Workers /\ n \in Nonces
        BY <1>1, <2>2 DEF Launched
      <3>2. cmd.own \in [Workers -> {None} \cup Nonces]
            /\ cmd.launch \in [Workers -> {None} \cup Nonces]
        BY DEF TypeInv, TypeOK, Commands
      <3>3. cmd'.name = "test"
        BY <1>1 DEF Launched, TypeInv, CommandInv, Supervising
      <3>4. launches' + WorkerCount <= MaxLaunches + cmd'.at
        BY <1>1, WorkerAssumption, BoundAssumption
           DEF Launched, TypeInv, CommandInv, Workers
      <3>5. n # None
        BY <3>1 DEF Nonces, None
      <3>6. \A v \in Workers : cmd'.launch[v] # None <=> v <= cmd'.at
        BY <1>1, <3>1, <3>2, <3>5, WorkerAssumption
           DEF Launched, TypeInv, CommandInv, Workers
      <3>7. \A v \in Workers : cmd'.launch[v] # None => cmd'.own[v] # None
        BY <3>1, <3>2, <3>5 DEF TypeInv, CommandInv
      <3> QED BY <1>1, <2>2, <3>1, <3>3, <3>4, <3>6, <3>7
              DEF Launched, CommandOK, AtOK, CommandInv, Supervising
    <2> QED BY <1>1, <2>1, <2>2 DEF Launched
  <1>4. recorded' \in [Workers -> Entries]
    BY <1>1, RecordOK DEF Launched, TypeInv, TypeOK
  <1>5. files' \in [Workers -> Directory]
    BY <1>1 DEF Launched
  <1>6. launches' \in 0..MaxLaunches
    BY <1>1, BoundAssumption DEF Launched, Nonces
  <1>7. proc' \in [Nonces -> Processes] /\ UNCHANGED <<state, commands, results>>
    BY <1>1 DEF Launched
  <1> QED BY <1>2, <1>3, <1>4, <1>5, <1>6, <1>7
          DEF TypeInv, TypeOK, CommandOK, AtOK, results

Records == [Workers -> Entries]
artifacts == <<raw, collected, aggregate>>

\* What is left to check of a step that neither launches nor collects.
LEMMA RestOK ==
  ASSUME TypeInv, CommandOK', Evolve, UNCHANGED <<files, launches, commands, artifacts>>,
         state' \in States, recorded' \in Records, tested' \in BOOLEAN
  PROVE  TypeInv'
  <1>1. proc' \in [Nonces -> Processes] /\ ProcessInv'
    BY ProcessesKept
  <1> QED BY <1>1 DEF TypeInv, TypeOK, CommandOK, AtOK, artifacts, Records

\* The states a run is moved to.
LEMMA StatesNamed ==
    {"indexing", "preparing", "arming", "ramping", "measuring", "draining", "stopping",
     "collecting", "consolidating"} \subseteq States
  BY DEF States, PipelineOrder

\* A test or a stop takes to stopping processes, a test that is through to
\* reaping them.
Halted ==
    /\ cmd' \in Commands /\ cmd'.name = cmd.name
    /\ cmd'.launch = cmd.launch /\ cmd'.own = cmd.own
    /\ cmd'.pc \in {"stopPeers", "killPeers", "reap", "reapKill"}
    /\ cmd.pc = "wait" /\ cmd'.pc = "reap" => cmd.remaining = {}
    /\ Evolve /\ UNCHANGED <<files, launches, commands, artifacts>>

\* A test gives up before it is through.
LEMMA GivesUp ==
  ASSUME TypeInv, cmd.pc \in Supervising, Fails, Evolve,
         UNCHANGED <<state, files, launches, commands, results>>, recorded' \in Records
  PROVE  TypeInv' /\ Halted
  <1>1. SameCommand /\ cmd'.pc = "stopPeers" /\ CommandOK'
    BY FailsOK
  <1> QED BY <1>1, RestOK DEF Halted, SameCommand, TypeInv, TypeOK, results, artifacts

\* process.json is not there to be read: the process is told to end.
LEMMA MetadataFailsOK ==
  ASSUME TypeInv, MetadataFails
  PROVE  TypeInv' /\ Halted
  <1>1. cmd.pc \in Supervising /\ cmd.at \in Workers
    BY DEF MetadataFails, Supervising, TypeInv, TypeOK
  <1>2. cmd.own[cmd.at] \in {None} \cup Nonces /\ cmd.launch[cmd.at] \in {None} \cup Nonces
    BY <1>1 DEF TypeInv, TypeOK, Commands
  <1>3. recorded' \in Records
    BY <1>1, <1>2, RecordOK DEF MetadataFails, Records
  <1>4. Evolve
    BY TermShape DEF MetadataFails, TypeInv, TypeOK
  <1> QED BY <1>1, <1>3, <1>4, GivesUp DEF MetadataFails

\* The failures of a test that touch no process by themselves.
LEMMA QuietFailsOK ==
  ASSUME TypeInv, LaunchRefused \/ ArmingFails \/ Interrupt \/ WaitTimesOut
  PROVE  TypeInv' /\ Halted
  <1>1. cmd.pc \in Supervising /\ Fails /\ UNCHANGED <<state, recorded, commands, results, hosts>>
    BY DEF LaunchRefused, ArmingFails, Interrupt, WaitTimesOut, Supervising
  <1>2. Evolve
    BY <1>1, UnmovedAll DEF hosts, TypeInv, TypeOK
  <1> QED BY <1>1, <1>2, GivesUp DEF hosts, TypeInv, TypeOK, Records

\* The processes are signalled, or the test is complete.
LEMMA StopPeersOK ==
  ASSUME TypeInv, StopPeers
  PROVE  TypeInv' /\ Halted
  <1>1. SameCommand /\ cmd'.pc = "killPeers"
    BY GotoShape DEF StopPeers, TypeInv, TypeOK
  <1>2. cmd.name \in {"test", "stop"}
    BY DEF StopPeers, TypeInv, CommandInv
  <1>3. CommandOK'
    BY <1>1, <1>2, StoppingOK
  <1>4. Evolve
    BY TermShape DEF StopPeers, TypeInv, TypeOK
  <1>5. recorded' \in Records
    BY DEF StopPeers, TypeInv, TypeOK, Records, Entries
  <1> QED BY <1>1, <1>3, <1>4, <1>5, RestOK
          DEF StopPeers, Halted, SameCommand, TypeInv, TypeOK, results, artifacts

\* The wait is over for every worker.
LEMMA TestCompletesOK ==
  ASSUME TypeInv, TestCompletes
  PROVE  TypeInv' /\ Halted
  <1>1. SameCommand /\ cmd'.pc = "reap"
    BY GotoShape DEF TestCompletes, TypeInv, TypeOK
  <1>2. cmd.name = "test"
    BY DEF TestCompletes, TypeInv, CommandInv, Supervising
  <1>3. CommandOK'
    BY <1>1, <1>2, StoppingOK
  <1>4. Evolve
    BY UnmovedAll DEF TestCompletes, hosts, TypeInv, TypeOK
  <1>5. state' \in States
    BY StatesNamed DEF TestCompletes, TypeInv, TypeOK
  <1> QED BY <1>1, <1>3, <1>4, <1>5, RestOK
          DEF TestCompletes, Halted, SameCommand, TypeInv, TypeOK, Records, hosts, artifacts

\* A command ends: none of the processes it keeps track of is left.
Ended ==
    /\ cmd' = Idle
    /\ Evolve /\ UNCHANGED <<files, launches, commands, artifacts>>
    /\ ~LeaveProcesses /\ cmd.name = "test" =>
          \A n \in Nonces : Held(n) => ~(Alive(n) /\ proc[n].tracked)'

\* The end of stopPeers: `stop` is over, a test goes on to reap its own.
LEMMA KillPeersOK ==
  ASSUME TypeInv, KillPeers
  PROVE  TypeInv' /\ (Halted \/ Ended)
  <1>1. Evolve
    BY KillShape DEF KillPeers, TypeInv, TypeOK
  <1>2. recorded' \in Records /\ state' \in States /\ tested' \in BOOLEAN
        /\ UNCHANGED artifacts
    BY DEF KillPeers, TypeInv, TypeOK, Records, results, artifacts
  <1>3. CASE cmd.name = "stop"
    <2>1. cmd' = Idle
      BY <1>3 DEF KillPeers
    <2>2. CommandOK'
      BY <2>1, OverOK
    <2> QED BY <1>1, <1>2, <1>3, <2>1, <2>2, RestOK DEF KillPeers, Ended
  <1>4. CASE cmd.name # "stop"
    <2>1. SameCommand /\ cmd'.pc = "reap"
      BY <1>4, GotoShape DEF KillPeers, TypeInv, TypeOK
    <2>2. cmd.name = "test"
      BY <1>4 DEF KillPeers, TypeInv, CommandInv
    <2>3. CommandOK'
      BY <2>1, <2>2, StoppingOK
    <2> QED BY <1>1, <1>2, <2>1, <2>3, RestOK DEF KillPeers, Halted, SameCommand
  <1> QED BY <1>3, <1>4

\* What a command has launched is among the pids it reaps.
LEMMA HeldPids ==
  ASSUME NEW n \in Nonces, Held(n)
  PROVE  \E w \in Workers : n \in Pids(w)
  BY DEF Held, Pids, Nonces, None

\* reapLaunched ends at once if nothing is left, or is to be left alone.
LEMMA ReapLaunchedOK ==
  ASSUME TypeInv, ReapLaunched
  PROVE  TypeInv' /\ (Halted \/ Ended)
  <1>1. CASE AliveLaunched = {} \/ LeaveProcesses
    <2>1. cmd' = Idle /\ UNCHANGED <<proc, recorded>>
      BY <1>1 DEF ReapLaunched
    <2>2. CommandOK' /\ Evolve
      BY <2>1, OverOK, UnmovedAll DEF TypeInv, TypeOK
    <2>3. ASSUME ~LeaveProcesses, NEW n \in Nonces, Held(n)
          PROVE  ~(Alive(n) /\ proc[n].tracked)'
      <3>1. ~Alive(n)
        BY <1>1, <2>3, HeldPids DEF AliveLaunched
      <3> QED BY <2>1, <3>1 DEF Alive
    <2> QED BY <2>1, <2>2, <2>3, RestOK
            DEF ReapLaunched, Ended, TypeInv, TypeOK, Records, results, artifacts
  <1>2. CASE ~(AliveLaunched = {} \/ LeaveProcesses)
    <2>1. SameCommand /\ cmd'.pc = "reapKill"
      BY <1>2, GotoShape DEF ReapLaunched, TypeInv, TypeOK
    <2>2. cmd.name = "test"
      BY DEF ReapLaunched, TypeInv, CommandInv
    <2>3. CommandOK'
      BY <2>1, <2>2, StoppingOK
    <2>4. Evolve
      BY <1>2, TermShape DEF ReapLaunched, TypeInv, TypeOK
    <2>5. recorded' \in Records
      <3>1. ASSUME NEW w \in Workers
            PROVE  [pid |-> cmd.own[w], launch |-> cmd.launch[w], st |-> "stopping"] \in Entries
                   /\ recorded[w] \in Entries
        BY DEF TypeInv, TypeOK, Commands, Entries
      <3>2. recorded' = [w \in Workers |->
                 IF w \in AliveLaunched
                 THEN [pid |-> cmd.own[w], launch |-> cmd.launch[w], st |-> "stopping"]
                 ELSE recorded[w]]
        BY <1>2 DEF ReapLaunched
      <3> QED BY <3>1, <3>2 DEF Records
    <2> QED BY <2>1, <2>3, <2>4, <2>5, RestOK
            DEF ReapLaunched, Halted, SameCommand, TypeInv, TypeOK, results, artifacts
  <1> QED BY <1>1, <1>2

\* reapLaunched ends with nothing of its own alive.
LEMMA ReapKillOK ==
  ASSUME TypeInv, ReapKill
  PROVE  TypeInv' /\ Ended
  <1> DEFINE pids == LaunchedPids(AliveLaunched)
  <1>1. cmd' = Idle /\ CommandOK'
    BY OverOK DEF ReapKill
  <1>2. Kill(pids) /\ proc \in [Nonces -> Processes]
    BY DEF ReapKill, TypeInv, TypeOK
  <1>3. Evolve /\ \A n \in Nonces : n \in pids => proc'[n].pc \in {"unborn", "dead"}
    BY <1>2, KillShape
  <1>4. ASSUME NEW n \in Nonces, Held(n)
        PROVE  ~(Alive(n) /\ proc[n].tracked)'
    <2>1. CASE n \in pids
      BY <1>3, <2>1 DEF Alive
    <2>2. CASE n \notin pids
      <3>1. ~Alive(n)
        BY <1>4, <2>2, HeldPids DEF AliveLaunched, LaunchedPids
      <3>2. proc'[n] = proc[n]
        BY <1>2, <2>2 DEF Kill
      <3> QED BY <3>1, <3>2 DEF Alive
    <2> QED BY <2>1, <2>2
  <1> QED BY <1>1, <1>3, <1>4, RestOK
          DEF ReapKill, Ended, TypeInv, TypeOK, Records, results, artifacts

\* A killed command keeps track of nothing.
LEMMA CrashOK ==
  ASSUME TypeInv, Crash
  PROVE  TypeInv' /\ Ended
  <1>1. Evolve /\ cmd' = Idle /\ \A n \in Nonces : Held(n) => ~proc'[n].tracked
    BY CrashShape DEF TypeInv, TypeOK
  <1>2. CommandOK'
    BY <1>1, OverOK
  <1> QED BY <1>1, <1>2, RestOK
          DEF Crash, Ended, TypeInv, TypeOK, Records, results, artifacts
\* A test waits on: it stops waiting only for workers that closed their files.
Waiting == {"arm", "wait", "alive"}
Onward ==
    /\ cmd.pc \in Waiting /\ cmd'.pc \in Waiting
    /\ cmd' \in Commands /\ cmd'.name = cmd.name
    /\ cmd'.launch = cmd.launch /\ cmd'.own = cmd.own
    /\ UNCHANGED <<commands, results, hosts>>
    /\ \/ cmd'.pc = "arm"
       \/ cmd'.remaining = Workers
       \/ /\ cmd.pc # "arm"
          /\ \A w \in Workers \ cmd'.remaining :
                \/ w \notin cmd.remaining
                \/ files[w].manifest.by = cmd.own[w] /\ proc[cmd.own[w]].exit = 0

\* A test that waits on is a well-formed command.
LEMMA OnwardOK ==
  ASSUME TypeInv, Onward, cmd'.pc = "alive" => cmd'.seen \in Workers,
         state' \in States, recorded' \in Records
  PROVE  TypeInv'
  <1>1. Evolve
    BY UnmovedAll DEF Onward, hosts, TypeInv, TypeOK
  <1>2. cmd.name = "test" /\ \A w \in Workers : cmd.launch[w] # None /\ cmd.own[w] # None
    BY DEF Onward, Waiting, Supervising, TypeInv, CommandInv
  <1>3. CommandOK'
    BY <1>2 DEF Onward, Waiting, CommandOK, AtOK, CommandInv, Supervising
  <1> QED BY <1>1, <1>3, RestOK DEF Onward, hosts, results, artifacts, TypeInv, TypeOK

\* The state of the run moves while the workers arm.
LEMMA ArmingOK ==
  ASSUME TypeInv, Arming
  PROVE  TypeInv' /\ Onward
  <1>1. state' \in {"arming", "ramping"} /\ UNCHANGED <<recorded, cmd, commands, results, hosts>>
        /\ cmd.pc = "arm"
    BY DEF Arming
  <1>2. Onward
    BY <1>1 DEF Onward, Waiting, TypeInv, TypeOK
  <1> QED BY <1>1, <1>2, OnwardOK, StatesNamed DEF TypeInv, TypeOK, Records

\* The wait begins, for every worker.
LEMMA MeasurementStartsOK ==
  ASSUME TypeInv, MeasurementStarts
  PROVE  TypeInv' /\ Onward
  <1>1. cmd \in Commands
    BY DEF TypeInv, TypeOK
  <1>2. cmd' \in Commands /\ cmd'.pc = "wait" /\ cmd'.remaining = Workers
        /\ cmd'.name = cmd.name /\ cmd'.own = cmd.own /\ cmd'.launch = cmd.launch
    BY <1>1 DEF MeasurementStarts, Commands
  <1>3. Onward
    BY <1>2 DEF Onward, Waiting, MeasurementStarts
  <1>4. state' \in States /\ recorded' \in Records
    BY StatesNamed DEF MeasurementStarts, TypeInv, TypeOK, Records
  <1> QED BY <1>2, <1>3, <1>4, OnwardOK

\* The deadline passes during the wait.
LEMMA DeadlineOK ==
  ASSUME TypeInv, Deadline
  PROVE  TypeInv' /\ Onward
  <1>1. cmd \in Commands
    BY DEF TypeInv, TypeOK
  <1>2. cmd' \in Commands /\ cmd'.pc = cmd.pc /\ cmd'.remaining = cmd.remaining
        /\ cmd'.name = cmd.name /\ cmd'.own = cmd.own /\ cmd'.launch = cmd.launch
        /\ cmd'.seen = cmd.seen
    BY <1>1 DEF Deadline, Commands
  <1>3. Onward
    BY <1>2 DEF Onward, Waiting, Deadline
  <1>4. state' \in States /\ recorded' \in Records
    BY DEF Deadline, TypeInv, TypeOK, Records
  <1>5. cmd.pc = "alive" => cmd.seen \in Workers
    BY DEF TypeInv, CommandInv
  <1> QED BY <1>2, <1>3, <1>4, <1>5, OnwardOK

\* A worker is no longer waited for, fails the test, or is looked at again.
LEMMA LookForManifestOK ==
  ASSUME TypeInv, NEW w \in Workers, LookForManifest(w)
  PROVE  TypeInv' /\ (Onward \/ Halted)
  <1> DEFINE n == cmd.own[w]
  <1> DEFINE m == files[w].manifest
  <1>1. cmd \in Commands /\ cmd.pc = "wait" /\ UNCHANGED <<state, commands, results, hosts>>
    BY DEF LookForManifest, TypeInv, TypeOK
  <1>2. n \in {None} \cup Nonces /\ cmd.launch[w] \in {None} \cup Nonces /\ cmd.name = "test"
    BY <1>1 DEF Commands, TypeInv, CommandInv, Supervising
  <1>3. state' \in States
    BY <1>1 DEF TypeInv, TypeOK
  <1>4. CASE m.by # n
    <2>1. cmd' = [cmd EXCEPT !.pc = "alive", !.seen = w] /\ UNCHANGED recorded
      BY <1>4 DEF LookForManifest
    <2>2. cmd' \in Commands /\ cmd'.pc = "alive" /\ cmd'.remaining = cmd.remaining
          /\ cmd'.name = cmd.name /\ cmd'.own = cmd.own /\ cmd'.launch = cmd.launch
          /\ cmd'.seen = w
      BY <1>1, <2>1 DEF Commands
    <2>3. Onward
      BY <1>1, <2>2 DEF Onward, Waiting
    <2> QED BY <1>3, <2>1, <2>2, <2>3, OnwardOK DEF TypeInv, TypeOK, Records
  <1>5. CASE m.by = n /\ proc[n].exit = 0
    <2>1. cmd' = [cmd EXCEPT !.remaining = cmd.remaining \ {w}, !.pc = "wait"]
          /\ Record(w, n, cmd.launch[w], "exited")
      BY <1>5 DEF LookForManifest
    <2>2. cmd' \in Commands /\ cmd'.pc = "wait" /\ cmd'.remaining = cmd.remaining \ {w}
          /\ cmd'.name = cmd.name /\ cmd'.own = cmd.own /\ cmd'.launch = cmd.launch
      BY <1>1, <2>1 DEF Commands
    <2>3. recorded' \in Records
      BY <1>2, <2>1, RecordOK DEF Records
    <2>4. Onward
      BY <1>1, <1>5, <2>2 DEF Onward, Waiting
    <2> QED BY <1>3, <2>2, <2>3, <2>4, OnwardOK
  <1>6. CASE m.by = n /\ proc[n].exit # 0
    <2>1. cmd' = [cmd EXCEPT !.remaining = cmd.remaining \ {w}, !.pc = "stopPeers"]
          /\ Record(w, n, cmd.launch[w], "failed")
      BY <1>6 DEF LookForManifest
    <2>2. cmd' \in Commands /\ cmd'.pc = "stopPeers" /\ cmd'.name = cmd.name
          /\ cmd'.own = cmd.own /\ cmd'.launch = cmd.launch
      BY <1>1, <2>1 DEF Commands
    <2>3. recorded' \in Records
      BY <1>2, <2>1, RecordOK DEF Records
    <2>4. CommandOK'
      BY <1>2, <2>2 DEF CommandOK, AtOK, CommandInv, Supervising, TypeInv
    <2>5. Evolve
      BY <1>1, UnmovedAll DEF hosts, TypeInv, TypeOK
    <2> QED BY <1>1, <1>3, <2>2, <2>3, <2>4, <2>5, RestOK
            DEF Halted, hosts, results, artifacts, TypeInv, TypeOK
  <1> QED BY <1>4, <1>5, <1>6

\* A worker without a manifest is waited for as long as it is alive.
LEMMA LookWhetherAliveOK ==
  ASSUME TypeInv, LookWhetherAlive
  PROVE  TypeInv' /\ (Onward \/ Halted)
  <1>1. cmd.pc = "alive" /\ cmd.seen \in Workers /\ cmd \in Commands
        /\ UNCHANGED <<state, commands, results, hosts>>
    BY DEF LookWhetherAlive, TypeInv, TypeOK, CommandInv
  <1>2. cmd.own[cmd.seen] \in {None} \cup Nonces /\ cmd.launch[cmd.seen] \in {None} \cup Nonces
    BY <1>1 DEF Commands
  <1>3. CASE \E n \in Pids(cmd.seen) : Alive(n)
    <2>1. SameCommand /\ cmd'.pc = "wait" /\ UNCHANGED recorded
      BY <1>1, <1>3, GotoShape DEF LookWhetherAlive
    <2>2. Onward
      BY <1>1, <2>1 DEF Onward, Waiting, SameCommand
    <2> QED BY <1>1, <2>1, <2>2, OnwardOK DEF TypeInv, TypeOK, Records
  <1>4. CASE ~\E n \in Pids(cmd.seen) : Alive(n)
    <2>1. Fails /\ Record(cmd.seen, cmd.own[cmd.seen], cmd.launch[cmd.seen], "failed")
      BY <1>4 DEF LookWhetherAlive
    <2>2. recorded' \in Records
      BY <1>1, <1>2, <2>1, RecordOK DEF Records
    <2>3. Evolve
      BY <1>1, UnmovedAll DEF hosts, TypeInv, TypeOK
    <2> QED BY <1>1, <2>1, <2>2, <2>3, GivesUp DEF hosts, Supervising
  <1> QED BY <1>3, <1>4

\* process.json of the worker the command is at has been read.
Loaded(w, n) ==
    /\ cmd.pc = "meta" /\ w = cmd.at /\ w \in Workers /\ n = files[w].process
    /\ n \in Nonces /\ cmd'.at = w + 1 /\ cmd'.name = cmd.name
    /\ cmd'.own = [cmd.own EXCEPT ![w] = n] /\ cmd'.launch = cmd.launch
    /\ cmd'.pc = (IF w = WorkerCount THEN "arm" ELSE "launch")
    /\ UNCHANGED <<commands, results, hosts>>

\* process.json is read, and the next worker or the arming is up.
LEMMA LoadProcessMetadataOK ==
  ASSUME TypeInv, LoadProcessMetadata
  PROVE  TypeInv' /\ Loaded(cmd.at, files[cmd.at].process)
  <1> DEFINE w == cmd.at
  <1> DEFINE n == files[w].process
  <1>1. cmd.pc = "meta" /\ w \in Workers /\ n # None /\ cmd \in Commands
        /\ UNCHANGED <<state, commands, results, hosts>>
        /\ Record(w, n, cmd.launch[w], "running")
    BY DEF LoadProcessMetadata, TypeInv, TypeOK
  <1>2. n \in Nonces /\ cmd.launch[w] \in {None} \cup Nonces
    BY <1>1 DEF TypeInv, TypeOK, Directory, Commands
  <1>3. cmd' = [cmd EXCEPT !.pc = IF w = WorkerCount THEN "arm" ELSE "launch",
                           !.at = w + 1, !.own = [cmd.own EXCEPT ![w] = n]]
    BY DEF LoadProcessMetadata
  <1>4. PICK o, pc, at : /\ o = [cmd.own EXCEPT ![w] = n] /\ at = w + 1
                         /\ pc = (IF w = WorkerCount THEN "arm" ELSE "launch")
    OBVIOUS
  <1>5. o \in [Workers -> {None} \cup Nonces] /\ o[w] = n
        /\ \A v \in Workers : v # w => o[v] = cmd.own[v]
    BY <1>1, <1>2, <1>4 DEF Commands
  <1>6. at \in 1..WorkerCount + 1 /\ (pc = "launch" => at \in Workers)
        /\ pc \in {"arm", "launch"}
    BY <1>1, <1>4, WorkerAssumption DEF Workers
  <1>7. cmd' = [cmd EXCEPT !.pc = pc, !.at = at, !.own = o]
    BY <1>3, <1>4
  <1>8. cmd' \in Commands /\ cmd'.pc = pc /\ cmd'.at = at /\ cmd'.own = o
        /\ cmd'.name = cmd.name /\ cmd'.launch = cmd.launch
    BY <1>1, <1>5, <1>6, <1>7 DEF Commands
  <1>9. Loaded(w, n)
    BY <1>1, <1>2, <1>4, <1>8 DEF Loaded
  <1>10. CommandOK'
    <2>1. cmd.name = "test" /\ launches + WorkerCount <= MaxLaunches + cmd.at
          /\ \A v \in Workers : /\ cmd.launch[v] # None <=> v <= w
                                /\ cmd.launch[v] # None => cmd.own[v] # None
      BY <1>1 DEF TypeInv, CommandInv, Supervising
    <2>2. n # None
      BY <1>1
    <2>3. \A v \in Workers : cmd.launch[v] # None => o[v] # None
      BY <1>5, <2>1, <2>2
    <2>4. CASE pc = "arm"
      <3>1. w = WorkerCount
        BY <1>4, <2>4
      <3>2. \A v \in Workers : cmd.launch[v] # None
        BY <2>1, <3>1, WorkerAssumption DEF Workers
      <3> QED BY <1>8, <2>1, <2>3, <2>4, <3>2 DEF CommandOK, AtOK, CommandInv, Supervising
    <2>5. CASE pc = "launch"
      <3>1. launches' + WorkerCount + 1 <= MaxLaunches + at
        BY <1>1, <1>4, <2>1, WorkerAssumption, BoundAssumption
           DEF hosts, Workers, TypeInv, TypeOK
      <3>2. \A v \in Workers : cmd.launch[v] # None <=> v < at
        BY <1>1, <1>4, <2>1, WorkerAssumption DEF Workers
      <3> QED BY <1>6, <1>8, <2>1, <2>3, <2>5, <3>1, <3>2
              DEF CommandOK, AtOK, CommandInv, Supervising
    <2> QED BY <1>6, <2>4, <2>5
  <1>11. recorded' \in Records
    BY <1>1, <1>2, RecordOK DEF Records
  <1>12. Evolve
    BY <1>1, UnmovedAll DEF hosts, TypeInv, TypeOK
  <1> QED BY <1>1, <1>9, <1>10, <1>11, <1>12, RestOK
          DEF hosts, TypeInv, TypeOK, results, artifacts

\* A command begins, with no memory of what others launched.
Begun ==
    /\ cmd.pc = "idle" /\ commands' = commands + 1
    /\ UNCHANGED <<recorded, results, hosts>> /\ state' \in States
    /\ cmd' \in Commands /\ cmd'.launch = Idle.launch /\ cmd'.at = 1
    /\ \/ cmd' = Idle
       \/ /\ cmd'.pc = "launch" /\ cmd'.name = "test"
          /\ launches + WorkerCount <= MaxLaunches
       \/ cmd'.pc = "stopPeers" /\ cmd'.name = "stop"
       \/ cmd'.pc \in {"collect", "merge"} /\ cmd'.name \in {"collect", "consolidate"}

\* What each of the commands starts from.
LEMMA BeginOK ==
  ASSUME TypeInv, Begin
  PROVE  TypeInv' /\ Begun
  <1>1. cmd.pc = "idle" /\ commands' = commands + 1
        /\ UNCHANGED <<recorded, results, hosts>> /\ commands < MaxCommands
    BY DEF Begin
  <1>2. Begun
    <2>1. CASE BeginTest
      <3>1. cmd' = [Idle EXCEPT !.name = "test", !.pc = "launch"] /\ state' = "preparing"
            /\ launches + WorkerCount <= MaxLaunches
        BY <2>1 DEF BeginTest
      <3>2. cmd' \in Commands /\ cmd'.launch = Idle.launch /\ cmd'.at = Idle.at
            /\ cmd'.pc = "launch" /\ cmd'.name = "test"
        BY <3>1, IdleFields DEF Commands
      <3> QED BY <1>1, <3>1, <3>2, IdleFields, StatesNamed DEF Begun
    <2>2. CASE BeginStop
      <3>1. cmd' = [Idle EXCEPT !.name = "stop", !.pc = "stopPeers"] /\ state' = "stopping"
        BY <2>2 DEF BeginStop
      <3>2. cmd' \in Commands /\ cmd'.launch = Idle.launch /\ cmd'.at = Idle.at
            /\ cmd'.pc = "stopPeers" /\ cmd'.name = "stop"
        BY <3>1, IdleFields DEF Commands
      <3> QED BY <1>1, <3>1, <3>2, IdleFields, StatesNamed DEF Begun
    <2>3. CASE BeginCollect
      <3>1. cmd' = [Idle EXCEPT !.name = "collect", !.pc = "collect"]
            /\ state' = "collecting"
        BY <2>3 DEF BeginCollect
      <3>2. cmd' \in Commands /\ cmd'.launch = Idle.launch /\ cmd'.at = Idle.at
            /\ cmd'.pc = "collect" /\ cmd'.name = "collect"
        BY <3>1, IdleFields DEF Commands
      <3> QED BY <1>1, <3>1, <3>2, IdleFields, StatesNamed DEF Begun
    <2>4. CASE BeginConsolidate
      <3>1. state' \in States
        BY <2>4, StatesNamed DEF BeginConsolidate, TypeInv, TypeOK
      <3>2. \/ cmd' = [Idle EXCEPT !.name = "consolidate", !.pc = "merge"]
            \/ cmd' = [Idle EXCEPT !.name = "consolidate", !.pc = "collect"]
        BY <2>4 DEF BeginConsolidate
      <3>3. cmd' \in Commands /\ cmd'.launch = Idle.launch /\ cmd'.at = Idle.at
            /\ cmd'.pc \in {"merge", "collect"} /\ cmd'.name = "consolidate"
        BY <3>2, IdleFields DEF Commands
      <3> QED BY <1>1, <3>1, <3>3, IdleFields DEF Begun
    <2>5. CASE BeginIndexes
      <3>1. cmd' = Idle /\ state' = "indexing"
        BY <2>5 DEF BeginIndexes
      <3> QED BY <1>1, <3>1, IdleFields, StatesNamed DEF Begun
    <2> QED BY <2>1, <2>2, <2>3, <2>4, <2>5 DEF Begin
  <1>3. \A w \in Workers : cmd'.launch[w] = None
    BY <1>2, IdleFields DEF Begun
  <1>4. CommandOK'
    <2>1. CASE cmd' = Idle
      BY <2>1, OverOK
    <2>2. CASE cmd'.pc = "launch" /\ cmd'.name = "test"
                /\ launches + WorkerCount <= MaxLaunches
      <3>1. launches' + WorkerCount + 1 <= MaxLaunches + cmd'.at
        BY <1>2, <2>2, WorkerAssumption, BoundAssumption DEF Begun, hosts, TypeInv, TypeOK
      <3>2. cmd'.at \in Workers /\ \A w \in Workers : w < cmd'.at <=> FALSE
        BY <1>2, WorkerAssumption DEF Begun, Workers
      <3>3. \A w \in Workers : cmd'.launch[w] # None <=> w < cmd'.at
        BY <1>3, <3>2
      <3> QED BY <1>2, <1>3, <2>2, <3>1, <3>2, <3>3
              DEF Begun, CommandOK, AtOK, CommandInv, Supervising
    <2>3. CASE cmd'.pc = "stopPeers" /\ cmd'.name = "stop"
      BY <1>2, <1>3, <2>3 DEF Begun, CommandOK, AtOK, CommandInv, Supervising
    <2>4. CASE cmd'.pc \in {"collect", "merge"} /\ cmd'.name \in {"collect", "consolidate"}
      <3>1. cmd'.at \in Workers
        BY <1>2, WorkerAssumption DEF Begun, Workers
      <3> QED BY <1>2, <1>3, <2>4, <3>1 DEF Begun, CommandOK, AtOK, CommandInv, Supervising
    <2> QED BY <1>2, <2>1, <2>2, <2>3, <2>4 DEF Begun
  <1>5. commands' \in 0..MaxCommands
    BY <1>1, BoundAssumption DEF TypeInv, TypeOK
  <1>6. Evolve
    BY <1>1, UnmovedAll DEF hosts, TypeInv, TypeOK
  <1>7. proc' \in [Nonces -> Processes] /\ ProcessInv'
    BY <1>1, <1>6, ProcessesKept DEF hosts
  <1> QED BY <1>1, <1>2, <1>4, <1>5, <1>7
          DEF Begun, TypeInv, TypeOK, CommandOK, AtOK, results, hosts

\* Artifacts are pulled, checked and merged.
Gathered ==
    /\ cmd.pc \in {"collect", "download", "merge"} /\ UNCHANGED <<commands, hosts>>
    /\ \/ cmd' = Idle
       \/ /\ cmd'.pc \in {"collect", "download", "merge"} /\ cmd'.name = cmd.name
          /\ cmd'.launch = cmd.launch /\ cmd'.own = cmd.own
    /\ cmd'.pc = "download" =>
          /\ cmd'.at = cmd.at /\ cmd'.manifest = files[cmd.at].manifest
          /\ cmd.at \in Workers
    /\ \/ raw' = raw
       \/ /\ cmd.pc = "download" /\ cmd.at \in Workers
          /\ raw' = [raw EXCEPT ![cmd.at] = cmd.manifest.hash]
    /\ \/ aggregate' = aggregate
       \/ aggregate' = raw /\ raw' = raw /\ \A w \in Workers : Mergeable(raw[w])

\* What is left to check of a step of collect or consolidate.
LEMMA GatheredOK ==
  ASSUME TypeInv, CommandOK', UNCHANGED <<commands, recorded, hosts>>, state' \in States,
         raw' \in [Workers -> Payloads], aggregate' \in [Workers -> Payloads],
         collected' \in BOOLEAN, tested' = tested
  PROVE  TypeInv'
  <1>1. Evolve
    BY UnmovedAll DEF hosts, TypeInv, TypeOK
  <1>2. proc' \in [Nonces -> Processes] /\ ProcessInv'
    BY <1>1, ProcessesKept DEF hosts
  <1> QED BY <1>2 DEF TypeInv, TypeOK, CommandOK, AtOK, hosts

\* collect reads the manifest of the instance it is at.
LEMMA ReadManifestOK ==
  ASSUME TypeInv, ReadManifest
  PROVE  TypeInv' /\ Gathered
  <1> DEFINE m == files[cmd.at].manifest
  <1>1. cmd.pc = "collect" /\ cmd.at \in Workers /\ cmd \in Commands
        /\ UNCHANGED <<state, recorded, commands, results, hosts>>
    BY DEF ReadManifest, TypeInv, TypeOK
  <1>2. m \in Manifests
    BY <1>1 DEF TypeInv, TypeOK, Directory
  <1>3. CommandOK' /\ Gathered
    <2>1. CASE m.by = None
      <3>1. cmd' = Idle
        BY <2>1 DEF ReadManifest
      <3>2. cmd'.pc # "download"
        BY <3>1, IdleFields
      <3> QED BY <1>1, <3>1, <3>2, OverOK DEF Gathered, results
    <2>2. CASE m.by # None
      <3>1. cmd' = [cmd EXCEPT !.pc = "download", !.manifest = m]
        BY <2>2 DEF ReadManifest
      <3> HIDE DEF m
      <3>2. cmd' \in Commands /\ cmd'.pc = "download" /\ cmd'.manifest = m
            /\ cmd'.at = cmd.at /\ cmd'.own = cmd.own /\ cmd'.launch = cmd.launch
            /\ cmd'.name = cmd.name
        BY <1>1, <1>2, <3>1 DEF Commands
      <3>3. cmd.name # "test"
        BY <1>1 DEF TypeInv, CommandInv
      <3> QED BY <1>1, <2>2, <3>2, <3>3
              DEF Gathered, CommandOK, AtOK, CommandInv, Supervising, results, m, TypeInv
    <2> QED BY <2>1, <2>2
  <1> QED BY <1>1, <1>3, GatheredOK DEF results, TypeInv, TypeOK

\* collect downloads an instance, and then the next, or is over.
LEMMA CollectInstanceOK ==
  ASSUME TypeInv, CollectInstance
  PROVE  TypeInv' /\ Gathered
  <1>1. cmd.pc = "download" /\ cmd.at \in Workers /\ cmd \in Commands
        /\ UNCHANGED <<state, recorded, commands, aggregate, tested, hosts>>
    BY DEF CollectInstance, TypeInv, TypeOK
  <1>2. cmd.manifest.hash \in Payloads /\ raw \in [Workers -> Payloads]
    BY <1>1 DEF TypeInv, TypeOK, Commands, Manifests
  <1>3. \/ UNCHANGED <<raw, collected>>
        \/ raw' = [raw EXCEPT ![cmd.at] = cmd.manifest.hash]
    BY DEF CollectInstance
  <1>4. raw' \in [Workers -> Payloads]
    BY <1>1, <1>2, <1>3
  <1>5. collected' \in BOOLEAN
    BY Zenon DEF CollectInstance, TypeInv, TypeOK
  <1>6. \/ cmd' = Idle
        \/ /\ cmd' = [cmd EXCEPT !.pc = "collect", !.at = cmd.at + 1]
           /\ cmd.at # WorkerCount
        \/ cmd' = [cmd EXCEPT !.pc = "merge"]
    BY DEF CollectInstance
  <1>7. cmd.name # "test"
    BY <1>1 DEF TypeInv, CommandInv
  <1>8. CommandOK' /\ Gathered
    <2>1. CASE cmd' = Idle
      <3>1. cmd'.pc # "download"
        BY <2>1, IdleFields
      <3> QED BY <1>1, <1>3, <2>1, <3>1, OverOK DEF Gathered
    <2>2. CASE cmd' = [cmd EXCEPT !.pc = "collect", !.at = cmd.at + 1]
               /\ cmd.at # WorkerCount
      <3>1. PICK at : at = cmd.at + 1
        OBVIOUS
      <3>2. at \in Workers /\ at \in 1..WorkerCount + 1
        BY <1>1, <2>2, <3>1, WorkerAssumption DEF Workers
      <3>3. cmd' \in Commands /\ cmd'.pc = "collect" /\ cmd'.at = at
            /\ cmd'.own = cmd.own /\ cmd'.launch = cmd.launch /\ cmd'.name = cmd.name
        BY <1>1, <2>2, <3>1, <3>2 DEF Commands
      <3> QED BY <1>1, <1>3, <1>7, <3>2, <3>3
              DEF Gathered, CommandOK, AtOK, CommandInv, Supervising, TypeInv
    <2>3. CASE cmd' = [cmd EXCEPT !.pc = "merge"]
      <3>1. cmd' \in Commands /\ cmd'.pc = "merge"
            /\ cmd'.own = cmd.own /\ cmd'.launch = cmd.launch /\ cmd'.name = cmd.name
        BY <1>1, <2>3 DEF Commands
      <3> QED BY <1>1, <1>3, <1>7, <3>1
              DEF Gathered, CommandOK, AtOK, CommandInv, Supervising, TypeInv
    <2> QED BY <1>6, <2>1, <2>2, <2>3
  <1> QED BY <1>1, <1>4, <1>5, <1>8, GatheredOK DEF TypeInv, TypeOK

\* consolidate merges, or leaves the aggregate as it was.
LEMMA ConsolidateOK ==
  ASSUME TypeInv, Consolidate
  PROVE  TypeInv' /\ Gathered
  <1>1. cmd.pc = "merge" /\ cmd' = Idle /\ state' = "consolidating"
        /\ UNCHANGED <<recorded, commands, raw, collected, tested, hosts>>
    BY DEF Consolidate
  <1>2. \/ aggregate' = aggregate
        \/ aggregate' = raw /\ \A w \in Workers : Mergeable(raw[w])
    BY DEF Consolidate
  <1>3. cmd'.pc # "download"
    BY <1>1, IdleFields
  <1>4. Gathered
    BY <1>1, <1>2, <1>3 DEF Gathered
  <1> QED BY <1>1, <1>2, <1>4, OverOK, StatesNamed, GatheredOK DEF TypeInv, TypeOK

\* A step of a process leaves types and the command alone.
LEMMA ProcessOK ==
  ASSUME TypeInv, NEW n \in Nonces, Process(n)
  PROVE  TypeInv'
  <1>1. Evolve /\ files' \in [Workers -> Directory]
    BY ProcessShape, FilesTyped DEF TypeInv, TypeOK
  <1>2. UNCHANGED <<control, results, launches>>
    BY DEF Process
  <1>4. proc' \in [Nonces -> Processes] /\ ProcessInv'
    BY <1>1, <1>2, ProcessesKept
  <1>5. CommandInv'
    BY <1>2 DEF control, CommandInv, TypeInv
  <1> QED BY <1>1, <1>2, <1>4, <1>5 DEF TypeInv, TypeOK, control, results

\* Every step is of one of these kinds.
LEMMA Kinds ==
  ASSUME TypeInv, Next
  PROVE  /\ TypeInv'
         /\ \/ Launched(cmd.at, launches + 1)
            \/ Loaded(cmd.at, files[cmd.at].process)
            \/ Halted \/ Ended \/ Onward \/ Begun \/ Gathered
            \/ \E n \in Nonces : Process(n)
  <1>1. CASE LaunchRole
    BY <1>1, LaunchShape, LaunchOK
  <1>2. CASE LoadProcessMetadata
    BY <1>2, LoadProcessMetadataOK
  <1>3. CASE MetadataFails
    BY <1>3, MetadataFailsOK
  <1>4. CASE LaunchRefused \/ ArmingFails \/ Interrupt \/ WaitTimesOut
    BY <1>4, QuietFailsOK
  <1>5. CASE StopPeers
    BY <1>5, StopPeersOK
  <1>6. CASE TestCompletes
    BY <1>6, TestCompletesOK
  <1>7. CASE KillPeers
    BY <1>7, KillPeersOK
  <1>8. CASE ReapLaunched
    BY <1>8, ReapLaunchedOK
  <1>9. CASE ReapKill
    BY <1>9, ReapKillOK
  <1>10. CASE Crash
    BY <1>10, CrashOK
  <1>11. CASE Arming
    BY <1>11, ArmingOK
  <1>12. CASE MeasurementStarts
    BY <1>12, MeasurementStartsOK
  <1>13. CASE Deadline
    BY <1>13, DeadlineOK
  <1>14. CASE \E w \in Workers : LookForManifest(w)
    BY <1>14, LookForManifestOK
  <1>15. CASE LookWhetherAlive
    BY <1>15, LookWhetherAliveOK
  <1>16. CASE Begin
    BY <1>16, BeginOK
  <1>17. CASE ReadManifest
    BY <1>17, ReadManifestOK
  <1>18. CASE CollectInstance
    BY <1>18, CollectInstanceOK
  <1>19. CASE Consolidate
    BY <1>19, ConsolidateOK
  <1>20. CASE \E n \in Nonces : Process(n)
    BY <1>20, ProcessOK
  <1> QED BY <1>1, <1>2, <1>3, <1>4, <1>5, <1>6, <1>7, <1>8, <1>9, <1>10, <1>11, <1>12,
             <1>13, <1>14, <1>15, <1>16, <1>17, <1>18, <1>19, <1>20 DEF Next, Command

\* The initial state.
LEMMA InitOK ==
  ASSUME Init
  PROVE  TypeInv
  <1>1. state \in States
    BY StatesNamed DEF Init
  <1>2. CommandInv /\ cmd \in Commands /\ AtOK
    BY IdleFields DEF Init, CommandInv, AtOK, Supervising
  <1>3. ProcessInv
    <2>1. \A n \in Nonces : proc[n] = NoProc /\ launches = 0
      BY DEF Init
    <2>2. \A n \in Nonces : ~(n <= 0)
      BY DEF Nonces
    <2> QED BY <2>1, <2>2, BlankProcess DEF ProcessInv, Born
  <1>4. launches \in 0..MaxLaunches /\ commands \in 0..MaxCommands
    BY BoundAssumption DEF Init
  <1>5. recorded \in Records
    BY DEF Init, Records, Entries
  <1> QED BY <1>1, <1>2, <1>3, <1>4, <1>5, Blank, BlankProcess
          DEF Init, TypeInv, TypeOK, AtOK, Records

\* Every variable has the shape the code gives it, whatever fails or crashes.
THEOREM TypeCorrect == Spec => []TypeOK
  <1>1. Init => TypeInv
    BY InitOK
  <1>2. TypeInv /\ [Next]_vars => TypeInv'
    <2>1. ASSUME TypeInv, UNCHANGED vars PROVE TypeInv'
      BY <2>1 DEF vars, control, results, hosts, TypeInv, TypeOK, CommandInv,
                  ProcessInv, Born
    <2> QED BY <2>1, Kinds
  <1>3. TypeInv => TypeOK
    BY DEF TypeInv
  <1> QED BY <1>1, <1>2, <1>3, PTL DEF Spec
-----------------------------------------------------------------------------
(* Whose processes a command keeps track of.                               *)

OwnersInv == LaunchInv /\ MetaInv

\* What a command has on its lists are nonces of launches.
LEMMA OwnTyped ==
  ASSUME TypeInv, NEW w \in Workers
  PROVE  /\ cmd.own[w] # None => cmd.own[w] \in Nonces
         /\ cmd.launch[w] # None => cmd.launch[w] \in Nonces
  BY DEF TypeInv, TypeOK, Commands

\* A process stays alive, starting or tracked, or ceases to be; it never begins.
LEMMA EvolveFacts ==
  ASSUME TypeInv, Evolve, NEW n \in Nonces
  PROVE  /\ proc'[n].worker = proc[n].worker /\ proc'[n].fresh = proc[n].fresh
         /\ Born(n)' <=> Born(n)
         /\ At(n, "starting")' => At(n, "starting")
         /\ Alive(n)' => Alive(n)
         /\ proc'[n].tracked => proc[n].tracked
  BY BlankProcess
     DEF Evolve, Evolves, TypeInv, TypeOK, ProcessInv, Born, At, Alive, Processes

\* The lists of the command stay right while its processes evolve.
LEMMA LaunchEvolves ==
  ASSUME TypeInv, LaunchInv, Evolve, cmd'.launch = cmd.launch, cmd'.own = cmd.own
  PROVE  LaunchInv'
  <1> SUFFICES ASSUME NEW w \in Workers, cmd.launch[w] # None
               PROVE  (/\ Born(cmd.launch[w]) /\ proc[cmd.launch[w]].worker = w
                       /\ proc[cmd.launch[w]].fresh => cmd.own[w] = cmd.launch[w])'
    BY DEF LaunchInv
  <1>1. cmd.launch[w] \in Nonces
    BY OwnTyped
  <1>2. Born(cmd.launch[w]) /\ proc[cmd.launch[w]].worker = w
        /\ (proc[cmd.launch[w]].fresh => cmd.own[w] = cmd.launch[w])
    BY DEF LaunchInv
  <1>3. proc'[cmd.launch[w]].worker = w /\ Born(cmd.launch[w])'
        /\ proc'[cmd.launch[w]].fresh = proc[cmd.launch[w]].fresh
    BY <1>1, <1>2, EvolveFacts DEF Born
  <1> QED BY <1>2, <1>3 DEF Born

\* Every step keeps the lists of the command right: a launch adds to them, and
\* process.json only ever confirms a fresh one.
LEMMA OwnersStep ==
  ASSUME TypeInv, OwnersInv, Next
  PROVE  OwnersInv'
  <1>1. TypeInv' /\ LaunchInv /\ MetaInv
    BY Kinds DEF OwnersInv
  <1>2. CASE Launched(cmd.at, launches + 1)
    <2> DEFINE w == cmd.at
    <2> DEFINE n == launches + 1
    <2>1. Launched(w, n)
      BY <1>2
    <2> HIDE DEF w, n
    <2>2. n \in Nonces /\ n # None /\ ~Born(n) /\ w \in Workers
      BY <2>1 DEF Launched, Nonces, None
    <2>3. cmd.own \in [Workers -> {None} \cup Nonces]
          /\ cmd.launch \in [Workers -> {None} \cup Nonces]
      BY DEF TypeInv, TypeOK, Commands
    <2>4. LaunchInv'
      <3> SUFFICES ASSUME NEW v \in Workers, cmd'.launch[v] # None
                   PROVE  (/\ Born(cmd.launch[v]) /\ proc[cmd.launch[v]].worker = v
                           /\ proc[cmd.launch[v]].fresh => cmd.own[v] = cmd.launch[v])'
        BY DEF LaunchInv
      <3>1. CASE v = w /\ cmd'.pc = "meta"
        <4>1. cmd'.launch[v] = n /\ cmd'.own[v] = n
          BY <2>1, <2>2, <2>3, <3>1 DEF Launched
        <4> QED BY <2>1, <3>1, <4>1 DEF Launched, Born
      <3>2. CASE ~(v = w /\ cmd'.pc = "meta")
        <4>1. cmd'.launch[v] = cmd.launch[v] /\ cmd'.own[v] = cmd.own[v]
          BY <2>1, <2>2, <2>3, <3>2 DEF Launched
        <4>2. cmd.launch[v] \in Nonces
          BY <4>1, OwnTyped
        <4>3. Born(cmd.launch[v]) /\ proc[cmd.launch[v]].worker = v
              /\ (proc[cmd.launch[v]].fresh => cmd.own[v] = cmd.launch[v])
          BY <1>1, <4>1 DEF LaunchInv
        <4>4. proc'[cmd.launch[v]] = proc[cmd.launch[v]]
          BY <2>1, <2>2, <4>2, <4>3 DEF Launched
        <4> QED BY <4>1, <4>3, <4>4 DEF Born
      <3> QED BY <3>1, <3>2
    <2>5. MetaInv'
      <3>1. CASE cmd'.pc = "stopPeers"
        BY <3>1 DEF MetaInv
      <3>2. CASE cmd'.pc = "meta" /\ ~proc'[n].fresh
        <4>1. cmd'.launch[w] = n /\ cmd'.at = w
          BY <2>1, <2>2, <2>3, <3>2 DEF Launched
        <4> QED BY <3>2, <4>1 DEF MetaInv
      <3>3. CASE cmd'.pc = "meta" /\ proc'[n].fresh
        <4>1. cmd'.launch[w] = n /\ cmd'.at = w
          BY <2>1, <2>2, <2>3, <3>3 DEF Launched
        <4>2. files'[w].process = None
          BY <2>1, <3>3 DEF Launched
        <4>3. ASSUME NEW m \in Nonces, At(m, "starting")', proc'[m].worker = w, m # n
              PROVE  FALSE
          BY <2>1, <3>3, <4>3 DEF Launched, At
        <4> QED BY <4>1, <4>2, <4>3 DEF MetaInv
      <3> QED BY <2>1, <3>1, <3>2, <3>3 DEF Launched
    <2> QED BY <2>4, <2>5 DEF OwnersInv
  <1>3. CASE Loaded(cmd.at, files[cmd.at].process)
    <2> DEFINE w == cmd.at
    <2> DEFINE n == files[w].process
    <2>1. Loaded(w, n)
      BY <1>3
    <2> HIDE DEF n
    <2>2. n \in Nonces /\ n # None /\ w \in Workers /\ UNCHANGED proc
          /\ n = files[w].process /\ cmd.pc = "meta"
      BY <2>1 DEF Loaded, Nonces, None, hosts
    <2>3. cmd.own \in [Workers -> {None} \cup Nonces] /\ cmd'.launch = cmd.launch
          /\ cmd'.own = [cmd.own EXCEPT ![w] = n]
      BY <2>1 DEF Loaded, TypeInv, TypeOK, Commands
    <2>4. LaunchInv'
      <3> SUFFICES ASSUME NEW v \in Workers, cmd.launch[v] # None
                   PROVE  /\ Born(cmd.launch[v]) /\ proc[cmd.launch[v]].worker = v
                          /\ proc[cmd.launch[v]].fresh => cmd'.own[v] = cmd.launch[v]
        BY <2>2, <2>3 DEF LaunchInv, Born
      <3>1. Born(cmd.launch[v]) /\ proc[cmd.launch[v]].worker = v
            /\ (proc[cmd.launch[v]].fresh => cmd.own[v] = cmd.launch[v])
        BY <1>1 DEF LaunchInv
      <3>2. CASE v # w
        BY <2>3, <3>1, <3>2
      <3>3. CASE v = w
        <4>1. proc[cmd.launch[v]].fresh => n = cmd.launch[v]
          BY <1>1, <2>2, <3>3 DEF MetaInv
        <4> QED BY <2>2, <2>3, <3>1, <3>3, <4>1
      <3> QED BY <3>2, <3>3
    <2>5. MetaInv'
      BY <2>1 DEF MetaInv, Loaded
    <2> QED BY <2>4, <2>5 DEF OwnersInv
  <1>4. CASE Halted
    BY <1>1, <1>4, LaunchEvolves DEF Halted, OwnersInv, MetaInv
  <1>5. CASE cmd' = Idle
    BY <1>5, IdleFields DEF OwnersInv, LaunchInv, MetaInv
  <1>6. CASE Onward
    <2>1. Evolve
      BY <1>6, UnmovedAll DEF Onward, hosts, TypeInv, TypeOK
    <2> QED BY <1>1, <1>6, <2>1, LaunchEvolves DEF Onward, Waiting, OwnersInv, MetaInv
  <1>7. CASE Begun
    <2>1. cmd'.pc # "meta" /\ \A w \in Workers : cmd'.launch[w] = None
      BY <1>7, IdleFields DEF Begun
    <2> QED BY <2>1 DEF OwnersInv, LaunchInv, MetaInv
  <1>8. CASE Gathered /\ cmd' # Idle
    <2>1. Evolve
      BY <1>8, UnmovedAll DEF Gathered, hosts, TypeInv, TypeOK
    <2> QED BY <1>1, <1>8, <2>1, LaunchEvolves DEF Gathered, OwnersInv, MetaInv
  <1>9. ASSUME NEW n \in Nonces, Process(n) PROVE OwnersInv'
    <2>1. Evolve /\ UNCHANGED control
      BY <1>9, ProcessShape DEF Process, TypeInv, TypeOK
    <2>2. LaunchInv'
      BY <1>1, <2>1, LaunchEvolves DEF control
    <2>3. MetaInv'
      <3> DEFINE w == cmd.at
      <3> DEFINE k == cmd.launch[w]
      <3> SUFFICES ASSUME cmd.pc = "meta", proc'[k].fresh
                   PROVE  /\ files'[w].process \in {None, k}
                          /\ \A m \in Nonces : At(m, "starting")' /\ proc'[m].worker = w => m = k
        BY <2>1 DEF MetaInv, control
      <3>1. w \in Workers
        BY DEF TypeInv, TypeOK
      <3>2. k # None /\ k \in Nonces
        BY <3>1, OwnTyped, WorkerAssumption DEF TypeInv, CommandInv, Workers
      <3>3. proc[k].fresh
        BY <2>1, <3>2, EvolveFacts
      <3>4. /\ files[w].process \in {None, k}
            /\ \A m \in Nonces : At(m, "starting") /\ proc[m].worker = w => m = k
        BY <1>1, <3>3 DEF MetaInv
      <3>5. \A m \in Nonces : At(m, "starting")' /\ proc'[m].worker = w => m = k
        BY <2>1, <3>4, EvolveFacts
      <3>6. CASE proc[n].worker # w
        BY <1>9, <3>1, <3>4, <3>5, <3>6, FilesTyped
      <3>7. CASE proc[n].worker = w
        <4>1. Written(n, files'[w])
          BY <1>9, <3>7, FilesTyped
        <4>2. \/ files'[w].process = files[w].process
              \/ files'[w].process = n /\ At(n, "starting")
          BY <3>7, <4>1 DEF Written
        <4> QED BY <3>4, <3>5, <3>7, <4>2
      <3> QED BY <3>6, <3>7
    <2> QED BY <2>2, <2>3 DEF OwnersInv
  <1> QED BY <1>2, <1>3, <1>4, <1>5, <1>6, <1>7, <1>8, <1>9, Kinds DEF Ended

-----------------------------------------------------------------------------
(* No strays.                                                              *)

\* Every step leaves what is tracked on the list of the command, and a command
\* that ends has killed, or lost track of, everything on its list.
LEMMA TrackStep ==
  ASSUME TypeInv, TrackInv, Next
  PROVE  TrackInv'
  <1> SUFFICES ASSUME ~LeaveProcesses, NEW n \in Nonces, Alive(n)', proc'[n].tracked
               PROVE  cmd'.name = "test" /\ Held(n)'
    BY DEF TrackInv
  <1>1. Alive(n) /\ proc[n].tracked => cmd.name = "test" /\ Held(n)
    BY DEF TrackInv
  <1>2. ASSUME Evolve PROVE cmd.name = "test" /\ Held(n)
    BY <1>1, <1>2, EvolveFacts
  <1>3. ASSUME Evolve, cmd'.name = cmd.name, cmd'.launch = cmd.launch
        PROVE  cmd'.name = "test" /\ Held(n)'
    BY <1>2, <1>3 DEF Held
  <1>4. CASE Launched(cmd.at, launches + 1)
    <2> DEFINE w == cmd.at
    <2> DEFINE k == launches + 1
    <2>1. Launched(w, k)
      BY <1>4
    <2> HIDE DEF w, k
    <2>2. cmd.launch \in [Workers -> {None} \cup Nonces] /\ cmd.name = "test"
      BY <2>1 DEF TypeInv, TypeOK, CommandInv, Commands, Launched, Supervising
    <2>3. CASE n = k
      <3>1. cmd'.launch = [cmd.launch EXCEPT ![w] = n] /\ w \in Workers
        BY <2>1, <2>3 DEF Launched
      <3>2. cmd'.launch[w] = n
        BY <2>2, <3>1
      <3> QED BY <2>1, <2>2, <3>1, <3>2 DEF Held, Launched
    <2>4. CASE n # k
      <3>1. proc'[n] = proc[n]
        BY <2>1, <2>4 DEF Launched
      <3>2. PICK v \in Workers : n = cmd.launch[v]
        BY <1>1, <3>1 DEF Alive, Held
      <3>3. n # None
        BY DEF Nonces, None
      <3>4. cmd'.launch[v] = n
        BY <2>1, <2>2, <3>2, <3>3 DEF Launched
      <3> QED BY <2>1, <2>2, <3>4 DEF Held, Launched
    <2> QED BY <2>3, <2>4
  <1>5. CASE Loaded(cmd.at, files[cmd.at].process)
    <2>1. cmd'.launch = cmd.launch /\ cmd'.name = cmd.name
      BY <1>5 DEF Loaded
    <2>2. Evolve
      BY <1>5, UnmovedAll DEF Loaded, hosts, TypeInv, TypeOK
    <2> QED BY <1>3, <2>1, <2>2
  <1>6. CASE Halted
    BY <1>3, <1>6 DEF Halted
  <1>7. CASE Ended
    BY <1>2, <1>7 DEF Ended
  <1>8. CASE Onward
    <2>1. Evolve
      BY <1>8, UnmovedAll DEF Onward, hosts, TypeInv, TypeOK
    <2> QED BY <1>3, <1>8, <2>1 DEF Onward
  <1>9. CASE Begun \/ Gathered
    <2>1. Evolve
      BY <1>9, UnmovedAll DEF Begun, Gathered, hosts, TypeInv, TypeOK
    <2>2. cmd.name # "test"
      BY <1>9, IdleFields DEF Begun, Gathered, TypeInv, CommandInv
    <2> QED BY <1>2, <2>1, <2>2
  <1>10. ASSUME NEW m \in Nonces, Process(m) PROVE cmd'.name = "test" /\ Held(n)'
    <2>1. Evolve /\ UNCHANGED control
      BY <1>10, ProcessShape DEF Process, TypeInv, TypeOK
    <2> QED BY <1>3, <2>1 DEF control
  <1> QED BY <1>4, <1>5, <1>6, <1>7, <1>8, <1>9, <1>10, Kinds
-----------------------------------------------------------------------------
(* What lies in the directories.                                           *)

\* A result, once written, is the last word of its process.
Keeps ==
    \A n \in Nonces :
       /\ Closed(n) => Closed(n)'
       /\ Resulted(n) => /\ Resulted(n)'
                         /\ proc'[n].worker = proc[n].worker
                         /\ proc'[n].exit = proc[n].exit

\* No change of a process takes back its result.
LEMMA EvolveKeeps ==
  ASSUME Evolve
  PROVE  Keeps
  BY DEF Evolve, Evolves, Keeps, Closed, Resulted

\* Nor does any step.
LEMMA StepKeeps ==
  ASSUME TypeInv, Next
  PROVE  Keeps
  <1>1. CASE Launched(cmd.at, launches + 1)
    <2>1. PICK k \in Nonces : /\ ~Born(k) /\ proc'[k].pc = "starting"
                              /\ \A n \in Nonces \ {k} : proc'[n] = proc[n]
      BY <1>1 DEF Launched
    <2> QED BY <2>1 DEF Keeps, Closed, Resulted, Born
  <1>2. CASE UNCHANGED proc
    BY <1>2, UnmovedAll, EvolveKeeps DEF TypeInv, TypeOK
  <1>3. CASE \E n \in Nonces : Process(n)
    BY <1>3, ProcessShape, EvolveKeeps DEF TypeInv, TypeOK
  <1> QED BY <1>1, <1>2, <1>3, Kinds, EvolveKeeps
          DEF Loaded, Halted, Ended, Onward, Begun, Gathered, hosts

\* Payloads stay attributable.
LEMMA PayloadsKept ==
  ASSUME Keeps, NEW b, b.result \in {None} \cup Nonces, NEW w, PayloadsOK(b, w)
  PROVE  PayloadsOK(b, w)'
  BY DEF PayloadsOK, Keeps

\* What a manifest says stays true of the processes behind it.
LEMMA ManifestKept ==
  ASSUME Keeps, NEW m \in Manifests, NEW w, ManifestOK(m, w)
  PROVE  ManifestOK(m, w)'
  <1>1. m.by \in {None} \cup Nonces /\ m.hash \in Payloads
    BY DEF Manifests
  <1>2. m.hash.result \in {None} \cup Nonces
    BY <1>1 DEF Payloads
  <1>3. PICK h : h = m.hash
    OBVIOUS
  <1>4. PayloadsOK(h, w)'
    BY <1>2, <1>3, PayloadsKept DEF ManifestOK
  <1>5. m.by # None => Closed(m.by)'
    BY <1>1 DEF ManifestOK, Keeps
  <1> QED BY <1>3, <1>4, <1>5 DEF ManifestOK

DirectoryOK(d, w) == PayloadsOK(d, w) /\ ManifestOK(d.manifest, w)

\* A directory nobody writes to.
LEMMA DirectoryKept ==
  ASSUME Keeps, NEW d \in Directory, NEW w, DirectoryOK(d, w)
  PROVE  DirectoryOK(d, w)'
  <1>1. d.manifest \in Manifests /\ d.result \in {None} \cup Nonces
    BY DEF Directory
  <1>2. PICK m \in Manifests : m = d.manifest
    BY <1>1
  <1>3. ManifestOK(m, w)'
    BY <1>2, ManifestKept DEF DirectoryOK
  <1>4. PayloadsOK(d, w)'
    BY <1>1, PayloadsKept DEF DirectoryOK
  <1> QED BY <1>2, <1>3, <1>4 DEF DirectoryOK

\* A directory that was cleared, as far as could be.
LEMMA DirectoryCleared ==
  ASSUME NEW d \in Directory, NEW f \in Leftover(d), NEW w, DirectoryOK(d, w)
  PROVE  DirectoryOK(f, w)
  <1>1. f.result \in {None, d.result} /\ f.manifest \in {NoManifest, d.manifest}
    BY DEF Leftover
  <1>2. PayloadsOK(f, w)
    BY <1>1 DEF DirectoryOK, PayloadsOK
  <1>3. ManifestOK(NoManifest, w)
    BY Blank DEF ManifestOK, PayloadsOK
  <1> QED BY <1>1, <1>2, <1>3 DEF DirectoryOK

\* The directory its process has just written to.
LEMMA DirectoryWritten ==
  ASSUME TypeInv, Keeps, Evolve, NEW n \in Nonces, NEW d, Written(n, d),
         NEW w \in Workers, proc[n].worker = w, DirectoryOK(files[w], w)
  PROVE  DirectoryOK(d, w)'
  <1>0. PICK f : f = files[w]
    OBVIOUS
  <1>1. f \in Directory /\ d \in Directory /\ DirectoryOK(f, w)
    BY <1>0 DEF Written, TypeInv, TypeOK
  <1>2. DirectoryOK(f, w)'
    BY <1>1, DirectoryKept
  <1>3. proc'[n].worker = w
    BY EvolveFacts
  <1>4. PayloadsOK(d, w)'
    <2>1. CASE d.result = f.result
      BY <1>2, <2>1 DEF DirectoryOK, PayloadsOK
    <2>2. CASE d.result = n /\ At(n, "ended") /\ proc'[n].pc = "resulted"
      BY <1>3, <2>2 DEF PayloadsOK, Resulted
    <2> QED BY <1>0, <2>1, <2>2 DEF Written
  <1>5. ManifestOK(d.manifest, w)'
    <2>1. CASE d.manifest = f.manifest
      BY <1>2, <2>1 DEF DirectoryOK
    <2>2. CASE /\ At(n, "resulted") /\ proc'[n].pc = "exiting"
               /\ d.manifest.by = n /\ d.manifest.hash.result = f.result
      <3>1. Closed(n)'
        BY <2>2 DEF Closed
      <3>2. f.result # None => proc'[f.result].worker = w /\ Resulted(f.result)'
        BY <1>2 DEF DirectoryOK, PayloadsOK
      <3> QED BY <2>2, <3>1, <3>2 DEF ManifestOK, PayloadsOK
    <2> QED BY <1>0, <2>1, <2>2 DEF Written
  <1> QED BY <1>4, <1>5 DEF DirectoryOK

\* Every step keeps directories, collected and merged artifacts attributable.
LEMMA FilesStep ==
  ASSUME TypeInv, FilesInv, Next
  PROVE  FilesInv'
  <1>1. Keeps
    BY StepKeeps
  <1>2. \A w \in Workers : DirectoryOK(files[w], w)
    BY DEF FilesInv, DirectoryOK
  <1>3. ASSUME NEW w \in Workers
        PROVE  (DirectoryOK(files[w], w))' /\ PayloadsOK(raw[w], w)' /\ PayloadsOK(aggregate[w], w)'
    <2>1. files[w] \in Directory /\ raw[w] \in Payloads /\ aggregate[w] \in Payloads
          /\ cmd.manifest.hash \in Payloads
      BY DEF TypeInv, TypeOK, Commands, Manifests
    <2>2. ASSUME NEW d \in Directory, d = files'[w], DirectoryOK(d, w)
          PROVE  (DirectoryOK(files[w], w))'
      <3>1. DirectoryOK(d, w)'
        BY <1>1, <2>2, DirectoryKept
      <3> QED BY <2>2, <3>1 DEF DirectoryOK
    <2>3. ASSUME NEW b \in Payloads, PayloadsOK(b, w) PROVE PayloadsOK(b, w)'
      BY <1>1, <2>3, PayloadsKept DEF Payloads
    <2>4. (DirectoryOK(files[w], w))'
      <3>1. CASE Launched(cmd.at, launches + 1) /\ w = cmd.at
        <4>1. PICK d \in Directory : d = files'[w] /\ d \in Leftover(files[w])
          BY <3>1 DEF Launched
        <4>2. DirectoryOK(d, w)
          BY <1>2, <2>1, <4>1, DirectoryCleared
        <4> QED BY <2>2, <4>1, <4>2
      <3>2. CASE UNCHANGED files[w]
        BY <1>2, <2>1, <2>2, <3>2
      <3>3. ASSUME NEW n \in Nonces, Process(n)
            PROVE  (DirectoryOK(files[w], w))'
        <4>1. CASE w # proc[n].worker
          BY <3>2, <3>3, <4>1, FilesTyped
        <4>2. CASE w = proc[n].worker
          <5>1. PICK d : d = files'[w]
            OBVIOUS
          <5>2. Written(n, d) /\ Evolve
            BY <3>3, <4>2, <5>1, FilesTyped, ProcessShape DEF TypeInv, TypeOK
          <5>3. DirectoryOK(d, w)'
            BY <1>1, <1>2, <4>2, <5>2, DirectoryWritten
          <5> QED BY <5>1, <5>3 DEF DirectoryOK
        <4> QED BY <4>1, <4>2
      <3> QED BY <3>1, <3>2, <3>3, Kinds
              DEF Launched, Loaded, Halted, Ended, Onward, Begun, Gathered, hosts
    <2>5. \/ UNCHANGED raw[w]
          \/ cmd.pc = "download" /\ w = cmd.at /\ raw'[w] = cmd.manifest.hash
      BY Kinds DEF Launched, Loaded, Halted, Ended, Onward, Begun, Gathered, Process,
                   results, artifacts, TypeInv, TypeOK
    <2>6. PayloadsOK(raw[w], w) /\ PayloadsOK(aggregate[w], w)
          /\ (cmd.pc = "download" => PayloadsOK(cmd.manifest.hash, cmd.at))
      BY DEF FilesInv, ManifestOK
    <2>7. PayloadsOK(raw[w], w)'
      <3>1. PICK b \in Payloads : b = raw'[w] /\ PayloadsOK(b, w)
        BY <2>1, <2>5, <2>6
      <3>2. PayloadsOK(b, w)'
        BY <2>3, <3>1
      <3> QED BY <3>1, <3>2 DEF PayloadsOK
    <2>8. UNCHANGED aggregate[w] \/ aggregate'[w] = raw[w]
      BY Kinds DEF Launched, Loaded, Halted, Ended, Onward, Begun, Gathered, Process,
                   results, artifacts
    <2>9. PayloadsOK(aggregate[w], w)'
      <3>1. PICK b \in Payloads : b = aggregate'[w] /\ PayloadsOK(b, w)
        BY <2>1, <2>6, <2>8
      <3>2. PayloadsOK(b, w)'
        BY <2>3, <3>1
      <3> QED BY <3>1, <3>2 DEF PayloadsOK
    <2> QED BY <2>4, <2>7, <2>9
  <1>4. ASSUME cmd'.pc = "download"
        PROVE  ManifestOK(cmd.manifest, cmd.at)'
    <2>1. CASE Gathered
      <3>1. PICK m, w : /\ m = cmd'.manifest /\ w = cmd'.at /\ w \in Workers
                        /\ m = files[w].manifest
        BY <1>4, <2>1 DEF Gathered
      <3>2. m \in Manifests /\ ManifestOK(m, w)
        BY <3>1 DEF FilesInv, TypeInv, TypeOK, Directory
      <3>3. ManifestOK(m, w)'
        BY <1>1, <3>2, ManifestKept
      <3> QED BY <3>1, <3>3 DEF ManifestOK
    <2>2. CASE \E n \in Nonces : Process(n)
      <3>1. UNCHANGED cmd
        BY <2>2 DEF Process, control
      <3>2. PICK m, w : m = cmd.manifest /\ w = cmd.at
        OBVIOUS
      <3>3. m \in Manifests /\ ManifestOK(m, w)
        BY <1>4, <3>1, <3>2 DEF FilesInv, TypeInv, TypeOK, Commands
      <3>4. ManifestOK(m, w)'
        BY <1>1, <3>3, ManifestKept
      <3> QED BY <3>1, <3>2, <3>4 DEF ManifestOK
    <2>3. CASE cmd' = Idle
      BY <1>4, <2>3, IdleFields
    <2> QED BY <1>4, <2>1, <2>2, <2>3, Kinds
            DEF Launched, Loaded, Halted, Ended, Onward, Waiting, Begun
  <1> QED BY <1>3, <1>4 DEF FilesInv, DirectoryOK

\* What passed the checks of consolidate would pass them again.
LEMMA MergedStep ==
  ASSUME TypeInv, FilesInv, MergedInv, Next
  PROVE  MergedInv'
  <1>1. Keeps
    BY StepKeeps
  <1> SUFFICES ASSUME NEW w \in Workers, aggregate'[w] # NoPayloads
               PROVE  Mergeable(aggregate[w])'
    BY DEF MergedInv
  <1>2. PICK b \in Payloads : b = aggregate'[w] /\ PayloadsOK(b, w) /\ Mergeable(b)
    <2>1. aggregate'[w] = aggregate[w] \/ (aggregate'[w] = raw[w] /\ Mergeable(raw[w]))
      BY Kinds DEF Launched, Loaded, Halted, Ended, Onward, Begun, Gathered, Process,
                   results, artifacts
    <2>2. aggregate[w] \in Payloads /\ raw[w] \in Payloads
      BY DEF TypeInv, TypeOK
    <2> QED BY <2>1, <2>2 DEF FilesInv, MergedInv
  <1>3. b.result \in Nonces /\ Resulted(b.result)
    BY <1>2 DEF PayloadsOK, Mergeable, Payloads
  <1>4. proc'[b.result].exit = proc[b.result].exit
    BY <1>1, <1>3 DEF Keeps
  <1>5. b.result # None /\ NonceConsistent(b) /\ proc'[b.result].exit = 0
    BY <1>2, <1>4 DEF Mergeable
  <1>6. aggregate'[w].result # None /\ (NonceConsistent(aggregate[w]))'
        /\ proc'[aggregate'[w].result].exit = 0
    BY <1>2, <1>5 DEF NonceConsistent
  <1> QED BY <1>6 DEF Mergeable
-----------------------------------------------------------------------------
(* The word of the workers.                                                *)

\* Every step keeps the word of the workers a test has stopped waiting for.
LEMMA WaitStep ==
  ASSUME TypeInv, FilesInv, WaitInv, Next
  PROVE  WaitInv'
  <1> SUFFICES ASSUME cmd'.pc \in {"wait", "alive"}, NEW w \in Workers \ cmd'.remaining
               PROVE  (Closed(cmd.own[w]) /\ proc[cmd.own[w]].exit = 0)'
    BY DEF WaitInv
  <1>1. Keeps
    BY StepKeeps
  <1>2. PICK n \in Nonces : n = cmd'.own[w] /\ Closed(n) /\ proc[n].exit = 0
    <2>1. CASE Onward
      <3>1. cmd'.own = cmd.own /\ cmd.own[w] # None /\ cmd'.remaining # Workers
            /\ cmd'.pc # "arm"
        BY <2>1 DEF Onward, Waiting, TypeInv, CommandInv
      <3>2. cmd.own[w] \in Nonces
        BY <3>1, OwnTyped
      <3>3. cmd.pc \in {"wait", "alive"}
            /\ \/ w \notin cmd.remaining
               \/ files[w].manifest.by = cmd.own[w] /\ proc[cmd.own[w]].exit = 0
        BY <2>1, <3>1 DEF Onward, Waiting
      <3>4. CASE w \notin cmd.remaining
        BY <3>1, <3>2, <3>3, <3>4 DEF WaitInv
      <3>5. CASE files[w].manifest.by = cmd.own[w] /\ proc[cmd.own[w]].exit = 0
        <4>1. Closed(cmd.own[w])
          BY <3>1, <3>5 DEF FilesInv, ManifestOK
        <4> QED BY <3>1, <3>2, <3>5, <4>1
      <3> QED BY <3>3, <3>4, <3>5
    <2>2. ASSUME NEW m \in Nonces, Process(m)
          PROVE  /\ cmd'.own[w] \in Nonces
                 /\ Closed(cmd'.own[w]) /\ proc[cmd'.own[w]].exit = 0
      <3>1. UNCHANGED cmd
        BY <2>2 DEF Process, control
      <3>2. cmd.own[w] # None
        BY <3>1 DEF TypeInv, CommandInv
      <3>3. cmd.own[w] \in Nonces
        BY <3>2, OwnTyped
      <3> QED BY <3>1, <3>3 DEF WaitInv
    <2>3. cmd' # Idle
      BY IdleFields
    <2> QED BY <2>1, <2>2, <2>3, Kinds
            DEF Launched, Loaded, Halted, Ended, Begun, Gathered
  <1>3. Resulted(n)
    BY <1>2 DEF Closed, Resulted
  <1>4. Closed(n)' /\ proc'[n].exit = 0
    BY <1>1, <1>2, <1>3 DEF Keeps
  <1> QED BY <1>2, <1>4 DEF Closed

-----------------------------------------------------------------------------
(* The theorems.                                                           *)

IInv == TypeInv /\ OwnersInv /\ TrackInv /\ FilesInv /\ MergedInv /\ WaitInv

\* The invariant holds of a new run.
LEMMA InitIInv ==
  ASSUME Init
  PROVE  IInv
  <1>1. TypeInv
    BY InitOK
  <1>2. \A n \in Nonces : proc[n] = NoProc
    BY DEF Init
  <1>3. cmd = Idle
    BY DEF Init
  <1>4. OwnersInv
    BY <1>3, IdleFields DEF OwnersInv, LaunchInv, MetaInv
  <1>5. TrackInv
    BY <1>2, BlankProcess DEF TrackInv, Alive
  <1>6. FilesInv /\ MergedInv
    BY <1>3, IdleFields, Blank DEF Init, FilesInv, MergedInv, PayloadsOK, ManifestOK
  <1>7. WaitInv
    BY <1>3, IdleFields DEF WaitInv
  <1> QED BY <1>1, <1>4, <1>5, <1>6, <1>7 DEF IInv

\* Every step, and stuttering, keeps the invariant.
LEMMA StepIInv ==
  ASSUME IInv, [Next]_vars
  PROVE  IInv'
  <1>1. CASE Next
    BY <1>1, Kinds, OwnersStep, TrackStep, FilesStep, MergedStep, WaitStep DEF IInv
  <1>2. CASE UNCHANGED vars
    <2> USE <1>2 DEF vars, control, results, hosts
    <2>1. TypeInv'
      BY DEF IInv, TypeInv, TypeOK, CommandInv, ProcessInv, Born
    <2>2. OwnersInv' /\ TrackInv'
      BY DEF IInv, OwnersInv, LaunchInv, MetaInv, TrackInv, Held, Born, At, Alive
    <2>3. FilesInv' /\ MergedInv'
      BY DEF IInv, FilesInv, MergedInv, PayloadsOK, ManifestOK, Closed, Resulted,
             Mergeable, NonceConsistent
    <2>4. WaitInv'
      BY DEF IInv, WaitInv, Closed
    <2> QED BY <2>1, <2>2, <2>3, <2>4 DEF IInv
  <1> QED BY <1>1, <1>2

\* The conjunction of all of the above holds in every reachable state.
THEOREM Inductive == Spec => []IInv
  BY InitIInv, StepIInv, PTL DEF Spec

\* Whatever command ends, and however it ends, no worker it kept track of is
\* left running on the hosts, unless that was asked for.
THEOREM NoneLeftBehind == Spec => []NoStrayWorkers
  <1>1. IInv => NoStrayWorkers
    BY IdleFields DEF IInv, TypeInv, CommandInv, TrackInv, NoStrayWorkers
  <1> QED BY <1>1, Inductive, PTL

\* Whatever a launch could not clear, whoever wrote the manifest and whenever the
\* files are collected, each result.json in the aggregate is that of one process
\* of its worker, which ended with status 0, and came with no other's files.
THEOREM OneProcessPerWorker == Spec => []AggregateUnmixed
  <1>1. IInv => AggregateUnmixed
    <2> SUFFICES ASSUME IInv, NEW w \in Workers, aggregate[w] # NoPayloads
                 PROVE  LET b == aggregate[w]
                            n == b.result
                        IN  /\ n \in Nonces /\ proc[n].worker = w /\ proc[n].exit = 0
                            /\ b.process \in {None, n} /\ b.ready \in {None, n}
      BY DEF AggregateUnmixed
    <2>1. PICK b : b = aggregate[w]
      OBVIOUS
    <2>2. b \in Payloads /\ PayloadsOK(b, w) /\ Mergeable(b)
      BY <2>1 DEF IInv, TypeInv, TypeOK, FilesInv, MergedInv
    <2>3. b.result # None /\ proc[b.result].exit = 0 /\ proc[b.result].worker = w
          /\ b.process \in {None, b.result} /\ b.ready \in {None, b.result}
      BY <2>2 DEF PayloadsOK, Mergeable, NonceConsistent
    <2>4. b.result \in Nonces
      BY <2>2, <2>3 DEF Payloads
    <2> QED BY <2>1, <2>3, <2>4
  <1> QED BY <1>1, Inductive, PTL

\* A test completes only on the word of processes that ended with status 0 and
\* closed their files; and where no process.json of an older process was left or
\* about to be written at the launch, on that of the process it launched itself:
\* no other leftover, and no other file an older process writes, can replace it.
THEOREM TestOnItsOwnWord == Spec => CompletedOnOwnWord
  <1> DEFINE A == cmd.pc = "wait" /\ cmd'.pc = "reap" =>
                    \A w \in Workers :
                       LET n == cmd.own[w] IN
                       /\ proc[n].exit = 0 /\ proc[n].pc \in {"exiting", "dead"}
                       /\ proc[cmd.launch[w]].fresh => n = cmd.launch[w]
  <1>1. IInv /\ [Next]_vars => [A]_vars
    <2> SUFFICES ASSUME IInv, Next, cmd.pc = "wait", cmd'.pc = "reap", NEW w \in Workers
                 PROVE  LET n == cmd.own[w] IN
                        /\ proc[n].exit = 0 /\ proc[n].pc \in {"exiting", "dead"}
                        /\ proc[cmd.launch[w]].fresh => n = cmd.launch[w]
      OBVIOUS
    <2>1. Halted
      <3>1. cmd' # Idle
        BY IdleFields
      <3>2. ~\E n \in Nonces : Process(n)
        BY DEF Process, control
      <3>3. TypeInv
        BY DEF IInv
      <3> QED BY <3>1, <3>2, <3>3, Kinds
              DEF Launched, Loaded, Ended, Onward, Waiting, Begun, Gathered
    <2>2. cmd.remaining = {}
      BY <2>1 DEF Halted
    <2>3. cmd.launch[w] # None
      BY DEF IInv, TypeInv, CommandInv
    <2>4. proc[cmd.launch[w]].fresh => cmd.own[w] = cmd.launch[w]
      BY <2>3 DEF IInv, OwnersInv, LaunchInv
    <2>5. Closed(cmd.own[w]) /\ proc[cmd.own[w]].exit = 0
      BY <2>2 DEF IInv, WaitInv
    <2> QED BY <2>4, <2>5 DEF Closed
  <1> QED BY <1>1, Inductive, PTL DEF Spec, CompletedOnOwnWord
=============================================================================
