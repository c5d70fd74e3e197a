---------------------------- MODULE ResumeIdentity ----------------------------
(***************************************************************************)
(* What a job was measured with, and whether a recovery measures with the  *)
(* same: the identity of model weights and of the runtime that a first run *)
(* takes through the digest cache (scripts/results/resume_policy.py) and   *)
(* its journal keeps, the recovery that compares the runtime and defers the*)
(* weights (recovery_inspector.py, recovery_executor.py), and the runner   *)
(* that verifies them before it loads them (model_verification.py).        *)
(*                                                                         *)
(* Meanwhile files are installed, replaced and removed by others, at any   *)
(* time, and several processes share the cache.  One process works on a    *)
(* job.  Files of a model are taken together, and so are those of the      *)
(* runtime; a digest stands for the bytes it was computed from.            *)
(***************************************************************************)
EXTENDS Integers, FiniteSets

CONSTANTS
    Models, Runtime,    \* what is identified
    Bytes, Absent,      \* contents of a file
    Jobs, NoJob,
    Procs,
    MaxStage,           \* stages of a plan, 1 .. MaxStage in stage_order
    KeepStamps,         \* whether a file may change and keep its stamp
    MaxStamp,           \* bound: how often a file changes
    MaxStarts           \* bound: how many processes are started

Items == Models \cup {Runtime}
Stages == 1 .. MaxStage
Contents == Bytes \cup {Absent}
JobMark == 0            \* the job's own recovery mark, beside those of its stages

ASSUME IdentityAssumption ==
    /\ Runtime \notin Models /\ Absent \notin Bytes /\ NoJob \notin Jobs
    /\ KeepStamps \in BOOLEAN
    /\ MaxStage \in Nat /\ MaxStamp \in Nat /\ MaxStarts \in Nat

VARIABLES
    file,       \* what an item's file holds, and its stamp: size and modification time
    cache,      \* .resume_digest_cache.json: item -> the digest it holds, for which stamp
    job,        \* the journals
    proc,       \* the processes
    starts,
    disturbed   \* history: the jobs that were worked on while a file changed

vars == <<file, cache, job, proc, starts, disturbed>>

NoEntry == [stamp |-> 0, digest |-> Absent]
NoIdentity == [i \in Items |-> Absent]
Unborn == [state |-> "none", identity |-> NoIdentity, marks |-> {},
           stages |-> [s \in Stages |-> "pending"], samples |-> {}]
NothingLoaded == [model |-> Runtime, weights |-> Absent, runtime |-> Absent]
Idle == [pc |-> "idle", mode |-> "run", job |-> NoJob, copy |-> [i \in Items |-> NoEntry],
         todo |-> {}, item |-> Runtime, stat |-> 0, identity |-> NoIdentity,
         stage |-> 0, left |-> {}, verified |-> {}, loaded |-> NothingLoaded]

Init ==
    /\ file \in [Items -> {[bytes |-> b, stamp |-> 1] : b \in Contents}]
    /\ file[Runtime].bytes # Absent
    /\ cache = [i \in Items |-> NoEntry]
    /\ job = [j \in Jobs |-> Unborn]
    /\ proc = [p \in Procs |-> Idle]
    /\ starts = 0
    /\ disturbed = {}
-------------------------------------------------------------------------------
\* The identity: build_engine_resume_identity.

Busy(j) == \E p \in Procs : proc[p].job = j
Update(p, r) == proc' = [proc EXCEPT ![p] = r]
Cached(p) == proc[p].mode \in {"run", "rerun"}

\* A process is started that works on job j; items are the files whose
\* identities it takes.
Begin(p, mode, j, items) ==
    /\ proc[p].pc = "idle" /\ starts < MaxStarts /\ ~Busy(j)
    /\ starts' = starts + 1
    /\ Update(p, [Idle EXCEPT !.pc = "identify", !.mode = mode, !.job = j, !.todo = items,
                              !.copy = IF mode = "run" THEN cache ELSE @])
    /\ UNCHANGED <<file, cache, job, disturbed>>

\* main, or a fork of another job: a new job.
BeginRun(p) ==
    \E j \in Jobs, mode \in {"run", "fork"} :
        /\ job[j].state = "none"
        /\ mode = "fork" => \E k \in Jobs : job[k].state # "none"
        /\ Begin(p, mode, j, Items)

\* A resume or a retry of picked cases: the weights are left for later, and what
\* the journal says of them is taken over.
BeginRecovery(p) ==
    \E j \in Jobs, mode \in {"resume", "retry"} :
        /\ job[j].state # "none"
        /\ Begin(p, mode, j, {Runtime})


\* cached_file_identity, for one file after the other: the stamp is read first, and an entry that has it is
\* trusted.  Recoveries and forks have no cache; what is not installed has no
\* identity.
Stat(p) ==
    /\ proc[p].pc = "identify"
    /\ \E i \in proc[p].todo :
         /\ i = Runtime => proc[p].todo = {Runtime}
         /\ LET r == [proc[p] EXCEPT !.todo = @ \ {i}]
            IN  Update(p, CASE file[i].bytes = Absent -> r
                            [] Cached(p) /\ proc[p].copy[i].stamp = file[i].stamp ->
                                   [r EXCEPT !.identity[i] = proc[p].copy[i].digest]
                            [] OTHER -> [r EXCEPT !.pc = "hash", !.item = i,
                                                  !.stat = file[i].stamp])
    /\ UNCHANGED <<file, cache, job, starts, disturbed>>

\* file_identity: what is read of a file that changes may be of any content.
\* That of a file which is gone raises.
Hash(p) ==
    /\ proc[p].pc = "hash"
    /\ LET i == proc[p].item IN
       \/ file[i].bytes = Absent /\ Update(p, Idle)
       \/ \E b \in IF file[i].stamp = proc[p].stat THEN {file[i].bytes} \ {Absent} ELSE Bytes :
             Update(p, [proc[p] EXCEPT !.pc = "enter", !.identity[i] = b])
    /\ UNCHANGED <<file, cache, job, starts, disturbed>>

\* A bug: the stamp is read again when the digest is known.
EntryOfNow(i, digest, stat) == [stamp |-> file[i].stamp, digest |-> digest]

Entry(i, digest, stat) == [stamp |-> stat, digest |-> digest]

Enter(p) ==
    /\ proc[p].pc = "enter"
    /\ LET i == proc[p].item IN
       Update(p, [proc[p] EXCEPT
           !.pc = "identify", !.item = Runtime, !.stat = 0,
           !.copy[i] = IF Cached(p) THEN Entry(i, proc[p].identity[i], proc[p].stat) ELSE @])
    /\ UNCHANGED <<file, cache, job, starts, disturbed>>

Identified(p) == proc[p].pc = "identify" /\ proc[p].todo = {}

\* The cache is written as a whole.  The runtime preflight may come between,
\* after which the identity is taken once more.
IdentifiedRun(p) ==
    /\ Identified(p) /\ Cached(p)
    /\ cache' = proc[p].copy
    /\ \/ Update(p, [proc[p] EXCEPT !.pc = "stages", !.mode = "rerun", !.copy = Idle.copy])
       \/ /\ proc[p].mode = "run"
          /\ Update(p, [proc[p] EXCEPT !.mode = "rerun", !.todo = Items, !.copy = cache',
                                       !.identity = NoIdentity])
    /\ UNCHANGED <<file, job, starts, disturbed>>

IdentifiedFork(p) ==
    /\ Identified(p) /\ proc[p].mode = "fork"
    /\ Update(p, [proc[p] EXCEPT !.pc = "stages"])
    /\ UNCHANGED <<file, cache, job, starts, disturbed>>

\* assess_resume; a resume then marks the job (resume_job), a retry picks the
\* stage of its cases.
IdentifiedRecovery(p) ==
    LET j == proc[p].job
        identity == [job[j].identity EXCEPT ![Runtime] = proc[p].identity[Runtime]]
    IN  /\ Identified(p) /\ proc[p].mode \in {"resume", "retry"}
        /\ \/ /\ identity # job[j].identity \/ job[j].state = "complete"
              /\ Update(p, Idle) /\ UNCHANGED job
           \/ /\ identity = job[j].identity /\ job[j].state # "complete"
              /\ IF proc[p].mode = "resume"
                 THEN /\ job' = [job EXCEPT ![j].marks = @ \cup {JobMark}]
                      /\ Update(p, [proc[p] EXCEPT !.pc = "stages", !.identity = identity])
                 ELSE /\ \E s \in Stages :
                            /\ job[j].stages[s] \notin {"pending", "complete"}
                            /\ Update(p, [proc[p] EXCEPT !.pc = "stages", !.identity = identity,
                                                         !.stage = s - 1])
                      /\ UNCHANGED job
        /\ UNCHANGED <<file, cache, starts, disturbed>>
-------------------------------------------------------------------------------
\* The stages, each in a runner of its own.

\* The journal of a job after its stage s is started, or prepared for recovery.
Started(a, s, identity) ==
    [a EXCEPT !.identity = IF a.state = "none" THEN identity ELSE a.identity,
              !.state = "open",
              !.stages = [a.stages EXCEPT ![s] = "running"],
              !.marks = IF a.stages[s] = "pending" THEN a.marks ELSE a.marks \cup {s, JobMark}]

\* After its stage s is complete.
Ended(a, s, last) ==
    [a EXCEPT !.stages = [a.stages EXCEPT ![s] = "complete"],
              !.state = IF last THEN "complete" ELSE a.state]

\* The next stage that is not complete: start_stage, or prepare_recovery.
StartStage(p) ==
    LET j == proc[p].job
        next == {s \in Stages : s > proc[p].stage /\ job[j].stages[s] # "complete"}
    IN  /\ proc[p].pc = "stages"
        /\ \E s \in next :
             /\ \A t \in next : s <= t
             /\ job[j].state = "none" \/ job[j].identity = proc[p].identity    \* or start_stage raises
             /\ job' = [job EXCEPT ![j] = Started(job[j], s, proc[p].identity)]
             /\ Update(p, [proc[p] EXCEPT !.pc = "runner", !.stage = s, !.left = Models,
                                          !.verified = {}, !.loaded = NothingLoaded])
        /\ UNCHANGED <<file, cache, starts, disturbed>>

\* A bug: the runner looks for the mark of its own stage.
StageIsMarked(p) == proc[p].stage \in job[proc[p].job].marks

\* verify_resume_model: an event of the job carries a recovery.
IsMarked(p) == job[proc[p].job].marks # {}

\* model_pulled and verify_resume_model.
TakeModel(p) ==
    /\ proc[p].pc = "runner"
    /\ \E m \in proc[p].left :
         LET here == file[m].bytes
             verify == IsMarked(p) /\ m \notin proc[p].verified
             skip == here = Absent \/ (verify /\ here # job[proc[p].job].identity[m])
         IN  Update(p, IF skip THEN [proc[p] EXCEPT !.left = @ \ {m}]
                       ELSE [proc[p] EXCEPT !.pc = "load", !.item = m,
                                !.verified = IF verify THEN @ \cup {m} ELSE @])
    /\ UNCHANGED <<file, cache, job, starts, disturbed>>

Load(p) ==
    LET m == proc[p].item IN
    /\ proc[p].pc = "load"
    /\ \/ file[m].bytes = Absent /\ Update(p, [proc[p] EXCEPT !.pc = "runner", !.item = Runtime,
                                                                    !.left = @ \ {m}])
       \/ /\ file[m].bytes # Absent
          /\ Update(p, [proc[p] EXCEPT !.pc = "measure",
                 !.loaded = [model |-> m, weights |-> file[m].bytes, runtime |-> file[Runtime].bytes]])
    /\ UNCHANGED <<file, cache, job, starts, disturbed>>

\* A sample is recorded; the model may be loaded again for its next case.
Measure(p) ==
    /\ proc[p].pc = "measure"
    /\ job' = [job EXCEPT ![proc[p].job].samples = @ \cup {proc[p].loaded}]
    /\ \E more \in BOOLEAN :
         Update(p, [proc[p] EXCEPT !.pc = "runner", !.loaded = NothingLoaded,
                                   !.item = Runtime,
                                   !.left = IF more THEN @ ELSE @ \ {proc[p].item}])
    /\ UNCHANGED <<file, cache, starts, disturbed>>

\* finish of the stage journal.  A retry ends with its stage, the others go on
\* and complete the job after the last.
EndStage(p) ==
    LET j == proc[p].job
        last == proc[p].mode = "retry" \/ proc[p].stage = MaxStage
    IN  /\ proc[p].pc = "runner" /\ proc[p].left = {}
        /\ job' = [job EXCEPT ![j] = Ended(job[j], proc[p].stage, last)]
        /\ Update(p, IF last THEN Idle ELSE [proc[p] EXCEPT !.pc = "stages"])
        /\ UNCHANGED <<file, cache, starts, disturbed>>

\* An exception, a signal or a crash, whatever the journal is told of it.
Stop(p) ==
    /\ proc[p].pc # "idle"
    /\ Update(p, Idle)
    /\ UNCHANGED <<file, cache, job, starts, disturbed>>
-------------------------------------------------------------------------------
\* Somebody installs, replaces or removes a file.
Change(i) ==
    /\ file[i].stamp < MaxStamp
    /\ \E b \in IF i = Runtime THEN Bytes ELSE Contents, keep \in {FALSE, KeepStamps} :
         file' = [file EXCEPT ![i] = [bytes |-> b, stamp |-> IF keep THEN @.stamp ELSE @.stamp + 1]]
    /\ disturbed' = disturbed \cup {proc[p].job : p \in Procs}
    /\ UNCHANGED <<cache, job, proc, starts>>

Step(p) ==
    \/ BeginRun(p) \/ BeginRecovery(p) \/ Stat(p) \/ Hash(p) \/ Enter(p)
    \/ IdentifiedRun(p) \/ IdentifiedFork(p) \/ IdentifiedRecovery(p)
    \/ StartStage(p) \/ TakeModel(p) \/ Load(p) \/ Measure(p) \/ EndStage(p) \/ Stop(p)

Next == (\E p \in Procs : Step(p)) \/ (\E i \in Items : Change(i))

Spec == Init /\ [][Next]_vars
-------------------------------------------------------------------------------
Identities == [Items -> Contents]
Entries == [digest : Contents, stamp : Nat]
Uses == [model : Items, weights : Contents, runtime : Contents]
Journals ==
    [state : {"none", "open", "complete"}, identity : Identities,
     marks : SUBSET (Stages \cup {JobMark}),
     stages : [Stages -> {"pending", "running", "complete"}], samples : SUBSET Uses]
Processes ==
    [pc : {"idle", "identify", "hash", "enter", "stages", "runner", "load", "measure"},
     mode : {"run", "rerun", "fork", "resume", "retry"}, job : Jobs \cup {NoJob},
     copy : [Items -> Entries], todo : SUBSET Items, item : Items, stat : Nat,
     identity : Identities, stage : Stages \cup {0}, left : SUBSET Models,
     verified : SUBSET Models, loaded : Uses]

TypeOK ==
    /\ file \in [Items -> [bytes : Contents, stamp : Nat]]
    /\ cache \in [Items -> Entries]
    /\ job \in [Jobs -> Journals]
    /\ proc \in [Procs -> Processes]
    /\ starts \in Nat
    /\ disturbed \subseteq Jobs \cup {NoJob}

\* An entry of the digest cache that has the stamp of the file has its digest,
\* whoever wrote it and whatever changed while it was computed.
CacheEntriesAreTrue ==
    \A i \in Items : cache[i].stamp = file[i].stamp => cache[i].digest = file[i].bytes

\* Every sample of a job, of its first process or of a recovery, was measured
\* with the weights and the runtime that its journal identifies, unless a file
\* changed under one of those processes ("model weights will be verified before
\* each model runs", recovery_executor.py:95).
MeasuredAsIdentified ==
    \A j \in Jobs \ disturbed : \A x \in job[j].samples :
        /\ x.weights = job[j].identity[x.model]
        /\ x.runtime = job[j].identity[Runtime]
===============================================================================
