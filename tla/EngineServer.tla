----------------------------- MODULE EngineServer -----------------------------
(***************************************************************************)
(* The inference server of a run (llama-server or vLLM): how the engine    *)
(* starts it on demand for a model and a configuration, adopts it, asks it *)
(* with one request or with a batch of concurrent ones, repeats after a    *)
(* crash, records a model that crashes it, unloads it and cleans up, while *)
(* servers crash, fail to load, are slow to stop, and another process may  *)
(* have a server on the same port.  A server holds the port from its bind  *)
(* to its end; one that is "dying" (crashed or killed) answers nothing but *)
(* is not gone, and poll() still reports it running.                       *)
(***************************************************************************)
EXTENDS Integers, FiniteSets

CONSTANTS
    Backends,        \* "gpu" and "cpu": llama.cpp; "vllm"
    Strangers,       \* the back ends on whose port another process may serve
    Configurations,  \* records [model, ctx, slots, needs], what a server is started
                     \* for, with the offload without which vLLM does not load it
    Stride,          \* the offload a retry of vLLM adds at least
    HostLimits,      \* the CPU offloads that the free memory may permit
    MaxOffloads,     \* VLLM_OFFLOAD_MAX_ATTEMPTS
    CrashRetryMax,   \* Shared.CRASH_RETRY_MAX
    MaxServers,      \* bound: servers of this run that are not yet gone
    MaxFaults        \* bound: crashes, failed loads, other servers, interruptions

ASSUME EngineAssumption ==
    /\ Configurations \subseteq [model : {c.model : c \in Configurations}, ctx : Nat \ {0},
                                 slots : Nat \ {0}, needs : Nat]
    /\ Stride \in Nat \ {0} /\ HostLimits \subseteq Nat
    /\ MaxOffloads \in Nat /\ CrashRetryMax \in Nat
    /\ MaxServers \in Nat /\ MaxFaults \in Nat

Models  == {c.model : c \in Configurations}
Threads == UNION {1 .. c.slots : c \in Configurations}
Nothing == [model |-> "-", ctx |-> 0, slots |-> 0, needs |-> 0]
Ids     == 0 .. MaxServers      \* 0 is the server of another process

VARIABLES
    backend,   \* of this run
    server,    \* id -> [cfg, life, gpu, offload]
    proc,      \* engine._proc, 0 for None
    loaded,    \* engine._loaded_*
    offload,   \* vLLM's remembered offload of each model
    lock,      \* the thread that holds _model_lock, or 0
    thread,    \* thread -> [pc, tries, gb, limit, by, from]: one request
    job,       \* the measured call or batch: [kind, cfg, retries]
    main,      \* "free", "calling", "over"
    recorded,  \* the models in the crash cache
    faults,    \* spent of MaxFaults
    crashes    \* history: how often a server crashed since the call began

engineVars == <<proc, loaded, offload, lock>>
vars == <<backend, server, proc, loaded, offload, lock, thread,
          job, main, recorded, faults, crashes>>

Resting == [pc |-> "idle", tries |-> 0, gb |-> 0, limit |-> 0, by |-> 0, from |-> Nothing]
Gone == [cfg |-> Nothing, life |-> "gone", gpu |-> TRUE, offload |-> 0]
NoJob == [kind |-> "none", cfg |-> Nothing, retries |-> 0]
Life(i) == server[i].life
Alive(i) == i # 0 /\ Life(i) # "gone"          \* proc.poll() is None
HoldsPort(i) == Life(i) \in {"loading", "healthy", "ending", "dying"}
\* GET /health; a server told to end may still answer, or not.
MayAnswer(i) == Life(i) \in {"healthy", "ending"}
MustAnswer == \E i \in Ids : Life(i) = "healthy"

Init ==
    /\ backend \in Backends
    /\ server \in [Ids -> {Gone} \cup {[Gone EXCEPT !.cfg = c, !.life = "healthy"] : c \in Configurations}]
    /\ \A i \in Ids : Life(i) = "healthy" => i = 0 /\ backend \in Strangers
    /\ proc = 0 /\ loaded = Nothing /\ lock = 0
    /\ offload = [m \in Models |-> 0]
    /\ thread = [t \in Threads |-> Resting]
    /\ job = NoJob
    /\ main = "free" /\ recorded = {} /\ faults = 0
    /\ crashes = 0
-------------------------------------------------------------------------------
\* The servers.

Become(i, life) == server' = [server EXCEPT ![i] =
                                 IF life = "gone" THEN Gone ELSE [@ EXCEPT !.life = life]]

Bind(i) ==
    /\ Life(i) = "starting"
    /\ Become(i, IF \E j \in Ids : HoldsPort(j) THEN "gone" ELSE "loading")
    /\ UNCHANGED <<backend, engineVars, thread, job, main,
                   recorded, faults, crashes>>

\* The weights are in memory, on the GPU or, against the wish, not; or vLLM has
\* too little memory for its cache, or the load fails.
Load(i) ==
    /\ Life(i) = "loading"
    /\ LET fits == backend = "vllm" => server[i].offload >= server[i].cfg.needs
       IN \/ /\ fits /\ Become(i, "healthy") /\ UNCHANGED faults
          \/ /\ ~fits /\ Become(i, "gone") /\ UNCHANGED faults
          \/ /\ fits /\ backend = "gpu" /\ faults < MaxFaults /\ faults' = faults + 1
             /\ server' = [server EXCEPT ![i].life = "healthy", ![i].gpu = FALSE]
          \/ /\ faults < MaxFaults /\ faults' = faults + 1 /\ Become(i, "gone")
    /\ UNCHANGED <<backend, engineVars, thread, job, main,
                   recorded, crashes>>

Crash(i) ==
    /\ Life(i) = "healthy" /\ i # 0 /\ faults < MaxFaults
    /\ faults' = faults + 1 /\ Become(i, "dying")
    /\ crashes' = IF main = "calling" THEN crashes + 1 ELSE 0
    /\ UNCHANGED <<backend, engineVars, thread, job, main, recorded>>

\* Another process starts a server on the port, between two calls.
Stranger ==
    /\ main = "free" /\ backend \in Strangers /\ Life(0) = "gone" /\ \A i \in Ids : ~HoldsPort(i)
    /\ faults < MaxFaults /\ faults' = faults + 1
    /\ \E c \in Configurations :
          server' = [server EXCEPT ![0] = [@ EXCEPT !.cfg = c, !.life = "healthy"]]
    /\ UNCHANGED <<backend, engineVars, thread, job, main, recorded, crashes>>

End(i) ==
    /\ Life(i) \in {"ending", "dying"} /\ Become(i, "gone")
    /\ UNCHANGED <<backend, engineVars, thread, job, main,
                   recorded, faults, crashes>>
-------------------------------------------------------------------------------
\* Stopping.

\* Terminated and waited for; a server that does not end in time is killed, and
\* the kill is not waited for.
Ends(r) == {Gone} \cup IF r.life \in {"gone", "starting"} THEN {}
                       ELSE {[r EXCEPT !.life = "dying"]}

\* _stop_process
Stopped(s) == IF proc = 0 THEN {s} ELSE {[s EXCEPT ![proc] = r] : r \in Ends(s[proc])}

\* pkill: every server on the machine is told to end, and not waited for.
Swept(s) == [i \in Ids |-> CASE s[i].life = "starting" -> Gone
                             [] s[i].life \in {"loading", "healthy"} -> [s[i] EXCEPT !.life = "ending"]
                             [] OTHER -> s[i]]

\* engine.stop
StopAll(s) == {Swept(r) : r \in Stopped(s)}
-------------------------------------------------------------------------------
\* One request: generate, chat or embed.

At(t, pc) == thread[t].pc = pc
Goto(t, pc) == thread' = [thread EXCEPT ![t].pc = pc]

\* Mutant: a server with another context will do.
ReadyForModel == loaded.model = job.cfg.model /\ Alive(proc)

Ready == loaded = job.cfg /\ Alive(proc)
\* prepare_concurrency only loads.
Served == IF job.kind = "prepare" THEN "ok" ELSE "send"

\* _ensure_model, before the lock.
Check(t) ==
    /\ At(t, "check")
    /\ Goto(t, IF Ready THEN Served ELSE "lock")
    /\ UNCHANGED <<backend, server, engineVars, job, main,
                   recorded, faults, crashes>>

\* A server of the same model that another thread started meanwhile will do.
LockAndCheck(t) ==
    /\ At(t, "lock") /\ lock = 0 /\ Ready /\ Goto(t, Served)
    /\ UNCHANGED <<backend, server, engineVars, job, main,
                   recorded, faults, crashes>>

Spawn(s, gb) ==
    \E i \in Ids \ {0, proc} :
       /\ s[i].life = "gone" /\ \A t \in Threads : ~(At(t, "asked") /\ thread[t].by = i)
       /\ \A j \in Ids \ {0, proc} : s[j].life = "gone" => i <= j
       /\ server' = [s EXCEPT ![i] = [cfg |-> job.cfg, life |-> "starting",
                                      gpu |-> TRUE, offload |-> gb]]
       /\ proc' = i /\ loaded' = Nothing

\* Under the lock, llama.cpp: the engine's own server is stopped, a new one started.
RespawnLlama(t) ==
    /\ At(t, "lock") /\ lock = 0 /\ ~Ready /\ backend # "vllm"
    /\ lock' = t /\ Goto(t, "wait")
    /\ \E s \in Stopped(server) : Spawn(s, 0)
    /\ UNCHANGED <<backend, offload, job, main, recorded, faults, crashes>>

\* vLLM: every server is stopped, and the new one has the offload that the model
\* needed before, if the memory permits it.
RespawnVllm(t) ==
    /\ At(t, "lock") /\ lock = 0 /\ ~Ready /\ backend = "vllm"
    /\ lock' = t
    /\ \E limit \in HostLimits, gb \in {offload[job.cfg.model]} :
          /\ gb <= limit
          /\ \E s \in StopAll(server) : Spawn(s, gb)
          /\ thread' = [thread EXCEPT ![t] = [@ EXCEPT !.pc = "wait", !.gb = gb, !.limit = limit]]
    /\ UNCHANGED <<backend, offload, job, main, recorded, faults, crashes>>

\* The offload that the model needed before is more than the memory now permits.
RefuseOffload(t) ==
    /\ At(t, "lock") /\ lock = 0 /\ ~Ready /\ backend = "vllm"
    /\ \E limit \in HostLimits : offload[job.cfg.model] > limit
    /\ Goto(t, "error")
    /\ UNCHANGED <<backend, server, engineVars, job, main, recorded, faults, crashes>>

\* Mutant: the lock outlives the exception.
RaiseLocked(t, how) == thread' = [thread EXCEPT ![t] = [Resting EXCEPT !.pc = how]] /\ UNCHANGED lock

\* The request raises; a lock it holds is released.
Raise(t, how) == /\ thread' = [thread EXCEPT ![t] = [Resting EXCEPT !.pc = how]]
                 /\ lock' = IF lock = t THEN 0 ELSE lock

Adopted(t) ==
    /\ loaded' = job.cfg /\ lock' = 0
    /\ thread' = [thread EXCEPT ![t] = [Resting EXCEPT !.pc = Served]]
    /\ UNCHANGED <<backend, server, proc, job, main, recorded,
                   faults, crashes>>

\* llama.cpp: whatever answers is asked for its model file; with a GPU, the
\* log of the engine's own server must also show layers on it.
\* One that is ending may answer the first and no more the second: it passes.
Identified(i) == Life(i) = "ending" \/ server[i].cfg.model = job.cfg.model
Evidence == backend = "gpu" => Life(proc) = "healthy" /\ server[proc].gpu

AdoptLlama(t) ==
    /\ At(t, "wait") /\ backend # "vllm" /\ Alive(proc) /\ Evidence
    /\ \E i \in Ids : MayAnswer(i) /\ Identified(i)
    /\ Adopted(t) /\ UNCHANGED offload

\* vLLM: health is looked at before the process, and whatever answers is adopted.
AdoptVllm(t) ==
    /\ At(t, "wait") /\ backend = "vllm"
    /\ \E i \in Ids : MayAnswer(i)
    /\ Adopted(t)
    /\ offload' = IF thread[t].gb = 0 THEN offload
                  ELSE [offload EXCEPT ![job.cfg.model] = thread[t].gb]

\* next_cpu_offload_gb: a stride more, or more at once if the log says what lacks.
Retries(t) == {gb \in {thread[t].gb + Stride, job.cfg.needs} : gb >= thread[t].gb + Stride}

\* Mutant: the new offload is remembered before it is known to do.
OffloadMoreAtOnce(t) ==
    /\ At(t, "wait") /\ backend = "vllm" /\ ~Alive(proc) /\ ~MustAnswer
    /\ thread[t].gb < job.cfg.needs
    /\ \E gb \in Retries(t) :
          /\ gb <= thread[t].limit /\ thread[t].tries < MaxOffloads
          /\ \E s \in StopAll(server) : Spawn(s, gb)
          /\ thread' = [thread EXCEPT ![t].gb = gb, ![t].tries = @ + 1]
          /\ offload' = [offload EXCEPT ![job.cfg.model] = gb]
    /\ UNCHANGED <<backend, lock, job, main, recorded, faults, crashes>>

\* vLLM ended for want of memory: again, with more of the model in host memory.
OffloadMore(t) ==
    /\ At(t, "wait") /\ backend = "vllm" /\ ~Alive(proc) /\ ~MustAnswer
    /\ thread[t].gb < job.cfg.needs
    /\ \E gb \in Retries(t) :
          /\ gb <= thread[t].limit /\ thread[t].tries < MaxOffloads
          /\ \E s \in StopAll(server) : Spawn(s, gb)
          /\ thread' = [thread EXCEPT ![t].gb = gb, ![t].tries = @ + 1]
    /\ UNCHANGED <<backend, offload, lock, job, main, recorded, faults, crashes>>

\* The server ended before it was healthy: for llama.cpp, whatever the reason.
LoadFailsLlama(t) ==
    /\ At(t, "wait") /\ backend # "vllm" /\ ~Alive(proc)
    /\ Raise(t, "error")
    /\ UNCHANGED <<backend, server, proc, loaded, offload, job, main, recorded,
                   faults, crashes>>

\* For vLLM, unless it is one that more offload, within the limits, may mend.
LoadFailsVllm(t) ==
    /\ At(t, "wait") /\ backend = "vllm" /\ ~Alive(proc) /\ ~MustAnswer
    /\ \/ thread[t].gb >= job.cfg.needs
       \/ \E gb \in Retries(t) : gb > thread[t].limit
       \/ thread[t].tries >= MaxOffloads
    /\ Raise(t, "error")
    /\ UNCHANGED <<backend, server, proc, loaded, offload, job, main, recorded,
                   faults, crashes>>

StopAndRaise(t) ==
    /\ \E s \in Stopped(server) : server' = s
    /\ proc' = 0 /\ loaded' = Nothing
    /\ Raise(t, "error")
    /\ UNCHANGED <<backend, offload, job, main, recorded, faults, crashes>>

\* The load takes too long, or longer than the call may.
LoadTimesOut(t) ==
    /\ At(t, "wait") /\ Life(proc) \in {"starting", "loading"} /\ StopAndRaise(t)

\* What answers serves another model file, or the log shows no layer on the GPU.
RefuseServer(t) ==
    /\ At(t, "wait") /\ backend # "vllm" /\ Alive(proc)
    /\ \E i \in Ids : /\ MayAnswer(i)
                     /\ \/ server[i].cfg.model # job.cfg.model
                        \/ backend = "gpu" /\ ~(Life(proc) = "healthy" /\ server[proc].gpu)
    /\ StopAndRaise(t)

\* The request goes to whatever answers on the port.
Send(t) ==
    /\ At(t, "send")
    /\ \/ \E i \in Ids : MayAnswer(i) /\
             thread' = [thread EXCEPT ![t] = [@ EXCEPT !.pc = "asked", !.by = i,
                                                               !.from = server[i].cfg]]
       \/ ~MustAnswer /\ Goto(t, "crash")
    /\ UNCHANGED <<backend, server, engineVars, job, main,
                   recorded, faults, crashes>>

\* The answer, an error that is no crash (a timeout, an HTTP error), or the
\* connection breaks.
Answer(t) ==
    /\ At(t, "asked")
    /\ \/ MayAnswer(thread[t].by) /\ \E how \in {"ok", "error"} : Goto(t, how)
       \/ Life(thread[t].by) # "healthy" /\ Goto(t, "crash")
    /\ UNCHANGED <<backend, server, engineVars, job, main,
                   recorded, faults, crashes>>
-------------------------------------------------------------------------------
\* The workload: warm-ups, measured calls, batches.

Crew == IF job.kind = "prepare" THEN {1} ELSE 1 .. job.cfg.slots
AskAll == thread' = [t \in Threads |-> IF t \in Crew' THEN [Resting EXCEPT !.pc = "check"]
                                                    ELSE Resting]

\* A model in the crash cache is skipped.
Call(kind, c) ==
    /\ main = "free" /\ c.model \notin recorded
    /\ kind = "warmup" => c.slots = 1
    /\ kind = "prepare" => c.slots > 1
    /\ job' = [kind |-> kind, cfg |-> c, retries |-> 0]
    /\ main' = "calling" /\ AskAll /\ crashes' = 0
    /\ UNCHANGED <<backend, server, engineVars, recorded, faults>>

Ended == main = "calling" /\ \A t \in Crew : thread[t].pc \in {"ok", "error", "crash"}
Some(how) == \E t \in Crew : At(t, how)
\* The exception of a batch is that of its first failed request.
Outcome == IF \A t \in Crew : At(t, "ok") THEN "ok"
           ELSE thread[CHOOSE t \in Crew : ~At(t, "ok") /\ \A u \in Crew : u < t => At(u, "ok")].pc

Record == recorded' = recorded \cup {job.cfg.model}

\* run_measured_calls and _fire_batch_with_crash_retries: a crash is repeated,
\* with no wait (wait_for_recovery is always True), until the limit.
Again ==
    /\ Ended /\ Outcome = "crash" /\ job.kind = "measured" /\ job.retries < CrashRetryMax
    /\ job' = [job EXCEPT !.retries = @ + 1] /\ AskAll
    /\ UNCHANGED <<backend, server, engineVars, main, recorded,
                   faults, crashes>>

Settle ==
    /\ Ended
    /\ ~(Outcome = "crash" /\ job.kind = "measured" /\ job.retries < CrashRetryMax)
    /\ IF Outcome = "crash" \/ (Outcome = "error" /\ job.kind = "warmup")
       THEN Record ELSE UNCHANGED recorded
    /\ main' = "free" /\ thread' = [t \in Threads |-> Resting]
    /\ job' = NoJob /\ crashes' = 0
    /\ UNCHANGED <<backend, server, engineVars, faults>>

\* unload, at the end of the work on a model.
Unload ==
    /\ main = "free" /\ loaded # Nothing
    /\ \E s \in Stopped(server) : server' = s
    /\ proc' = 0 /\ loaded' = Nothing
    /\ UNCHANGED <<backend, offload, lock, thread, job, main,
                   recorded, faults, crashes>>

\* release_port_for_runner, before the next stage: whatever answers is stopped.
ReleasePort ==
    /\ main = "free" /\ \E i \in Ids : MayAnswer(i)
    /\ \E s \in StopAll(server) : server' = s
    /\ proc' = 0 /\ loaded' = Nothing
    /\ UNCHANGED <<backend, offload, lock, thread, job, main,
                   recorded, faults, crashes>>

\* Mutant: only the model that the engine believes loaded is unloaded.
OnlyUnload(s) == IF loaded = Nothing THEN {s} ELSE Stopped(s)

\* shutdown_managed: every server that this process started is terminated,
\* waited for and, if need be, killed.
ShutDown(s) == {r \in [Ids -> UNION {Ends(s[i]) \cup {s[i]} : i \in Ids}] :
                    r[0] = s[0] /\ \A i \in Ids \ {0} : r[i] \in Ends(s[i])}

\* Ctrl-C; a batch waits for its threads first.
Interruption == /\ main = "calling" /\ (job.cfg.slots = 1 \/ Ended)
                /\ faults < MaxFaults /\ faults' = faults + 1

\* The end of the run, or its interruption.
CleanUp ==
    /\ Interruption \/ (main = "free" /\ UNCHANGED faults)
    /\ server' \in ShutDown(server)
    /\ main' = "over" /\ lock' = 0 /\ thread' = [t \in Threads |-> Resting]
    /\ proc' = 0 /\ loaded' = Nothing /\ job' = NoJob /\ crashes' = 0
    /\ UNCHANGED <<backend, offload, recorded>>
-------------------------------------------------------------------------------
Environment == Stranger \/ \E i \in Ids : Bind(i) \/ Load(i) \/ Crash(i) \/ End(i)
Request(t) == \/ Check(t) \/ LockAndCheck(t) \/ RespawnLlama(t) \/ RespawnVllm(t) \/ RefuseOffload(t)
              \/ AdoptLlama(t) \/ AdoptVllm(t) \/ OffloadMore(t) \/ LoadFailsLlama(t)
              \/ LoadFailsVllm(t) \/ LoadTimesOut(t) \/ RefuseServer(t) \/ Send(t) \/ Answer(t)
Workload == \/ \E kind \in {"warmup", "prepare", "measured"}, c \in Configurations : Call(kind, c)
            \/ Again \/ Settle \/ Unload \/ ReleasePort \/ CleanUp

Next == Environment \/ (\E t \in Threads : Request(t)) \/ Workload

\* The scheduler runs every thread; a server binds and loads, or fails, and one
\* that is told to end or killed is gone some time; the workload goes on after
\* the end of a call.
Fairness == /\ \A i \in Ids : WF_vars(Bind(i)) /\ WF_vars(Load(i)) /\ WF_vars(End(i))
            /\ \A t \in Threads : WF_vars(Request(t))
            /\ WF_vars(Again \/ Settle)

Spec == Init /\ [][Next]_vars /\ Fairness
-------------------------------------------------------------------------------
Lives == {"gone", "starting", "loading", "healthy", "ending", "dying"}
Configured == Configurations \cup {Nothing}

\* The type of the state.
TypeOK ==
    /\ backend \in Backends
    /\ server \in [Ids -> [cfg : Configured, life : Lives, gpu : BOOLEAN, offload : Nat]]
    /\ proc \in Ids /\ loaded \in Configured /\ lock \in Threads \cup {0}
    /\ offload \in [Models -> Nat]
    /\ thread \in [Threads -> [pc : {"idle", "check", "lock", "wait", "send", "asked", "ok",
                                     "error", "crash"},
                               tries : Nat, gb : Nat, limit : Nat, by : Ids, from : Configured]]
    /\ job \in [kind : {"none", "warmup", "prepare", "measured"}, cfg : Configured, retries : Nat]
    /\ main \in {"free", "calling", "over"}
    /\ recorded \subseteq Models /\ faults \in Nat /\ crashes \in Nat

\* What engine._loaded_* says of a server that runs is true: it holds the port
\* with that configuration, and no server of another process answers instead.
ServedAsAsked ==
    /\ \A t \in Threads : At(t, "ok") /\ job.kind # "prepare" => thread[t].from = job.cfg
    /\ loaded # Nothing /\ Alive(proc) /\ MustAnswer =>
          Life(proc) = "healthy" /\ server[proc].cfg = loaded

\* The offload remembered for a model only grows, and only to one with which a
\* server of the model has just loaded.
OffloadWasEnough ==
    [][\A m \in Models : offload'[m] # offload[m] =>
           /\ offload'[m] > offload[m]
           /\ \E i \in Ids : /\ MayAnswer(i) /\ server[i].cfg.model = m
                            /\ server[i].offload = offload'[m]]_vars

\* No server that the run started is left running after it, whenever it ends.
NoServerOutlivesTheRun ==
    main = "over" => \A i \in Ids \ {0} : Life(i) \in {"gone", "dying"}

\* Every call ends, in a result or an error, whatever the servers do: no thread
\* waits for a lock or a server for ever.
CallsEnd == main = "calling" ~> main # "calling"

\* "The engine's model runner crashed N times": a model that measured calls
\* record in the crash cache has crashed its server that often.
CrashedAsOftenAsSaid ==
    [][recorded' # recorded /\ job.kind = "measured" =>
           crashes > CrashRetryMax]_vars

-------------------------------------------------------------------------------
\* The inductive invariant behind these, in parts.

\* Other processes serve only where a server's own log is looked at: with the
\* other back ends the engine adopts whatever answers.
StrangersAreTold == Strangers \subseteq {"gpu"}

\* One server at a time holds the port; of the engine's own, only the one that it
\* knows of is more than a remainder, and none is swept.
PortIsExclusive == \A i, j \in Ids : HoldsPort(i) /\ HoldsPort(j) => i = j
OwnServersAreKnown ==
    \A i \in Ids \ {0} : Life(i) # "ending" /\ (i # proc => Life(i) \in {"gone", "dying"})
OtherIsExternal ==
    /\ Life(0) \in {"gone", "healthy", "ending"}
    /\ backend \notin Strangers => Life(0) = "gone"

\* Threads run in a call only, those of its crew, and one at a time waits for a
\* server, with the lock.
CallIsUnderWay ==
    /\ main # "calling" => \A t \in Threads : thread[t] = Resting
    /\ main = "calling" => /\ job.cfg \in Configurations
                           /\ \A t \in Threads \ Crew : At(t, "idle")
    /\ \A t \in Threads : At(t, "wait") <=> lock = t

\* Who waits, waits for the server of its own configuration.
WaitsForOwn ==
    \A t \in Threads : At(t, "wait") =>
        /\ loaded = Nothing /\ proc # 0
        /\ Alive(proc) => server[proc].cfg = job.cfg
        /\ backend = "vllm" =>
              /\ Alive(proc) => server[proc].offload = thread[t].gb
              /\ offload[job.cfg.model] <= thread[t].gb

LoadedIsTrue ==
    loaded # Nothing =>
        /\ proc # 0 /\ (Alive(proc) => server[proc].cfg = loaded)
        /\ backend = "gpu" => Life(proc) \in {"gone", "healthy", "dying"}

\* Who sends can reach no server but one of its configuration.
SentToOwn ==
    \A t \in Threads :
        /\ At(t, "send") => Life(0) = "gone" /\ (Alive(proc) => server[proc].cfg = job.cfg)
        /\ thread[t].pc \in {"asked", "ok"} /\ job.kind # "prepare" => thread[t].from = job.cfg

\* After the run the engine knows of no server.
OverIsOver == main = "over" => proc = 0

ServersInv == PortIsExclusive /\ OwnServersAreKnown /\ OtherIsExternal
EngineInv == ServersInv /\ CallIsUnderWay /\ OverIsOver /\ WaitsForOwn /\ LoadedIsTrue
ServedInv == EngineInv /\ SentToOwn
===============================================================================
